-------------------------- MODULE EventsWorkerProofs --------------------------
(***************************************************************************)
(* Proofs about EventsWorker, for every ledger, every set of entries and   *)
(* every value of the bounds.                                              *)
(***************************************************************************)
EXTENDS EventsWorker, TLAPS

USE DEF Position

(* Between the reservation of a burn and its outcome.                       *)
InEvent == {"forward", "flipDelist", "mirror", "processed", "failed"}

(* Of the burns still listed, those at or before n are settled.             *)
SettledUpTo(n) == \A q \in oldest..n : IsBurn(q) => Settled(q)

(* The timer and the tick exclude each other, and only an active worker     *)
(* has a tick.                                                              *)
LoopInv ==
    /\ OneTickAtATime
    /\ pc # "idle" => active

(* The locals of the tick: the burn in hand has a PENDING row, and what is  *)
(* left of the batch is on the ledger.                                      *)
TickInv ==
    /\ pc \in {"idle", "poll"} => batch = {}
    /\ pc \in InEvent <=> event # 0
    /\ event # 0 => IsBurn(event) /\ rowStatus[event] = "PENDING"
    /\ \A b \in batch : IsBurn(b) /\ b # event

(* Everything before the next step of the cursor is settled: what a step    *)
(* needs to know of the others for the cursor never to pass an open burn.   *)
FrontierInv ==
    /\ cursor \in 0..Len(ledger)
    /\ CursorSafe
    /\ lastAdvanced \in 0..Len(ledger)
    /\ SettledUpTo(lastAdvanced)
    /\ event # 0 => SettledUpTo(event - 1)
    /\ pc # "save" => \A b \in batch : \A q \in oldest..(b - 1) :
          IsBurn(q) => Settled(q) \/ q \in batch \/ q = event

(* What the registry accepted it shows.                                    *)
AcceptedInv ==
    /\ \A p \in bcrAccepted : IsBurn(p) /\ Shown(p)
    /\ \A p \in bcrAccepted : ~IsRetirement(ledger[p]) => ledger[p].lock # NoLock
    /\ pc \in {"flipDelist", "mirror", "processed"} => event \in bcrAccepted
    /\ RegistryFirst

Inv == TypeOK /\ LoopInv /\ TickInv /\ FrontierInv /\ RetryBudget /\ AcceptedInv
-----------------------------------------------------------------------------
(* Registry calls keep the types of the registry's maps, never touch a      *)
(* retired VCC and never bring a deleted lock back.                         *)
RegistryCall ==
    \/ \E s \in Serial, l \in Lock : LockVCC(s, l) \/ NotifyMint(s, l)
    \/ \E l \in Lock : ConfirmLock(l) \/ UnlockVCC(l)
    \/ \E s \in Serial : RetireVCC(s)

LEMMA RegistryType ==
    ASSUME BcrTypeOK, RegistryCall
    PROVE  BcrTypeOK'
<1> USE DEF BcrTypeOK, VccStatus, LockState
<1>1. ASSUME NEW s \in Serial, NEW l \in Lock, LockVCC(s, l) PROVE BcrTypeOK'
  BY <1>1 DEF LockVCC
<1>2. ASSUME NEW s \in Serial, NEW l \in Lock, NotifyMint(s, l) PROVE BcrTypeOK'
  BY <1>2 DEF NotifyMint
<1>3. ASSUME NEW l \in Lock, ConfirmLock(l) PROVE BcrTypeOK'
  BY <1>3 DEF ConfirmLock
<1>4. ASSUME NEW l \in Lock, UnlockVCC(l) PROVE BcrTypeOK'
  BY <1>4 DEF UnlockVCC
<1>5. ASSUME NEW s \in Serial, RetireVCC(s) PROVE BcrTypeOK'
  BY <1>5 DEF RetireVCC
<1> QED
  BY <1>1, <1>2, <1>3, <1>4, <1>5 DEF RegistryCall

LEMMA RegistryIsFinal ==
    ASSUME BcrTypeOK, RegistryCall
    PROVE  /\ \A s \in Serial : vccStatus[s] = "retired" => vccStatus'[s] = "retired"
           /\ \A l \in Lock : lockState[l] = "deleted" => lockState'[l] = "deleted"
<1> DEFINE Final ==
      /\ \A s \in Serial : vccStatus[s] = "retired" => vccStatus'[s] = "retired"
      /\ \A l \in Lock : lockState[l] = "deleted" => lockState'[l] = "deleted"
<1> USE DEF BcrTypeOK
<1>1. ASSUME NEW s \in Serial, NEW l \in Lock, LockVCC(s, l) PROVE Final
  BY <1>1 DEF LockVCC
<1>2. ASSUME NEW s \in Serial, NEW l \in Lock, NotifyMint(s, l) PROVE Final
  BY <1>2 DEF NotifyMint
<1>3. ASSUME NEW l \in Lock, ConfirmLock(l) PROVE Final
  BY <1>3 DEF ConfirmLock, InLockMap
<1>4. ASSUME NEW l \in Lock, UnlockVCC(l) PROVE Final
  BY <1>4 DEF UnlockVCC, CanUnlock, InLockMap
<1>5. ASSUME NEW s \in Serial, RetireVCC(s) PROVE Final
  BY <1>5 DEF RetireVCC
<1> QED
  BY <1>1, <1>2, <1>3, <1>4, <1>5 DEF RegistryCall
-----------------------------------------------------------------------------
LEMMA TypeInit == Init => TypeOK
<1> HAVE Init
<1>1. BcrTypeOK
  BY BcrAssumption DEF Init, BcrInit, BcrTypeOK, VccStatus, LockState
<1>2. ledger \in Seq(LedgerEntry) /\ Len(ledger) <= MaxLedger
  BY WorkerAssumption DEF Init
<1>3. /\ rowStatus \in
           [Position -> {"none", "PENDING", "PROCESSED", "FAILED_PERMANENT"}]
      /\ retryCount \in [Position -> 0..(MaxRetries + 1)]
      /\ issuanceStatus \in [Issuance -> {"ISSUED", "RETIRED"}]
      /\ delistStatus \in
           [Issuance -> {"none", "CHAIN_BURNED", "BCR_UNLOCKED", "FAILED"}]
  BY WorkerAssumption DEF Init
<1>4. /\ oldest \in 1..(MaxForgotten + 1)
      /\ cursor \in 0..MaxLedger
      /\ batch \subseteq Position
      /\ event \in 0..MaxLedger
      /\ lastAdvanced \in 0..MaxLedger
      /\ bcrAccepted \subseteq Position
      /\ faults \in 0..MaxFaults
  BY WorkerAssumption DEF Init
<1>5. /\ timer \in {"none", "armed", "fired"}
      /\ active \in BOOLEAN
      /\ stopRequested \in BOOLEAN
      /\ pc \in {"idle", "poll", "next", "forward", "flipDelist", "mirror",
                 "processed", "failed", "save"}
  BY DEF Init
<1> QED
  BY <1>1, <1>2, <1>3, <1>4, <1>5 DEF TypeOK

(* The burn in hand is on the ledger and names an issuance and a serial.    *)
LEMMA EventFacts ==
    ASSUME TypeOK, TickInv, pc \in InEvent
    PROVE  /\ event \in Position /\ event <= Len(ledger)
           /\ ledger[event] \in LedgerEntry
           /\ ledger[event].issuance \in Issuance
           /\ ledger[event].serial \in Serial
           /\ ledger[event].lock \in Lock \cup {NoLock}
           /\ rowStatus[event] = "PENDING"
<1>1. event # 0 /\ IsBurn(event) /\ rowStatus[event] = "PENDING"
  BY DEF TickInv
<1>2. event \in Position /\ event <= Len(ledger) /\ ledger[event] \in BurnEntry
  BY <1>1, WorkerAssumption DEF IsBurn, TypeOK
<1>3. ledger[event] \in LedgerEntry /\ IsBurnEntry(ledger[event])
  BY <1>2 DEF BurnEntry
<1>4. ledger[event] \in EntryType
  BY <1>3, WorkerAssumption
<1> QED
  BY <1>1, <1>2, <1>3, <1>4 DEF IsBurnEntry, EntryType

LEMMA ChainAppendsFacts ==
    ASSUME TypeOK, ChainAppends
    PROVE  /\ ledger' \in Seq(LedgerEntry)
           /\ Len(ledger') = Len(ledger) + 1
           /\ \A q \in 1..Len(ledger) : ledger'[q] = ledger[q]
           /\ \A q \in 1..Len(ledger) : IsBurn(q)' = IsBurn(q)
<1>1. PICK e \in LedgerEntry : ledger' = Append(ledger, e)
  BY DEF ChainAppends
<1>2. ledger \in Seq(LedgerEntry)
  BY DEF TypeOK
<1>3. /\ ledger' \in Seq(LedgerEntry)
      /\ Len(ledger') = Len(ledger) + 1
      /\ \A q \in 1..Len(ledger) : ledger'[q] = ledger[q]
  BY <1>1, <1>2
<1> QED
  BY <1>3, <1>2 DEF IsBurn

LEMMA TypeStep ==
    ASSUME Inv, [Next]_vars
    PROVE  TypeOK'
<1> USE WorkerAssumption DEF TypeOK, bcrVars, chainVars, rowVars, mirrorVars,
      loopVars, tickVars
<1> TypeOK /\ TickInv
  BY DEF Inv
<1>bcr. ASSUME UNCHANGED bcrVars PROVE BcrTypeOK'
  BY <1>bcr DEF BcrTypeOK
<1>1. CASE StartWorker
  BY <1>1, <1>bcr DEF StartWorker
<1>2. CASE StopWorker
  BY <1>2, <1>bcr DEF StopWorker
<1>3. CASE StopReturns
  BY <1>3, <1>bcr DEF StopReturns
<1>4. CASE TimerFires
  BY <1>4, <1>bcr DEF TimerFires
<1>5. CASE Poll
  BY <1>5, <1>bcr DEF Poll, ExtractBurnEvents, IsBurn
<1>6. ASSUME NEW p \in Position, SkipSettled(p) PROVE TypeOK'
  BY <1>6, <1>bcr DEF SkipSettled
<1>7. ASSUME NEW p \in Position, ReserveEvent(p) PROVE TypeOK'
  BY <1>7, <1>bcr DEF ReserveEvent
<1>8. CASE ForwardRetirement
  <2>1. event \in Position /\ ledger[event].serial \in Serial
    BY <1>8, EventFacts DEF ForwardRetirement, InEvent
  <2>2. BcrTypeOK'
    BY <1>8, <2>1, RegistryType DEF ForwardRetirement, RegistryCall
  <2> QED
    BY <1>8, <2>1, <2>2 DEF ForwardRetirement
<1>9. CASE ForwardDelist
  <2>1. event \in Position /\ ledger[event].lock \in Lock
    BY <1>9, EventFacts DEF ForwardDelist, InEvent
  <2>2. BcrTypeOK'
    BY <1>9, <2>1, RegistryType DEF ForwardDelist, RegistryCall
  <2> QED
    BY <1>9, <2>1, <2>2 DEF ForwardDelist
<1>10. CASE ForwardFails
  BY <1>10, <1>bcr DEF ForwardFails
<1>11. CASE FlipDelist
  BY <1>11, <1>bcr DEF FlipDelist
<1>12. CASE FlipDelistThrows
  BY <1>12, <1>bcr DEF FlipDelistThrows
<1>13. CASE ApplyIssuanceStateTransition
  BY <1>13, <1>bcr DEF ApplyIssuanceStateTransition
<1>14. CASE MarkProcessed
  <2>1. rowStatus' \in
          [Position -> {"none", "PENDING", "PROCESSED", "FAILED_PERMANENT"}]
    BY <1>14 DEF MarkProcessed
  <2> QED
    BY <1>14, <1>bcr, <2>1 DEF MarkProcessed
<1>15. CASE MarkFailedPermanent
  <2>1. event \in Position /\ retryCount[event] # MaxRetries + 1
    BY <1>15, EventFacts DEF MarkFailedPermanent, InEvent, Inv, RetryBudget
  <2>2. retryCount' \in [Position -> 0..(MaxRetries + 1)]
    BY <1>15, <2>1 DEF MarkFailedPermanent
  <2> QED
    BY <1>15, <1>bcr, <2>1, <2>2 DEF MarkFailedPermanent
<1>16. CASE MarkForRetry
  <2>1. event \in Position
    BY <1>16, EventFacts DEF MarkForRetry, InEvent
  <2>2. retryCount' \in [Position -> 0..(MaxRetries + 1)]
    BY <1>16, <2>1 DEF MarkForRetry, BudgetSpent
  <2> QED
    BY <1>16, <1>bcr, <2>1, <2>2 DEF MarkForRetry
<1>17. CASE PersistCursor
  BY <1>17, <1>bcr DEF PersistCursor, EndTick, ScheduleNextTick
<1>18. CASE TickThrows
  <2>1. faults' \in 0..MaxFaults
    BY <1>18 DEF TickThrows
  <2>2. EndTick
    BY <1>18 DEF TickThrows
  <2>3. /\ timer' \in {"none", "armed", "fired"}
        /\ active' \in BOOLEAN /\ stopRequested' \in BOOLEAN
        /\ pc' = "idle" /\ batch' = {} /\ event' = 0 /\ lastAdvanced' = 0
    BY <2>2 DEF EndTick, ScheduleNextTick
  <2> QED
    BY <1>18, <1>bcr, <2>1, <2>3 DEF TickThrows
<1>19. CASE Crash
  <2>1. faults' \in 0..MaxFaults
    BY <1>19 DEF Crash
  <2>2. /\ timer' = "none" /\ active' = FALSE /\ stopRequested' = FALSE
        /\ pc' = "idle" /\ batch' = {} /\ event' = 0 /\ lastAdvanced' = 0
        /\ UNCHANGED <<bcrVars, chainVars, cursor, rowVars, mirrorVars, bcrAccepted>>
    BY <1>19 DEF Crash
  <2>3. BcrTypeOK'
    BY <1>bcr, <2>2
  <2>4. (ledger \in Seq(LedgerEntry) /\ Len(ledger) <= MaxLedger)'
    BY <2>2
  <2>5. (cursor \in 0..MaxLedger /\ batch \subseteq Position
         /\ event \in 0..MaxLedger /\ lastAdvanced \in 0..MaxLedger)'
    BY <2>2
  <2> QED
    BY <2>1, <2>2, <2>3, <2>4, <2>5
<1>20. CASE ChainAppends
  <2>1. ledger' \in Seq(LedgerEntry) /\ Len(ledger') <= MaxLedger
    BY <1>20, ChainAppendsFacts DEF ChainAppends
  <2> QED
    BY <1>20, <1>bcr, <2>1 DEF ChainAppends, EnvironmentUnchanged
<1>21. CASE LedgerForgets
  BY <1>21, <1>bcr DEF LedgerForgets, EnvironmentUnchanged
<1>22. CASE RegistryClient
  <2>1. BcrTypeOK'
    BY <1>22, RegistryType DEF RegistryClient, RegistryCall
  <2> QED
    BY <1>22, <2>1 DEF RegistryClient, EnvironmentUnchanged
<1>23. CASE DelistInitiator
  BY <1>23, <1>bcr DEF DelistInitiator, EnvironmentUnchanged
<1>24. CASE UNCHANGED vars
  BY <1>24, <1>bcr DEF vars
<1> QED
  BY <1>1, <1>2, <1>3, <1>4, <1>5, <1>6, <1>7, <1>8, <1>9, <1>10, <1>11, <1>12,
     <1>13, <1>14, <1>15, <1>16, <1>17, <1>18, <1>19, <1>20, <1>21, <1>22,
     <1>23, <1>24 DEF Next, WorkerNext, TickStep, Environment
-----------------------------------------------------------------------------
LEMMA LoopStep ==
    ASSUME LoopInv, [Next]_vars
    PROVE  LoopInv'
<1> USE DEF LoopInv, OneTickAtATime, loopVars
<1>1. CASE StartWorker
  BY <1>1 DEF StartWorker
<1>2. CASE StopWorker
  BY <1>2 DEF StopWorker
<1>3. CASE StopReturns
  BY <1>3 DEF StopReturns
<1>4. CASE TimerFires
  BY <1>4 DEF TimerFires
<1>5. CASE EndTick /\ pc # "idle"
  BY <1>5 DEF EndTick, ScheduleNextTick
<1>6. CASE PersistCursor
  BY <1>5, <1>6 DEF PersistCursor
<1>7. CASE TickThrows
  BY <1>5, <1>7 DEF TickThrows
<1>8. CASE Crash
  BY <1>8 DEF Crash
<1>9. CASE pc # "idle" /\ UNCHANGED loopVars
  BY <1>9
<1>10. CASE UNCHANGED <<loopVars, pc>>
  BY <1>10
<1>11. CASE TickStep /\ ~PersistCursor
  BY <1>9, <1>11 DEF TickStep, Poll, SkipSettled, ReserveEvent,
     ForwardRetirement, ForwardDelist, ForwardFails, FlipDelist,
     ApplyIssuanceStateTransition, MarkProcessed, MarkFailedPermanent,
     MarkForRetry
<1>12. CASE FlipDelistThrows
  BY <1>9, <1>12 DEF FlipDelistThrows
<1>13. CASE Environment
  BY <1>10, <1>13 DEF Environment, ChainAppends, LedgerForgets, RegistryClient,
     DelistInitiator, EnvironmentUnchanged
<1>14. CASE UNCHANGED vars
  BY <1>10, <1>14 DEF vars
<1> QED
  BY <1>1, <1>2, <1>3, <1>4, <1>6, <1>7, <1>8, <1>11, <1>12, <1>13, <1>14
     DEF Next, WorkerNext

LEMMA TickInvStep ==
    ASSUME Inv, [Next]_vars
    PROVE  TickInv'
<1> TypeOK /\ LoopInv /\ TickInv
  BY DEF Inv
<1> USE DEF TickInv, InEvent, chainVars, rowVars, tickVars
<1>same. ASSUME UNCHANGED <<ledger, rowStatus, batch, event>>,
                pc' \in InEvent <=> pc \in InEvent,
                pc' \in {"idle", "poll"} => pc \in {"idle", "poll"}
         PROVE  TickInv'
  BY <1>same DEF IsBurn
<1>over. ASSUME pc' = "idle", batch' = {}, event' = 0
         PROVE  TickInv'
  BY <1>over
<1>1. CASE StartWorker
  BY <1>1, <1>same DEF StartWorker
<1>2. CASE StopWorker
  BY <1>2, <1>same DEF StopWorker
<1>3. CASE StopReturns
  BY <1>3, <1>same DEF StopReturns
<1>4. CASE TimerFires
  BY <1>4, <1>same DEF TimerFires, LoopInv, OneTickAtATime
<1>5. CASE Poll
  BY <1>5 DEF Poll, ExtractBurnEvents, IsBurn
<1>6. ASSUME NEW p \in Position, SkipSettled(p) PROVE TickInv'
  BY <1>6 DEF SkipSettled, IsBurn
<1>7. ASSUME NEW p \in Position, ReserveEvent(p) PROVE TickInv'
  <2>1. p \in batch /\ IsBurn(p) /\ p # 0
    BY <1>7 DEF ReserveEvent, IsNext
  <2>2. rowStatus'[p] = "PENDING"
    BY <1>7 DEF ReserveEvent, TypeOK
  <2> QED
    BY <1>7, <2>1, <2>2 DEF ReserveEvent, IsBurn
<1>8. CASE ForwardRetirement
  BY <1>8, <1>same DEF ForwardRetirement
<1>9. CASE ForwardDelist
  BY <1>9, <1>same DEF ForwardDelist
<1>10. CASE ForwardFails
  BY <1>10, <1>same DEF ForwardFails
<1>11. CASE FlipDelist
  BY <1>11, <1>same DEF FlipDelist
<1>12. CASE FlipDelistThrows
  BY <1>12, <1>same DEF FlipDelistThrows
<1>13. CASE ApplyIssuanceStateTransition
  BY <1>13, <1>same DEF ApplyIssuanceStateTransition
<1>14. CASE MarkProcessed
  BY <1>14 DEF MarkProcessed, IsBurn
<1>15. CASE MarkFailedPermanent
  BY <1>15 DEF MarkFailedPermanent, IsBurn
<1>16. CASE MarkForRetry
  BY <1>16 DEF MarkForRetry, IsBurn
<1>17. CASE PersistCursor
  BY <1>17, <1>over DEF PersistCursor, EndTick
<1>18. CASE TickThrows
  BY <1>18, <1>over DEF TickThrows, EndTick
<1>19. CASE Crash
  BY <1>19, <1>over DEF Crash
<1>20. CASE ChainAppends
  <2>1. \A q : IsBurn(q) => IsBurn(q)'
    BY <1>20, ChainAppendsFacts DEF IsBurn
  <2> QED
    BY <1>20, <2>1 DEF ChainAppends, EnvironmentUnchanged
<1>21. CASE LedgerForgets
  BY <1>21, <1>same DEF LedgerForgets, EnvironmentUnchanged
<1>22. CASE RegistryClient
  BY <1>22, <1>same DEF RegistryClient, EnvironmentUnchanged
<1>23. CASE DelistInitiator
  BY <1>23, <1>same DEF DelistInitiator, EnvironmentUnchanged
<1>24. CASE UNCHANGED vars
  BY <1>24, <1>same DEF vars
<1> QED
  BY <1>1, <1>2, <1>3, <1>4, <1>5, <1>6, <1>7, <1>8, <1>9, <1>10, <1>11, <1>12,
     <1>13, <1>14, <1>15, <1>16, <1>17, <1>18, <1>19, <1>20, <1>21, <1>22,
     <1>23, <1>24 DEF Next, WorkerNext, TickStep, Environment
-----------------------------------------------------------------------------
(* What every step keeps: the ledger is append-only and its window moves    *)
(* forward, and a settled burn stays as it was settled.                     *)
LEMMA LedgerGrows ==
    ASSUME TypeOK, [Next]_vars
    PROVE  /\ Len(ledger) \in Nat /\ Len(ledger') \in Nat
           /\ Len(ledger) <= Len(ledger')
           /\ oldest \in Nat \ {0} /\ oldest' \in Nat /\ oldest <= oldest'
           /\ \A q \in 1..Len(ledger) :
                 ledger'[q] = ledger[q] /\ (IsBurn(q)' <=> IsBurn(q))
<1> USE DEF TypeOK, chainVars, tickVars
<1>1. CASE UNCHANGED chainVars
  BY <1>1 DEF IsBurn
<1>2. CASE ChainAppends
  BY <1>2, ChainAppendsFacts DEF ChainAppends
<1>3. CASE LedgerForgets
  BY <1>3 DEF LedgerForgets, IsBurn
<1>4. CASE TickStep
  BY <1>1, <1>4 DEF TickStep, Poll, SkipSettled, ReserveEvent,
     ForwardRetirement, ForwardDelist, ForwardFails, FlipDelist,
     ApplyIssuanceStateTransition, MarkProcessed, MarkFailedPermanent,
     MarkForRetry, PersistCursor
<1>5. CASE WorkerNext /\ ~TickStep
  BY <1>1, <1>5 DEF WorkerNext, StartWorker, StopWorker, StopReturns,
     TimerFires, FlipDelistThrows, TickThrows, Crash
<1>6. CASE RegistryClient \/ DelistInitiator
  BY <1>1, <1>6 DEF RegistryClient, DelistInitiator
<1>7. CASE UNCHANGED vars
  BY <1>1, <1>7 DEF vars
<1> QED
  BY <1>2, <1>3, <1>4, <1>5, <1>6, <1>7 DEF Next, Environment

LEMMA RowSteps ==
    ASSUME [Next]_vars
    PROVE  \/ UNCHANGED rowVars
           \/ \E p \in Position : ReserveEvent(p)
           \/ MarkProcessed \/ MarkFailedPermanent \/ MarkForRetry
BY DEF Next, WorkerNext, TickStep, Environment, StartWorker, StopWorker,
   StopReturns, TimerFires, Poll, SkipSettled, ForwardRetirement, ForwardDelist,
   ForwardFails, FlipDelist, FlipDelistThrows, ApplyIssuanceStateTransition,
   PersistCursor, TickThrows, Crash, ChainAppends, LedgerForgets,
   RegistryClient, DelistInitiator, EnvironmentUnchanged, rowVars, vars

LEMMA SettledForGood ==
    ASSUME Inv, [Next]_vars
    PROVE  \A q \in Position :
              Settled(q) => Settled(q)' /\ rowStatus'[q] = rowStatus[q]
<1> TypeOK /\ TickInv
  BY DEF Inv
<1> USE DEF Settled, TypeOK
<1>1. CASE UNCHANGED rowVars
  BY <1>1 DEF rowVars
<1>2. ASSUME NEW p \in Position, ReserveEvent(p)
      PROVE  \A q \in Position : Settled(q) => rowStatus'[q] = rowStatus[q]
  BY <1>2 DEF ReserveEvent
<1>3. CASE pc \in InEvent /\ \A q \in Position : q # event => rowStatus'[q] = rowStatus[q]
  BY <1>3, EventFacts
<1>4. CASE MarkProcessed \/ MarkFailedPermanent \/ MarkForRetry
  BY <1>3, <1>4 DEF MarkProcessed, MarkFailedPermanent, MarkForRetry, InEvent
<1> QED
  BY <1>1, <1>2, <1>4, RowSteps

LEMMA FrontierStep ==
    ASSUME Inv, [Next]_vars
    PROVE  FrontierInv'
<1> TypeOK /\ LoopInv /\ TickInv /\ FrontierInv
  BY DEF Inv
<1> USE WorkerAssumption DEF chainVars, rowVars, tickVars
<1> DEFINE BatchInv == pc # "save" => \A b \in batch : \A q \in oldest..(b - 1) :
                         IsBurn(q) => Settled(q) \/ q \in batch \/ q = event
<1>len. Len(ledger) \in Nat /\ Len(ledger') \in Nat /\ Len(ledger) <= Len(ledger')
  BY LedgerGrows
(* what was settled up to some position on the ledger still is *)
<1>upTo. ASSUME NEW n \in 0..Len(ledger), SettledUpTo(n)
         PROVE  \A q \in oldest'..n : IsBurn(q)' => Settled(q)'
  <2>1. SUFFICES ASSUME NEW q \in oldest'..n, IsBurn(q)' PROVE Settled(q)'
    OBVIOUS
  <2>2. q \in oldest..n /\ q \in 1..Len(ledger) /\ q \in Position
    BY LedgerGrows, <1>len DEF TypeOK
  <2>3. IsBurn(q)
    BY <2>1, <2>2, LedgerGrows
  <2> QED
    BY <2>2, <2>3, <1>upTo, SettledForGood DEF SettledUpTo
<1>batch. ASSUME BatchInv, pc # "save", NEW b \in batch, NEW q \in oldest'..(b - 1),
                 IsBurn(q)'
          PROVE  Settled(q)' \/ q \in batch \/ q = event
  <2>1. b \in 1..Len(ledger)
    BY DEF TickInv, IsBurn
  <2>2. q \in oldest..(b - 1) /\ q \in 1..Len(ledger) /\ q \in Position
    BY <2>1, LedgerGrows, <1>len DEF TypeOK
  <2>3. IsBurn(q)
    BY <2>2, <1>batch, LedgerGrows
  <2> QED
    BY <2>2, <2>3, <1>batch, SettledForGood
(* the steps that leave the frontier where it is *)
<1>same. ASSUME UNCHANGED <<cursor, lastAdvanced, event, batch>>,
                pc' = "save" <=> pc = "save"
         PROVE  FrontierInv'
  <2>1. SettledUpTo(cursor)' /\ SettledUpTo(lastAdvanced)'
    BY <1>same, <1>upTo DEF FrontierInv, CursorSafe, SettledUpTo
  <2>2. (event # 0 => SettledUpTo(event - 1))'
    <3>1. event # 0 => event - 1 \in 0..Len(ledger)
      BY <1>len DEF TickInv, IsBurn
    <3> QED
      BY <3>1, <1>same, <1>upTo DEF FrontierInv, SettledUpTo
  <2>3. BatchInv'
    BY <1>same, <1>batch DEF FrontierInv
  <2> QED
    BY <2>1, <2>2, <2>3, <1>same, <1>len DEF FrontierInv, CursorSafe, SettledUpTo
(* the end of a tick *)
<1>over. ASSUME batch' = {}, event' = 0, lastAdvanced' = 0,
                cursor' \in {cursor, lastAdvanced}
         PROVE  FrontierInv'
  <2>1. SettledUpTo(cursor)'
    BY <1>over, <1>upTo DEF FrontierInv, CursorSafe, SettledUpTo
  <2>2. SettledUpTo(lastAdvanced)'
    BY <1>over, LedgerGrows DEF SettledUpTo, TypeOK
  <2> QED
    BY <1>over, <2>1, <2>2, <1>len DEF FrontierInv, CursorSafe, SettledUpTo
<1>1. CASE StartWorker \/ StopWorker \/ StopReturns
  BY <1>1, <1>same DEF StartWorker, StopWorker, StopReturns
<1>2. CASE TimerFires
  BY <1>2, <1>same DEF TimerFires, LoopInv, OneTickAtATime
<1>3. CASE Poll
  <2>1. SettledUpTo(cursor)' /\ SettledUpTo(lastAdvanced)'
    BY <1>3, <1>upTo DEF Poll, FrontierInv, CursorSafe, SettledUpTo
  <2>2. event' = 0
    BY <1>3 DEF Poll, TickInv, InEvent
  <2>3. ASSUME NEW b \in batch', NEW q \in oldest'..(b - 1), IsBurn(q)'
        PROVE  Settled(q)' \/ q \in batch'
    <3>1. UNCHANGED <<ledger, oldest, cursor, rowStatus>> /\ batch' = ExtractBurnEvents
      BY <1>3 DEF Poll
    <3>2. b \in oldest..Len(ledger) /\ (cursor = 0 \/ (cursor >= oldest /\ b > cursor))
      BY <3>1 DEF ExtractBurnEvents
    <3>3. q \in oldest..Len(ledger) /\ IsBurn(q)
      BY <2>3, <3>1, <3>2 DEF IsBurn, TypeOK
    <3>4. CASE cursor = 0 \/ (cursor >= oldest /\ q > cursor)
      BY <3>1, <3>3, <3>4 DEF ExtractBurnEvents
    <3>5. CASE q <= cursor
      BY <3>1, <3>3, <3>5 DEF FrontierInv, CursorSafe, Settled, TypeOK
    <3> QED
      BY <3>2, <3>3, <3>4, <3>5 DEF TypeOK
  <2> QED
    BY <1>3, <2>1, <2>2, <2>3, <1>len DEF Poll, FrontierInv, CursorSafe, SettledUpTo
(* a burn leaves the batch *)
<1>next. ASSUME pc = "next", NEW p \in batch, IsNext(p)
         PROVE  /\ event = 0 /\ p \in 1..Len(ledger)
                /\ SettledUpTo(p - 1)
  <2>1. event = 0 /\ p \in 1..Len(ledger)
    BY <1>next DEF TickInv, InEvent, IsBurn
  <2>2. ASSUME NEW q \in oldest..(p - 1), IsBurn(q) PROVE Settled(q)
    <3>1. q \notin batch /\ q # 0
      BY <1>next, <2>1 DEF IsNext, TypeOK
    <3> QED
      BY <3>1, <2>1, <2>2, <1>next DEF FrontierInv
  <2> QED
    BY <2>1, <2>2 DEF SettledUpTo
<1>4. ASSUME NEW p \in Position, SkipSettled(p) PROVE FrontierInv'
  <2>1. /\ pc = "next" /\ p \in batch /\ IsNext(p) /\ Settled(p)
        /\ batch' = batch \ {p} /\ lastAdvanced' = p /\ pc' = "next"
        /\ UNCHANGED <<ledger, oldest, cursor, rowStatus, event>>
    BY <1>4 DEF SkipSettled, IsNext
  <2>2. event = 0 /\ p \in 1..Len(ledger) /\ SettledUpTo(p - 1)
    BY <2>1, <1>next
  <2>3. SettledUpTo(p)
    BY <2>1, <2>2 DEF SettledUpTo, TypeOK
  <2>4. SettledUpTo(cursor)' /\ SettledUpTo(lastAdvanced)'
    BY <2>1, <2>2, <2>3, <1>upTo DEF FrontierInv, CursorSafe, SettledUpTo
  <2>5. BatchInv'
    BY <2>1, <1>batch DEF FrontierInv, Settled
  <2> QED
    BY <2>1, <2>2, <2>4, <2>5, <1>len DEF FrontierInv, CursorSafe, SettledUpTo
<1>5. ASSUME NEW p \in Position, ReserveEvent(p) PROVE FrontierInv'
  <2>1. /\ pc = "next" /\ p \in batch /\ IsNext(p)
        /\ batch' = batch \ {p} /\ event' = p /\ pc' = "forward"
        /\ UNCHANGED <<ledger, oldest, cursor, lastAdvanced>>
    BY <1>5 DEF ReserveEvent, IsNext
  <2>2. event = 0 /\ p \in 1..Len(ledger) /\ SettledUpTo(p - 1)
    BY <2>1, <1>next
  <2>3. p - 1 \in 0..Len(ledger)
    BY <2>2
  <2>4. SettledUpTo(cursor)' /\ SettledUpTo(lastAdvanced)' /\ SettledUpTo(event - 1)'
    BY <2>1, <2>2, <2>3, <1>upTo DEF FrontierInv, CursorSafe, SettledUpTo
  <2>5. \A b \in batch' : \A q \in oldest'..(b - 1) :
           IsBurn(q)' => Settled(q)' \/ q \in batch' \/ q = event'
    BY <2>1, <2>2, <1>batch DEF FrontierInv, IsBurn
  <2> QED
    BY <2>1, <2>4, <2>5, <1>len DEF FrontierInv, CursorSafe, SettledUpTo
<1>6. CASE \/ ForwardRetirement \/ ForwardDelist \/ ForwardFails
           \/ FlipDelist \/ FlipDelistThrows \/ ApplyIssuanceStateTransition
  BY <1>6, <1>same DEF ForwardRetirement, ForwardDelist, ForwardFails,
     FlipDelist, FlipDelistThrows, ApplyIssuanceStateTransition
(* a burn gets its outcome *)
<1>7. CASE MarkProcessed \/ MarkFailedPermanent
  <2>1. /\ pc \in InEvent /\ pc' = "next"
        /\ rowStatus'[event] \in {"PROCESSED", "FAILED_PERMANENT"}
        /\ lastAdvanced' = event /\ event' = 0
        /\ UNCHANGED <<ledger, oldest, cursor, batch>>
    BY <1>7, EventFacts DEF MarkProcessed, MarkFailedPermanent, InEvent, Settled,
       TypeOK
  <2>2. event \in 1..Len(ledger) /\ event - 1 \in 0..Len(ledger) /\ event # 0
    BY <2>1, EventFacts, <1>len DEF TickInv
  <2>3. \A q \in oldest'..(event - 1) : IsBurn(q)' => Settled(q)'
    BY <2>2, <1>upTo DEF FrontierInv
  <2>4. SettledUpTo(lastAdvanced)'
    BY <2>1, <2>2, <2>3, LedgerGrows DEF SettledUpTo, Settled
  <2>5. SettledUpTo(cursor)'
    BY <2>1, <1>upTo DEF FrontierInv, CursorSafe, SettledUpTo
  <2>6. BatchInv'
    BY <2>1, <1>batch DEF FrontierInv, InEvent, Settled
  <2> QED
    BY <2>1, <2>2, <2>4, <2>5, <2>6, <1>len DEF FrontierInv, CursorSafe, SettledUpTo
<1>8. CASE MarkForRetry
  <2>1. SettledUpTo(cursor)' /\ SettledUpTo(lastAdvanced)'
    BY <1>8, <1>upTo DEF MarkForRetry, FrontierInv, CursorSafe, SettledUpTo
  <2> QED
    BY <1>8, <2>1, <1>len DEF MarkForRetry, FrontierInv, CursorSafe, SettledUpTo
<1>9. CASE PersistCursor
  BY <1>9, <1>over DEF PersistCursor, EndTick
<1>10. CASE TickThrows
  BY <1>10, <1>over DEF TickThrows, EndTick
<1>11. CASE Crash
  BY <1>11, <1>over DEF Crash
<1>12. CASE Environment
  BY <1>12, <1>same DEF Environment, ChainAppends, LedgerForgets,
     RegistryClient, DelistInitiator, EnvironmentUnchanged
<1>13. CASE UNCHANGED vars
  BY <1>13, <1>same DEF vars
<1> QED
  BY <1>1, <1>2, <1>3, <1>4, <1>5, <1>6, <1>7, <1>8, <1>9, <1>10, <1>11, <1>12,
     <1>13 DEF Next, WorkerNext, TickStep
-----------------------------------------------------------------------------
LEMMA BudgetStep ==
    ASSUME Inv, [Next]_vars
    PROVE  RetryBudget'
<1> TypeOK /\ TickInv /\ RetryBudget
  BY DEF Inv
<1> USE WorkerAssumption DEF TypeOK, RetryBudget
<1>1. CASE UNCHANGED rowVars
  BY <1>1 DEF rowVars
<1>2. ASSUME NEW p \in Position, ReserveEvent(p) PROVE RetryBudget'
  BY <1>2 DEF ReserveEvent, Settled
<1>3. CASE MarkProcessed
  BY <1>3, EventFacts DEF MarkProcessed, InEvent
<1>4. CASE MarkFailedPermanent
  BY <1>4, EventFacts DEF MarkFailedPermanent, BudgetSpent, InEvent
<1>5. CASE MarkForRetry
  BY <1>5, EventFacts DEF MarkForRetry, BudgetSpent, InEvent
<1> QED
  BY <1>1, <1>2, <1>3, <1>4, <1>5, RowSteps

(* The registry steps of the worker and of its other client.                *)
LEMMA RegistrySteps ==
    ASSUME Inv, [Next]_vars
    PROVE  RegistryCall \/ UNCHANGED bcrVars
<1> TypeOK /\ TickInv
  BY DEF Inv
<1>1. CASE ForwardRetirement
  BY <1>1, EventFacts DEF ForwardRetirement, InEvent, RegistryCall
<1>2. CASE ForwardDelist
  BY <1>2, EventFacts DEF ForwardDelist, InEvent, RegistryCall
<1>3. CASE RegistryClient
  BY <1>3 DEF RegistryClient, RegistryCall
<1> QED
  BY <1>1, <1>2, <1>3 DEF Next, WorkerNext, TickStep, Environment, StartWorker,
     StopWorker, StopReturns, TimerFires, Poll, SkipSettled, ReserveEvent,
     ForwardFails, FlipDelist, FlipDelistThrows, ApplyIssuanceStateTransition,
     MarkProcessed, MarkFailedPermanent, MarkForRetry, PersistCursor,
     TickThrows, Crash, ChainAppends, LedgerForgets, DelistInitiator, vars,
     bcrVars

LEMMA AcceptedStep ==
    ASSUME Inv, [Next]_vars
    PROVE  AcceptedInv'
<1> TypeOK /\ TickInv /\ AcceptedInv
  BY DEF Inv
<1>1. \A p \in bcrAccepted : /\ p \in 1..Len(ledger) /\ ledger[p] \in EntryType
                             /\ ledger[p].issuance \in Issuance
                             /\ ledger[p].serial \in Serial
                             /\ ledger[p].lock \in Lock \cup {NoLock}
  BY WorkerAssumption DEF AcceptedInv, IsBurn, BurnEntry, IsBurnEntry, EntryType
(* what the registry showed of an accepted burn it still shows *)
<1>2. ASSUME NEW p \in bcrAccepted
      PROVE  /\ IsBurn(p)' /\ Shown(p)' /\ ledger'[p] = ledger[p]
             /\ ~IsRetirement(ledger[p]) => ledger[p].lock # NoLock
  <2>1. ledger'[p] = ledger[p] /\ IsBurn(p)'
    BY <1>1, LedgerGrows DEF AcceptedInv
  <2>2. CASE UNCHANGED bcrVars
    BY <2>1, <2>2 DEF bcrVars, Shown, AcceptedInv
  <2>3. CASE RegistryCall
    BY <1>1, <2>1, <2>3, RegistryIsFinal DEF Shown, AcceptedInv, TypeOK
  <2> QED
    BY <2>1, <2>2, <2>3, RegistrySteps DEF AcceptedInv
<1>keep. ASSUME bcrAccepted' = bcrAccepted,
                pc' \in {"flipDelist", "mirror", "processed"} => event' \in bcrAccepted,
                \A p \in Position : rowStatus'[p] = "PROCESSED" => p \in bcrAccepted,
                \A i \in Issuance : issuanceStatus'[i] = "RETIRED" =>
                  \E p \in bcrAccepted : ledger[p].issuance = i /\ IsRetirement(ledger[p])
         PROVE  AcceptedInv'
  <2>1. \A p \in Position : rowStatus'[p] = "PROCESSED" => p \in bcrAccepted' /\ Shown(p)'
    BY <1>keep, <1>2
  <2>2. ASSUME NEW i \in Issuance, issuanceStatus'[i] = "RETIRED"
        PROVE  \E p \in bcrAccepted' : ledger'[p].issuance = i
                                       /\ IsRetirement(ledger'[p]) /\ Shown(p)'
    BY <1>keep, <1>2, <2>2
  <2>3. \A p \in bcrAccepted' : IsBurn(p)' /\ Shown(p)'
                                /\ (~IsRetirement(ledger'[p]) => ledger'[p].lock # NoLock)
    BY <1>keep, <1>2
  <2> QED
    BY <1>keep, <2>1, <2>2, <2>3 DEF AcceptedInv, RegistryFirst
<1>3. /\ \A p \in Position : rowStatus[p] = "PROCESSED" => p \in bcrAccepted
      /\ \A i \in Issuance : issuanceStatus[i] = "RETIRED" =>
           \E p \in bcrAccepted : ledger[p].issuance = i /\ IsRetirement(ledger[p])
  BY DEF AcceptedInv, RegistryFirst
(* the registry accepts the burn in hand *)
<1>accept. ASSUME pc = "forward", bcrAccepted' = bcrAccepted \cup {event},
                  Shown(event)', ~IsRetirement(ledger[event]) => ledger[event].lock # NoLock,
                  UNCHANGED <<ledger, event, rowStatus, issuanceStatus>>
           PROVE  AcceptedInv'
  <2>1. IsBurn(event)'
    BY <1>accept DEF TickInv, InEvent, IsBurn
  <2>2. \A p \in bcrAccepted' : IsBurn(p)' /\ Shown(p)'
                                /\ (~IsRetirement(ledger'[p]) => ledger'[p].lock # NoLock)
    BY <1>accept, <1>2, <2>1
  <2>3. RegistryFirst'
    BY <1>accept, <1>3, <2>2 DEF RegistryFirst
  <2> QED
    BY <1>accept, <2>2, <2>3 DEF AcceptedInv
<1>4. CASE ForwardRetirement
  <2>1. vccStatus'[ledger[event].serial] = "retired"
    BY <1>4, EventFacts DEF ForwardRetirement, RetireVCC, InEvent, TypeOK, BcrTypeOK
  <2> QED
    BY <1>4, <2>1, <1>accept DEF ForwardRetirement, Shown, chainVars, rowVars,
       mirrorVars, tickVars
<1>5. CASE ForwardDelist
  <2>1. lockState'[ledger[event].lock] = "deleted"
    BY <1>5, EventFacts DEF ForwardDelist, UnlockVCC, InEvent, TypeOK, BcrTypeOK
  <2> QED
    BY <1>5, <2>1, <1>accept DEF ForwardDelist, Shown, chainVars, rowVars,
       mirrorVars, tickVars
<1>6. CASE ApplyIssuanceStateTransition
  <2>1. event \in bcrAccepted
    BY <1>6 DEF ApplyIssuanceStateTransition, AcceptedInv
  <2>2. ASSUME NEW i \in Issuance, issuanceStatus'[i] = "RETIRED"
        PROVE  \/ issuanceStatus[i] = "RETIRED"
               \/ ledger[event].issuance = i /\ IsRetirement(ledger[event])
    BY <1>6, <2>2 DEF ApplyIssuanceStateTransition, TypeOK
  <2> QED
    BY <1>6, <1>keep, <1>3, <2>1, <2>2 DEF ApplyIssuanceStateTransition, rowVars,
       tickVars
<1>7. CASE MarkProcessed
  <2>1. event \in bcrAccepted
    BY <1>7 DEF MarkProcessed, AcceptedInv
  <2> QED
    BY <1>7, <1>keep, <1>3, <2>1 DEF MarkProcessed, mirrorVars, TypeOK
<1>8. ASSUME NEW p \in Position, ReserveEvent(p) PROVE AcceptedInv'
  BY <1>8, <1>keep, <1>3 DEF ReserveEvent, mirrorVars, TypeOK
<1>9. CASE MarkFailedPermanent \/ MarkForRetry
  BY <1>9, <1>keep, <1>3 DEF MarkFailedPermanent, MarkForRetry, mirrorVars, TypeOK
<1>10. CASE ForwardFails
  BY <1>10, <1>keep, <1>3 DEF ForwardFails, mirrorVars, rowVars
<1>11. CASE FlipDelist \/ FlipDelistThrows
  BY <1>11, <1>keep, <1>3 DEF FlipDelist, FlipDelistThrows, AcceptedInv,
     mirrorVars, rowVars, tickVars
<1>12. ASSUME UNCHANGED <<bcrAccepted, rowStatus, issuanceStatus>>,
              pc' \notin InEvent \/ UNCHANGED <<pc, event>>
       PROVE  AcceptedInv'
  BY <1>12, <1>keep, <1>3 DEF AcceptedInv, InEvent
<1>13. CASE StartWorker \/ StopWorker \/ StopReturns \/ TimerFires \/ Crash
  BY <1>13, <1>12 DEF StartWorker, StopWorker, StopReturns, TimerFires, Crash,
     InEvent, rowVars, mirrorVars, tickVars
<1>14. CASE Poll \/ PersistCursor \/ TickThrows
  BY <1>14, <1>12 DEF Poll, PersistCursor, TickThrows, EndTick, InEvent, rowVars,
     mirrorVars
<1>15. ASSUME NEW p \in Position, SkipSettled(p) PROVE AcceptedInv'
  BY <1>15, <1>12 DEF SkipSettled, rowVars, mirrorVars, tickVars
<1>16. CASE Environment
  BY <1>16, <1>12 DEF Environment, ChainAppends, LedgerForgets, RegistryClient,
     DelistInitiator, EnvironmentUnchanged, rowVars, mirrorVars, tickVars
<1>17. CASE UNCHANGED vars
  BY <1>17, <1>12 DEF vars
<1> QED
  BY <1>4, <1>5, <1>6, <1>7, <1>8, <1>9, <1>10, <1>11, <1>13, <1>14, <1>15,
     <1>16, <1>17 DEF Next, WorkerNext, TickStep
-----------------------------------------------------------------------------
(* Inv is an inductive invariant of the worker.                             *)
LEMMA InvInit == Init => Inv
<1> HAVE Init
<1>1. TypeOK
  BY TypeInit
<1>2. LoopInv /\ TickInv
  BY DEF Init, LoopInv, OneTickAtATime, TickInv, InEvent
<1>3. FrontierInv
  BY DEF Init, FrontierInv, CursorSafe, SettledUpTo
<1>4. RetryBudget
  BY WorkerAssumption DEF Init, RetryBudget
<1>5. AcceptedInv
  BY DEF Init, AcceptedInv, RegistryFirst
<1> QED
  BY <1>1, <1>2, <1>3, <1>4, <1>5 DEF Inv

LEMMA InvStep == Inv /\ [Next]_vars => Inv'
<1> SUFFICES ASSUME Inv, [Next]_vars PROVE Inv'
  OBVIOUS
<1>1. LoopInv'
  BY LoopStep DEF Inv
<1> QED
  BY <1>1, TypeStep, TickInvStep, FrontierStep, BudgetStep, AcceptedStep DEF Inv

(* The inductive invariant of the worker: loop, tick in flight, frontier of  *)
(* settled burns, retry budget and accepted burns.                          *)
THEOREM Invariance == SafetySpec => []Inv
<1>1. Init => Inv
  BY InvInit
<1>2. Inv /\ [Next]_vars => Inv'
  BY InvStep
<1> QED
  BY <1>1, <1>2, PTL DEF SafetySpec

(* Every variable of the worker keeps its type, for any ledger and any      *)
(* number of faults (the row, cursor and timer state of                     *)
(* aurigraph-events.worker.ts).                                             *)
THEOREM TypeCorrect == SafetySpec => []TypeOK
BY Invariance, PTL DEF Inv

(* lastTxHash never passes a burn whose row is not PROCESSED or             *)
(* FAILED_PERMANENT, however ticks, crashes, exceptions and restarts of     *)
(* processTick fall.                                                        *)
THEOREM CursorIsSafe == SafetySpec => []CursorSafe
<1>1. Inv => CursorSafe
  BY DEF Inv, FrontierInv
<1> QED
  BY <1>1, Invariance, PTL

(* retryCount of processSingleEvent: parked after exactly MaxRetries + 1    *)
(* refused forwards.                                                        *)
THEOREM RetryBudgetHolds == SafetySpec => []RetryBudget
BY Invariance, PTL DEF Inv

(* No PROCESSED row and no RETIRED issuance without the registry's consent: *)
(* the order of the calls in processSingleEvent.                            *)
THEOREM RegistryGoesFirst == SafetySpec => []RegistryFirst
<1>1. Inv => RegistryFirst
  BY DEF Inv, AcceptedInv
<1> QED
  BY <1>1, Invariance, PTL

(* scheduleNextTick never arms the timer while a tick is in flight or after *)
(* stopAurigraphEventsWorker.                                               *)
THEOREM TicksDoNotOverlap == SafetySpec => []OneTickAtATime
<1>1. Inv => OneTickAtATime
  BY DEF Inv, LoopInv
<1> QED
  BY <1>1, Invariance, PTL

(* No write of the worker after stopAurigraphEventsWorker has returned or   *)
(* the process has died.                                                    *)
THEOREM StoppedIsQuiet == SafetySpec => StopIsQuiet
<1> DEFINE Quiet == ~active => UNCHANGED <<cursor, rowVars, issuanceStatus, bcrAccepted>>
<1>1. Inv /\ [Next]_vars => [Quiet]_vars
  <2> SUFFICES ASSUME Inv, Next, ~active PROVE Quiet
    BY DEF vars
  <2>1. pc = "idle"
    BY DEF Inv, LoopInv
  <2>2. ~TickStep
    BY <2>1 DEF TickStep, Poll, SkipSettled, ReserveEvent, ForwardRetirement,
       ForwardDelist, ForwardFails, FlipDelist, ApplyIssuanceStateTransition,
       MarkProcessed, MarkFailedPermanent, MarkForRetry, PersistCursor
  <2>3. CASE WorkerNext
    BY <2>1, <2>2, <2>3 DEF WorkerNext, StartWorker, StopWorker, StopReturns,
       TimerFires, FlipDelistThrows, TickThrows, Crash, mirrorVars
  <2>4. CASE Environment
    BY <2>4 DEF Environment, ChainAppends, LedgerForgets, RegistryClient,
       DelistInitiator, EnvironmentUnchanged
  <2> QED
    BY <2>3, <2>4 DEF Next
<1> QED
  BY <1>1, Invariance, PTL DEF SafetySpec, StopIsQuiet
-----------------------------------------------------------------------------
(* The refinement of BurnSettlement.                                        *)
RowOutcome == [p \in Position |-> IF Settled(p) THEN rowStatus[p] ELSE "open"]

LEMMA SettlesEvent ==
    ASSUME Inv, pc \in InEvent, NEW o \in {"PROCESSED", "FAILED_PERMANENT"},
           rowStatus' = [rowStatus EXCEPT ![event] = o],
           UNCHANGED <<ledger, oldest>>
    PROVE  Settlement!Settle(event, o)
<1> TypeOK /\ TickInv /\ FrontierInv
  BY DEF Inv
<1>1. /\ event \in Position /\ event \in 1..Len(ledger)
      /\ ledger[event] \in BurnEntry /\ ~Settled(event)
  BY EventFacts, WorkerAssumption DEF TickInv, IsBurn, Settled
<1>2. \A q \in oldest..(event - 1) : ledger[q] \in BurnEntry => Settled(q)
  BY <1>1, WorkerAssumption DEF FrontierInv, SettledUpTo, IsBurn, TypeOK
<1>3. \A q \in oldest..(event - 1) : q \in Position
  BY <1>1, WorkerAssumption DEF TypeOK
<1>4. RowOutcome' = [RowOutcome EXCEPT ![event] = o]
  BY <1>1 DEF RowOutcome, Settled, TypeOK
<1> QED
  BY <1>1, <1>2, <1>3, <1>4 DEF Settlement!Settle, RowOutcome, Settled

LEMMA RefinementStep ==
    ASSUME Inv, [Next]_vars
    PROVE  Settlement!Next \/ UNCHANGED Settlement!abstractVars
<1> TypeOK /\ TickInv /\ FrontierInv
  BY DEF Inv
<1> USE DEF chainVars, rowVars, tickVars
<1>same. ASSUME UNCHANGED <<ledger, oldest, rowStatus>>
         PROVE  UNCHANGED Settlement!abstractVars
  BY <1>same DEF Settlement!abstractVars, Settled
<1>1. ASSUME NEW p \in Position, ReserveEvent(p)
      PROVE  UNCHANGED Settlement!abstractVars
  <2>1. \A q \in Position : (Settled(q)' <=> Settled(q))
                            /\ (Settled(q) => rowStatus'[q] = rowStatus[q])
    BY <1>1 DEF ReserveEvent, Settled, TypeOK
  <2> QED
    BY <1>1, <2>1 DEF ReserveEvent, Settlement!abstractVars
<1>2. CASE MarkProcessed
  <2>1. Settlement!Settle(event, "PROCESSED") /\ event \in Position
    BY <1>2, SettlesEvent, EventFacts DEF MarkProcessed, InEvent
  <2> QED
    BY <2>1 DEF Settlement!Next, Settlement!Outcome
<1>3. CASE MarkFailedPermanent
  <2>1. Settlement!Settle(event, "FAILED_PERMANENT") /\ event \in Position
    BY <1>3, SettlesEvent, EventFacts DEF MarkFailedPermanent, InEvent
  <2> QED
    BY <2>1 DEF Settlement!Next, Settlement!Outcome
<1>4. CASE MarkForRetry
  <2>1. pc \in InEvent /\ rowStatus[event] = "PENDING"
    BY <1>4, EventFacts DEF MarkForRetry, InEvent
  <2>2. rowStatus' = rowStatus
    BY <1>4, <2>1 DEF MarkForRetry, TypeOK
  <2> QED
    BY <1>4, <2>2, <1>same DEF MarkForRetry
<1>5. CASE ChainAppends
  <2>1. UNCHANGED <<oldest, rowStatus>> /\ \E e \in LedgerEntry : ledger' = Append(ledger, e)
    BY <1>5 DEF ChainAppends, EnvironmentUnchanged
  <2> QED
    BY <2>1 DEF Settlement!Next, Settlement!LedgerGrows, Settled
<1>6. CASE LedgerForgets
  BY <1>6 DEF LedgerForgets, EnvironmentUnchanged, Settlement!Next,
     Settlement!LedgerForgets, Settled
<1>7. CASE UNCHANGED rowVars /\ ~ChainAppends /\ ~LedgerForgets
  <2>1. UNCHANGED <<ledger, oldest>>
    BY <1>7 DEF Next, WorkerNext, TickStep, Environment, StartWorker, StopWorker,
       StopReturns, TimerFires, Poll, SkipSettled, ReserveEvent,
       ForwardRetirement, ForwardDelist, ForwardFails, FlipDelist,
       FlipDelistThrows, ApplyIssuanceStateTransition, MarkProcessed,
       MarkFailedPermanent, MarkForRetry, PersistCursor, TickThrows, Crash,
       RegistryClient, DelistInitiator, vars
  <2> QED
    BY <1>7, <2>1, <1>same
<1> QED
  BY <1>1, <1>2, <1>3, <1>4, <1>5, <1>6, <1>7, RowSteps

(* The worker implements BurnSettlement: each burn on the ledger is settled *)
(* at most once, for good and in ledger order, whatever processTick, the    *)
(* timer, crashes and the other clients of the registry do.                 *)
THEOREM Refinement == SafetySpec => ImplementsBurnSettlement
<1>1. Init => Settlement!Init
  BY DEF Init, Settlement!Init, Settled
<1>2. Inv /\ [Next]_vars => [Settlement!Next]_(Settlement!abstractVars)
  BY RefinementStep
<1> QED
  BY <1>1, <1>2, Invariance, PTL DEF SafetySpec, ImplementsBurnSettlement,
     Settlement!Spec
=============================================================================
