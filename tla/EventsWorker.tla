----------------------------- MODULE EventsWorker -----------------------------
(***************************************************************************)
(* The Aurigraph events worker (workers/aurigraph-events.worker.ts): one   *)
(* in-process polling loop that reads the public ledger, forwards every    *)
(* burn after its cursor to the registry, mirrors the outcome in the       *)
(* database and then moves the cursor.  One action is the code between two *)
(* awaits whose interleaving matters; a crash, or an exception out of the  *)
(* tick, may fall between any two of them.                                 *)
(*                                                                         *)
(* A position in the ledger stands for a txHash; 0 is a null cursor.       *)
(***************************************************************************)
EXTENDS BcrRegistry, Sequences

CONSTANTS
    Issuance,
    NoIssuance, NoLock,  \* a field the ledger entry does not carry
    LedgerEntry,         \* raw ledger entries: see EntryType
    MaxRetries,          \* AURIGRAPH_EVENTS_MAX_RETRIES
    MaxLedger,           \* bound: entries the chain ever appends
    MaxForgotten,        \* bound: entries the ledger endpoint ever drops
    MaxFaults            \* bound: crashes, exceptions and stops

EntryType ==
    [ type : {"burn", "mint"},
      issuance : Issuance \cup {NoIssuance},
      serial : Serial \cup {NoSerial},
      lock : Lock \cup {NoLock},
      retiredFor : BOOLEAN,
      retiredBy : BOOLEAN ]

ASSUME WorkerAssumption ==
    /\ NoIssuance \notin Issuance
    /\ NoLock \notin Lock
    /\ LedgerEntry \subseteq EntryType
    /\ MaxRetries \in Nat
    /\ MaxLedger \in Nat
    /\ MaxForgotten \in Nat
    /\ MaxFaults \in Nat

VARIABLES
    \* the chain
    ledger,              \* what getPublicLedger(UC_CARBON) has ever listed
    oldest,              \* position of the oldest entry it still lists
    \* database rows
    cursor,              \* AurigraphEventCursor.lastTxHash
    rowStatus,           \* AurigraphProcessedEvent.status, "none" = no row
    retryCount,          \* AurigraphProcessedEvent.retryCount
    issuanceStatus,      \* Issuance.status
    delistStatus,        \* DelistRequest.status, "none" = no row
    \* module state of the worker
    timer,               \* "none", "armed", or "fired": a handle not null
    active,              \* activeDeps # null
    stopRequested,
    \* the tick in flight (pc # "idle" is inFlight # null)
    pc,
    batch,               \* burns of this tick not yet taken up
    event,               \* the burn in processSingleEvent, 0 outside it
    lastAdvanced,
    \* history and bounds
    bcrAccepted,         \* burns whose BCR call returned ok:true
    faults

chainVars == <<ledger, oldest>>
rowVars == <<rowStatus, retryCount>>
mirrorVars == <<issuanceStatus, delistStatus>>
loopVars == <<timer, active, stopRequested>>
tickVars == <<batch, event, lastAdvanced>>
vars == <<vccStatus, lockState, lockSerial, ledger, oldest, cursor, rowStatus,
          retryCount, issuanceStatus, delistStatus, timer, active,
          stopRequested, pc, batch, event, lastAdvanced, bcrAccepted, faults>>

Position == 1..MaxLedger
Settled(p) == rowStatus[p] \in {"PROCESSED", "FAILED_PERMANENT"}
-----------------------------------------------------------------------------
(***************************************************************************)
(* parseBurnEntry: an entry is a burn event when its type says so and its  *)
(* metadata names an issuance and a serial; it is a retirement when it     *)
(* names both retiredFor and retiredBy, otherwise a delist.                *)
(***************************************************************************)
IsBurnEntry(e) ==
    /\ e.type = "burn"
    /\ e.issuance # NoIssuance
    /\ e.serial # NoSerial

IsRetirement(e) == e.retiredFor /\ e.retiredBy

BurnEntry == {e \in LedgerEntry : IsBurnEntry(e)}

IsBurn(p) == p \in 1..Len(ledger) /\ ledger[p] \in BurnEntry

(***************************************************************************)
(* extractBurnEvents over the entries still listed: all of them for a null *)
(* cursor, those after the cursor's entry when it is listed, none when it  *)
(* is not (seenCursor never becomes true).                                 *)
(***************************************************************************)
ExtractBurnEvents ==
    {p \in oldest..Len(ledger) :
        IsBurn(p) /\ (cursor = 0 \/ (cursor >= oldest /\ p > cursor))}
-----------------------------------------------------------------------------
TypeOK ==
    /\ BcrTypeOK
    /\ ledger \in Seq(LedgerEntry) /\ Len(ledger) <= MaxLedger
    /\ oldest \in 1..(MaxForgotten + 1)
    /\ cursor \in 0..MaxLedger
    /\ rowStatus \in
         [Position -> {"none", "PENDING", "PROCESSED", "FAILED_PERMANENT"}]
    /\ retryCount \in [Position -> 0..(MaxRetries + 1)]
    /\ issuanceStatus \in [Issuance -> {"ISSUED", "RETIRED"}]
    /\ delistStatus \in
         [Issuance -> {"none", "CHAIN_BURNED", "BCR_UNLOCKED", "FAILED"}]
    /\ timer \in {"none", "armed", "fired"}
    /\ active \in BOOLEAN
    /\ stopRequested \in BOOLEAN
    /\ pc \in {"idle", "poll", "next", "forward", "flipDelist", "mirror",
               "processed", "failed", "save"}
    /\ batch \subseteq Position
    /\ event \in 0..MaxLedger
    /\ lastAdvanced \in 0..MaxLedger
    /\ bcrAccepted \subseteq Position
    /\ faults \in 0..MaxFaults

Init ==
    /\ BcrInit
    /\ ledger = <<>>
    /\ oldest = 1
    /\ cursor = 0
    /\ rowStatus = [p \in Position |-> "none"]
    /\ retryCount = [p \in Position |-> 0]
    /\ issuanceStatus = [i \in Issuance |-> "ISSUED"]
    /\ delistStatus = [i \in Issuance |-> "none"]
    /\ timer = "none"
    /\ active = FALSE
    /\ stopRequested = FALSE
    /\ pc = "idle"
    /\ batch = {}
    /\ event = 0
    /\ lastAdvanced = 0
    /\ bcrAccepted = {}
    /\ faults = 0
-----------------------------------------------------------------------------
(* Polling loop: start, stop, timer, end of a tick.                         *)

(* regression: the tick forgets to schedule the next one *)
NoReschedule ==
    timer' = timer

(* scheduleNextTick *)
ScheduleNextTick ==
    timer' = IF stopRequested \/ ~active THEN timer ELSE "armed"

(* inFlight.finally: the tick is over, the next one is scheduled *)
EndTick ==
    /\ pc' = "idle"
    /\ batch' = {}
    /\ event' = 0
    /\ lastAdvanced' = 0
    /\ ScheduleNextTick
    /\ UNCHANGED <<active, stopRequested>>

(* startAurigraphEventsWorker; a second call is a no-op *)
StartWorker ==
    /\ timer = "none" /\ ~active
    /\ active' = TRUE
    /\ stopRequested' = FALSE
    /\ timer' = "armed"
    /\ UNCHANGED <<bcrVars, chainVars, cursor, rowVars, mirrorVars, pc,
                   tickVars, bcrAccepted, faults>>

(* regression: stop does not wait for the tick in flight *)
StopWithoutWaiting ==
    /\ active /\ ~stopRequested
    /\ faults < MaxFaults
    /\ faults' = faults + 1
    /\ stopRequested' = TRUE
    /\ timer' = "none"
    /\ active' = FALSE
    /\ UNCHANGED <<bcrVars, chainVars, cursor, rowVars, mirrorVars, pc,
                   tickVars, bcrAccepted>>

(* stopAurigraphEventsWorker up to its await of the tick in flight *)
StopWorker ==
    /\ active /\ ~stopRequested
    /\ faults < MaxFaults
    /\ faults' = faults + 1
    /\ stopRequested' = TRUE
    /\ timer' = "none"
    /\ active' = (pc # "idle")
    /\ UNCHANGED <<bcrVars, chainVars, cursor, rowVars, mirrorVars, pc,
                   tickVars, bcrAccepted>>

(* ... and after it *)
StopReturns ==
    /\ stopRequested /\ active
    /\ pc = "idle"
    /\ active' = FALSE
    /\ UNCHANGED <<bcrVars, chainVars, cursor, rowVars, mirrorVars, timer,
                   stopRequested, pc, tickVars, bcrAccepted, faults>>

TimerFires ==
    /\ timer = "armed"
    /\ ~stopRequested
    /\ timer' = "fired"
    /\ pc' = "poll"
    /\ UNCHANGED <<bcrVars, chainVars, cursor, rowVars, mirrorVars, active,
                   stopRequested, tickVars, bcrAccepted, faults>>

(* a database or ledger call throws out of processTick; the tick's locals   *)
(* are lost and the loop goes on                                            *)
TickThrows ==
    /\ pc \in {"poll", "next", "mirror", "processed", "failed", "save"}
    /\ faults < MaxFaults
    /\ faults' = faults + 1
    /\ EndTick
    /\ UNCHANGED <<bcrVars, chainVars, cursor, rowVars, mirrorVars, bcrAccepted>>

(* the process dies: only the database, the chain and the registry remain   *)
Crash ==
    /\ active
    /\ faults < MaxFaults
    /\ faults' = faults + 1
    /\ pc' = "idle"
    /\ batch' = {}
    /\ event' = 0
    /\ lastAdvanced' = 0
    /\ timer' = "none"
    /\ active' = FALSE
    /\ stopRequested' = FALSE
    /\ UNCHANGED <<bcrVars, chainVars, cursor, rowVars, mirrorVars, bcrAccepted>>
-----------------------------------------------------------------------------
(* One tick: processTick and processSingleEvent.                            *)

(* readCursor, getPublicLedger, extractBurnEvents *)
Poll ==
    /\ pc = "poll"
    /\ batch' = ExtractBurnEvents
    /\ lastAdvanced' = cursor
    /\ pc' = "next"
    /\ UNCHANGED <<bcrVars, chainVars, cursor, rowVars, mirrorVars, loopVars,
                   event, bcrAccepted, faults>>

(* regression: the burns of a batch are taken up in any order *)
AnyOrder(p) == p \in batch

IsNext(p) == p \in batch /\ \A q \in batch : p <= q

(* the row says the burn was settled in an earlier tick: 'skipped' *)
SkipSettled(p) ==
    /\ pc = "next"
    /\ IsNext(p)
    /\ Settled(p)
    /\ batch' = batch \ {p}
    /\ lastAdvanced' = p
    /\ UNCHANGED <<bcrVars, chainVars, cursor, rowVars, mirrorVars, loopVars,
                   pc, event, bcrAccepted, faults>>

(* findUnique, and create when there is no row *)
ReserveEvent(p) ==
    /\ pc = "next"
    /\ IsNext(p)
    /\ ~Settled(p)
    /\ batch' = batch \ {p}
    /\ event' = p
    /\ rowStatus' = [rowStatus EXCEPT ![p] = "PENDING"]
    /\ pc' = "forward"
    /\ UNCHANGED <<bcrVars, chainVars, cursor, retryCount, mirrorVars, loopVars,
                   lastAdvanced, bcrAccepted, faults>>

(* bcr.retireVCC answers ok:true *)
ForwardRetirement ==
    /\ pc = "forward"
    /\ IsRetirement(ledger[event])
    /\ RetireVCC(ledger[event].serial)
    /\ bcrAccepted' = bcrAccepted \cup {event}
    /\ pc' = "mirror"
    /\ UNCHANGED <<chainVars, cursor, rowVars, mirrorVars, loopVars, tickVars,
                   faults>>

(* bcr.unlockVCC answers ok:true *)
ForwardDelist ==
    /\ pc = "forward"
    /\ ~IsRetirement(ledger[event])
    /\ ledger[event].lock # NoLock
    /\ UnlockVCC(ledger[event].lock)
    /\ bcrAccepted' = bcrAccepted \cup {event}
    /\ pc' = "flipDelist"
    /\ UNCHANGED <<chainVars, cursor, rowVars, mirrorVars, loopVars, tickVars,
                   faults>>

(* regression: res.ok is not looked at *)
ForwardFailureIgnored ==
    /\ pc = "forward"
    /\ pc' = "mirror"
    /\ UNCHANGED <<bcrVars, chainVars, cursor, rowVars, mirrorVars, loopVars,
                   tickVars, bcrAccepted, faults>>

(* the registry refuses the call or cannot be reached, the adapter is the   *)
(* disabled one or throws, or the delist names no lock: bcrOk is false      *)
ForwardFails ==
    /\ pc = "forward"
    /\ pc' = "failed"
    /\ UNCHANGED <<bcrVars, chainVars, cursor, rowVars, mirrorVars, loopVars,
                   tickVars, bcrAccepted, faults>>

(* delistRequest.updateMany where status is INITIATED or CHAIN_BURNED (no   *)
(* code writes INITIATED); zero rows updated is not an error                *)
FlipDelist ==
    /\ pc = "flipDelist"
    /\ delistStatus' = [delistStatus EXCEPT ![ledger[event].issuance] =
                          IF @ = "CHAIN_BURNED" THEN "BCR_UNLOCKED" ELSE @]
    /\ pc' = "mirror"
    /\ UNCHANGED <<bcrVars, chainVars, cursor, rowVars, issuanceStatus, loopVars,
                   tickVars, bcrAccepted, faults>>

(* ... and an exception is logged and swallowed                             *)
FlipDelistThrows ==
    /\ pc = "flipDelist"
    /\ faults < MaxFaults
    /\ faults' = faults + 1
    /\ pc' = "mirror"
    /\ UNCHANGED <<bcrVars, chainVars, cursor, rowVars, mirrorVars, loopVars,
                   tickVars, bcrAccepted>>

(* applyIssuanceStateTransition *)
ApplyIssuanceStateTransition ==
    /\ pc = "mirror"
    /\ issuanceStatus' =
         [issuanceStatus EXCEPT ![ledger[event].issuance] =
            IF IsRetirement(ledger[event]) THEN "RETIRED" ELSE "ISSUED"]
    /\ pc' = "processed"
    /\ UNCHANGED <<bcrVars, chainVars, cursor, rowVars, delistStatus, loopVars,
                   tickVars, bcrAccepted, faults>>

(* the row becomes PROCESSED: 'processed' *)
MarkProcessed ==
    /\ pc = "processed"
    /\ rowStatus' = [rowStatus EXCEPT ![event] = "PROCESSED"]
    /\ lastAdvanced' = event
    /\ event' = 0
    /\ pc' = "next"
    /\ UNCHANGED <<bcrVars, chainVars, cursor, retryCount, mirrorVars, loopVars,
                   batch, bcrAccepted, faults>>

(* regressions: one retry too many, one too few *)
BudgetSpentLate(p) == retryCount[p] > MaxRetries
BudgetSpentEarly(p) == retryCount[p] + 1 >= MaxRetries

(* nextRetry > deps.maxRetries *)
BudgetSpent(p) == retryCount[p] + 1 > MaxRetries

(* out of retries: the row is parked and the tick goes on *)
MarkFailedPermanent ==
    /\ pc = "failed"
    /\ BudgetSpent(event)
    /\ rowStatus' = [rowStatus EXCEPT ![event] = "FAILED_PERMANENT"]
    /\ retryCount' = [retryCount EXCEPT ![event] = @ + 1]
    /\ lastAdvanced' = event
    /\ event' = 0
    /\ pc' = "next"
    /\ UNCHANGED <<bcrVars, chainVars, cursor, mirrorVars, loopVars, batch,
                   bcrAccepted, faults>>

(* regression: the tick moves its cursor past the burn it will retry *)
MarkForRetryAndAdvance ==
    /\ pc = "failed"
    /\ ~BudgetSpent(event)
    /\ rowStatus' = [rowStatus EXCEPT ![event] = "PENDING"]
    /\ retryCount' = [retryCount EXCEPT ![event] = @ + 1]
    /\ lastAdvanced' = event
    /\ event' = 0
    /\ pc' = "save"
    /\ UNCHANGED <<bcrVars, chainVars, cursor, mirrorVars, loopVars, batch,
                   bcrAccepted, faults>>

(* 'retry': the row stays PENDING and the tick ends after saving progress *)
MarkForRetry ==
    /\ pc = "failed"
    /\ ~BudgetSpent(event)
    /\ rowStatus' = [rowStatus EXCEPT ![event] = "PENDING"]
    /\ retryCount' = [retryCount EXCEPT ![event] = @ + 1]
    /\ event' = 0
    /\ pc' = "save"
    /\ UNCHANGED <<bcrVars, chainVars, cursor, mirrorVars, loopVars, batch,
                   lastAdvanced, bcrAccepted, faults>>

(* persistCursor after the last burn of the batch or after a 'retry' *)
PersistCursor ==
    /\ pc = "save" \/ (pc = "next" /\ batch = {})
    /\ cursor' = IF lastAdvanced = 0 THEN cursor ELSE lastAdvanced
    /\ EndTick
    /\ UNCHANGED <<bcrVars, chainVars, rowVars, mirrorVars, bcrAccepted, faults>>
-----------------------------------------------------------------------------
(* Environment: the chain, and the request handlers that share the registry *)
(* and the database with the worker.                                        *)

EnvironmentUnchanged ==
    UNCHANGED <<cursor, rowVars, issuanceStatus, loopVars, pc, tickVars,
                bcrAccepted, faults>>

ChainAppends ==
    /\ Len(ledger) < MaxLedger
    /\ \E e \in LedgerEntry : ledger' = Append(ledger, e)
    /\ UNCHANGED <<bcrVars, oldest, delistStatus>>
    /\ EnvironmentUnchanged

(* the endpoint stops listing its oldest entry *)
LedgerForgets ==
    /\ oldest <= MaxForgotten
    /\ oldest <= Len(ledger)
    /\ oldest' = oldest + 1
    /\ UNCHANGED <<bcrVars, ledger, delistStatus>>
    /\ EnvironmentUnchanged

(* tokenizeIssuance's calls of the registry *)
RegistryClient ==
    /\ \/ \E s \in Serial, l \in Lock : LockVCC(s, l) \/ NotifyMint(s, l)
       \/ \E l \in Lock : ConfirmLock(l) \/ UnlockVCC(l)
    /\ UNCHANGED <<chainVars, delistStatus>>
    /\ EnvironmentUnchanged

(* delistIssuance's upserts *)
DelistInitiator ==
    /\ \E i \in Issuance, st \in {"CHAIN_BURNED", "FAILED"} :
          delistStatus' = [delistStatus EXCEPT ![i] = st]
    /\ UNCHANGED <<bcrVars, chainVars>>
    /\ EnvironmentUnchanged
-----------------------------------------------------------------------------
TickStep ==
    \/ Poll
    \/ \E p \in Position : SkipSettled(p) \/ ReserveEvent(p)
    \/ ForwardRetirement \/ ForwardDelist \/ ForwardFails
    \/ FlipDelist
    \/ ApplyIssuanceStateTransition
    \/ MarkProcessed
    \/ MarkFailedPermanent \/ MarkForRetry
    \/ PersistCursor

WorkerNext ==
    \/ StartWorker \/ StopWorker \/ StopReturns \/ TimerFires
    \/ TickStep
    \/ FlipDelistThrows \/ TickThrows \/ Crash

Environment ==
    \/ ChainAppends \/ LedgerForgets
    \/ RegistryClient \/ DelistInitiator

Next == WorkerNext \/ Environment

(* The event loop runs what is due, and a stopped or crashed process is     *)
(* started again.  Nothing is assumed of the chain, of the handlers or of   *)
(* the registry's answers.                                                  *)
Fairness ==
    /\ WF_vars(TickStep)
    /\ WF_vars(TimerFires)
    /\ WF_vars(StopReturns)
    /\ WF_vars(StartWorker)

SafetySpec == Init /\ [][Next]_vars
Spec == SafetySpec /\ Fairness
-----------------------------------------------------------------------------
(* The cursor never passes a burn that is not settled: of the burns the     *)
(* ledger still lists, every one at or before lastTxHash has its row at     *)
(* PROCESSED or FAILED_PERMANENT, whatever crashes, retries and restarts    *)
(* happened (header of the worker, "Idempotency").                          *)
CursorSafe ==
    \A p \in oldest..cursor : IsBurn(p) => Settled(p)

(* A burn is parked exactly when MaxRetries + 1 forwards of it failed, and  *)
(* while it is retried fewer did.                                           *)
RetryBudget ==
    \A p \in Position :
        /\ rowStatus[p] = "FAILED_PERMANENT" <=> retryCount[p] = MaxRetries + 1
        /\ rowStatus[p] = "none" => retryCount[p] = 0

(* The registry shows the outcome of a burn: its VCC is retired, or the     *)
(* lock it names is gone.                                                   *)
Shown(p) ==
    IF IsRetirement(ledger[p])
    THEN vccStatus[ledger[p].serial] = "retired"
    ELSE lockState[ledger[p].lock] = "deleted"

(* The registry goes first: a burn is PROCESSED only after the registry     *)
(* accepted it and while the registry shows it, and an issuance is RETIRED  *)
(* only if the registry shows an accepted retirement burn of it.            *)
RegistryFirst ==
    /\ \A p \in Position :
          rowStatus[p] = "PROCESSED" => p \in bcrAccepted /\ Shown(p)
    /\ \A i \in Issuance :
          issuanceStatus[i] = "RETIRED" =>
            \E p \in bcrAccepted :
               ledger[p].issuance = i /\ IsRetirement(ledger[p]) /\ Shown(p)

(* A tick is never due while another is in flight, however start, stop and  *)
(* the timer interleave (the "in-process locking" of the header).           *)
OneTickAtATime == timer = "armed" => pc = "idle" /\ active /\ ~stopRequested

(* Once stop has returned, or the process is down, the worker writes        *)
(* nothing: "no further DB writes happen after this returns".               *)
StopIsQuiet ==
    [][~active => UNCHANGED <<cursor, rowVars, issuanceStatus, bcrAccepted>>]_vars

(* The worker implements BurnSettlement: burns are settled in ledger order, *)
(* at most once and for good.                                               *)
Settlement ==
    INSTANCE BurnSettlement
    WITH outcome <- [p \in Position |-> IF Settled(p) THEN rowStatus[p] ELSE "open"]

ImplementsBurnSettlement == Settlement!Spec

(* the entry the cursor points at is no longer listed: the worker is blind  *)
CursorForgotten == cursor # 0 /\ cursor < oldest

(* Every burn on the ledger is eventually settled - accepted or parked -    *)
(* unless the endpoint drops it, or the cursor's entry, first.              *)
EveryBurnSettled ==
    \A p \in Position :
        IsBurn(p) ~> (Settled(p) \/ CursorForgotten \/ p < oldest)
-----------------------------------------------------------------------------
(* What the documentation says and the code does not do.                    *)

(* "txHash is the natural primary key - re-processing the same tx is a      *)
(* no-op" (AurigraphProcessedEvent): so a burn the registry has accepted    *)
(* cannot end up parked as a failure.  But between the registry's ok:true   *)
(* and the PROCESSED row lie two database writes; when the tick dies there, *)
(* the next one forwards the burn again and is refused.                     *)
AcceptedNeverParked ==
    \A p \in bcrAccepted : rowStatus[p] # "FAILED_PERMANENT"

(* "If lastTxHash is in the list, items before/equal to it are dropped; if  *)
(* it's absent, all entries are returned" (extractBurnEvents).              *)
AbsentCursorReturnsAll ==
    [][Poll /\ CursorForgotten =>
          batch' = {p \in oldest..Len(ledger) : IsBurn(p)}]_vars
=============================================================================
