-------------------------- MODULE CreditLedgerProofs --------------------------
(***************************************************************************)
(* Proofs about CreditLedger, for every set of calls, issuances, accounts  *)
(* and amounts and every bound.                                            *)
(***************************************************************************)
EXTENDS CreditLedger, FiniteSetTheorems, TLAPS

(* What a call can have read.                                               *)
Locals ==
    [pc : Pc, block : Block \cup {Null}, issuance : Issuance \cup {Null},
     to : Account \cup {Null}, first : BOOLEAN, picked : SUBSET Block,
     events : SUBSET Nat]

(* Calls that decide on an issuance, calls with a row of Transaction to     *)
(* write, and calls that work on one block.                                 *)
DecidingPc == {"mint", "writeReject"}
MovingPc == {"transfer", "retire"}
BlockPc == MovingPc \cup {"emitTransfer", "emitRetirement",
                          "linkTransfer", "linkRetirement"}

(* What a call has read is still there.  A block to be moved was seen in an *)
(* account of an organisation, and only net units ever are in one.          *)
CallOK(c) ==
    /\ call[c].pc \in DecidingPc \cup {"createIssuance"} => call[c].issuance \in Issuance
    /\ call[c].block \in DOMAIN block \cup {Null}
    /\ call[c].pc \in BlockPc => call[c].block \in DOMAIN block
    /\ call[c].pc \in MovingPc => call[c].block[2] = "net" /\ call[c].to \in Account
    /\ call[c].pc = "retire" => call[c].to \in Purpose
    /\ call[c].picked \subseteq DOMAIN block
    /\ call[c].events \subseteq listed

CallInv ==
    /\ call \in [Call -> Locals]
    /\ \A c \in Call : CallOK(c)

(* A mint is not repeated: its issuance never becomes REQUESTED again.      *)
FreshInv ==
    /\ \A n \in DOMAIN minted : issuanceStatus[minted[n][1]] \in {"ISSUED", "REJECTED"}
    /\ \A c \in Call : call[c].pc = "mint" =>
          \A n \in DOMAIN minted : minted[n] # <<call[c].issuance, c>>
    /\ \A b \in DOMAIN block : \E n \in DOMAIN minted : minted[n] = b[1]

(* The account a kind of units is minted to.                                *)
MintedTo(kind) ==
    CASE kind = "net"    -> "participant"
      [] kind = "buffer" -> "REVERSAL_BUFFER"
      [] kind = "sop"    -> "ADAPTATION_FUND"
      [] kind = "omge"   -> "OMGE_CANCELLATION"

(* A mint has a block for every kind of which it has units, and all but the *)
(* net block stay in the account they were minted to.                       *)
SplitInv ==
    /\ \A n \in DOMAIN minted : \A kind \in Kind :
          LET units == UnitsOf(kind, verifiedEr[minted[n][1]]) IN
          <<minted[n], kind>> \in DOMAIN block <=> units > 0
    /\ \A b \in DOMAIN block :
          /\ block[b].units = UnitsOf(b[2], verifiedEr[b[1][1]])
          /\ b[2] # "net" => block[b].holder = MintedTo(b[2])

(* Until two decisions on an issuance overlap, at most one call decides on  *)
(* it, and only while it is REQUESTED.                                      *)
DecisionInv ==
    \A i \in Issuance \ raced :
        /\ \A c, d \in Deciding(i) : c = d
        /\ Deciding(i) # {} => issuanceStatus[i] = "REQUESTED"
        /\ \A m, n \in MintsOf(i) : m = n
        /\ MintsOf(i) # {} <=> issuanceStatus[i] = "ISSUED"

LedgerInv ==
    /\ LedgerTypeOK /\ CallInv /\ FreshInv /\ SplitInv /\ DecisionInv
    /\ HolderIsLastRow /\ UseIsReported /\ ExportedWasListed
-----------------------------------------------------------------------------
(* A call that takes up new work, moves on, or ends.                        *)
LEMMA StartFacts ==
    ASSUME call \in [Call -> Locals], NEW c \in Call, NEW t \in Locals, Start(c, t)
    PROVE  /\ call' \in [Call -> Locals]
           /\ call'[c] = t
           /\ \A d \in Call \ {c} : call'[d] = call[d]
  BY DEF Start

LEMMA IdleIsLocals == Idle \in Locals
  BY DEF Idle, Locals, Pc

LEMMA DoneFacts ==
    ASSUME call \in [Call -> Locals], NEW c \in Call, Done(c)
    PROVE  /\ call' \in [Call -> Locals]
           /\ call'[c] = Idle
           /\ \A d \in Call \ {c} : call'[d] = call[d]
  BY IdleIsLocals DEF Done

LEMMA GotoFacts ==
    ASSUME call \in [Call -> Locals], NEW c \in Call, NEW label \in Pc, Goto(c, label)
    PROVE  /\ call' \in [Call -> Locals]
           /\ call'[c].pc = label /\ call'[c].block = call[c].block
           /\ call'[c].issuance = call[c].issuance /\ call'[c].to = call[c].to
           /\ call'[c].first = call[c].first /\ call'[c].picked = call[c].picked
           /\ call'[c].events = call[c].events
           /\ \A d \in Call \ {c} : call'[d] = call[d]
<1>1. call' = [call EXCEPT ![c] = [call[c] EXCEPT !.pc = label]]
  BY DEF Goto
<1>2. [call[c] EXCEPT !.pc = label] \in Locals
  BY DEF Locals
<1> QED
  BY <1>1, <1>2 DEF Locals

(* What the starting calls read of an issuance or of a block.               *)
LEMMA StartIssuanceFacts ==
    ASSUME call \in [Call -> Locals], NEW c \in Call, NEW i \in Issuance,
           NEW label \in Pc, Start(c, [Idle EXCEPT !.pc = label, !.issuance = i])
    PROVE  /\ call' \in [Call -> Locals]
           /\ call'[c].pc = label /\ call'[c].issuance = i
           /\ call'[c].block = Null /\ call'[c].picked = {} /\ call'[c].events = {}
           /\ \A d \in Call \ {c} : call'[d] = call[d]
<1> DEFINE t == [Idle EXCEPT !.pc = label, !.issuance = i]
<1>1. /\ t \in Locals /\ t.pc = label /\ t.issuance = i
      /\ t.block = Null /\ t.picked = {} /\ t.events = {}
  BY DEF Locals, Idle
<1>2. Start(c, t)
  OBVIOUS
<1> HIDE DEF t
<1> QED
  BY <1>1, <1>2, StartFacts

LEMMA StartRetireFacts ==
    ASSUME call \in [Call -> Locals], NEW c \in Call, NEW b \in Block,
           NEW purpose \in Purpose,
           Start(c, [Idle EXCEPT !.pc = "retire", !.block = b, !.to = purpose])
    PROVE  /\ call' \in [Call -> Locals]
           /\ call'[c].pc = "retire" /\ call'[c].block = b /\ call'[c].to = purpose
           /\ call'[c].picked = {} /\ call'[c].events = {}
           /\ \A d \in Call \ {c} : call'[d] = call[d]
<1> DEFINE t == [Idle EXCEPT !.pc = "retire", !.block = b, !.to = purpose]
<1>1. /\ t \in Locals /\ t.pc = "retire" /\ t.block = b /\ t.to = purpose
      /\ t.picked = {} /\ t.events = {}
  BY DEF Locals, Idle, Pc, Account, RetirementAccount
<1>2. Start(c, t)
  OBVIOUS
<1> HIDE DEF t
<1> QED
  BY <1>1, <1>2, StartFacts
-----------------------------------------------------------------------------
(* The levies and the split of what is left are whole, never negative, and  *)
(* add up to what was verified.                                             *)
LEMMA LevyFacts ==
    ASSUME NEW gross \in Nat
    PROVE  /\ Sop(gross) \in Nat /\ Sop(gross) * 20 <= gross
           /\ Omge(gross) \in Nat /\ Omge(gross) * 50 <= gross
           /\ Net(gross) \in Nat
           /\ Net(gross) + Sop(gross) + Omge(gross) = gross
  BY DEF Sop, Omge, Net

LEMMA BufferFacts ==
    ASSUME NEW net \in Nat
    PROVE  /\ (net * BufferPct) \div 100 \in Nat
           /\ (net * BufferPct) \div 100 <= net
<1>1. BufferPct \in 0..100
  BY LedgerAssumption
<1>2. net * BufferPct \in Nat /\ net * (100 - BufferPct) \in Nat
  BY <1>1
<1>3. net * (100 - BufferPct) = net * 100 - net * BufferPct
  BY <1>1
<1>4. net * BufferPct <= net * 100
  BY <1>1, <1>2, <1>3
<1> QED
  BY <1>2, <1>4

LEMMA SplitFacts ==
    ASSUME NEW gross \in Nat, isRemoval \in BOOLEAN
    PROVE  /\ \A kind \in Kind : UnitsOf(kind, gross) \in Nat
           /\ UnitsOf("net", gross) + UnitsOf("buffer", gross)
              + UnitsOf("sop", gross) + UnitsOf("omge", gross) = gross
           /\ UnitsOf("sop", gross) * 20 <= gross
           /\ UnitsOf("omge", gross) * 50 <= gross
<1>1. /\ UnitsOf("net", gross) = Net(gross) - BufferUnits(gross)
      /\ UnitsOf("buffer", gross) = BufferUnits(gross)
      /\ UnitsOf("sop", gross) = Sop(gross)
      /\ UnitsOf("omge", gross) = Omge(gross)
  BY DEF UnitsOf
<1>2. Net(gross) \in Nat
  BY LevyFacts
<1>3. BufferUnits(gross) \in Nat /\ BufferUnits(gross) <= Net(gross)
  <2> DEFINE net == Net(gross)
  <2>1. net \in Nat
    BY <1>2
  <2> HIDE DEF net
  <2>2. (net * BufferPct) \div 100 \in Nat /\ (net * BufferPct) \div 100 <= net
    BY <2>1, BufferFacts
  <2>3. BufferUnits(gross) = IF isRemoval THEN (net * BufferPct) \div 100 ELSE 0
    BY DEF BufferUnits, net
  <2>4. BufferUnits(gross) \in Nat /\ BufferUnits(gross) <= net
    BY <2>1, <2>2, <2>3
  <2> QED
    BY <2>4 DEF net
<1>4. /\ Sop(gross) \in Nat /\ Sop(gross) * 20 <= gross
      /\ Omge(gross) \in Nat /\ Omge(gross) * 50 <= gross
      /\ Net(gross) + Sop(gross) + Omge(gross) = gross
  BY LevyFacts
<1>5. /\ UnitsOf("net", gross) \in Nat /\ UnitsOf("buffer", gross) \in Nat
      /\ UnitsOf("sop", gross) \in Nat /\ UnitsOf("omge", gross) \in Nat
  BY <1>1, <1>2, <1>3, <1>4
<1>6. UnitsOf("net", gross) + UnitsOf("buffer", gross)
      + UnitsOf("sop", gross) + UnitsOf("omge", gross) = gross
  BY <1>1, <1>2, <1>3, <1>4
<1>7. UnitsOf("sop", gross) * 20 <= gross /\ UnitsOf("omge", gross) * 50 <= gross
  BY <1>1, <1>4
<1>8. \A kind \in Kind : UnitsOf(kind, gross) \in Nat
  BY <1>5 DEF Kind
<1> QED
  BY <1>6, <1>7, <1>8
-----------------------------------------------------------------------------
(* Which actions change which variable.                                     *)
AllActions(c) ==
    \/ \E i \in Issuance : BeginRequest(c, i) \/ BeginApprove(c, i) \/ BeginReject(c, i)
    \/ CreateIssuance(c) \/ MintBlocks(c) \/ MarkIssuing(c) \/ WriteIssuing(c)
    \/ WriteReject(c)
    \/ \E b \in DOMAIN block, to \in Target : BeginTransfer(c, b, to)
    \/ \E b \in DOMAIN block, purpose \in Purpose : BeginRetire(c, b, purpose)
    \/ \E units \in Draw : BeginDraw(c, units)
    \/ Transfer(c) \/ Retire(c) \/ CancelDrawn(c)
    \/ Emit(c) \/ Link(c) \/ BeginExport(c) \/ MarkExported(c)
    \/ BeginRevoke(c) \/ CheckTransfers(c) \/ WriteRevoked(c)
    \/ Drop(c)

LEMMA NextCases ==
    ASSUME [Next]_vars
    PROVE  \/ \E c \in Call : AllActions(c)
           \/ CloseActivity
           \/ RejectActivity
           \/ UNCHANGED vars
  BY DEF Next, IssuanceStep, BlockStep, CaStep, LoaStep, AllActions

LEMMA ActivityEffects ==
    ASSUME [Next]_vars
    PROVE  UNCHANGED <<authorizedFor, isRemoval, verifiedEr>>
<1>1. ASSUME NEW c \in Call, AllActions(c)
      PROVE  UNCHANGED <<authorizedFor, isRemoval, verifiedEr>>
  BY <1>1 DEF AllActions, BeginRequest, BeginApprove, BeginReject, CreateIssuance,
     MintBlocks, MarkIssuing, WriteIssuing, WriteReject, BeginTransfer, BeginRetire,
     BeginDraw, Transfer, Retire, CancelDrawn, Emit, Link, BeginExport, MarkExported,
     BeginRevoke, CheckTransfers, WriteRevoked, Drop, activityVars
<1> QED
  BY <1>1, NextCases DEF CloseActivity, RejectActivity, vars, activityVars

LEMMA IssuanceEffects ==
    ASSUME [Next]_vars
    PROVE  \/ UNCHANGED issuanceVars
           \/ \E c \in Call : CreateIssuance(c) \/ MintBlocks(c) \/ WriteReject(c)
<1>1. ASSUME NEW c \in Call, AllActions(c)
      PROVE  \/ UNCHANGED issuanceVars
             \/ CreateIssuance(c) \/ MintBlocks(c) \/ WriteReject(c)
  BY <1>1 DEF AllActions, BeginRequest, BeginApprove, BeginReject, MarkIssuing,
     WriteIssuing, BeginTransfer, BeginRetire, BeginDraw, Transfer, Retire, CancelDrawn,
     Emit, Link, BeginExport, MarkExported, BeginRevoke, CheckTransfers, WriteRevoked,
     Drop
<1> QED
  BY <1>1, NextCases DEF CloseActivity, RejectActivity, vars

LEMMA LedgerEffects ==
    ASSUME [Next]_vars
    PROVE  \/ UNCHANGED ledgerVars
           \/ \E c \in Call : \/ MintBlocks(c) \/ Transfer(c) \/ Retire(c)
                             \/ CancelDrawn(c) \/ Link(c)
<1>1. ASSUME NEW c \in Call, AllActions(c)
      PROVE  \/ UNCHANGED ledgerVars
             \/ MintBlocks(c) \/ Transfer(c) \/ Retire(c) \/ CancelDrawn(c) \/ Link(c)
  BY <1>1 DEF AllActions, BeginRequest, BeginApprove, BeginReject, CreateIssuance,
     MarkIssuing, WriteIssuing, WriteReject, BeginTransfer, BeginRetire, BeginDraw,
     Emit, BeginExport, MarkExported, BeginRevoke, CheckTransfers, WriteRevoked, Drop
<1> QED
  BY <1>1, NextCases DEF CloseActivity, RejectActivity, vars

LEMMA CaEffects ==
    ASSUME [Next]_vars
    PROVE  \/ UNCHANGED caVars
           \/ \E c \in Call : Emit(c) \/ BeginExport(c) \/ MarkExported(c)
<1>1. ASSUME NEW c \in Call, AllActions(c)
      PROVE  UNCHANGED caVars \/ Emit(c) \/ BeginExport(c) \/ MarkExported(c)
  BY <1>1 DEF AllActions, BeginRequest, BeginApprove, BeginReject, CreateIssuance,
     MintBlocks, MarkIssuing, WriteIssuing, WriteReject, BeginTransfer, BeginRetire,
     BeginDraw, Transfer, Retire, CancelDrawn, Link, BeginRevoke, CheckTransfers,
     WriteRevoked, Drop
<1> QED
  BY <1>1, NextCases DEF CloseActivity, RejectActivity, vars

LEMMA HistoryEffects ==
    ASSUME [Next]_vars
    PROVE  \/ UNCHANGED history
           \/ \E c \in Call, i \in Issuance : BeginApprove(c, i) \/ BeginReject(c, i)
           \/ \E c \in Call : Drop(c)
<1>1. ASSUME NEW c \in Call, AllActions(c)
      PROVE  \/ UNCHANGED history
             \/ \E i \in Issuance : BeginApprove(c, i) \/ BeginReject(c, i)
             \/ Drop(c)
  BY <1>1 DEF AllActions, BeginRequest, CreateIssuance, MintBlocks, MarkIssuing,
     WriteIssuing, WriteReject, BeginTransfer, BeginRetire, BeginDraw, Transfer, Retire,
     CancelDrawn, Emit, Link, BeginExport, MarkExported, BeginRevoke, CheckTransfers,
     WriteRevoked
<1> QED
  BY <1>1, NextCases DEF CloseActivity, RejectActivity, vars
-----------------------------------------------------------------------------
(* Nothing is deleted: what a call has read of the ledger stays there.      *)
LEMMA BlocksStay ==
    ASSUME LedgerTypeOK, CallInv, [Next]_vars
    PROVE  DOMAIN block \subseteq DOMAIN block'
<1>1. ASSUME NEW c \in Call, MintBlocks(c)
      PROVE  DOMAIN block \subseteq DOMAIN block'
  BY <1>1 DEF MintBlocks
<1>2. ASSUME NEW c \in Call, Transfer(c) \/ Retire(c) \/ CancelDrawn(c) \/ Link(c)
      PROVE  DOMAIN block' = DOMAIN block
  BY <1>2 DEF Transfer, Retire, CancelDrawn, Link
<1> QED
  BY <1>1, <1>2, LedgerEffects DEF ledgerVars

LEMMA EventsStay ==
    ASSUME LedgerTypeOK, [Next]_vars
    PROVE  /\ listed \subseteq listed'
           /\ DOMAIN caEvent \subseteq DOMAIN caEvent'
           /\ \A n \in DOMAIN caEvent : caEvent'[n].block = caEvent[n].block
<1> DEFINE Event == [block : Block, status : {"PENDING_EXPORT", "EXPORTED"}]
<1>1. caEvent \in Seq(Event) /\ listed \subseteq DOMAIN caEvent
  BY DEF LedgerTypeOK
<1>2. ASSUME NEW c \in Call, Emit(c)
      PROVE  /\ listed' = listed
             /\ DOMAIN caEvent \subseteq DOMAIN caEvent'
             /\ \A n \in DOMAIN caEvent : caEvent'[n].block = caEvent[n].block
  <2>1. PICK e : caEvent' = Append(caEvent, e)
    BY <1>2 DEF Emit
  <2>2. listed' = listed
    BY <1>2 DEF Emit
  <2> QED
    BY <1>1, <2>1, <2>2
<1>3. ASSUME NEW c \in Call, BeginExport(c)
      PROVE  caEvent' = caEvent /\ listed \subseteq listed'
  BY <1>1, <1>3 DEF BeginExport
<1>4. ASSUME NEW c \in Call, MarkExported(c)
      PROVE  /\ listed' = listed
             /\ DOMAIN caEvent \subseteq DOMAIN caEvent'
             /\ \A n \in DOMAIN caEvent : caEvent'[n].block = caEvent[n].block
  <2>1. \A n \in DOMAIN caEvent : caEvent[n] \in Event
    <3> HIDE DEF Event
    <3> QED
      BY <1>1
  <2>2. \A e \in Event : [e EXCEPT !.status = "EXPORTED"].block = e.block
    OBVIOUS
  <2> QED
    BY <1>4, <2>1, <2>2 DEF MarkExported
<1> QED
  BY <1>2, <1>3, <1>4, CaEffects DEF caVars

(* A call that makes no step keeps what it has read.                        *)
LEMMA OthersKeep ==
    ASSUME CallInv, NEW d \in Call, call'[d] = call[d],
           DOMAIN block \subseteq DOMAIN block', listed \subseteq listed'
    PROVE  CallOK(d)'
  BY DEF CallInv, CallOK, DecidingPc, MovingPc, BlockPc

LEMMA DoneOK ==
    ASSUME CallInv, NEW c \in Call, Done(c)
    PROVE  CallOK(c)'
<1>1. call'[c] = Idle
  BY DoneFacts DEF CallInv
<1> QED
  BY <1>1 DEF CallOK, DecidingPc, MovingPc, BlockPc, Idle

(* What one step does to the call that makes it.                            *)
StepsTo(c) ==
    /\ call' \in [Call -> Locals]
    /\ \A d \in Call \ {c} : call'[d] = call[d]

LEMMA CallSteps ==
    ASSUME LedgerTypeOK, CallInv, SplitInv, [Next]_vars,
           NEW c \in Call, AllActions(c)
    PROVE  StepsTo(c) /\ CallOK(c)'
<1>1. /\ call \in [Call -> Locals] /\ CallOK(c)
      /\ DOMAIN block \subseteq DOMAIN block' /\ listed \subseteq listed'
  BY BlocksStay, EventsStay DEF CallInv
<1>2. DOMAIN block \subseteq Block
  BY DEF LedgerTypeOK
<1> USE DEF StepsTo
<1>3. ASSUME Done(c) PROVE StepsTo(c) /\ CallOK(c)'
  BY <1>1, <1>3, DoneFacts, DoneOK
<1>4. CASE \E i \in Issuance : BeginRequest(c, i) \/ BeginApprove(c, i) \/ BeginReject(c, i)
  <2>1. PICK i \in Issuance, label \in {"createIssuance", "mint", "writeReject"} :
          Start(c, [Idle EXCEPT !.pc = label, !.issuance = i])
    BY <1>4 DEF BeginRequest, BeginApprove, BeginReject
  <2>2. label \in Pc
    BY DEF Pc
  <2>3. StepsTo(c) /\ call'[c].pc = label /\ call'[c].issuance = i
        /\ call'[c].block = Null /\ call'[c].picked = {} /\ call'[c].events = {}
    BY <1>1, <2>1, <2>2, StartIssuanceFacts
  <2> QED
    BY <2>3 DEF CallOK, BlockPc, MovingPc, DecidingPc
<1>5. CASE MintBlocks(c)
  <2>1. Goto(c, "markIssuing") /\ "markIssuing" \in Pc
    BY <1>5 DEF MintBlocks, Pc
  <2>2. StepsTo(c) /\ call'[c].pc = "markIssuing" /\ call'[c].block = call[c].block
        /\ call'[c].picked = call[c].picked /\ call'[c].events = call[c].events
    BY <1>1, <2>1, GotoFacts
  <2> QED
    BY <1>1, <2>2 DEF CallOK, BlockPc, MovingPc, DecidingPc
<1>6. CASE MarkIssuing(c) \/ CheckTransfers(c)
  <2>1. PICK label \in {"writeIssuing", "writeRevoked"} : Goto(c, label) \/ Done(c)
    BY <1>6 DEF MarkIssuing, CheckTransfers
  <2>2. CASE Goto(c, label)
    <3>1. StepsTo(c) /\ call'[c].pc = label /\ call'[c].block = call[c].block
          /\ call'[c].picked = call[c].picked /\ call'[c].events = call[c].events
      BY <1>1, <2>2, GotoFacts DEF Pc
    <3> QED
      BY <1>1, <3>1 DEF CallOK, BlockPc, MovingPc, DecidingPc
  <2> QED
    BY <1>3, <2>1, <2>2
<1>7. CASE CreateIssuance(c) \/ WriteIssuing(c) \/ WriteReject(c) \/ CancelDrawn(c)
        \/ Link(c) \/ MarkExported(c) \/ WriteRevoked(c) \/ Drop(c)
  BY <1>3, <1>7 DEF CreateIssuance, WriteIssuing, WriteReject, CancelDrawn, Link,
     MarkExported, WriteRevoked, Drop
<1>8. CASE \E b \in DOMAIN block, to \in Target : BeginTransfer(c, b, to)
  <2>1. PICK b \in DOMAIN block, to \in Target : BeginTransfer(c, b, to)
    BY <1>8
  <2>2. to \in Account /\ b \in Block
    BY <1>2, LedgerAssumption
  <2> DEFINE t == [Idle EXCEPT !.pc = "transfer", !.block = b, !.to = to,
                               !.first = ~block[b].first]
  <2>3. /\ t \in Locals /\ t.pc = "transfer" /\ t.block = b /\ t.to = to
        /\ t.picked = {} /\ t.events = {}
    BY <2>2 DEF Idle, Locals, Pc
  <2>6. Start(c, t)
    BY <2>1 DEF BeginTransfer
  <2> HIDE DEF t
  <2>4. StepsTo(c) /\ call'[c] = t
    BY <1>1, <2>3, <2>6, StartFacts
  <2>5. b[2] = "net"
    <3>1. block[b].holder \in OrgAccount
      BY <2>1 DEF BeginTransfer
    <3>2. b[2] \in Kind
      BY <1>2 DEF Block
    <3> QED
      BY <3>1, <3>2, LedgerAssumption DEF SplitInv, MintedTo, AdminAccount, Kind
  <2> QED
    BY <1>1, <2>2, <2>3, <2>4, <2>5 DEF CallOK, BlockPc, MovingPc, DecidingPc
<1>9. CASE \E b \in DOMAIN block, purpose \in Purpose : BeginRetire(c, b, purpose)
  <2>1. PICK b \in DOMAIN block, purpose \in Purpose : BeginRetire(c, b, purpose)
    BY <1>9
  <2>2. purpose \in Account /\ b \in Block
    BY <1>2 DEF Account, RetirementAccount
  <2>3. Start(c, [Idle EXCEPT !.pc = "retire", !.block = b, !.to = purpose])
    BY <2>1 DEF BeginRetire
  <2>4. /\ StepsTo(c) /\ call'[c].pc = "retire" /\ call'[c].block = b
        /\ call'[c].to = purpose /\ call'[c].picked = {} /\ call'[c].events = {}
    BY <1>1, <2>2, <2>3, StartRetireFacts
  <2>5. b[2] = "net"
    <3>1. block[b].holder \in OrgAccount
      BY <2>1 DEF BeginRetire
    <3>2. b[2] \in Kind
      BY <1>2 DEF Block
    <3> QED
      BY <3>1, <3>2, LedgerAssumption DEF SplitInv, MintedTo, AdminAccount, Kind
  <2> QED
    BY <1>1, <2>2, <2>4, <2>5 DEF CallOK, BlockPc, MovingPc, DecidingPc
<1>10. CASE \E units \in Draw : BeginDraw(c, units)
  <2>1. PICK units \in Draw, B \in SUBSET InBuffer :
          Start(c, [Idle EXCEPT !.pc = "draw", !.picked = B])
    BY <1>10 DEF BeginDraw, Draws
  <2> DEFINE t == [Idle EXCEPT !.pc = "draw", !.picked = B]
  <2>2. B \subseteq DOMAIN block
    BY DEF InBuffer
  <2>3. t \in Locals /\ t.pc = "draw" /\ t.block = Null /\ t.picked = B /\ t.events = {}
    BY <1>2, <2>2 DEF Idle, Locals, Pc
  <2>4. Start(c, t)
    BY <2>1
  <2> HIDE DEF t
  <2>5. StepsTo(c) /\ call'[c] = t
    BY <1>1, <2>3, <2>4, StartFacts
  <2> QED
    BY <1>1, <2>2, <2>3, <2>5 DEF CallOK, BlockPc, MovingPc, DecidingPc
<1>11. CASE Transfer(c) \/ Retire(c) \/ Emit(c)
  <2>1. PICK label \in {"emitTransfer", "emitRetirement", "linkTransfer",
                        "linkRetirement"} : Goto(c, label) \/ Done(c)
    BY <1>11 DEF Transfer, Retire, Emit
  <2>2. CASE Goto(c, label)
    <3>1. /\ StepsTo(c) /\ call'[c].pc = label /\ call'[c].block = call[c].block
          /\ call'[c].picked = call[c].picked /\ call'[c].events = call[c].events
      BY <1>1, <2>2, GotoFacts DEF Pc
    <3>2. call[c].block \in DOMAIN block
      BY <1>1, <1>11 DEF Transfer, Retire, Emit, CallOK, BlockPc, MovingPc
    <3> QED
      BY <1>1, <3>1, <3>2 DEF CallOK, BlockPc, MovingPc, DecidingPc
  <2> QED
    BY <1>3, <2>1, <2>2
<1>12. CASE BeginExport(c)
  <2> DEFINE pending == {n \in DOMAIN caEvent : caEvent[n].status = "PENDING_EXPORT"}
             t == [Idle EXCEPT !.pc = "markExported", !.events = pending]
  <2>1. pending \subseteq DOMAIN caEvent /\ DOMAIN caEvent \subseteq Nat
    BY DEF LedgerTypeOK
  <2>2. /\ t \in Locals /\ t.pc = "markExported" /\ t.block = Null /\ t.picked = {}
        /\ t.events = pending
    BY <2>1 DEF Idle, Locals, Pc
  <2>3. Start(c, t) /\ listed' = DOMAIN caEvent
    BY <1>12 DEF BeginExport
  <2> HIDE DEF t
  <2>4. StepsTo(c) /\ call'[c] = t
    BY <1>1, <2>2, <2>3, StartFacts
  <2> QED
    BY <1>1, <2>1, <2>2, <2>3, <2>4 DEF CallOK, BlockPc, MovingPc, DecidingPc
<1>13. CASE BeginRevoke(c)
  <2> DEFINE t == [Idle EXCEPT !.pc = "checkTransfers"]
  <2>1. t \in Locals /\ t.pc = "checkTransfers" /\ t.block = Null /\ t.picked = {} /\ t.events = {}
    BY DEF Idle, Locals, Pc
  <2>2. Start(c, t)
    BY <1>13 DEF BeginRevoke
  <2> HIDE DEF t
  <2>3. StepsTo(c) /\ call'[c] = t
    BY <1>1, <2>1, <2>2, StartFacts
  <2> QED
    BY <1>1, <2>1, <2>3 DEF CallOK, BlockPc, MovingPc, DecidingPc
<1> QED
  BY <1>4, <1>5, <1>6, <1>7, <1>8, <1>9, <1>10, <1>11, <1>12, <1>13 DEF AllActions

LEMMA CallStep ==
    ASSUME LedgerTypeOK, CallInv, SplitInv, [Next]_vars
    PROVE  CallInv'
<1>1. DOMAIN block \subseteq DOMAIN block' /\ listed \subseteq listed'
  BY BlocksStay, EventsStay
<1>2. CASE \E c \in Call : AllActions(c)
  <2>1. PICK c \in Call : AllActions(c)
    BY <1>2
  <2>2. StepsTo(c) /\ CallOK(c)'
    BY <2>1, CallSteps
  <2>3. \A d \in Call \ {c} : CallOK(d)'
    BY <1>1, <2>2, OthersKeep DEF StepsTo
  <2> QED
    BY <2>2, <2>3 DEF CallInv, StepsTo
<1>3. CASE UNCHANGED call
  BY <1>1, <1>3, OthersKeep DEF CallInv
<1> QED
  BY <1>2, <1>3, NextCases DEF CloseActivity, RejectActivity, vars
-----------------------------------------------------------------------------
(* What the writes on the ledger do to its blocks and their rows.           *)
LEMMA BlockTypes ==
    ASSUME LedgerTypeOK
    PROVE  /\ \A b \in DOMAIN block : /\ block[b] \in BlockRow
                                      /\ rows[b] \in Seq(TransactionRow)
                                      /\ b = <<b[1], b[2]>> /\ b[2] \in Kind
                                      /\ b[1] \in Mint
           /\ DOMAIN rows = DOMAIN block
           /\ minted \in Seq(Mint)
  BY DEF LedgerTypeOK, Block

(* A write of a block and of a row of type for it.                          *)
MovesBlock(c, b, type) ==
    /\ b \in DOMAIN block /\ b[2] = "net"
    /\ DOMAIN block' = DOMAIN block /\ DOMAIN rows' = DOMAIN block
    /\ \A other \in DOMAIN block \ {b} : /\ block'[other] = block[other]
                                        /\ rows'[other] = rows[other]
    /\ block'[b] \in BlockRow
    /\ block'[b].units = block[b].units /\ block'[b].holder = call[c].to
    /\ rows'[b] = Append(rows[b], [type |-> type, to |-> call[c].to, linked |-> FALSE])
    /\ minted' = minted

LEMMA TransferFacts ==
    ASSUME LedgerTypeOK, CallInv, NEW c \in Call, Transfer(c),
           NEW b, b = call[c].block
    PROVE  /\ MovesBlock(c, b, "TRANSFER") /\ call[c].to \in Account
           /\ block'[b].status = block[b].status
           /\ block'[b].first = (block[b].first \/ call[c].first)
<1>1. b \in DOMAIN block /\ b[2] = "net" /\ call[c].to \in Account
      /\ call[c].first \in BOOLEAN
  BY DEF CallInv, CallOK, BlockPc, MovingPc, Transfer, Locals
<1>2. block[b] \in BlockRow /\ DOMAIN rows = DOMAIN block
  BY <1>1, BlockTypes
<1> DEFINE new == [block[b] EXCEPT !.holder = call[c].to,
                                   !.first = block[b].first \/ call[c].first]
<1>3. block' = [block EXCEPT ![b] = new]
  BY <1>1 DEF Transfer
<1>4. /\ new \in BlockRow /\ new.units = block[b].units /\ new.status = block[b].status
      /\ new.holder = call[c].to /\ new.first = (block[b].first \/ call[c].first)
  BY <1>1, <1>2 DEF BlockRow
<1>5. /\ rows' = [rows EXCEPT ![b] = Append(rows[b],
                    [type |-> "TRANSFER", to |-> call[c].to, linked |-> FALSE])]
      /\ minted' = minted
  BY DEF Transfer
<1> HIDE DEF new
<1>6. /\ DOMAIN block' = DOMAIN block /\ block'[b] = new
      /\ \A other \in DOMAIN block \ {b} : block'[other] = block[other]
  BY <1>1, <1>3
<1> QED
  BY <1>1, <1>2, <1>4, <1>5, <1>6 DEF MovesBlock

LEMMA RetireFacts ==
    ASSUME LedgerTypeOK, CallInv, NEW c \in Call, Retire(c),
           NEW b, b = call[c].block
    PROVE  /\ MovesBlock(c, b, "RETIREMENT") /\ call[c].to \in Purpose
           /\ block'[b].status = call[c].to
           /\ block'[b].first = block[b].first
<1>1. b \in DOMAIN block /\ b[2] = "net" /\ call[c].to \in Purpose
  BY DEF CallInv, CallOK, BlockPc, MovingPc, Retire
<1>2. block[b] \in BlockRow /\ DOMAIN rows = DOMAIN block
  BY <1>1, BlockTypes
<1> DEFINE new == [block[b] EXCEPT !.holder = call[c].to, !.status = call[c].to]
<1>3. block' = [block EXCEPT ![b] = new]
  BY <1>1 DEF Retire
<1>4. /\ new \in BlockRow /\ new.units = block[b].units /\ new.status = call[c].to
      /\ new.holder = call[c].to /\ new.first = block[b].first
  BY <1>1, <1>2 DEF BlockRow, RetirementStatus, Account, RetirementAccount
<1>5. /\ rows' = [rows EXCEPT ![b] = Append(rows[b],
                    [type |-> "RETIREMENT", to |-> call[c].to, linked |-> FALSE])]
      /\ minted' = minted
  BY DEF Retire
<1> HIDE DEF new
<1>6. /\ DOMAIN block' = DOMAIN block /\ block'[b] = new
      /\ \A other \in DOMAIN block \ {b} : block'[other] = block[other]
  BY <1>1, <1>3
<1> QED
  BY <1>1, <1>2, <1>4, <1>5, <1>6 DEF MovesBlock

LEMMA CancelFacts ==
    ASSUME LedgerTypeOK, CallInv, NEW c \in Call, CancelDrawn(c)
    PROVE  /\ DOMAIN block' = DOMAIN block /\ DOMAIN rows' = DOMAIN block
           /\ minted' = minted
           /\ \A b \in DOMAIN block :
                 /\ block'[b] \in BlockRow
                 /\ block'[b].units = block[b].units
                 /\ block'[b].holder = block[b].holder
                 /\ block'[b].first = block[b].first
                 /\ block'[b].status \in {block[b].status, "CANCELLED_REVERSAL"}
                 /\ \/ rows'[b] = rows[b]
                    \/ rows'[b] = Append(rows[b], [type |-> "REVERSAL_DRAW",
                                                   to |-> "REVERSAL_BUFFER",
                                                   linked |-> FALSE])
<1>1. /\ DOMAIN block' = DOMAIN block /\ DOMAIN rows' = DOMAIN block /\ minted' = minted
      /\ \A b \in DOMAIN block :
            \/ rows'[b] = rows[b]
            \/ rows'[b] = Append(rows[b], [type |-> "REVERSAL_DRAW",
                                           to |-> "REVERSAL_BUFFER", linked |-> FALSE])
  BY DEF CancelDrawn
<1>2. ASSUME NEW b \in DOMAIN block
      PROVE  /\ block'[b] \in BlockRow
             /\ block'[b].units = block[b].units
             /\ block'[b].holder = block[b].holder
             /\ block'[b].first = block[b].first
             /\ block'[b].status \in {block[b].status, "CANCELLED_REVERSAL"}
  <2> DEFINE new == [block[b] EXCEPT !.status = "CANCELLED_REVERSAL"]
  <2>1. block[b] \in BlockRow
    BY BlockTypes
  <2>2. /\ new \in BlockRow /\ new.units = block[b].units
        /\ new.holder = block[b].holder /\ new.first = block[b].first
        /\ new.status = "CANCELLED_REVERSAL"
    BY <2>1 DEF BlockRow, RetirementStatus
  <2>3. block'[b] = new \/ block'[b] = block[b]
    BY DEF CancelDrawn
  <2> HIDE DEF new
  <2> QED
    BY <2>1, <2>2, <2>3
<1> QED
  BY <1>1, <1>2

(* Linking changes no more than the links.                                  *)
LEMMA LinkFacts ==
    ASSUME LedgerTypeOK, CallInv, NEW c \in Call, Link(c)
    PROVE  /\ block' = block /\ minted' = minted /\ DOMAIN rows' = DOMAIN block
           /\ \A b \in DOMAIN block :
                 /\ rows'[b] \in Seq(TransactionRow)
                 /\ DOMAIN rows'[b] = DOMAIN rows[b]
                 /\ \A n \in DOMAIN rows[b] : /\ rows'[b][n].type = rows[b][n].type
                                              /\ rows'[b][n].to = rows[b][n].to
<1> DEFINE type == IF call[c].pc = "linkTransfer" THEN "TRANSFER" ELSE "RETIREMENT"
           target == call[c].block
           linked(b) == [n \in DOMAIN rows[b] |->
                           IF rows[b][n].type = type
                           THEN [rows[b][n] EXCEPT !.linked = TRUE] ELSE rows[b][n]]
<1>1. target \in DOMAIN block /\ DOMAIN rows = DOMAIN block
  BY BlockTypes DEF CallInv, CallOK, BlockPc, MovingPc, Link
<1>2. rows' = [rows EXCEPT ![target] = linked(target)] /\ block' = block /\ minted' = minted
  BY DEF Link
<1>3. ASSUME NEW b \in DOMAIN block
      PROVE  /\ linked(b) \in Seq(TransactionRow)
             /\ DOMAIN linked(b) = DOMAIN rows[b]
             /\ \A n \in DOMAIN rows[b] : /\ linked(b)[n].type = rows[b][n].type
                                          /\ linked(b)[n].to = rows[b][n].to
  <2>1. rows[b] \in Seq(TransactionRow)
    BY BlockTypes
  <2>2. \A row \in TransactionRow :
           LET set == [row EXCEPT !.linked = TRUE] IN
           set \in TransactionRow /\ set.type = row.type /\ set.to = row.to
    BY DEF TransactionRow
  <2>3. \A n \in DOMAIN rows[b] : rows[b][n] \in TransactionRow
    BY <2>1
  <2>4. DOMAIN rows[b] = 1..Len(rows[b]) /\ Len(rows[b]) \in Nat
    BY <2>1
  <2>5. linked(b) \in [1..Len(rows[b]) -> TransactionRow]
    BY <2>2, <2>3, <2>4
  <2>6. linked(b) \in Seq(TransactionRow)
    BY <2>4, <2>5
  <2> QED
    BY <2>2, <2>3, <2>6
<1>4. \A b \in DOMAIN block : rows[b] \in Seq(TransactionRow)
  BY BlockTypes
<1> HIDE DEF linked, target
<1> QED
  BY <1>1, <1>2, <1>3, <1>4

LEMMA NewBlockFacts ==
    ASSUME NEW kind \in Kind, NEW units \in Nat
    PROVE  LET new == NewBlock(kind, units) IN
           /\ new \in BlockRow /\ new.units = units /\ new.holder = MintedTo(kind)
           /\ new.first = FALSE
           /\ new.status \in {"ACTIVE", "CANCELLED_SOP", "CANCELLED_OMGE"}
<1>1. "participant" \in OrgAccount
  BY LedgerAssumption
<1> QED
  BY <1>1 DEF NewBlock, MintedTo, BlockRow, Kind, Account, AdminAccount, RetirementStatus

(* The blocks an approval of i by c mints.                                  *)
Minting(i, c) == {b \in {<<i, c>>} \X Kind : UnitsOf(b[2], verifiedEr[i]) > 0}

(* What that does to the ledger.                                            *)
Mints(i, c) ==
    /\ i \in Issuance /\ verifiedEr[i] \in Nat
    /\ Minting(i, c) \subseteq Block
    /\ DOMAIN block' = DOMAIN block \cup Minting(i, c)
    /\ DOMAIN rows' = DOMAIN block'
    /\ \A b \in DOMAIN block \ Minting(i, c) : block'[b] = block[b] /\ rows'[b] = rows[b]
    /\ \A b \in Minting(i, c) :
          /\ b[1] = <<i, c>> /\ b[2] \in Kind
          /\ rows'[b] = <<>>
          /\ block'[b] \in BlockRow
          /\ block'[b].units = UnitsOf(b[2], verifiedEr[i])
          /\ block'[b].holder = MintedTo(b[2])
          /\ block'[b].first = FALSE
          /\ block'[b].status \in {"ACTIVE", "CANCELLED_SOP", "CANCELLED_OMGE"}
    /\ minted' = Append(minted, <<i, c>>)
    /\ <<i, c>> \in Mint
    /\ issuanceStatus' = [issuanceStatus EXCEPT ![i] = "ISSUED"]
    /\ periodStatus' = [periodStatus EXCEPT ![i] = "ISSUED"]

LEMMA MintFacts ==
    ASSUME LedgerTypeOK, CallInv, NEW c \in Call, MintBlocks(c),
           NEW i, i = call[c].issuance
    PROVE  Mints(i, c)
<1> DEFINE Units(kind) == UnitsOf(kind, verifiedEr[i])
<1>1. i \in Issuance
  BY DEF CallInv, CallOK, DecidingPc, MintBlocks
<1>2. verifiedEr[i] \in Nat /\ isRemoval \in BOOLEAN
  BY <1>1, LedgerAssumption DEF LedgerTypeOK
<1>3. \A kind \in Kind : Units(kind) \in Nat
  BY <1>2, SplitFacts
<1>4. /\ block' = [b \in DOMAIN block \cup Minting(i, c) |->
                     IF b \in Minting(i, c) THEN NewBlock(b[2], Units(b[2])) ELSE block[b]]
      /\ rows' = [b \in DOMAIN block \cup Minting(i, c) |-> IF b \in Minting(i, c) THEN <<>> ELSE rows[b]]
      /\ minted' = Append(minted, <<i, c>>)
      /\ issuanceStatus' = [issuanceStatus EXCEPT ![i] = "ISSUED"]
      /\ periodStatus' = [periodStatus EXCEPT ![i] = "ISSUED"]
  BY DEF MintBlocks, Minting
<1>5. Minting(i, c) \subseteq Block /\ <<i, c>> \in Mint
  BY <1>1 DEF Block, Mint, Minting
<1> HIDE DEF Units
<1>6. ASSUME NEW b \in Minting(i, c)
      PROVE  LET row == NewBlock(b[2], Units(b[2])) IN
             /\ b[1] = <<i, c>> /\ b[2] \in Kind
             /\ row \in BlockRow /\ row.units = Units(b[2])
             /\ row.holder = MintedTo(b[2]) /\ row.first = FALSE
             /\ row.status \in {"ACTIVE", "CANCELLED_SOP", "CANCELLED_OMGE"}
  <2>1. b[1] = <<i, c>> /\ b[2] \in Kind /\ Units(b[2]) \in Nat
    BY <1>3 DEF Minting
  <2>2. ASSUME NEW kind \in Kind, NEW units \in Nat, kind = b[2], units = Units(b[2])
        PROVE  LET row == NewBlock(kind, units) IN
               /\ row \in BlockRow /\ row.units = units
               /\ row.holder = MintedTo(kind) /\ row.first = FALSE
               /\ row.status \in {"ACTIVE", "CANCELLED_SOP", "CANCELLED_OMGE"}
    BY NewBlockFacts
  <2> QED
    BY <2>1, <2>2
<1>7. /\ DOMAIN block' = DOMAIN block \cup Minting(i, c) /\ DOMAIN rows' = DOMAIN block'
      /\ \A b \in DOMAIN block \ Minting(i, c) : block'[b] = block[b] /\ rows'[b] = rows[b]
      /\ \A b \in Minting(i, c) : block'[b] = NewBlock(b[2], Units(b[2])) /\ rows'[b] = <<>>
  BY <1>4
<1> QED
  BY <1>1, <1>2, <1>4, <1>5, <1>6, <1>7 DEF Units, Mints
-----------------------------------------------------------------------------
(* Types.                                                                   *)
LEMMA ActivityTypes ==
    ASSUME LedgerTypeOK, [Next]_vars
    PROVE  /\ activityStatus' \in {"REGISTERED", "ISSUING", "CLOSED", "REJECTED"}
           /\ loa' \in {"ISSUED", "REVOKED"}
<1>1. /\ activityStatus \in {"REGISTERED", "ISSUING", "CLOSED", "REJECTED"}
      /\ loa \in {"ISSUED", "REVOKED"}
  BY DEF LedgerTypeOK
<1>2. ASSUME NEW c \in Call, AllActions(c)
      PROVE  activityStatus' \in {activityStatus, "ISSUING"} /\ loa' \in {loa, "REVOKED"}
  BY <1>2 DEF AllActions, BeginRequest, BeginApprove, BeginReject, CreateIssuance,
     MintBlocks, MarkIssuing, WriteIssuing, WriteReject, BeginTransfer, BeginRetire,
     BeginDraw, Transfer, Retire, CancelDrawn, Emit, Link, BeginExport, MarkExported,
     BeginRevoke, CheckTransfers, WriteRevoked, Drop, activityVars
<1> QED
  BY <1>1, <1>2, NextCases DEF CloseActivity, RejectActivity, vars, activityVars

LEMMA IssuanceTypes ==
    ASSUME LedgerTypeOK, CallInv, [Next]_vars
    PROVE  /\ periodStatus' \in [Issuance -> {"VERIFIED", "ISSUED"}]
           /\ issuanceStatus' \in [Issuance -> {"none", "REQUESTED", "ISSUED", "REJECTED"}]
<1>1. /\ periodStatus \in [Issuance -> {"VERIFIED", "ISSUED"}]
      /\ issuanceStatus \in [Issuance -> {"none", "REQUESTED", "ISSUED", "REJECTED"}]
  BY DEF LedgerTypeOK
<1>2. ASSUME NEW c \in Call, MintBlocks(c)
      PROVE  \E i \in Issuance :
                /\ issuanceStatus' = [issuanceStatus EXCEPT ![i] = "ISSUED"]
                /\ periodStatus' = [periodStatus EXCEPT ![i] = "ISSUED"]
  BY <1>2 DEF MintBlocks, CallInv, CallOK, DecidingPc
<1>3. ASSUME NEW c \in Call, CreateIssuance(c) \/ WriteReject(c)
      PROVE  /\ periodStatus' = periodStatus
             /\ \/ issuanceStatus' = issuanceStatus
                \/ \E i \in Issuance, s \in {"REQUESTED", "REJECTED"} :
                      issuanceStatus' = [issuanceStatus EXCEPT ![i] = s]
  BY <1>3 DEF CreateIssuance, WriteReject, CallInv, CallOK, DecidingPc
<1> QED
  BY <1>1, <1>2, <1>3, IssuanceEffects DEF issuanceVars

LEMMA BlockTypeStep ==
    ASSUME LedgerTypeOK, CallInv, [Next]_vars
    PROVE  /\ minted' \in Seq(Mint)
           /\ DOMAIN block' \subseteq Block
           /\ \A b \in DOMAIN block' : block'[b] \in BlockRow
           /\ rows' \in [DOMAIN block' -> Seq(TransactionRow)]
<1> DEFINE Typed ==
      /\ minted' \in Seq(Mint)
      /\ DOMAIN block' \subseteq Block
      /\ \A b \in DOMAIN block' : block'[b] \in BlockRow
      /\ rows' \in [DOMAIN block' -> Seq(TransactionRow)]
<1>1. /\ minted \in Seq(Mint) /\ DOMAIN block \subseteq Block
      /\ \A b \in DOMAIN block : block[b] \in BlockRow
      /\ rows \in [DOMAIN block -> Seq(TransactionRow)]
  BY DEF LedgerTypeOK
<1>2. ASSUME NEW c \in Call, MintBlocks(c) PROVE Typed
  <2>1. PICK i : i = call[c].issuance
    OBVIOUS
  <2>0. Mints(i, c)
    BY <1>2, <2>1, MintFacts
  <2>2. /\ Minting(i, c) \subseteq Block
        /\ DOMAIN block' = DOMAIN block \cup Minting(i, c)
        /\ DOMAIN rows' = DOMAIN block'
        /\ \A b \in DOMAIN block \ Minting(i, c) :
              block'[b] = block[b] /\ rows'[b] = rows[b]
        /\ \A b \in Minting(i, c) : rows'[b] = <<>> /\ block'[b] \in BlockRow
        /\ minted' = Append(minted, <<i, c>>) /\ <<i, c>> \in Mint
    BY <2>0 DEF Mints
  <2>3. minted' \in Seq(Mint)
    BY <1>1, <2>2
  <2>4. \A b \in DOMAIN block' : block'[b] \in BlockRow /\ rows'[b] \in Seq(TransactionRow)
    <3>1. <<>> \in Seq(TransactionRow)
      OBVIOUS
    <3>2. ASSUME NEW b \in DOMAIN block \ Minting(i, c)
          PROVE  block'[b] \in BlockRow /\ rows'[b] \in Seq(TransactionRow)
      BY <1>1, <2>2
    <3>3. ASSUME NEW b \in Minting(i, c)
          PROVE  block'[b] \in BlockRow /\ rows'[b] \in Seq(TransactionRow)
      BY <2>2, <3>1
    <3> QED
      BY <2>2, <3>2, <3>3
  <2>5. rows' = [b \in DOMAIN rows' |-> rows'[b]]
    BY <1>2 DEF MintBlocks
  <2> QED
    BY <1>1, <2>2, <2>3, <2>4, <2>5
<1>3. ASSUME NEW c \in Call, Transfer(c) \/ Retire(c) PROVE Typed
  <2>1. PICK b : b = call[c].block
    OBVIOUS
  <2>2. PICK type \in {"TRANSFER", "RETIREMENT"}, to \in Account :
          /\ DOMAIN block' = DOMAIN block /\ DOMAIN rows' = DOMAIN block
          /\ b \in DOMAIN block /\ block'[b] \in BlockRow
          /\ \A other \in DOMAIN block \ {b} : /\ block'[other] = block[other]
                                              /\ rows'[other] = rows[other]
          /\ rows'[b] = Append(rows[b], [type |-> type, to |-> to, linked |-> FALSE])
          /\ minted' = minted
    <3>1. ASSUME Transfer(c) PROVE MovesBlock(c, b, "TRANSFER") /\ call[c].to \in Account
      BY <2>1, <3>1, TransferFacts
    <3>2. ASSUME Retire(c) PROVE MovesBlock(c, b, "RETIREMENT") /\ call[c].to \in Account
      BY <2>1, <3>2, RetireFacts DEF Account, RetirementAccount
    <3> QED
      BY <1>3, <3>1, <3>2 DEF MovesBlock
  <2>3. [type |-> type, to |-> to, linked |-> FALSE] \in TransactionRow
    BY <2>2 DEF TransactionRow
  <2>4. \A x \in DOMAIN block' : block'[x] \in BlockRow /\ rows'[x] \in Seq(TransactionRow)
    <3>1. rows[b] \in Seq(TransactionRow)
      BY <1>1, <2>2
    <3>2. rows'[b] \in Seq(TransactionRow)
      BY <2>2, <2>3, <3>1
    <3> QED
      BY <1>1, <2>2, <3>2
  <2>5. rows' = [x \in DOMAIN rows' |-> rows'[x]]
    BY <1>1, <1>3 DEF Transfer, Retire
  <2> QED
    BY <1>1, <2>2, <2>4, <2>5
<1>4. ASSUME NEW c \in Call, CancelDrawn(c) PROVE Typed
  <2> DEFINE drawn == [type |-> "REVERSAL_DRAW", to |-> "REVERSAL_BUFFER", linked |-> FALSE]
  <2>1. drawn \in TransactionRow
    BY DEF TransactionRow, Account, AdminAccount
  <2>2. /\ DOMAIN block' = DOMAIN block /\ DOMAIN rows' = DOMAIN block /\ minted' = minted
        /\ \A b \in DOMAIN block : /\ block'[b] \in BlockRow
                                   /\ rows'[b] \in {rows[b], Append(rows[b], drawn)}
    BY <1>4, CancelFacts
  <2> HIDE DEF drawn
  <2>3. \A b \in DOMAIN block' : rows'[b] \in Seq(TransactionRow)
    BY <1>1, <2>1, <2>2
  <2>4. rows' = [b \in DOMAIN rows' |-> rows'[b]]
    BY <1>4 DEF CancelDrawn
  <2> QED
    BY <1>1, <2>2, <2>3, <2>4
<1>5. ASSUME NEW c \in Call, Link(c) PROVE Typed
  <2>1. /\ block' = block /\ minted' = minted /\ DOMAIN rows' = DOMAIN block
        /\ \A b \in DOMAIN block : rows'[b] \in Seq(TransactionRow)
    BY <1>5, LinkFacts
  <2>2. rows' = [b \in DOMAIN rows' |-> rows'[b]]
    BY <1>1, <1>5 DEF Link
  <2> QED
    BY <1>1, <2>1, <2>2
<1>6. ASSUME UNCHANGED ledgerVars PROVE Typed
  BY <1>1, <1>6 DEF ledgerVars
<1> HIDE DEF Typed
<1>7. Typed
  BY <1>2, <1>3, <1>4, <1>5, <1>6, LedgerEffects
<1> QED
  BY <1>7 DEF Typed

LEMMA CaTypes ==
    ASSUME LedgerTypeOK, CallInv, [Next]_vars
    PROVE  /\ caEvent' \in Seq([block : Block, status : {"PENDING_EXPORT", "EXPORTED"}])
           /\ listed' \subseteq DOMAIN caEvent'
<1> DEFINE Event == [block : Block, status : {"PENDING_EXPORT", "EXPORTED"}]
<1>1. caEvent \in Seq(Event) /\ listed \subseteq DOMAIN caEvent
  BY DEF LedgerTypeOK
<1>2. DOMAIN block \subseteq Block
  BY DEF LedgerTypeOK
<1>3. ASSUME NEW c \in Call, Emit(c)
      PROVE  caEvent' \in Seq(Event) /\ listed' \subseteq DOMAIN caEvent'
  <2> DEFINE e == [block |-> call[c].block, status |-> "PENDING_EXPORT"]
  <2>1. e \in Event
    BY <1>2, <1>3 DEF Emit, CallInv, CallOK, BlockPc
  <2>2. caEvent' = Append(caEvent, e) /\ listed' = listed
    BY <1>3 DEF Emit
  <2> HIDE DEF e, Event
  <2>3. caEvent' \in Seq(Event) /\ DOMAIN caEvent \subseteq DOMAIN caEvent'
    BY <1>1, <2>1, <2>2
  <2> QED
    BY <1>1, <2>2, <2>3
<1>4. ASSUME NEW c \in Call, BeginExport(c)
      PROVE  caEvent' \in Seq(Event) /\ listed' \subseteq DOMAIN caEvent'
  BY <1>1, <1>4 DEF BeginExport
<1>5. ASSUME NEW c \in Call, MarkExported(c)
      PROVE  caEvent' \in Seq(Event) /\ listed' \subseteq DOMAIN caEvent'
  <2> DEFINE mark(n) == IF n \in call[c].events
                        THEN [caEvent[n] EXCEPT !.status = "EXPORTED"] ELSE caEvent[n]
  <2>1. caEvent' = [n \in DOMAIN caEvent |-> mark(n)] /\ listed' = listed
    BY <1>5 DEF MarkExported
  <2>2. \A e \in Event : [e EXCEPT !.status = "EXPORTED"] \in Event
    OBVIOUS
  <2> HIDE DEF Event
  <2>3. DOMAIN caEvent = 1..Len(caEvent) /\ Len(caEvent) \in Nat
        /\ \A n \in DOMAIN caEvent : caEvent[n] \in Event
    BY <1>1
  <2>4. \A n \in DOMAIN caEvent : mark(n) \in Event
    BY <2>2, <2>3
  <2> HIDE DEF mark
  <2>5. caEvent' \in Seq(Event) /\ DOMAIN caEvent' = DOMAIN caEvent
    BY <2>1, <2>3, <2>4
  <2> QED
    BY <1>1, <2>1, <2>5
<1>6. ASSUME UNCHANGED caVars
      PROVE  caEvent' \in Seq(Event) /\ listed' \subseteq DOMAIN caEvent'
  BY <1>1, <1>6 DEF caVars
<1> HIDE DEF Event
<1>7. caEvent' \in Seq(Event) /\ listed' \subseteq DOMAIN caEvent'
  BY <1>3, <1>4, <1>5, <1>6, CaEffects
<1> QED
  BY <1>7 DEF Event

LEMMA HistoryTypes ==
    ASSUME LedgerTypeOK, CallInv, [Next]_vars
    PROVE  dropped' \subseteq DOMAIN block' /\ raced' \subseteq Issuance
<1>1. dropped \subseteq DOMAIN block /\ raced \subseteq Issuance
  BY DEF LedgerTypeOK
<1>2. DOMAIN block \subseteq DOMAIN block'
  BY BlocksStay
<1>3. ASSUME NEW c \in Call, Drop(c)
      PROVE  dropped' \subseteq DOMAIN block' /\ raced' \subseteq Issuance
  BY <1>1, <1>2, <1>3 DEF Drop, CallInv, CallOK, BlockPc
<1>4. ASSUME NEW c \in Call, NEW i \in Issuance, BeginApprove(c, i) \/ BeginReject(c, i)
      PROVE  dropped' \subseteq DOMAIN block' /\ raced' \subseteq Issuance
  BY <1>1, <1>2, <1>4 DEF BeginApprove, BeginReject, NoteRace
<1> QED
  BY <1>1, <1>2, <1>3, <1>4, HistoryEffects DEF history

LEMMA LedgerTypeStep ==
    ASSUME LedgerTypeOK, CallInv, SplitInv, [Next]_vars
    PROVE  LedgerTypeOK'
<1>1. CallInv'
  BY CallStep
<1>2. /\ minted' \in Seq(Mint)
      /\ DOMAIN block' \subseteq Block
      /\ \A b \in DOMAIN block' : block'[b] \in BlockRow
      /\ rows' \in [DOMAIN block' -> Seq(TransactionRow)]
  BY BlockTypeStep
<1>3. /\ caEvent' \in Seq([block : Block, status : {"PENDING_EXPORT", "EXPORTED"}])
      /\ listed' \subseteq DOMAIN caEvent'
  BY CaTypes
<1>4. ASSUME NEW c \in Call
      PROVE  /\ call'[c].pc \in Pc
             /\ call'[c].block \in DOMAIN block' \cup {Null}
             /\ call'[c].issuance \in Issuance \cup {Null}
             /\ call'[c].to \in Account \cup {Null}
             /\ call'[c].first \in BOOLEAN
             /\ call'[c].picked \subseteq DOMAIN block'
             /\ call'[c].events \subseteq DOMAIN caEvent'
  BY <1>1, <1>3 DEF CallInv, CallOK, Locals
<1>5. /\ authorizedFor' \in Scope /\ isRemoval' \in BOOLEAN
      /\ verifiedEr' \in [Issuance -> Gross]
  BY ActivityEffects DEF LedgerTypeOK
<1> QED
  BY <1>2, <1>3, <1>4, <1>5, ActivityTypes, IssuanceTypes, HistoryTypes DEF LedgerTypeOK
-----------------------------------------------------------------------------
(* Who decides on an issuance: a call at one of these labels has just read  *)
(* it REQUESTED or was there already, and a call that writes leaves them.   *)
LEMMA DecidingSteps ==
    ASSUME LedgerTypeOK, CallInv, SplitInv, [Next]_vars,
           NEW c \in Call, call'[c].pc \in DecidingPc
    PROVE  \/ call'[c] = call[c]
           \/ \E i \in Issuance : /\ BeginApprove(c, i) \/ BeginReject(c, i)
                                  /\ call'[c].issuance = i
<1>1. call \in [Call -> Locals]
  BY DEF CallInv
<1>2. ASSUME NEW d \in Call \ {c}, AllActions(d) PROVE call'[c] = call[c]
  BY <1>2, CallSteps DEF StepsTo
<1>3. ASSUME AllActions(c)
      PROVE  \E i \in Issuance : /\ BeginApprove(c, i) \/ BeginReject(c, i)
                                 /\ call'[c].issuance = i
  <2>1. CASE \E i \in Issuance : BeginApprove(c, i) \/ BeginReject(c, i)
    <3>1. PICK i \in Issuance : BeginApprove(c, i) \/ BeginReject(c, i)
      BY <2>1
    <3>2. PICK label \in {"mint", "writeReject"} :
            Start(c, [Idle EXCEPT !.pc = label, !.issuance = i])
      BY <3>1 DEF BeginApprove, BeginReject
    <3>3. call'[c].issuance = i
      BY <1>1, <3>2, StartIssuanceFacts DEF Pc
    <3> QED
      BY <3>1, <3>3
  <2>2. ASSUME Done(c) PROVE FALSE
    BY <1>1, <2>2, DoneFacts DEF Idle, DecidingPc
  <2>3. ASSUME NEW label \in Pc \ DecidingPc, Goto(c, label) PROVE FALSE
    BY <1>1, <2>3, GotoFacts
  <2>4. CASE \E i \in Issuance : BeginRequest(c, i)
    BY <1>1, <2>4, StartIssuanceFacts DEF BeginRequest, Pc, DecidingPc
  <2>5. CASE CreateIssuance(c) \/ WriteIssuing(c) \/ WriteReject(c) \/ CancelDrawn(c)
          \/ Link(c) \/ MarkExported(c) \/ WriteRevoked(c) \/ Drop(c)
    BY <2>2, <2>5 DEF CreateIssuance, WriteIssuing, WriteReject, CancelDrawn, Link,
       MarkExported, WriteRevoked, Drop
  <2>6. CASE MintBlocks(c) \/ MarkIssuing(c) \/ Transfer(c) \/ Retire(c) \/ Emit(c)
          \/ CheckTransfers(c)
    <3>1. PICK label \in {"markIssuing", "writeIssuing", "emitTransfer", "emitRetirement",
                          "linkTransfer", "linkRetirement", "writeRevoked"} :
            Goto(c, label) \/ Done(c)
      BY <2>6 DEF MintBlocks, MarkIssuing, Transfer, Retire, Emit, CheckTransfers
    <3>2. label \in Pc \ DecidingPc
      BY <3>1 DEF Pc, DecidingPc
    <3> QED
      BY <2>2, <2>3, <3>1, <3>2
  <2>7. CASE \/ \E b \in DOMAIN block, to \in Target : BeginTransfer(c, b, to)
             \/ \E b \in DOMAIN block, purpose \in Purpose : BeginRetire(c, b, purpose)
             \/ \E units \in Draw : BeginDraw(c, units)
             \/ BeginExport(c) \/ BeginRevoke(c)
    <3>1. \E t : t.pc \notin DecidingPc /\ Start(c, t)
      BY <2>7 DEF BeginTransfer, BeginRetire, BeginDraw, BeginExport, BeginRevoke, Idle,
         DecidingPc
    <3> QED
      BY <1>1, <3>1 DEF Start
  <2> QED
    BY <1>3, <2>1, <2>4, <2>5, <2>6, <2>7 DEF AllActions
<1>4. CASE UNCHANGED call
  BY <1>4
<1> QED
  BY <1>2, <1>3, <1>4, NextCases DEF CloseActivity, RejectActivity, vars

LEMMA LeavesDeciding ==
    ASSUME CallInv, NEW c \in Call, MintBlocks(c) \/ WriteReject(c)
    PROVE  call'[c].pc \notin DecidingPc
<1>1. CASE MintBlocks(c)
  <2>1. Goto(c, "markIssuing") /\ "markIssuing" \in Pc
    BY <1>1 DEF MintBlocks, Pc
  <2> QED
    BY <2>1, GotoFacts DEF CallInv, DecidingPc
<1>2. CASE WriteReject(c)
  BY <1>2, DoneFacts DEF WriteReject, CallInv, Idle, DecidingPc
<1> QED
  BY <1>1, <1>2

(* A step mints at most once, and decides on at most one issuance.          *)
LEMMA MintedGrows ==
    ASSUME LedgerTypeOK, CallInv, [Next]_vars
    PROVE  \/ minted' = minted
           \/ \E c \in Call : MintBlocks(c)
  BY LedgerEffects DEF ledgerVars, Transfer, Retire, CancelDrawn, Link

LEMMA StatusChanges ==
    ASSUME LedgerTypeOK, CallInv, [Next]_vars, NEW i \in Issuance
    PROVE  \/ issuanceStatus'[i] = issuanceStatus[i]
           \/ issuanceStatus[i] = "none" /\ issuanceStatus'[i] = "REQUESTED"
           \/ \E c \in Call : MintBlocks(c) /\ call[c].issuance = i
                              /\ issuanceStatus'[i] = "ISSUED"
           \/ \E c \in Call : WriteReject(c) /\ call[c].issuance = i
                              /\ issuanceStatus'[i] = "REJECTED"
<1>1. issuanceStatus \in [Issuance -> {"none", "REQUESTED", "ISSUED", "REJECTED"}]
  BY DEF LedgerTypeOK
<1> QED
  BY <1>1, IssuanceEffects DEF issuanceVars, CreateIssuance, MintBlocks, WriteReject

LEMMA FreshStep ==
    ASSUME LedgerTypeOK, CallInv, SplitInv, FreshInv, [Next]_vars
    PROVE  FreshInv'
<1>1. minted \in Seq(Mint)
  BY DEF LedgerTypeOK
<1>2. ASSUME NEW c \in Call, MintBlocks(c)
      PROVE  \E i \in Issuance :
                /\ i = call[c].issuance
                /\ minted' = Append(minted, <<i, c>>) /\ <<i, c>> \in Mint
                /\ DOMAIN block' = DOMAIN block \cup Minting(i, c)
                /\ issuanceStatus'[i] = "ISSUED"
  <2>1. PICK i : i = call[c].issuance
    OBVIOUS
  <2>2. Mints(i, c)
    BY <1>2, <2>1, MintFacts
  <2>3. issuanceStatus \in [Issuance -> {"none", "REQUESTED", "ISSUED", "REJECTED"}]
    BY DEF LedgerTypeOK
  <2> QED
    BY <2>1, <2>2, <2>3 DEF Mints
<1>3. ASSUME NEW n \in DOMAIN minted'
      PROVE  issuanceStatus'[minted'[n][1]] \in {"ISSUED", "REJECTED"}
  <2>1. ASSUME NEW m \in DOMAIN minted
        PROVE  issuanceStatus'[minted[m][1]] \in {"ISSUED", "REJECTED"}
    <3>1. PICK i \in Issuance : i = minted[m][1]
      BY <1>1 DEF Mint
    <3>2. issuanceStatus[i] \in {"ISSUED", "REJECTED"}
      BY <3>1 DEF FreshInv
    <3>3. issuanceStatus'[i] \in {"ISSUED", "REJECTED"}
      BY <3>2, StatusChanges
    <3> QED
      BY <3>1, <3>3
  <2>2. CASE minted' = minted
    BY <2>1, <2>2
  <2>3. CASE \E c \in Call : MintBlocks(c)
    <3>1. PICK c \in Call, i \in Issuance : /\ minted' = Append(minted, <<i, c>>)
                                            /\ issuanceStatus'[i] = "ISSUED"
      BY <1>2, <2>3
    <3>2. (n \in DOMAIN minted /\ minted'[n] = minted[n]) \/ minted'[n] = <<i, c>>
      BY <1>1, <3>1
    <3> QED
      BY <2>1, <3>1, <3>2
  <2> QED
    BY <2>2, <2>3, MintedGrows
<1>4. ASSUME NEW c \in Call, call'[c].pc = "mint", NEW n \in DOMAIN minted'
      PROVE  minted'[n] # <<call'[c].issuance, c>>
  <2>1. CASE call'[c] = call[c]
    <3>1. \A m \in DOMAIN minted : minted[m] # <<call[c].issuance, c>>
      BY <1>4, <2>1 DEF FreshInv
    <3>2. CASE \E d \in Call : MintBlocks(d)
      <4>1. PICK d \in Call, i \in Issuance :
              minted' = Append(minted, <<i, d>>) /\ MintBlocks(d)
        BY <1>2, <3>2
      <4>2. d # c
        BY <1>4, <4>1, LeavesDeciding DEF DecidingPc
      <4>3. (n \in DOMAIN minted /\ minted'[n] = minted[n]) \/ minted'[n] = <<i, d>>
        BY <1>1, <4>1
      <4> QED
        BY <2>1, <3>1, <4>2, <4>3
    <3> QED
      BY <1>4, <2>1, <3>1, <3>2, MintedGrows
  <2>2. CASE \E i \in Issuance : /\ BeginApprove(c, i) \/ BeginReject(c, i)
                                 /\ call'[c].issuance = i
    <3>1. PICK i \in Issuance : /\ BeginApprove(c, i) \/ BeginReject(c, i)
                                /\ call'[c].issuance = i
      BY <2>2
    <3>2. issuanceStatus[i] = "REQUESTED" /\ minted' = minted
      BY <3>1 DEF BeginApprove, BeginReject, ledgerVars
    <3> QED
      BY <1>4, <3>1, <3>2 DEF FreshInv
  <2> QED
    BY <1>4, <2>1, <2>2, DecidingSteps DEF DecidingPc
<1>5. ASSUME NEW b \in DOMAIN block'
      PROVE  \E n \in DOMAIN minted' : minted'[n] = b[1]
  <2>1. CASE \E c \in Call : MintBlocks(c)
    <3>1. PICK c \in Call, i \in Issuance :
            /\ minted' = Append(minted, <<i, c>>)
            /\ DOMAIN block' = DOMAIN block \cup Minting(i, c)
      BY <1>2, <2>1
    <3>2. /\ \A n \in DOMAIN minted : n \in DOMAIN minted' /\ minted'[n] = minted[n]
          /\ Len(minted) + 1 \in DOMAIN minted' /\ minted'[Len(minted) + 1] = <<i, c>>
      BY <1>1, <3>1
    <3>3. CASE b \in DOMAIN block
      BY <3>2, <3>3 DEF FreshInv
    <3>4. CASE b \in Minting(i, c)
      BY <3>2, <3>4 DEF Minting
    <3> QED
      BY <3>1, <3>3, <3>4
  <2>2. CASE UNCHANGED ledgerVars
    BY <2>2 DEF FreshInv, ledgerVars
  <2>3. CASE \E c \in Call : Transfer(c) \/ Retire(c) \/ CancelDrawn(c) \/ Link(c)
    <3>1. minted' = minted /\ DOMAIN block' = DOMAIN block
      BY <2>3 DEF Transfer, Retire, CancelDrawn, Link
    <3> QED
      BY <3>1 DEF FreshInv
  <2> QED
    BY <2>1, <2>2, <2>3, LedgerEffects
<1> QED
  BY <1>3, <1>4, <1>5 DEF FreshInv
-----------------------------------------------------------------------------
(* One decision at a time, and one mint.                                    *)
LEMMA DecisionStep ==
    ASSUME LedgerTypeOK, CallInv, SplitInv, DecisionInv, [Next]_vars
    PROVE  DecisionInv'
<1> SUFFICES ASSUME NEW i \in Issuance, i \notin raced'
             PROVE  /\ \A c, d \in Deciding(i)' : c = d
                    /\ Deciding(i)' # {} => issuanceStatus'[i] = "REQUESTED"
                    /\ \A m, n \in MintsOf(i)' : m = n
                    /\ MintsOf(i)' # {} <=> issuanceStatus'[i] = "ISSUED"
  BY DEF DecisionInv
<1>1. i \notin raced
  BY HistoryEffects DEF history, BeginApprove, BeginReject, NoteRace, Drop
<1>2. /\ \A c, d \in Deciding(i) : c = d
      /\ Deciding(i) # {} => issuanceStatus[i] = "REQUESTED"
      /\ \A m, n \in MintsOf(i) : m = n
      /\ MintsOf(i) # {} <=> issuanceStatus[i] = "ISSUED"
  BY <1>1 DEF DecisionInv
<1>3. /\ Deciding(i) = {c \in Call : call[c].pc \in DecidingPc /\ call[c].issuance = i}
      /\ Deciding(i)' = {c \in Call : call'[c].pc \in DecidingPc /\ call'[c].issuance = i}
  BY DEF Deciding, DecidingPc
<1>4. /\ MintsOf(i) = {n \in DOMAIN minted : minted[n][1] = i}
      /\ MintsOf(i)' = {n \in DOMAIN minted' : minted'[n][1] = i}
  BY DEF MintsOf
<1>5. minted \in Seq(Mint)
  BY DEF LedgerTypeOK
<1>6. CASE \E c \in Call : BeginApprove(c, i) \/ BeginReject(c, i)
  <2>1. PICK c \in Call : BeginApprove(c, i) \/ BeginReject(c, i)
    BY <1>6
  <2>2. Deciding(i) = {}
    BY <2>1 DEF BeginApprove, BeginReject, NoteRace
  <2>3. \A d \in Call \ {c} : call'[d] = call[d]
    BY <2>1 DEF BeginApprove, BeginReject, Start, CallInv
  <2>4. \A d \in Deciding(i)' : d = c
    BY <1>3, <2>2, <2>3
  <2>5. /\ issuanceStatus[i] = "REQUESTED" /\ issuanceStatus' = issuanceStatus
        /\ minted' = minted
    BY <2>1 DEF BeginApprove, BeginReject, issuanceVars, ledgerVars
  <2> QED
    BY <1>2, <1>4, <2>4, <2>5
<1>7. CASE ~\E c \in Call : BeginApprove(c, i) \/ BeginReject(c, i)
  <2>1. ASSUME NEW c \in Deciding(i)' PROVE c \in Deciding(i) /\ call'[c] = call[c]
    <3>1. c \in Call /\ call'[c].pc \in DecidingPc /\ call'[c].issuance = i
      BY <1>3
    <3>2. call'[c] = call[c]
      BY <1>7, <3>1, DecidingSteps
    <3> QED
      BY <1>3, <3>1, <3>2
  <2>2. ASSUME NEW c \in Call, MintBlocks(c) \/ WriteReject(c), call[c].issuance = i
        PROVE  Deciding(i)' = {} /\ issuanceStatus[i] = "REQUESTED" /\ MintsOf(i) = {}
    <3>1. c \in Deciding(i)
      BY <1>3, <2>2 DEF MintBlocks, WriteReject, DecidingPc
    <3>2. c \notin Deciding(i)'
      BY <1>3, <2>2, LeavesDeciding
    <3> QED
      BY <1>2, <2>1, <3>1, <3>2
  <2>3. ASSUME NEW c \in Call, MintBlocks(c)
        PROVE  IF call[c].issuance = i
               THEN MintsOf(i)' = {Len(minted) + 1} /\ issuanceStatus'[i] = "ISSUED"
               ELSE MintsOf(i)' = MintsOf(i) /\ issuanceStatus'[i] = issuanceStatus[i]
    <3>1. PICK j : j = call[c].issuance
      OBVIOUS
    <3>2. /\ minted' = Append(minted, <<j, c>>)
          /\ issuanceStatus' = [issuanceStatus EXCEPT ![j] = "ISSUED"]
      BY <2>3, <3>1 DEF MintBlocks
    <3>3. /\ Len(minted) \in Nat /\ DOMAIN minted = 1..Len(minted)
          /\ DOMAIN minted' = DOMAIN minted \cup {Len(minted) + 1}
          /\ \A n \in DOMAIN minted : minted'[n] = minted[n]
          /\ minted'[Len(minted) + 1] = <<j, c>>
      BY <1>5, <3>2
    <3>4. issuanceStatus \in [Issuance -> {"none", "REQUESTED", "ISSUED", "REJECTED"}]
      BY DEF LedgerTypeOK
    <3>5. CASE j = i
      <4>1. MintsOf(i) = {}
        BY <2>2, <2>3, <3>1, <3>5
      <4> QED
        BY <1>4, <3>1, <3>2, <3>3, <3>4, <3>5, <4>1
    <3>6. CASE j # i
      BY <1>4, <3>1, <3>2, <3>3, <3>4, <3>6
    <3> QED
      BY <3>5, <3>6
  <2>4. CASE \E c \in Call : MintBlocks(c)
    <3>1. PICK c \in Call : MintBlocks(c)
      BY <2>4
    <3>2. CASE call[c].issuance = i
      BY <2>2, <2>3, <3>1, <3>2
    <3>3. CASE call[c].issuance # i
      BY <1>2, <2>1, <2>3, <3>1, <3>3
    <3> QED
      BY <3>2, <3>3
  <2>5. CASE ~\E c \in Call : MintBlocks(c)
    <3>1. MintsOf(i)' = MintsOf(i)
      BY <1>4, <2>5, MintedGrows
    <3>2. CASE issuanceStatus'[i] = issuanceStatus[i]
      BY <1>2, <2>1, <3>1, <3>2
    <3>3. CASE issuanceStatus[i] = "none" /\ issuanceStatus'[i] = "REQUESTED"
      BY <1>2, <2>1, <3>1, <3>3
    <3>4. CASE \E c \in Call : WriteReject(c) /\ call[c].issuance = i
                               /\ issuanceStatus'[i] = "REJECTED"
      BY <2>2, <3>1, <3>4
    <3> QED
      BY <2>5, <3>2, <3>3, <3>4, StatusChanges
  <2> QED
    BY <2>4, <2>5
<1> QED
  BY <1>6, <1>7

-----------------------------------------------------------------------------
(* Every mint is split by the levies and the buffer, and stays so.          *)
LEMMA SplitStep ==
    ASSUME LedgerTypeOK, CallInv, FreshInv, SplitInv, [Next]_vars
    PROVE  SplitInv'
<1>1. /\ minted \in Seq(Mint) /\ DOMAIN block \subseteq Block
      /\ verifiedEr' = verifiedEr
  BY ActivityEffects DEF LedgerTypeOK
<1>2. SUFFICES /\ \A n \in DOMAIN minted' : \A kind \in Kind :
                     <<minted'[n], kind>> \in DOMAIN block'
                       <=> UnitsOf(kind, verifiedEr[minted'[n][1]]) > 0
               /\ \A b \in DOMAIN block' :
                     /\ block'[b].units = UnitsOf(b[2], verifiedEr[b[1][1]])
                     /\ b[2] # "net" => block'[b].holder = MintedTo(b[2])
  <2>1. isRemoval' = isRemoval
    BY ActivityEffects
  <2>2. ASSUME NEW n \in DOMAIN minted', NEW kind \in Kind
        PROVE  UnitsOf(kind, verifiedEr[minted[n][1]])'
                 = UnitsOf(kind, verifiedEr[minted'[n][1]])
    BY <1>1, <2>1 DEF UnitsOf, BufferUnits
  <2>3. ASSUME NEW b \in DOMAIN block'
        PROVE  UnitsOf(b[2], verifiedEr[b[1][1]])' = UnitsOf(b[2], verifiedEr[b[1][1]])
    BY <1>1, <2>1 DEF UnitsOf, BufferUnits
  <2> QED
    BY <1>2, <2>2, <2>3 DEF SplitInv, MintedTo
<1>3. ASSUME NEW c \in Call, MintBlocks(c)
      PROVE  /\ \A n \in DOMAIN minted' : \A kind \in Kind :
                   <<minted'[n], kind>> \in DOMAIN block'
                     <=> UnitsOf(kind, verifiedEr[minted'[n][1]]) > 0
             /\ \A b \in DOMAIN block' :
                   /\ block'[b].units = UnitsOf(b[2], verifiedEr[b[1][1]])
                   /\ b[2] # "net" => block'[b].holder = MintedTo(b[2])
  <2>1. PICK i : i = call[c].issuance
    OBVIOUS
  <2>2. Mints(i, c)
    BY <1>3, <2>1, MintFacts
  <2>3. \A n \in DOMAIN minted : minted[n] # <<i, c>>
    BY <1>3, <2>1 DEF FreshInv, MintBlocks
  <2>4. \A kind \in Kind : <<<<i, c>>, kind>> \notin DOMAIN block
    BY <2>3 DEF FreshInv
  <2>5. ASSUME NEW n \in DOMAIN minted', NEW kind \in Kind
        PROVE  <<minted'[n], kind>> \in DOMAIN block'
                 <=> UnitsOf(kind, verifiedEr[minted'[n][1]]) > 0
    <3>1. (n \in DOMAIN minted /\ minted'[n] = minted[n]) \/ minted'[n] = <<i, c>>
      BY <1>1, <2>2 DEF Mints
    <3>2. CASE n \in DOMAIN minted /\ minted'[n] = minted[n]
      <4>1. <<minted[n], kind>> \notin Minting(i, c)
        BY <2>3, <3>2 DEF Minting
      <4> QED
        BY <2>2, <3>2, <4>1 DEF Mints, SplitInv
    <3>3. CASE minted'[n] = <<i, c>>
      <4>1. <<<<i, c>>, kind>> \in Minting(i, c) <=> UnitsOf(kind, verifiedEr[i]) > 0
        BY DEF Minting
      <4>2. DOMAIN block' = DOMAIN block \cup Minting(i, c)
        BY <2>2 DEF Mints
      <4>3. <<<<i, c>>, kind>> \in DOMAIN block' <=> UnitsOf(kind, verifiedEr[i]) > 0
        BY <2>4, <4>1, <4>2
      <4>4. minted'[n][1] = i
        BY <3>3
      <4> QED
        BY <3>3, <4>3, <4>4
    <3> QED
      BY <3>1, <3>2, <3>3
  <2>6. ASSUME NEW b \in DOMAIN block'
        PROVE  /\ block'[b].units = UnitsOf(b[2], verifiedEr[b[1][1]])
               /\ b[2] # "net" => block'[b].holder = MintedTo(b[2])
    <3>1. CASE b \in Minting(i, c)
      BY <2>2, <3>1 DEF Mints
    <3>2. CASE b \in DOMAIN block \ Minting(i, c)
      BY <2>2, <3>2 DEF Mints, SplitInv
    <3> QED
      BY <2>2, <3>1, <3>2 DEF Mints
  <2> QED
    BY <2>5, <2>6
<1>4. ASSUME minted' = minted, DOMAIN block' = DOMAIN block,
             \A b \in DOMAIN block : /\ block'[b].units = block[b].units
                                     /\ b[2] # "net" => block'[b].holder = block[b].holder
      PROVE  /\ \A n \in DOMAIN minted' : \A kind \in Kind :
                   <<minted'[n], kind>> \in DOMAIN block'
                     <=> UnitsOf(kind, verifiedEr[minted'[n][1]]) > 0
             /\ \A b \in DOMAIN block' :
                   /\ block'[b].units = UnitsOf(b[2], verifiedEr[b[1][1]])
                   /\ b[2] # "net" => block'[b].holder = MintedTo(b[2])
  BY <1>4 DEF SplitInv
<1>5. ASSUME NEW c \in Call, Transfer(c) \/ Retire(c) \/ CancelDrawn(c) \/ Link(c)
      PROVE  /\ minted' = minted /\ DOMAIN block' = DOMAIN block
             /\ \A b \in DOMAIN block :
                   /\ block'[b].units = block[b].units
                   /\ b[2] # "net" => block'[b].holder = block[b].holder
  <2>1. PICK b : b = call[c].block
    OBVIOUS
  <2>2. CASE Transfer(c) \/ Retire(c)
    <3>1. MovesBlock(c, b, "TRANSFER") \/ MovesBlock(c, b, "RETIREMENT")
      BY <2>1, <2>2, TransferFacts, RetireFacts
    <3> QED
      BY <3>1 DEF MovesBlock
  <2>3. CASE CancelDrawn(c)
    BY <2>3, CancelFacts
  <2>4. CASE Link(c)
    BY <2>4, LinkFacts
  <2> QED
    BY <1>5, <2>2, <2>3, <2>4
<1>6. CASE UNCHANGED ledgerVars
  BY <1>4, <1>6 DEF ledgerVars
<1> QED
  BY <1>3, <1>4, <1>5, <1>6, LedgerEffects
-----------------------------------------------------------------------------
(* The last move of a block is to the account that holds it.                *)
LEMMA HolderStep ==
    ASSUME LedgerTypeOK, CallInv, HolderIsLastRow, [Next]_vars
    PROVE  HolderIsLastRow'
<1> DEFINE LastRow(b) ==
      \A n \in DOMAIN rows'[b] :
         /\ IsMove(rows'[b][n])
         /\ \A later \in DOMAIN rows'[b] : later > n => ~IsMove(rows'[b][later])
         => block'[b].holder = rows'[b][n].to
<1>1. SUFFICES \A b \in DOMAIN block' : LastRow(b)
  BY DEF HolderIsLastRow, IsLastMove, IsMove
<1>2. ASSUME NEW b \in DOMAIN block, rows'[b] = rows[b],
             block'[b].holder = block[b].holder
      PROVE  LastRow(b)
  BY <1>2 DEF HolderIsLastRow, IsLastMove
<1>3. ASSUME NEW b \in DOMAIN block
      PROVE  /\ rows[b] \in Seq(TransactionRow)
             /\ DOMAIN rows[b] = 1..Len(rows[b]) /\ Len(rows[b]) \in Nat
             /\ \A row : LET more == Append(rows[b], row) IN
                   /\ DOMAIN more = 1..(Len(rows[b]) + 1)
                   /\ more[Len(rows[b]) + 1] = row
                   /\ \A n \in DOMAIN rows[b] : more[n] = rows[b][n]
  <2>1. rows[b] \in Seq(TransactionRow)
    BY BlockTypes
  <2> QED
    BY <2>1
<1>4. ASSUME NEW c \in Call, MintBlocks(c), NEW b \in DOMAIN block' PROVE LastRow(b)
  <2>1. PICK i : i = call[c].issuance
    OBVIOUS
  <2>2. Mints(i, c)
    BY <1>4, <2>1, MintFacts
  <2>3. CASE b \in Minting(i, c)
    <3>1. rows'[b] = <<>> /\ DOMAIN rows'[b] = {}
      BY <2>2, <2>3 DEF Mints
    <3> QED
      BY <3>1
  <2>4. CASE b \in DOMAIN block \ Minting(i, c)
    <3>1. rows'[b] = rows[b] /\ block'[b] = block[b]
      BY <2>2, <2>4 DEF Mints
    <3> QED
      BY <1>2, <2>4, <3>1
  <2> QED
    BY <1>4, <2>2, <2>3, <2>4 DEF Mints
<1>5. ASSUME NEW c \in Call, NEW b, NEW type \in {"TRANSFER", "RETIREMENT"},
             MovesBlock(c, b, type), NEW x \in DOMAIN block'
      PROVE  LastRow(x)
  <2>1. CASE x # b
    BY <1>2, <1>5, <2>1 DEF MovesBlock
  <2>2. CASE x = b
    <3> DEFINE row == [type |-> type, to |-> call[c].to, linked |-> FALSE]
               last == Len(rows[b]) + 1
    <3>1. /\ b \in DOMAIN block /\ block'[b].holder = call[c].to
          /\ rows'[b] = Append(rows[b], row)
      BY <1>5 DEF MovesBlock
    <3>2. row.to = call[c].to /\ IsMove(row)
      BY <1>5 DEF IsMove
    <3> HIDE DEF row
    <3>3. /\ DOMAIN rows'[b] = 1..last /\ last \in Nat /\ rows'[b][last] = row
          /\ last \in DOMAIN rows'[b]
      BY <1>3, <3>1
    <3>4. ASSUME NEW n \in DOMAIN rows'[b],
                 \A later \in DOMAIN rows'[b] : later > n => ~IsMove(rows'[b][later])
          PROVE  n = last
      BY <3>2, <3>3, <3>4
    <3> QED
      BY <2>2, <3>1, <3>2, <3>3, <3>4
  <2> QED
    BY <2>1, <2>2
<1>6. ASSUME NEW c \in Call, Transfer(c) \/ Retire(c), NEW x \in DOMAIN block'
      PROVE  LastRow(x)
  <2>1. PICK b : b = call[c].block
    OBVIOUS
  <2>2. MovesBlock(c, b, "TRANSFER") \/ MovesBlock(c, b, "RETIREMENT")
    BY <1>6, <2>1, TransferFacts, RetireFacts
  <2> QED
    BY <1>5, <1>6, <2>2
<1>7. ASSUME NEW c \in Call, CancelDrawn(c), NEW b \in DOMAIN block' PROVE LastRow(b)
  <2> DEFINE row == [type |-> "REVERSAL_DRAW", to |-> "REVERSAL_BUFFER", linked |-> FALSE]
  <2>1. /\ b \in DOMAIN block /\ block'[b].holder = block[b].holder
        /\ rows'[b] = rows[b] \/ rows'[b] = Append(rows[b], row)
    BY <1>7, CancelFacts
  <2>2. ~IsMove(row)
    BY DEF IsMove
  <2>3. CASE rows'[b] = Append(rows[b], row)
    <3> HIDE DEF row
    <3>1. /\ DOMAIN rows[b] = 1..Len(rows[b]) /\ Len(rows[b]) \in Nat
          /\ DOMAIN rows'[b] = 1..(Len(rows[b]) + 1)
          /\ rows'[b][Len(rows[b]) + 1] = row
          /\ \A n \in DOMAIN rows[b] : rows'[b][n] = rows[b][n]
      BY <1>3, <2>1, <2>3
    <3>2. ASSUME NEW n \in DOMAIN rows'[b], IsMove(rows'[b][n]),
                 \A later \in DOMAIN rows'[b] : later > n => ~IsMove(rows'[b][later])
          PROVE  block'[b].holder = rows'[b][n].to
      <4>1. n # Len(rows[b]) + 1
        BY <2>2, <3>1, <3>2
      <4>2. n \in DOMAIN rows[b] /\ rows'[b][n] = rows[b][n]
        BY <3>1, <4>1
      <4>3. \A later \in DOMAIN rows[b] : later > n => ~IsMove(rows[b][later])
        BY <3>1, <3>2
      <4> QED
        BY <2>1, <3>2, <4>2, <4>3 DEF HolderIsLastRow, IsLastMove
    <3> QED
      BY <3>2
  <2> QED
    BY <1>2, <2>1, <2>3
<1>8. ASSUME NEW c \in Call, Link(c), NEW b \in DOMAIN block' PROVE LastRow(b)
  <2>1. /\ b \in DOMAIN block /\ block'[b] = block[b]
        /\ DOMAIN rows'[b] = DOMAIN rows[b]
        /\ \A n \in DOMAIN rows[b] : /\ rows'[b][n].type = rows[b][n].type
                                     /\ rows'[b][n].to = rows[b][n].to
    BY <1>8, LinkFacts
  <2> QED
    BY <2>1 DEF HolderIsLastRow, IsLastMove, IsMove
<1>9. ASSUME UNCHANGED ledgerVars, NEW b \in DOMAIN block' PROVE LastRow(b)
  BY <1>2, <1>9 DEF ledgerVars
<1> HIDE DEF LastRow
<1> QED
  BY <1>4, <1>6, <1>7, <1>8, <1>9, LedgerEffects

-----------------------------------------------------------------------------
(* No event of a use is forgotten.                                          *)
LEMMA EmittingStays ==
    ASSUME LedgerTypeOK, CallInv, SplitInv, [Next]_vars,
           NEW c \in Call, call[c].pc \in {"emitTransfer", "emitRetirement"}
    PROVE  call'[c] = call[c] \/ Emit(c) \/ Drop(c)
<1>1. ASSUME NEW d \in Call \ {c}, AllActions(d) PROVE call'[c] = call[c]
  BY <1>1, CallSteps DEF StepsTo
<1>2. ASSUME AllActions(c) PROVE Emit(c) \/ Drop(c)
  BY <1>2 DEF AllActions, BeginRequest, BeginApprove, BeginReject, CreateIssuance,
     MintBlocks, MarkIssuing, WriteIssuing, WriteReject, BeginTransfer, BeginRetire,
     BeginDraw, Transfer, Retire, CancelDrawn, Link, BeginExport, MarkExported,
     BeginRevoke, CheckTransfers, WriteRevoked
<1> QED
  BY <1>1, <1>2, NextCases DEF CloseActivity, RejectActivity, vars

(* What the event of b's use has come to.                                   *)
Reported(b) ==
    \/ \E n \in DOMAIN caEvent : caEvent[n].block = b
    \/ Emitting(b)
    \/ b \in dropped

LEMMA ReportedStays ==
    ASSUME LedgerTypeOK, CallInv, SplitInv, [Next]_vars, NEW b, Reported(b)
    PROVE  Reported(b)'
<1>1. dropped \subseteq dropped'
  BY HistoryEffects DEF history, BeginApprove, BeginReject, Drop
<1>2. CASE \E n \in DOMAIN caEvent : caEvent[n].block = b
  BY <1>2, EventsStay DEF Reported
<1>3. CASE Emitting(b)
  <2>1. PICK c \in Call : /\ call[c].pc \in {"emitTransfer", "emitRetirement"}
                          /\ call[c].block = b
    BY <1>3 DEF Emitting
  <2>2. CASE call'[c] = call[c]
    BY <2>1, <2>2 DEF Reported, Emitting
  <2>3. CASE Emit(c)
    <3> DEFINE e == [block |-> b, status |-> "PENDING_EXPORT"]
    <3>1. caEvent' = Append(caEvent, e) /\ e.block = b
      BY <2>1, <2>3 DEF Emit
    <3> HIDE DEF e
    <3>2. Len(caEvent) + 1 \in DOMAIN caEvent' /\ caEvent'[Len(caEvent) + 1] = e
      BY <3>1 DEF LedgerTypeOK
    <3> QED
      BY <3>1, <3>2 DEF Reported
  <2>4. CASE Drop(c)
    BY <2>1, <2>4 DEF Drop, Reported
  <2> QED
    BY <2>1, <2>2, <2>3, <2>4, EmittingStays
<1>4. CASE b \in dropped
  BY <1>1, <1>4 DEF Reported
<1> QED
  BY <1>2, <1>3, <1>4 DEF Reported

LEMMA UseStep ==
    ASSUME LedgerTypeOK, CallInv, SplitInv, UseIsReported, [Next]_vars
    PROVE  UseIsReported'
<1> DEFINE Used(b) == block[b].first \/ block[b].status \in {"NDC", "OIMP"}
           UsedAfter(b) == block'[b].first \/ block'[b].status \in {"NDC", "OIMP"}
<1>1. authorizedFor' = authorizedFor
  BY ActivityEffects
<1>2. SUFFICES ASSUME UnitType = "A6_4ER", NEW b \in DOMAIN block', UsedAfter(b)
               PROVE  Reported(b)'
  BY <1>1 DEF UseIsReported, UnitType, Reported
<1>3. ASSUME b \in DOMAIN block, Used(b) PROVE Reported(b)'
  <2>1. Reported(b)
    BY <1>2, <1>3 DEF UseIsReported, Reported
  <2> QED
    BY <2>1, ReportedStays
<1>4. CASE \E c \in Call : MintBlocks(c)
  <2>p. PICK c \in Call : MintBlocks(c)
    BY <1>4
  <2>1. PICK i : MintBlocks(c) /\ i = call[c].issuance
    BY <2>p
  <2>2. Mints(i, c)
    BY <2>1, MintFacts
  <2>3. b \notin Minting(i, c)
    BY <1>2, <2>2 DEF Mints
  <2> QED
    BY <1>2, <1>3, <2>2, <2>3 DEF Mints
<1>5. CASE \E c \in Call : Transfer(c)
  <2>p. PICK c \in Call : Transfer(c)
    BY <1>5
  <2>1. PICK x : Transfer(c) /\ x = call[c].block
    BY <2>p
  <2>2. /\ MovesBlock(c, x, "TRANSFER")
        /\ block'[x].status = block[x].status
        /\ block'[x].first = (block[x].first \/ call[c].first)
    BY <2>1, TransferFacts
  <2>3. CASE b = x /\ call[c].first
    <3>1. Goto(c, "emitTransfer")
      BY <1>2, <2>1, <2>3 DEF Transfer, TransferEmits
    <3>2. call'[c].pc = "emitTransfer" /\ call'[c].block = b
      BY <2>1, <2>3, <3>1, GotoFacts DEF CallInv, Pc
    <3> QED
      BY <3>2 DEF Reported, Emitting
  <2>4. CASE ~(b = x /\ call[c].first)
    <3>1. b \in DOMAIN block
      BY <2>2 DEF MovesBlock
    <3>2. CASE b = x
      BY <1>2, <1>3, <2>2, <2>4, <3>1, <3>2
    <3>3. CASE b # x
      BY <1>2, <1>3, <2>2, <3>1, <3>3 DEF MovesBlock
    <3> QED
      BY <3>2, <3>3
  <2> QED
    BY <2>3, <2>4
<1>6. CASE \E c \in Call : Retire(c)
  <2>p. PICK c \in Call : Retire(c)
    BY <1>6
  <2>1. PICK x : Retire(c) /\ x = call[c].block
    BY <2>p
  <2>2. /\ MovesBlock(c, x, "RETIREMENT")
        /\ block'[x].status = call[c].to
        /\ block'[x].first = block[x].first
    BY <2>1, RetireFacts
  <2>3. CASE b = x /\ call[c].to \in {"NDC", "OIMP"}
    <3>1. Goto(c, "emitRetirement")
      BY <1>2, <2>1, <2>3 DEF Retire, RetirementEmits
    <3>2. call'[c].pc = "emitRetirement" /\ call'[c].block = b
      BY <2>1, <2>3, <3>1, GotoFacts DEF CallInv, Pc
    <3> QED
      BY <3>2 DEF Reported, Emitting
  <2>4. CASE ~(b = x /\ call[c].to \in {"NDC", "OIMP"})
    <3>1. b \in DOMAIN block
      BY <2>2 DEF MovesBlock
    <3>2. CASE b = x
      BY <1>2, <1>3, <2>2, <2>4, <3>1, <3>2
    <3>3. CASE b # x
      BY <1>2, <1>3, <2>2, <3>1, <3>3 DEF MovesBlock
    <3> QED
      BY <3>2, <3>3
  <2> QED
    BY <2>3, <2>4
<1>7. CASE \E c \in Call : CancelDrawn(c)
  <2>1. /\ b \in DOMAIN block /\ block'[b].first = block[b].first
        /\ block'[b].status \in {block[b].status, "CANCELLED_REVERSAL"}
    BY <1>7, CancelFacts
  <2> QED
    BY <1>2, <1>3, <2>1
<1>8. CASE UNCHANGED ledgerVars \/ \E c \in Call : Link(c)
  <2>1. block' = block
    BY <1>8 DEF ledgerVars, Link
  <2> QED
    BY <1>2, <1>3, <2>1
<1> QED
  BY <1>4, <1>5, <1>6, <1>7, <1>8, LedgerEffects

(* Only what an export has read is marked.                                  *)
LEMMA ExportedStep ==
    ASSUME LedgerTypeOK, CallInv, ExportedWasListed, [Next]_vars
    PROVE  ExportedWasListed'
<1> DEFINE Event == [block : Block, status : {"PENDING_EXPORT", "EXPORTED"}]
<1>1. caEvent \in Seq(Event) /\ listed \subseteq DOMAIN caEvent
  BY DEF LedgerTypeOK
<1>2. listed \subseteq listed'
  BY EventsStay
<1>3. CASE \E c \in Call : Emit(c)
  <2> DEFINE e(c) == [block |-> call[c].block, status |-> "PENDING_EXPORT"]
  <2>1. PICK c \in Call : caEvent' = Append(caEvent, e(c))
    BY <1>3 DEF Emit
  <2>2. e(c).status # "EXPORTED"
    OBVIOUS
  <2> HIDE DEF e, Event
  <2>3. \A n \in DOMAIN caEvent' : \/ n \in DOMAIN caEvent /\ caEvent'[n] = caEvent[n]
                                   \/ caEvent'[n] = e(c)
    BY <1>1, <2>1
  <2> QED
    BY <1>2, <2>2, <2>3 DEF ExportedWasListed
<1>4. CASE \E c \in Call : BeginExport(c)
  BY <1>2, <1>4 DEF BeginExport, ExportedWasListed
<1>5. CASE \E c \in Call : MarkExported(c)
  <2>1. PICK c \in Call : MarkExported(c)
    BY <1>5
  <2>2. call[c].events \subseteq listed
    BY DEF CallInv, CallOK
  <2>3. \A n \in DOMAIN caEvent' : n \in call[c].events \/ caEvent'[n] = caEvent[n]
    BY <2>1 DEF MarkExported
  <2>4. DOMAIN caEvent' = DOMAIN caEvent
    BY <2>1 DEF MarkExported
  <2> QED
    BY <1>2, <2>2, <2>3, <2>4 DEF ExportedWasListed
<1>6. CASE UNCHANGED caVars
  BY <1>6 DEF caVars, ExportedWasListed
<1> QED
  BY <1>3, <1>4, <1>5, <1>6, CaEffects
-----------------------------------------------------------------------------
(* The inductive invariant.                                                 *)
LEMMA LedgerInit == Init => LedgerInv
<1> SUFFICES ASSUME Init PROVE LedgerInv
  OBVIOUS
<1>1. /\ minted = <<>> /\ DOMAIN minted = {}
      /\ block = <<>> /\ DOMAIN block = {}
      /\ rows = <<>> /\ DOMAIN rows = {}
      /\ caEvent = <<>> /\ DOMAIN caEvent = {}
      /\ listed = {} /\ dropped = {} /\ raced = {}
      /\ \A c \in Call : call[c] = Idle
  BY DEF Init
<1>2. LedgerTypeOK
  <2>1. rows \in [DOMAIN block -> Seq(TransactionRow)]
    BY <1>1
  <2>2. /\ activityStatus \in {"REGISTERED", "ISSUING", "CLOSED", "REJECTED"}
        /\ loa \in {"ISSUED", "REVOKED"}
        /\ authorizedFor \in Scope /\ isRemoval \in BOOLEAN
        /\ verifiedEr \in [Issuance -> Gross]
        /\ periodStatus \in [Issuance -> {"VERIFIED", "ISSUED"}]
        /\ issuanceStatus \in [Issuance -> {"none", "REQUESTED", "ISSUED", "REJECTED"}]
    BY DEF Init
  <2>3. /\ minted \in Seq(Mint)
        /\ caEvent \in Seq([block : Block, status : {"PENDING_EXPORT", "EXPORTED"}])
    BY <1>1
  <2>4. \A c \in Call :
           /\ call[c].pc \in Pc
           /\ call[c].block \in DOMAIN block \cup {Null}
           /\ call[c].issuance \in Issuance \cup {Null}
           /\ call[c].to \in Account \cup {Null}
           /\ call[c].first \in BOOLEAN
           /\ call[c].picked \subseteq DOMAIN block
           /\ call[c].events \subseteq DOMAIN caEvent
    <3>1. /\ Idle.pc = "idle" /\ Idle.block = Null /\ Idle.issuance = Null
          /\ Idle.to = Null /\ Idle.first = FALSE /\ Idle.picked = {} /\ Idle.events = {}
      BY DEF Idle
    <3>2. "idle" \in Pc
      BY DEF Pc
    <3> QED
      BY <1>1, <3>1, <3>2
  <2>5. /\ DOMAIN block \subseteq Block
        /\ \A b \in DOMAIN block : block[b] \in BlockRow
        /\ listed \subseteq DOMAIN caEvent
        /\ dropped \subseteq DOMAIN block /\ raced \subseteq Issuance
    BY <1>1
  <2> QED
    BY <2>1, <2>2, <2>3, <2>4, <2>5 DEF LedgerTypeOK
<1>3. CallInv
  <2>1. call \in [Call -> Locals]
    BY IdleIsLocals DEF Init
  <2> QED
    BY <1>1, <2>1 DEF CallInv, CallOK, Idle, DecidingPc, BlockPc, MovingPc
<1>4. FreshInv
  BY <1>1 DEF FreshInv
<1>5. SplitInv
  BY <1>1 DEF SplitInv
<1>6. DecisionInv
  <2>1. \A i \in Issuance : Deciding(i) = {} /\ MintsOf(i) = {}
    BY <1>1 DEF Deciding, MintsOf, Idle
  <2>2. \A i \in Issuance : issuanceStatus[i] = "none"
    BY DEF Init
  <2> QED
    BY <2>1, <2>2 DEF DecisionInv
<1>7. HolderIsLastRow /\ UseIsReported /\ ExportedWasListed
  BY <1>1 DEF HolderIsLastRow, UseIsReported, ExportedWasListed
<1> QED
  BY <1>2, <1>3, <1>4, <1>5, <1>6, <1>7 DEF LedgerInv

LEMMA LedgerNext == LedgerInv /\ [Next]_vars => LedgerInv'
  BY LedgerTypeStep, CallStep, FreshStep, SplitStep, DecisionStep, HolderStep, UseStep,
     ExportedStep DEF LedgerInv

(* LedgerInv holds throughout, whatever the calls in flight have read.      *)
THEOREM LedgerInvariance == Spec => []LedgerInv
  BY LedgerInit, LedgerNext, PTL DEF Spec

(* Every handler leaves rows of the types of the schema behind, and refers  *)
(* to no block and no event that is not there (issuance.service.ts,         *)
(* transaction.service.ts, reversal.service.ts, ca-events.service.ts).      *)
THEOREM LedgerTypeCorrect == Spec => []LedgerTypeOK
<1>1. LedgerInv => LedgerTypeOK
  BY DEF LedgerInv
<1> QED
  BY <1>1, LedgerInvariance, PTL

(* The units of one mint, flooring included.                                *)
LEMMA SplitIsWhole ==
    ASSUME LedgerTypeOK, SplitInv, NEW n \in DOMAIN minted
    PROVE  LET gross == verifiedEr[minted[n][1]]
               Of(kind) == <<minted[n], kind>>
               Units(kind) ==
                   IF Of(kind) \in DOMAIN block THEN block[Of(kind)].units ELSE 0
               StaysIn(kind, account) ==
                   Of(kind) \in DOMAIN block => block[Of(kind)].holder = account
           IN /\ Units("net") + Units("buffer") + Units("sop") + Units("omge") = gross
              /\ Units("sop") * 20 <= gross
              /\ Units("omge") * 50 <= gross
              /\ StaysIn("sop", "ADAPTATION_FUND")
              /\ StaysIn("omge", "OMGE_CANCELLATION")
              /\ StaysIn("buffer", "REVERSAL_BUFFER")
<1> DEFINE Of(kind) == <<minted[n], kind>>
           Units(kind) == IF Of(kind) \in DOMAIN block THEN block[Of(kind)].units ELSE 0
<1>1. PICK gross : gross = verifiedEr[minted[n][1]]
  OBVIOUS
<1>2. gross \in Nat /\ isRemoval \in BOOLEAN
  <2>1. minted[n] \in Mint
    BY DEF LedgerTypeOK
  <2> QED
    BY <1>1, <2>1, LedgerAssumption DEF LedgerTypeOK, Mint
<1>3. /\ \A kind \in Kind : UnitsOf(kind, gross) \in Nat
      /\ UnitsOf("net", gross) + UnitsOf("buffer", gross)
         + UnitsOf("sop", gross) + UnitsOf("omge", gross) = gross
      /\ UnitsOf("sop", gross) * 20 <= gross
      /\ UnitsOf("omge", gross) * 50 <= gross
  BY <1>2, SplitFacts
<1>4. ASSUME NEW kind \in Kind PROVE Units(kind) = UnitsOf(kind, gross)
  <2>1. Of(kind) \in DOMAIN block <=> UnitsOf(kind, gross) > 0
    BY <1>1 DEF SplitInv
  <2>2. Of(kind) \in DOMAIN block => block[Of(kind)].units = UnitsOf(kind, gross)
    BY <1>1 DEF SplitInv
  <2> QED
    BY <1>3, <2>1, <2>2
<1>5. ASSUME NEW kind \in Kind \ {"net"}, Of(kind) \in DOMAIN block
      PROVE  block[Of(kind)].holder = MintedTo(kind)
  BY <1>5 DEF SplitInv
<1>6. /\ MintedTo("sop") = "ADAPTATION_FUND"
      /\ MintedTo("omge") = "OMGE_CANCELLATION"
      /\ MintedTo("buffer") = "REVERSAL_BUFFER"
  BY DEF MintedTo
<1>7. /\ Of("sop") \in DOMAIN block => block[Of("sop")].holder = "ADAPTATION_FUND"
      /\ Of("omge") \in DOMAIN block => block[Of("omge")].holder = "OMGE_CANCELLATION"
      /\ Of("buffer") \in DOMAIN block => block[Of("buffer")].holder = "REVERSAL_BUFFER"
  BY <1>5, <1>6 DEF Kind
<1>8. /\ Units("net") = UnitsOf("net", gross) /\ Units("buffer") = UnitsOf("buffer", gross)
      /\ Units("sop") = UnitsOf("sop", gross) /\ Units("omge") = UnitsOf("omge", gross)
  BY <1>4 DEF Kind
<1> HIDE DEF Units
<1>9. /\ Units("net") + Units("buffer") + Units("sop") + Units("omge") = gross
      /\ Units("sop") * 20 <= gross /\ Units("omge") * 50 <= gross
  BY <1>3, <1>8
<1> QED
  BY <1>1, <1>7, <1>9 DEF Units

(* What an approval mints adds up to the verified reductions, with levies   *)
(* of at most 5% and 2%, and neither the levied nor the buffered units ever *)
(* leave the accounts they were minted to, by whatever interleaving of      *)
(* approvals, transfers, retirements and draws (issuance.service.ts:40,     *)
(* transaction.service.ts:83).                                              *)
THEOREM MintAlwaysSplit == Spec => []MintIsSplit
<1>1. LedgerInv => MintIsSplit
  BY SplitIsWhole DEF LedgerInv, MintIsSplit
<1> QED
  BY <1>1, LedgerInvariance, PTL

(* Unless two decisions on a requested issuance overlapped, it is minted at *)
(* most once, and exactly when it is ISSUED (issuance.service.ts:203).           *)
THEOREM MintedAtMostOnce == Spec => []MintedOnce
<1>1. ASSUME LedgerInv PROVE MintedOnce
  <2>1. ASSUME NEW i \in Issuance \ raced PROVE Cardinality(MintsOf(i)) <= 1
    <3>1. \A m, n \in MintsOf(i) : m = n
      BY <1>1 DEF LedgerInv, DecisionInv
    <3>2. CASE MintsOf(i) = {}
      <4>1. Cardinality(MintsOf(i)) = 0
        BY <3>2, FS_EmptySet
      <4> QED
        BY <4>1
    <3>3. CASE MintsOf(i) # {}
      <4>1. PICK n \in MintsOf(i) : MintsOf(i) = {n}
        BY <3>1, <3>3
      <4>2. Cardinality(MintsOf(i)) = 1
        BY <4>1, FS_Singleton
      <4> QED
        BY <4>2
    <3> QED
      BY <3>2, <3>3
  <2>2. \A i \in Issuance \ raced : MintsOf(i) # {} <=> issuanceStatus[i] = "ISSUED"
    BY <1>1 DEF LedgerInv, DecisionInv
  <2> QED
    BY <2>1, <2>2 DEF MintedOnce
<1> QED
  BY <1>1, LedgerInvariance, PTL

(* A block is held where its last TRANSFER or RETIREMENT row moved it to,   *)
(* also after calls that overtook one another (transaction.service.ts:16).  *)
THEOREM HolderAlwaysLastRow == Spec => []HolderIsLastRow
<1>1. LedgerInv => HolderIsLastRow
  BY DEF LedgerInv
<1> QED
  BY <1>1, LedgerInvariance, PTL

(* A first transfer or an NDC/OIMP retirement of authorized units has its   *)
(* event, or the call that made it is about to create it, or was dropped    *)
(* right there (ca-events.service.ts).                                      *)
THEOREM UseAlwaysReported == Spec => []UseIsReported
<1>1. LedgerInv => UseIsReported
  BY DEF LedgerInv
<1> QED
  BY <1>1, LedgerInvariance, PTL

(* An event is EXPORTED only after an export read it                        *)
(* (corresponding-adjustments.ts:109-134).                                  *)
THEOREM ExportedAlwaysListed == Spec => []ExportedWasListed
<1>1. LedgerInv => ExportedWasListed
  BY DEF LedgerInv
<1> QED
  BY <1>1, LedgerInvariance, PTL

(* A retired or cancelled block is never ACTIVE again, neither by a stale   *)
(* transfer nor by a second approval (transaction.service.ts).              *)
THEOREM RetiredStaysFinal == Spec => RetiredIsFinal
<1> DEFINE Final == \A b \in DOMAIN block :
                       block[b].status # "ACTIVE" => block'[b].status # "ACTIVE"
<1>1. ASSUME LedgerInv, [Next]_vars, NEW b \in DOMAIN block, block[b].status # "ACTIVE"
      PROVE  block'[b].status # "ACTIVE"
  <2> USE <1>1 DEF LedgerInv
  <2>1. CASE \E c \in Call : MintBlocks(c)
    <3>p. PICK c \in Call : MintBlocks(c)
      BY <2>1
    <3>1. PICK i : MintBlocks(c) /\ i = call[c].issuance
      BY <3>p
    <3>2. Mints(i, c)
      BY <3>1, MintFacts
    <3>3. b \notin Minting(i, c)
      BY <3>1 DEF FreshInv, Minting, MintBlocks
    <3> QED
      BY <3>2, <3>3 DEF Mints
  <2>2. CASE \E c \in Call : Transfer(c)
    <3>p. PICK c \in Call : Transfer(c)
      BY <2>2
    <3>1. PICK x : Transfer(c) /\ x = call[c].block
      BY <3>p
    <3>2. MovesBlock(c, x, "TRANSFER") /\ block'[x].status = block[x].status
      BY <3>1, TransferFacts
    <3> QED
      BY <3>2 DEF MovesBlock
  <2>3. CASE \E c \in Call : Retire(c)
    <3>p. PICK c \in Call : Retire(c)
      BY <2>3
    <3>1. PICK x : Retire(c) /\ x = call[c].block
      BY <3>p
    <3>2. /\ MovesBlock(c, x, "RETIREMENT") /\ block'[x].status = call[c].to
          /\ call[c].to \in Purpose
      BY <3>1, RetireFacts
    <3>3. call[c].to # "ACTIVE"
      BY <3>2, LedgerAssumption
    <3> QED
      BY <3>2, <3>3 DEF MovesBlock
  <2>4. CASE \E c \in Call : CancelDrawn(c)
    BY <2>4, CancelFacts
  <2>5. CASE UNCHANGED ledgerVars \/ \E c \in Call : Link(c)
    BY <2>5 DEF ledgerVars, Link
  <2> QED
    BY <2>1, <2>2, <2>3, <2>4, <2>5, LedgerEffects
<1>2. LedgerInv /\ [Next]_vars => [Final]_vars
  BY <1>1
<1> QED
  BY <1>2, LedgerInvariance, PTL DEF Spec, RetiredIsFinal
=============================================================================
