------------------------------ MODULE CreditLedger ------------------------------
(***************************************************************************)
(* The Article 6.4 ledger of one registered activity: issuances and their  *)
(* approval (issuance.service.ts), the credit blocks an approval mints,    *)
(* their transfer and retirement (transaction.service.ts), draws on the    *)
(* reversal buffer (reversal.service.ts), the corresponding-adjustment     *)
(* events these emit (ca-events.service.ts) and their export in a BTR      *)
(* (routes/corresponding-adjustments.ts), and the revocation of the host's *)
(* letter of authorization (host-authorization.service.ts).                *)
(*                                                                         *)
(* A handler reads and checks, and writes after another await without      *)
(* checking again.  One action is the code between two awaits; what a call *)
(* read stays in call[c].  A call that throws, or whose process dies, is   *)
(* dropped between two of its steps: a transaction is one step.            *)
(*                                                                         *)
(* The activity is registered, its periods are VERIFIED with a POSITIVE    *)
(* report and its letter is ISSUED: ActivityCycle shows how it got there.  *)
(***************************************************************************)
EXTENDS Naturals, FiniteSets, Sequences, FiniteSetsExt

CONSTANTS
    Call,                \* concurrent calls of the handlers
    Issuance,            \* one issuance for each verified period
    Gross,               \* verified emission reductions of a period, tCO2e
    Scope,               \* values of HostAuthorization.authorizedFor
    OrgAccount,          \* credit accounts owned by an organisation
    Purpose,             \* RetirementPurpose
    Draw,                \* units asked of the buffer
    BufferPct,           \* DEFAULT_BUFFER_PCT
    Target,              \* toAccountId of a transfer: any account may be named
    MaxRows,             \* bound: Transaction rows
    Null

Kind == {"net", "buffer", "sop", "omge"}

(* SB-managed accounts, owned by no organisation.                           *)
AdminAccount == {"REVERSAL_BUFFER", "ADAPTATION_FUND", "OMGE_CANCELLATION"}
RetirementAccount == Purpose
Account == OrgAccount \cup AdminAccount \cup RetirementAccount

ASSUME LedgerAssumption ==
    /\ IsFiniteSet(Call) /\ IsFiniteSet(Issuance)
    /\ Gross \subseteq Nat
    /\ Draw \subseteq Nat \ {0}
    /\ BufferPct \in 0..100
    /\ MaxRows \in Nat
    /\ Target \subseteq Account
    /\ Purpose \subseteq {"NDC", "OIMP", "VOLUNTARY"}
    /\ Scope \subseteq {"NDC_USE", "OIMP", "NDC_AND_OIMP", "MITIGATION_CONTRIBUTION"}
    /\ OrgAccount \cap (AdminAccount \cup RetirementAccount) = {}
    /\ "participant" \in OrgAccount      \* the account a mint's net units go to

(* A call approves an issuance at most once: it stands for its mint.        *)
Mint == Issuance \X Call
Block == Mint \X Kind

VARIABLES
    \* the activity
    activityStatus, loa, authorizedFor, isRemoval,
    verifiedEr,          \* VerificationReport.verifiedEr of each period
    periodStatus,
    issuanceStatus,      \* "none" when there is no row
    \* the ledger
    minted,              \* mints in the order of their commit
    block,               \* CreditUnitBlock rows that exist
    rows,                \* block -> its Transaction rows, oldest first
    \* corresponding adjustments
    caEvent,             \* the events, in the order of triggeredAt
    listed,              \* events some export has read
    call,                \* call -> where it is and what it has read
    \* history
    dropped,             \* blocks whose event a dropped call did not create
    raced                \* issuances two decisions on which overlapped

activityVars == <<activityStatus, loa, authorizedFor, isRemoval, verifiedEr>>
issuanceVars == <<periodStatus, issuanceStatus>>
ledgerVars == <<minted, block, rows>>
caVars == <<caEvent, listed>>
history == <<dropped, raced>>
vars == <<activityVars, issuanceVars, ledgerVars, caVars, call, history>>

RetirementStatus ==
    {"ACTIVE", "CANCELLED_SOP", "CANCELLED_OMGE", "CANCELLED_REVERSAL"} \cup Purpose

BlockRow == [units : Nat, holder : Account, status : RetirementStatus, first : BOOLEAN]
TransactionRow == [type : {"TRANSFER", "RETIREMENT", "REVERSAL_DRAW"},
                   to : Account, linked : BOOLEAN]

Pc == {"idle", "createIssuance", "mint", "markIssuing", "writeIssuing",
       "writeReject", "transfer", "emitTransfer", "linkTransfer",
       "retire", "emitRetirement", "linkRetirement", "draw",
       "checkTransfers", "writeRevoked", "markExported"}

Idle == [pc |-> "idle", block |-> Null, issuance |-> Null, to |-> Null,
         first |-> FALSE, picked |-> {}, events |-> {}]

LedgerTypeOK ==
    /\ activityStatus \in {"REGISTERED", "ISSUING", "CLOSED", "REJECTED"}
    /\ loa \in {"ISSUED", "REVOKED"}
    /\ authorizedFor \in Scope
    /\ isRemoval \in BOOLEAN
    /\ verifiedEr \in [Issuance -> Gross]
    /\ periodStatus \in [Issuance -> {"VERIFIED", "ISSUED"}]
    /\ issuanceStatus \in [Issuance -> {"none", "REQUESTED", "ISSUED", "REJECTED"}]
    /\ minted \in Seq(Mint)
    /\ DOMAIN block \subseteq Block
    /\ \A b \in DOMAIN block : block[b] \in BlockRow
    /\ rows \in [DOMAIN block -> Seq(TransactionRow)]
    /\ caEvent \in Seq([block : Block, status : {"PENDING_EXPORT", "EXPORTED"}])
    /\ listed \subseteq DOMAIN caEvent
    /\ \A c \in Call :
        /\ call[c].pc \in Pc
        /\ call[c].block \in DOMAIN block \cup {Null}
        /\ call[c].issuance \in Issuance \cup {Null}
        /\ call[c].to \in Account \cup {Null}
        /\ call[c].first \in BOOLEAN
        /\ call[c].picked \subseteq DOMAIN block
        /\ call[c].events \subseteq DOMAIN caEvent
    /\ dropped \subseteq DOMAIN block
    /\ raced \subseteq Issuance

Init ==
    /\ activityStatus = "REGISTERED"
    /\ loa = "ISSUED"
    /\ authorizedFor \in Scope
    /\ isRemoval \in BOOLEAN
    /\ verifiedEr \in [Issuance -> Gross]
    /\ periodStatus = [i \in Issuance |-> "VERIFIED"]
    /\ issuanceStatus = [i \in Issuance |-> "none"]
    /\ minted = <<>>
    /\ block = <<>>
    /\ rows = <<>>
    /\ caEvent = <<>>
    /\ listed = {}
    /\ call = [c \in Call |-> Idle]
    /\ dropped = {}
    /\ raced = {}
-----------------------------------------------------------------------------
(* calculateLevies, splitNetForBuffer: whole tCO2e, floored at each step    *)
Sop(gross) == (gross * 5) \div 100
Omge(gross) == (gross * 2) \div 100
Net(gross) == gross - Sop(gross) - Omge(gross)
BufferUnits(gross) == IF isRemoval THEN (Net(gross) * BufferPct) \div 100 ELSE 0

UnitsOf(kind, gross) ==
    CASE kind = "net"    -> Net(gross) - BufferUnits(gross)
      [] kind = "buffer" -> BufferUnits(gross)
      [] kind = "sop"    -> Sop(gross)
      [] kind = "omge"   -> Omge(gross)

UnitType == IF authorizedFor = "MITIGATION_CONTRIBUTION" THEN "A6_4ER_MC" ELSE "A6_4ER"

Start(c, local) == call' = [call EXCEPT ![c] = local]
Goto(c, label) == call' = [call EXCEPT ![c].pc = label]
Done(c) == call' = [call EXCEPT ![c] = Idle]
-----------------------------------------------------------------------------
(* requestIssuance: the row is unique on the period                         *)
BeginRequest(c, i) ==
    /\ call[c].pc = "idle"
    /\ periodStatus[i] = "VERIFIED"
    /\ loa = "ISSUED"
    /\ activityStatus \in {"REGISTERED", "ISSUING"}
    /\ issuanceStatus[i] = "none"
    /\ Start(c, [Idle EXCEPT !.pc = "createIssuance", !.issuance = i])
    /\ UNCHANGED <<activityVars, issuanceVars, ledgerVars, caVars, history>>

CreateIssuance(c) ==
    /\ call[c].pc = "createIssuance"
    /\ LET i == call[c].issuance
       IN issuanceStatus' = IF issuanceStatus[i] = "none"
                            THEN [issuanceStatus EXCEPT ![i] = "REQUESTED"]
                            ELSE issuanceStatus
    /\ Done(c)
    /\ UNCHANGED <<activityVars, periodStatus, ledgerVars, caVars, history>>

(* Calls that read the issuance REQUESTED and have not written yet.         *)
Deciding(i) == {c \in Call : /\ call[c].pc \in {"mint", "writeReject"}
                             /\ call[c].issuance = i}
NoteRace(i) == raced' = IF Deciding(i) = {} THEN raced ELSE raced \cup {i}

(* An approval that does not ask for REQUESTED.                             *)
BeginApproveAgain(c, i) ==
    /\ call[c].pc = "idle"
    /\ issuanceStatus[i] # "none"
    /\ Start(c, [Idle EXCEPT !.pc = "mint", !.issuance = i])
    /\ NoteRace(i)
    /\ UNCHANGED <<activityVars, issuanceVars, ledgerVars, caVars, dropped>>

(* approveIssuance                                                          *)
BeginApprove(c, i) ==
    /\ call[c].pc = "idle"
    /\ issuanceStatus[i] = "REQUESTED"
    /\ Start(c, [Idle EXCEPT !.pc = "mint", !.issuance = i])
    /\ NoteRace(i)
    /\ UNCHANGED <<activityVars, issuanceVars, ledgerVars, caVars, dropped>>

NewBlock(kind, units) ==
    [units |-> units,
     holder |-> CASE kind = "net"    -> "participant"
                  [] kind = "buffer" -> "REVERSAL_BUFFER"
                  [] kind = "sop"    -> "ADAPTATION_FUND"
                  [] kind = "omge"   -> "OMGE_CANCELLATION",
     status |-> CASE kind \in {"net", "buffer"} -> "ACTIVE"
                  [] kind = "sop"  -> "CANCELLED_SOP"
                  [] kind = "omge" -> "CANCELLED_OMGE",
     first |-> FALSE]

MintBlocks(c) ==
    /\ call[c].pc = "mint"
    /\ LET i == call[c].issuance
           Units(b) == UnitsOf(b[2], verifiedEr[i])
           new == {b \in {<<i, c>>} \X Kind : Units(b) > 0}
       IN /\ block' = [b \in DOMAIN block \cup new |->
                         IF b \in new THEN NewBlock(b[2], Units(b)) ELSE block[b]]
          /\ rows' = [b \in DOMAIN block \cup new |->
                        IF b \in new THEN <<>> ELSE rows[b]]
          /\ minted' = Append(minted, <<i, c>>)
          /\ issuanceStatus' = [issuanceStatus EXCEPT ![i] = "ISSUED"]
          /\ periodStatus' = [periodStatus EXCEPT ![i] = "ISSUED"]
    /\ Goto(c, "markIssuing")
    /\ UNCHANGED <<activityVars, caVars, history>>

(* markIssuing, whose refusals the caller swallows                          *)
MarkIssuing(c) ==
    /\ call[c].pc = "markIssuing"
    /\ IF activityStatus = "REGISTERED" THEN Goto(c, "writeIssuing") ELSE Done(c)
    /\ UNCHANGED <<activityVars, issuanceVars, ledgerVars, caVars, history>>

WriteIssuing(c) ==
    /\ call[c].pc = "writeIssuing"
    /\ activityStatus' = "ISSUING"
    /\ Done(c)
    /\ UNCHANGED <<loa, authorizedFor, isRemoval, verifiedEr, issuanceVars,
                   ledgerVars, caVars, history>>

(* rejectIssuance                                                           *)
BeginReject(c, i) ==
    /\ call[c].pc = "idle"
    /\ issuanceStatus[i] = "REQUESTED"
    /\ Start(c, [Idle EXCEPT !.pc = "writeReject", !.issuance = i])
    /\ NoteRace(i)
    /\ UNCHANGED <<activityVars, issuanceVars, ledgerVars, caVars, dropped>>

(* A reject that takes its period along.                                    *)
WriteRejectOfPeriod(c) ==
    /\ call[c].pc = "writeReject"
    /\ issuanceStatus' = [issuanceStatus EXCEPT ![call[c].issuance] = "REJECTED"]
    /\ periodStatus' = [periodStatus EXCEPT ![call[c].issuance] = "REJECTED"]
    /\ Done(c)
    /\ UNCHANGED <<activityVars, ledgerVars, caVars, history>>

WriteReject(c) ==
    /\ call[c].pc = "writeReject"
    /\ issuanceStatus' = [issuanceStatus EXCEPT ![call[c].issuance] = "REJECTED"]
    /\ Done(c)
    /\ UNCHANGED <<activityVars, periodStatus, ledgerVars, caVars, history>>
-----------------------------------------------------------------------------
(* Transaction rows, and those the calls in flight will add (for the bound) *)
RowsToCome ==
    MapThenSumSet(LAMBDA b : Len(rows[b]), DOMAIN block)
    + Cardinality({c \in Call : call[c].pc \in {"transfer", "retire", "draw"}})

(* A transfer that does not ask who owns the holding account.               *)
BeginTransferOfAny(c, b, to) ==
    /\ call[c].pc = "idle"
    /\ block[b].status = "ACTIVE"
    /\ block[b].holder # to
    /\ RowsToCome < MaxRows
    /\ Start(c, [Idle EXCEPT !.pc = "transfer", !.block = b, !.to = to,
                             !.first = ~block[b].first])
    /\ UNCHANGED <<activityVars, issuanceVars, ledgerVars, caVars, history>>

(* transferBlock: the caller's organisation owns the holding account        *)
BeginTransfer(c, b, to) ==
    /\ call[c].pc = "idle"
    /\ block[b].holder \in OrgAccount
    /\ block[b].status = "ACTIVE"
    /\ block[b].holder # to
    /\ RowsToCome < MaxRows
    /\ Start(c, [Idle EXCEPT !.pc = "transfer", !.block = b, !.to = to,
                             !.first = ~block[b].first])
    /\ UNCHANGED <<activityVars, issuanceVars, ledgerVars, caVars, history>>

(* Only units authorized for a single use.                                  *)
TransferEmitsForNdc(c) == call[c].first /\ authorizedFor = "NDC_USE"
TransferEmits(c) == call[c].first /\ UnitType = "A6_4ER"

(* A transfer that writes the whole row back as it was read.                *)
TransferWritesRow(c) ==
    /\ call[c].pc = "transfer"
    /\ LET b == call[c].block
       IN /\ block' = [block EXCEPT ![b] = [@ EXCEPT !.holder = call[c].to,
                            !.status = "ACTIVE", !.first = @ \/ call[c].first]]
          /\ rows' = [rows EXCEPT ![b] = Append(@,
                        [type |-> "TRANSFER", to |-> call[c].to, linked |-> FALSE])]
    /\ IF TransferEmits(c) THEN Goto(c, "emitTransfer") ELSE Done(c)
    /\ UNCHANGED <<activityVars, issuanceVars, minted, caVars, history>>

Transfer(c) ==
    /\ call[c].pc = "transfer"
    /\ LET b == call[c].block
       IN /\ block' = [block EXCEPT ![b].holder = call[c].to,
                                    ![b].first = @ \/ call[c].first]
          /\ rows' = [rows EXCEPT ![b] = Append(@,
                        [type |-> "TRANSFER", to |-> call[c].to, linked |-> FALSE])]
    /\ IF TransferEmits(c) THEN Goto(c, "emitTransfer") ELSE Done(c)
    /\ UNCHANGED <<activityVars, issuanceVars, minted, caVars, history>>

(* retireBlock                                                              *)
BeginRetire(c, b, purpose) ==
    /\ call[c].pc = "idle"
    /\ block[b].holder \in OrgAccount
    /\ block[b].status = "ACTIVE"
    /\ RowsToCome < MaxRows
    /\ Start(c, [Idle EXCEPT !.pc = "retire", !.block = b, !.to = purpose])
    /\ UNCHANGED <<activityVars, issuanceVars, ledgerVars, caVars, history>>

RetirementEmits(c) == call[c].to \in {"NDC", "OIMP"} /\ UnitType = "A6_4ER"

(* A retirement that leaves the block in its account.                       *)
RetireInPlace(c) ==
    /\ call[c].pc = "retire"
    /\ LET b == call[c].block
       IN /\ block' = [block EXCEPT ![b].status = call[c].to]
          /\ rows' = [rows EXCEPT ![b] = Append(@,
                        [type |-> "RETIREMENT", to |-> call[c].to, linked |-> FALSE])]
    /\ IF RetirementEmits(c) THEN Goto(c, "emitRetirement") ELSE Done(c)
    /\ UNCHANGED <<activityVars, issuanceVars, minted, caVars, history>>

Retire(c) ==
    /\ call[c].pc = "retire"
    /\ LET b == call[c].block
       IN /\ block' = [block EXCEPT ![b].holder = call[c].to,
                                    ![b].status = call[c].to]
          /\ rows' = [rows EXCEPT ![b] = Append(@,
                        [type |-> "RETIREMENT", to |-> call[c].to, linked |-> FALSE])]
    /\ IF RetirementEmits(c) THEN Goto(c, "emitRetirement") ELSE Done(c)
    /\ UNCHANGED <<activityVars, issuanceVars, minted, caVars, history>>

(* emitOnFirstTransfer, emitOnRetirement                                    *)
Emit(c) ==
    /\ call[c].pc \in {"emitTransfer", "emitRetirement"}
    /\ caEvent' = Append(caEvent, [block |-> call[c].block,
                                   status |-> "PENDING_EXPORT"])
    /\ Goto(c, IF call[c].pc = "emitTransfer" THEN "linkTransfer"
                                              ELSE "linkRetirement")
    /\ UNCHANGED <<activityVars, issuanceVars, ledgerVars, listed, history>>

(* updateMany of the block's rows of the type that have no caEventId        *)
Link(c) ==
    /\ call[c].pc \in {"linkTransfer", "linkRetirement"}
    /\ LET b == call[c].block
           type == IF call[c].pc = "linkTransfer" THEN "TRANSFER" ELSE "RETIREMENT"
       IN rows' = [rows EXCEPT ![b] = [n \in DOMAIN @ |->
                     IF @[n].type = type THEN [@[n] EXCEPT !.linked = TRUE] ELSE @[n]]]
    /\ Done(c)
    /\ UNCHANGED <<activityVars, issuanceVars, minted, block, caVars, history>>
-----------------------------------------------------------------------------
(* reversal draw: whole blocks, oldest issuanceDate first, until covered.   *)
(* The blocks of one mint may share a date: their order is free.            *)
UnitsIn(B) == MapThenSumSet(LAMBDA b : block[b].units, B)
MintedAt(b) == CHOOSE n \in DOMAIN minted : minted[n] = b[1]

InBuffer == {b \in DOMAIN block : /\ block[b].holder = "REVERSAL_BUFFER"
                                  /\ block[b].status = "ACTIVE"}

Draws(units) ==
    {B \in SUBSET InBuffer :
        /\ UnitsIn(B) >= units
        /\ \A b \in B, other \in InBuffer \ B : MintedAt(b) <= MintedAt(other)
        /\ \E last \in B : /\ UnitsIn(B \ {last}) < units
                           /\ \A b \in B : MintedAt(b) <= MintedAt(last)}

BeginDraw(c, units) ==
    /\ call[c].pc = "idle"
    /\ isRemoval
    /\ activityStatus \in {"REGISTERED", "ISSUING", "CLOSED"}
    /\ RowsToCome < MaxRows
    /\ \E B \in Draws(units) :
        Start(c, [Idle EXCEPT !.pc = "draw", !.picked = B])
    /\ UNCHANGED <<activityVars, issuanceVars, ledgerVars, caVars, history>>

CancelDrawn(c) ==
    /\ call[c].pc = "draw"
    /\ LET B == call[c].picked
       IN /\ block' = [b \in DOMAIN block |->
                         IF b \in B THEN [block[b] EXCEPT !.status = "CANCELLED_REVERSAL"]
                                    ELSE block[b]]
          /\ rows' = [b \in DOMAIN block |->
                        IF b \in B
                        THEN Append(rows[b], [type |-> "REVERSAL_DRAW",
                                              to |-> "REVERSAL_BUFFER", linked |-> FALSE])
                        ELSE rows[b]]
    /\ Done(c)
    /\ UNCHANGED <<activityVars, issuanceVars, minted, caVars, history>>
-----------------------------------------------------------------------------
(* revokeAuthorization: refused after a first transfer                      *)
BeginRevoke(c) ==
    /\ call[c].pc = "idle"
    /\ loa = "ISSUED"
    /\ Start(c, [Idle EXCEPT !.pc = "checkTransfers"])
    /\ UNCHANGED <<activityVars, issuanceVars, ledgerVars, caVars, history>>

CheckTransfers(c) ==
    /\ call[c].pc = "checkTransfers"
    /\ IF \E b \in DOMAIN block : block[b].first
       THEN Done(c) ELSE Goto(c, "writeRevoked")
    /\ UNCHANGED <<activityVars, issuanceVars, ledgerVars, caVars, history>>

WriteRevoked(c) ==
    /\ call[c].pc = "writeRevoked"
    /\ loa' = "REVOKED"
    /\ Done(c)
    /\ UNCHANGED <<activityStatus, authorizedFor, isRemoval, verifiedEr,
                   issuanceVars, ledgerVars, caVars, history>>

(* closeActivity and rejectActivity guard on no status                      *)
CloseActivity ==
    /\ activityStatus' = "CLOSED"
    /\ UNCHANGED <<loa, authorizedFor, isRemoval, verifiedEr, issuanceVars,
                   ledgerVars, caVars, call, history>>

RejectActivity ==
    /\ activityStatus' = "REJECTED"
    /\ UNCHANGED <<loa, authorizedFor, isRemoval, verifiedEr, issuanceVars,
                   ledgerVars, caVars, call, history>>
-----------------------------------------------------------------------------
(* GET /btr/:hostCountry: read the events, mark the pending ones by their   *)
(* ids, answer with the rows that were read                                 *)
BeginExport(c) ==
    /\ call[c].pc = "idle"
    /\ LET pending == {n \in DOMAIN caEvent : caEvent[n].status = "PENDING_EXPORT"}
       IN /\ pending # {}
          /\ Start(c, [Idle EXCEPT !.pc = "markExported", !.events = pending])
    /\ listed' = DOMAIN caEvent
    /\ UNCHANGED <<activityVars, issuanceVars, ledgerVars, caEvent, history>>

(* An update of every pending event instead of the ids that were read.      *)
MarkAllExported(c) ==
    /\ call[c].pc = "markExported"
    /\ caEvent' = [n \in DOMAIN caEvent |-> [caEvent[n] EXCEPT !.status = "EXPORTED"]]
    /\ Done(c)
    /\ UNCHANGED <<activityVars, issuanceVars, ledgerVars, listed, history>>

MarkExported(c) ==
    /\ call[c].pc = "markExported"
    /\ caEvent' = [n \in DOMAIN caEvent |->
                     IF n \in call[c].events THEN [caEvent[n] EXCEPT !.status = "EXPORTED"]
                                             ELSE caEvent[n]]
    /\ Done(c)
    /\ UNCHANGED <<activityVars, issuanceVars, ledgerVars, listed, history>>

(* an await throws or the process dies                                      *)
Drop(c) ==
    /\ call[c].pc # "idle"
    /\ dropped' = IF call[c].pc \in {"emitTransfer", "emitRetirement"}
                  THEN dropped \cup {call[c].block} ELSE dropped
    /\ Done(c)
    /\ UNCHANGED <<activityVars, issuanceVars, ledgerVars, caVars, raced>>
-----------------------------------------------------------------------------
IssuanceStep(c) ==
    \/ \E i \in Issuance : BeginRequest(c, i) \/ BeginApprove(c, i) \/ BeginReject(c, i)
    \/ CreateIssuance(c)
    \/ MintBlocks(c)
    \/ MarkIssuing(c)
    \/ WriteIssuing(c)
    \/ WriteReject(c)

BlockStep(c) ==
    \/ \E b \in DOMAIN block : \E to \in Target : BeginTransfer(c, b, to)
    \/ \E b \in DOMAIN block : \E purpose \in Purpose : BeginRetire(c, b, purpose)
    \/ \E units \in Draw : BeginDraw(c, units)
    \/ Transfer(c)
    \/ Retire(c)
    \/ CancelDrawn(c)

CaStep(c) ==
    \/ Emit(c)
    \/ Link(c)
    \/ BeginExport(c)
    \/ MarkExported(c)

LoaStep(c) ==
    \/ BeginRevoke(c)
    \/ CheckTransfers(c)
    \/ WriteRevoked(c)

Next ==
    \/ \E c \in Call : IssuanceStep(c) \/ BlockStep(c) \/ CaStep(c) \/ LoaStep(c) \/ Drop(c)
    \/ CloseActivity
    \/ RejectActivity

Spec == Init /\ [][Next]_vars
-----------------------------------------------------------------------------
(* What an approval mints adds up to the verified reductions, with levies   *)
(* of at most 5% and 2%, and the levied and the buffered units never leave  *)
(* the accounts they were minted to: no handler moves a block out of an     *)
(* account no organisation owns, whatever the calls in flight have read.    *)
MintIsSplit ==
    \A n \in DOMAIN minted :
        LET gross == verifiedEr[minted[n][1]]
            Of(kind) == <<minted[n], kind>>
            Units(kind) == IF Of(kind) \in DOMAIN block THEN block[Of(kind)].units ELSE 0
            StaysIn(kind, account) ==
                Of(kind) \in DOMAIN block => block[Of(kind)].holder = account
        IN /\ Units("net") + Units("buffer") + Units("sop") + Units("omge") = gross
           /\ Units("sop") * 20 <= gross
           /\ Units("omge") * 50 <= gross
           /\ StaysIn("sop", "ADAPTATION_FUND")
           /\ StaysIn("omge", "OMGE_CANCELLATION")
           /\ StaysIn("buffer", "REVERSAL_BUFFER")

(* The registry history explains the ledger: a block is held where its last *)
(* TRANSFER or RETIREMENT row moved it to (transaction.service.ts:16), also *)
(* after calls that overtook one another.                                   *)
IsMove(row) == row.type # "REVERSAL_DRAW"
IsLastMove(b, n) ==
    /\ IsMove(rows[b][n])
    /\ \A later \in DOMAIN rows[b] : later > n => ~IsMove(rows[b][later])
HolderIsLastRow ==
    \A b \in DOMAIN block : \A n \in DOMAIN rows[b] :
        IsLastMove(b, n) => block[b].holder = rows[b][n].to

(* A retired or cancelled block is never ACTIVE again: a stale transfer may *)
(* still move it, but cannot make its units usable a second time.           *)
RetiredIsFinal ==
    [][\A b \in DOMAIN block :
        block[b].status # "ACTIVE" => block'[b].status # "ACTIVE"]_vars

(* Unless two decisions on an issuance overlapped, one requested here is    *)
(* minted at most once, and exactly when it is ISSUED (those awd2-import    *)
(* creates are ISSUED without blocks, and no call here takes them): a reject leaves no units behind,    *)
(* and a dropped approval neither half-mints nor leaves an issuance that    *)
(* looks issued (approveIssuance's transaction, issuance.service.ts:203).   *)
MintsOf(i) == {n \in DOMAIN minted : minted[n][1] = i}
MintedOnce ==
    \A i \in Issuance \ raced :
        /\ Cardinality(MintsOf(i)) <= 1
        /\ MintsOf(i) # {} <=> issuanceStatus[i] = "ISSUED"

(* A first transfer or an NDC/OIMP retirement of authorized units has its   *)
(* corresponding-adjustment event, or the call that made it is about to     *)
(* create it, or that call was dropped right there.                         *)
Emitting(b) == \E c \in Call : /\ call[c].pc \in {"emitTransfer", "emitRetirement"}
                               /\ call[c].block = b
UseIsReported ==
    UnitType = "A6_4ER" =>
        \A b \in DOMAIN block :
            block[b].first \/ block[b].status \in {"NDC", "OIMP"} =>
                \/ \E n \in DOMAIN caEvent : caEvent[n].block = b
                \/ Emitting(b)
                \/ b \in dropped

(* An event is EXPORTED only after an export read it: one that arrives      *)
(* between the export's read and its update stays PENDING_EXPORT and is not *)
(* lost to the next report (corresponding-adjustments.ts:109-134).          *)
ExportedWasListed ==
    \A n \in DOMAIN caEvent : caEvent[n].status = "EXPORTED" => n \in listed
=============================================================================
