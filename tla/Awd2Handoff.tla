------------------------------ MODULE Awd2Handoff ------------------------------
(***************************************************************************)
(* The handoff of tokenized credits from the AWD2 registry: the route that *)
(* deduplicates and stores a manifest (routes/awd2-handoff.ts) and the     *)
(* import that turns it into an issuance (awd2-import.service.ts).  All    *)
(* the credits are of one AWD2 project.  One action is the code between    *)
(* two awaits.  A transaction that throws has been rolled back.            *)
(***************************************************************************)
EXTENDS Naturals, Sequences, FiniteSets

CONSTANTS
    Serial,              \* credits of the project, by bcrSerialId
    Nonce,               \* handoffNonce values
    Delivery,            \* concurrent POSTs
    NoSerial

ASSUME HandoffAssumption ==
    /\ IsFiniteSet(Serial) /\ IsFiniteSet(Nonce) /\ IsFiniteSet(Delivery)
    /\ NoSerial \notin Serial

VARIABLES
    handoff,             \* Awd2Handoff.status of each nonce
    imported,            \* the nonces the issuances came from, in order
    projectActivities,   \* Activity rows with the project's awd2ProjectRef
    eligible,            \* the methodology is eligible, the organisation exists
    delivery,            \* the POSTs being handled
    \* the emitter, in the AWD2 repository
    manifest,            \* the credit a nonce was emitted for
    told                 \* nonces it was answered a failure for

handoffVars == <<handoff, imported, projectActivities, eligible, delivery, manifest, told>>

NoDelivery == [pc |-> "idle", nonce |-> "none"]

ImportedFrom(n) == {k \in DOMAIN imported : imported[k] = n}

(* No more activities than deliveries: an import that overlaps no other     *)
(* finds the project's (findOrCreateActivityForAwd2Project).                *)
HandoffTypeOK ==
    /\ handoff \in [Nonce -> {"none", "RECEIVED", "FAILED", "IMPORTED"}]
    /\ imported \in Seq(Nonce)
    /\ projectActivities \in 0..Cardinality(Delivery)
    /\ eligible \in BOOLEAN
    /\ delivery \in [Delivery -> [pc : {"idle", "store", "check", "find", "attach",
                                        "issue", "refuse", "break"},
                                  nonce : Nonce \cup {"none"}]]
    /\ manifest \in [Nonce -> Serial \cup {NoSerial}]
    /\ told \subseteq Nonce

HandoffInit ==
    /\ handoff = [n \in Nonce |-> "none"]
    /\ imported = <<>>
    /\ projectActivities = 0
    /\ eligible \in BOOLEAN
    /\ delivery = [d \in Delivery |-> NoDelivery]
    /\ manifest = [n \in Nonce |-> NoSerial]
    /\ told = {}

Stage(d, pc) == delivery[d].pc = pc
Proceed(d, pc) == delivery' = [delivery EXCEPT ![d].pc = pc]
Answer(d) == delivery' = [delivery EXCEPT ![d] = NoDelivery]
-----------------------------------------------------------------------------
(* The emitter hands a credit over under a new nonce once it knows that     *)
(* every earlier nonce of the credit has failed (awd2-handoff.ts:177-183).  *)
Emit(n, s) ==
    /\ manifest[n] = NoSerial
    /\ \A m \in Nonce : manifest[m] = s => m \in told
    /\ manifest' = [manifest EXCEPT ![n] = s]
    /\ UNCHANGED <<handoff, imported, projectActivities, eligible, delivery, told>>

(* An operator makes the methodology eligible, or withdraws it.             *)
Toggle ==
    /\ eligible' = ~eligible
    /\ UNCHANGED <<handoff, imported, projectActivities, delivery, manifest, told>>

(* A POST, or its repetition: a nonce that has a row is a duplicate, and    *)
(* the answer names the row's status.                                       *)
Known(n) == handoff[n] # "none"

Post(d, n) ==
    /\ Stage(d, "idle")
    /\ manifest[n] # NoSerial
    /\ IF Known(n)
       THEN /\ told' = IF handoff[n] = "FAILED" THEN told \cup {n} ELSE told
            /\ UNCHANGED delivery
       ELSE /\ delivery' = [delivery EXCEPT ![d] = [pc |-> "store", nonce |-> n]]
            /\ UNCHANGED told
    /\ UNCHANGED <<handoff, imported, projectActivities, eligible, manifest>>

(* The row; a second one for the nonce breaks the unique index.             *)
Store(d) ==
    /\ Stage(d, "store")
    /\ IF Known(delivery[d].nonce)
       THEN Answer(d) /\ UNCHANGED handoff
       ELSE /\ handoff' = [handoff EXCEPT ![delivery[d].nonce] = "RECEIVED"]
            /\ Proceed(d, "check")
    /\ UNCHANGED <<imported, projectActivities, eligible, manifest, told>>

(* importAwd2Handoff: the row is read again, then methodology and holder.   *)
Check(d) ==
    /\ Stage(d, "check")
    /\ IF handoff[delivery[d].nonce] = "IMPORTED" THEN Answer(d)
       ELSE Proceed(d, IF eligible THEN "find" ELSE "refuse")
    /\ UNCHANGED <<handoff, imported, projectActivities, eligible, manifest, told>>

FindActivity(d) ==
    /\ Stage(d, "find")
    /\ \/ Proceed(d, IF projectActivities = 0 THEN "attach" ELSE "issue")
       \/ Proceed(d, "break")
    /\ UNCHANGED <<handoff, imported, projectActivities, eligible, manifest, told>>

CreateActivity(d) ==
    /\ Stage(d, "attach")
    /\ \/ projectActivities' = projectActivities + 1 /\ Proceed(d, "issue")
       \/ UNCHANGED projectActivities /\ Proceed(d, "refuse")
    /\ UNCHANGED <<handoff, imported, eligible, manifest, told>>

(* The transaction: period, issuance and IMPORTED together, or none.        *)
Import(d) ==
    /\ Stage(d, "issue")
    /\ imported' = Append(imported, delivery[d].nonce)
    /\ handoff' = [handoff EXCEPT ![delivery[d].nonce] = "IMPORTED"]
    /\ Answer(d)
    /\ UNCHANGED <<projectActivities, eligible, manifest, told>>

(* The issuance written outside the transaction.                            *)
ImportBreaksHalfway(d) ==
    /\ Stage(d, "issue")
    /\ imported' = Append(imported, delivery[d].nonce)
    /\ Proceed(d, "break")
    /\ UNCHANGED <<handoff, projectActivities, eligible, manifest, told>>

ImportBreaks(d) ==
    /\ Stage(d, "issue")
    /\ Proceed(d, "break")
    /\ UNCHANGED <<handoff, imported, projectActivities, eligible, manifest, told>>

(* markHandoffFailed, whose own failure is swallowed, and the answer: a 422 *)
(* tells the emitter, a 500 leaves it to ask again.                         *)
Fail(d) ==
    /\ delivery[d].pc \in {"refuse", "break"}
    /\ \/ handoff' = [handoff EXCEPT ![delivery[d].nonce] = "FAILED"]
       \/ UNCHANGED handoff
    /\ told' = IF Stage(d, "refuse") THEN told \cup {delivery[d].nonce} ELSE told
    /\ Answer(d)
    /\ UNCHANGED <<imported, projectActivities, eligible, manifest>>

(* An await throws elsewhere, or the process dies: the row keeps its status *)
(* and every later POST of the nonce is a duplicate.                        *)
DropDelivery(d) ==
    /\ ~Stage(d, "idle")
    /\ Answer(d)
    /\ UNCHANGED <<handoff, imported, projectActivities, eligible, manifest, told>>
-----------------------------------------------------------------------------
HandoffNext ==
    \/ \E n \in Nonce, s \in Serial : Emit(n, s)
    \/ Toggle
    \/ \E d \in Delivery :
        \/ \E n \in Nonce : Post(d, n)
        \/ Store(d)
        \/ Check(d)
        \/ FindActivity(d)
        \/ CreateActivity(d)
        \/ Import(d)
        \/ ImportBreaks(d)
        \/ Fail(d)
        \/ DropDelivery(d)

HandoffSpec == HandoffInit /\ [][HandoffNext]_handoffVars
-----------------------------------------------------------------------------
(* A credit is imported once, whatever is delivered twice, dropped halfway  *)
(* or handed over again after a failure, so the emitter never double-pays   *)
(* (awd2-handoff.ts:177): a handoff is IMPORTED exactly when its issuance   *)
(* exists, and one that the emitter was told has failed left none behind.   *)
CreditImportedOnce ==
    /\ \A s \in Serial :
        Cardinality({k \in DOMAIN imported : manifest[imported[k]] = s}) <= 1
    /\ \A n \in Nonce : handoff[n] = "IMPORTED" <=> ImportedFrom(n) # {}
    /\ \A n \in told : ImportedFrom(n) = {}
=============================================================================
