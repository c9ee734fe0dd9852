-------------------------------- MODULE Outbox --------------------------------
(***************************************************************************)
(* What the SDK's offline queue promises of the operations it accepts:     *)
(* they are delivered in their order, an operation that goes undelivered   *)
(* is announced, and after a restart only delivered ones come back.  What  *)
(* is stored when, how it is flushed and retried is not said.  A broken    *)
(* outbox promises nothing more.                                           *)
(***************************************************************************)
EXTENDS Naturals, Sequences, SequencesExt

CONSTANT
    Op                  \* operations

VARIABLES
    pending,            \* the operations to deliver, oldest first
    accepted,           \* those taken so far
    delivered,
    announced,          \* taken out undelivered
    broken

outboxVars == <<pending, accepted, delivered, announced, broken>>

Init ==
    /\ pending = <<>>
    /\ accepted = {}
    /\ delivered = {}
    /\ announced = {}
    /\ broken = FALSE

Oldest(n) == {pending[i] : i \in 1..n}
Rest(n) == SubSeq(pending, n + 1, Len(pending))

(* A new operation comes last; the oldest may have to make room.            *)
Accept(op, n) ==
    /\ op \notin accepted
    /\ accepted' = accepted \cup {op}
    /\ pending' = Append(Rest(n), op)
    /\ announced' = announced \cup Oldest(n)
    /\ UNCHANGED delivered

(* Or it takes the place of one.                                            *)
Replace(op, i) ==
    /\ op \notin accepted
    /\ accepted' = accepted \cup {op}
    /\ pending' = [pending EXCEPT ![i] = op]
    /\ announced' = announced \cup {pending[i]}
    /\ UNCHANGED delivered

Discard ==
    /\ pending' = <<>>
    /\ announced' = announced \cup ToSet(pending)
    /\ UNCHANGED <<accepted, delivered>>

Deliver ==
    /\ pending # <<>>
    /\ pending' = Tail(pending)
    /\ delivered' = delivered \cup {Head(pending)}
    /\ UNCHANGED <<accepted, announced>>

(* Delivered operations are ahead of the pending ones once more.            *)
Rewind ==
    /\ IsSuffix(pending, pending')
    /\ \A i \in 1..Len(pending') - Len(pending) : pending'[i] \in delivered
    /\ UNCHANGED <<accepted, delivered, announced>>

Works ==
    \/ \E op \in Op, n \in 0..Len(pending) : Accept(op, n)
    \/ \E op \in Op, i \in 1..Len(pending) : Replace(op, i)
    \/ Discard
    \/ Deliver
    \/ Rewind

Next ==
    \/ ~broken /\ ~broken' /\ Works
    \/ broken'

Spec == Init /\ [][Next]_outboxVars
=============================================================================
