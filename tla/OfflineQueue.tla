------------------------------ MODULE OfflineQueue ------------------------------
(***************************************************************************)
(* The SDK's queue of requests that failed for want of a network           *)
(* (aurigraph-dlt-sdk/src/queue.ts) and the client that fills it and       *)
(* replays it (client.ts).  JavaScript runs one piece of code at a time:   *)
(* flush is interrupted only where it awaits the handler, with the head of *)
(* the queue on the wire, and then enqueue and clear may change the queue. *)
(***************************************************************************)
EXTENDS Naturals, Sequences, SequencesExt

CONSTANTS
    Key,                 \* idempotency keys
    NoKey,               \* a request without one
    MaxSize,             \* QueueOptions.maxSize
    MaxOps,              \* bound: operations enqueued
    MaxRestarts          \* bound: restarts of the process

ASSUME QueueAssumption ==
    /\ NoKey \notin Key
    /\ MaxSize \in Nat \ {0}
    /\ MaxOps \in Nat \ {0}
    /\ MaxRestarts \in Nat

Op == 1..MaxOps
NoOp == 0

VARIABLES
    queue,               \* the operations in memory, oldest first
    stored,              \* what the storage holds
    flushing,            \* a flush is running
    sending,             \* the operation its handler was called with
    key,                 \* idempotencyKey of the operations enqueued so far
    \* the server
    refused,             \* operations it answers with a 4xx, for ever
    \* history
    delivered,           \* operations whose handler returned
    announced,           \* operations removed by a drop, a replacement or clear
    overtaken,           \* one of these was on the wire
    storageFailed,       \* a setItem threw: it is ignored
    restarts

queueVars == <<queue, stored, flushing, sending, key, refused, delivered, announced,
               overtaken, storageFailed, restarts>>

Enqueued == DOMAIN key

QueueTypeOK ==
    /\ queue \in Seq(Op) /\ Len(queue) <= MaxSize
    /\ stored \in Seq(Op) /\ Len(stored) <= MaxSize
    /\ flushing \in BOOLEAN
    /\ sending \in Op \cup {NoOp}
    /\ key \in Seq(Key \cup {NoKey})
    /\ ToSet(queue) \cup ToSet(stored) \subseteq Enqueued
    /\ refused \subseteq Op
    /\ delivered \subseteq Enqueued
    /\ announced \subseteq Enqueued
    /\ overtaken \in BOOLEAN
    /\ storageFailed \in BOOLEAN
    /\ restarts \in 0..MaxRestarts

QueueInit ==
    /\ queue = <<>>
    /\ stored = <<>>
    /\ flushing = FALSE
    /\ sending = NoOp
    /\ key = <<>>
    /\ refused \in {{}, {1}}
    /\ delivered = {}
    /\ announced = {}
    /\ overtaken = FALSE
    /\ storageFailed = FALSE
    /\ restarts = 0

(* persist: the whole queue, or nothing when the storage is full            *)
Persist(q) ==
    \/ stored' = q /\ UNCHANGED storageFailed
    \/ storageFailed' = TRUE /\ UNCHANGED stored

TakeOut(ops) ==
    /\ announced' = announced \cup ops
    /\ overtaken' = (overtaken \/ sending \in ops)

(* enqueue: an operation with the key of a queued one takes its place, and  *)
(* otherwise the oldest make room                                           *)
SameKey(k) == {n \in DOMAIN queue : k # NoKey /\ key[queue[n]] = k}

(* The limit compared before the operation is added.                        *)
OverflowLate == IF Len(queue) > MaxSize THEN Len(queue) - MaxSize ELSE 0
Overflow == IF Len(queue) >= MaxSize THEN Len(queue) - MaxSize + 1 ELSE 0

(* The new operation put before the others.                                 *)
AddedFirst(op, k) ==
    IF SameKey(k) # {}
    THEN [n \in DOMAIN queue |-> IF n \in SameKey(k) THEN op ELSE queue[n]]
    ELSE <<op>> \o SubSeq(queue, Overflow + 1, Len(queue))

Added(op, k) ==
    IF SameKey(k) # {}
    THEN [n \in DOMAIN queue |-> IF n \in SameKey(k) THEN op ELSE queue[n]]
    ELSE Append(SubSeq(queue, Overflow + 1, Len(queue)), op)

Enqueue(k) ==
    /\ Len(key) < MaxOps
    /\ LET op == Len(key) + 1
       IN /\ key' = Append(key, k)
          /\ queue' = Added(op, k)
          /\ TakeOut(ToSet(queue) \ ToSet(queue'))
    /\ Persist(queue')
    /\ UNCHANGED <<flushing, sending, refused, delivered, restarts>>

Clear ==
    /\ queue' = <<>>
    /\ TakeOut(ToSet(queue))
    /\ Persist(queue')
    /\ UNCHANGED <<flushing, sending, key, refused, delivered, restarts>>

(* flush, by the timer or by hand; a second one returns at once             *)
StartFlush ==
    /\ ~flushing
    /\ queue # <<>>
    /\ flushing' = TRUE
    /\ sending' = Head(queue)
    /\ UNCHANGED <<queue, stored, key, refused, delivered, announced, overtaken,
                   storageFailed, restarts>>

(* The end of a flush without its persist, and without its finally.         *)
EndFlushUnsaved(q) ==
    flushing' = FALSE /\ sending' = NoOp /\ UNCHANGED <<stored, storageFailed>>
EndFlushStuck(q) == UNCHANGED flushing /\ sending' = NoOp /\ Persist(q)

EndFlush(q) == flushing' = FALSE /\ sending' = NoOp /\ Persist(q)

(* The handler returns: shift takes whatever is first by now, and the loop  *)
(* goes on with the next, or persists.                                      *)
Shifted == IF queue = <<>> THEN <<>> ELSE Tail(queue)

Sent ==
    /\ sending # NoOp
    /\ sending \notin refused
    /\ delivered' = delivered \cup {sending}
    /\ queue' = Shifted
    /\ IF Shifted = <<>>
       THEN EndFlush(Shifted)
       ELSE /\ sending' = Head(Shifted)
            /\ UNCHANGED <<flushing, stored, storageFailed>>
    /\ UNCHANGED <<key, refused, announced, overtaken, restarts>>

(* A failed operation gives way to the next.                                *)
AfterFailureNext == Shifted
AfterFailure == queue

(* The handler throws: the flush stops and persists.                        *)
NotSent ==
    /\ sending # NoOp
    /\ queue' = AfterFailure
    /\ EndFlush(AfterFailure)
    /\ UNCHANGED <<key, refused, delivered, announced, overtaken, restarts>>

(* The process dies and a new client restores what was stored.              *)
Restart ==
    /\ restarts < MaxRestarts
    /\ restarts' = restarts + 1
    /\ queue' = stored
    /\ flushing' = FALSE
    /\ sending' = NoOp
    /\ UNCHANGED <<stored, key, refused, delivered, announced, overtaken, storageFailed>>

QueueNext ==
    \/ \E k \in Key \cup {NoKey} : Enqueue(k)
    \/ Clear
    \/ StartFlush
    \/ Sent
    \/ NotSent
    \/ Restart

(* The timer fires for as long as the client lives, and a request that is   *)
(* tried for ever gets through at last, unless the server refuses it.       *)
QueueFairness ==
    /\ WF_queueVars(StartFlush)
    /\ WF_queueVars(Sent \/ NotSent)
    /\ SF_queueVars(Sent)

QueueSpec == QueueInit /\ [][QueueNext]_queueVars /\ QueueFairness
-----------------------------------------------------------------------------
(* An operation leaves the queue when it was delivered or its removal was   *)
(* announced, never silently, across overflows, replacements, failures and  *)
(* restarts: unless the head was removed while it was on the wire, in which *)
(* case the shift takes another (queue.ts:118), or the storage failed.      *)
NeverLost ==
    ~overtaken /\ ~storageFailed =>
        Enqueued \subseteq ToSet(queue) \cup delivered \cup announced

(* While the storage works, a restart resumes with at least the operations  *)
(* that are pending, in the same order; what it repeats was delivered by    *)
(* the flush that is running (queue.ts:126 persists at its end only).       *)
PendingIsStored ==
    ~storageFailed =>
        /\ IsSuffix(queue, stored)
        /\ stored # queue => flushing
        /\ ~overtaken => ToSet(stored) \ ToSet(queue) \subseteq delivered

(* The queue implements Outbox: operations are delivered in their order,    *)
(* each goes delivered or announced, and a restart brings back delivered    *)
(* ones only; until an operation on the wire is removed or the storage      *)
(* fails.                                                                   *)
Box ==
    INSTANCE Outbox
    WITH pending <- queue, accepted <- Enqueued, broken <- overtaken \/ storageFailed

ImplementsOutbox == Box!Spec

(* The queue drains: unless the server refuses an operation for good, in    *)
(* which case those behind it wait until it is dropped, every operation     *)
(* leaves the queue.                                                        *)
QueueDrains == refused = {} => \A op \in Op : op \in ToSet(queue) ~> op \notin ToSet(queue)
=============================================================================
