-------------------------- MODULE OfflineQueueProofs --------------------------
(***************************************************************************)
(* Proofs about the SDK's queue of unsent requests: whatever its limit,    *)
(* keys, removals and restarts, it has its type, loses no operation and    *)
(* can resume from what is stored.                                         *)
(***************************************************************************)
EXTENDS OfflineQueue, SequenceTheorems, TLAPS

(***************************************************************************)
(* Suffixes.                                                               *)
(***************************************************************************)
EndsWith(t, s) ==
    /\ Len(s) <= Len(t)
    /\ \A i \in 1..Len(s) : s[i] = t[Len(t) - Len(s) + i]

LEMMA ReverseProperties ==
    ASSUME NEW S, NEW s \in Seq(S)
    PROVE  /\ Reverse(s) \in Seq(S)
           /\ Len(Reverse(s)) = Len(s)
           /\ \A i \in 1..Len(s) : Reverse(s)[i] = s[Len(s) - i + 1]
<1>1. Len(s) \in Nat
  BY LenProperties
<1>2. \A i \in 1..Len(s) : s[Len(s) - i + 1] \in S
  BY <1>1, ElementOfSeq
<1>3. Reverse(s) \in [1..Len(s) -> S]
  BY <1>2 DEF Reverse
<1>4. Reverse(s) \in Seq(S)
  BY <1>1, <1>3, SeqDef
<1>5. Len(Reverse(s)) = Len(s)
  BY <1>1, <1>3, <1>4, LenProperties
<1> QED
  BY <1>4, <1>5 DEF Reverse

(* What IsSuffix says, position by position.                                *)
LEMMA SuffixMeans ==
    ASSUME NEW S, NEW s \in Seq(S), NEW t \in Seq(S)
    PROVE  IsSuffix(s, t) <=> EndsWith(t, s)
<1> DEFINE m == Len(s)
<1> DEFINE n == Len(t)
<1> DEFINE rs == Reverse(s)
<1> DEFINE rt == Reverse(t)
<1>1. m \in Nat /\ n \in Nat
  BY LenProperties
<1>2. /\ rs \in Seq(S) /\ Len(rs) = m /\ \A i \in 1..m : rs[i] = s[m - i + 1]
  BY ReverseProperties
<1>3. /\ rt \in Seq(S) /\ Len(rt) = n /\ \A i \in 1..n : rt[i] = t[n - i + 1]
  BY ReverseProperties
<1>4. IsSuffix(s, t) <=> m <= n /\ SubSeq(rs, 1, m) = SubSeq(rt, 1, m)
  BY <1>2, <1>3 DEF IsSuffix, IsPrefix
<1>5. EndsWith(t, s) <=> m <= n /\ \A i \in 1..m : s[i] = t[n - m + i]
  BY DEF EndsWith
<1> HIDE DEF m, n, rs, rt
<1>6. ASSUME m <= n
      PROVE  SubSeq(rs, 1, m) = SubSeq(rt, 1, m) <=> \A i \in 1..m : rs[i] = rt[i]
  <2>1. \A i \in 1..m : rs[i] \in S /\ rt[i] \in S
    BY <1>1, <1>2, <1>3, <1>6, ElementOfSeq
  <2>2. /\ SubSeq(rs, 1, m) \in Seq(S) /\ Len(SubSeq(rs, 1, m)) = m
        /\ \A i \in 1..m : SubSeq(rs, 1, m)[i] = rs[i]
    BY <1>1, <2>1, SubSeqProperties
  <2>3. /\ SubSeq(rt, 1, m) \in Seq(S) /\ Len(SubSeq(rt, 1, m)) = m
        /\ \A i \in 1..m : SubSeq(rt, 1, m)[i] = rt[i]
    BY <1>1, <2>1, SubSeqProperties
  <2>4. ASSUME \A i \in 1..m : rs[i] = rt[i]
        PROVE  SubSeq(rs, 1, m) = SubSeq(rt, 1, m)
    <3>1. \A i \in 1..m : SubSeq(rs, 1, m)[i] = SubSeq(rt, 1, m)[i]
      BY <2>2, <2>3, <2>4
    <3> QED
      BY <2>2, <2>3, <3>1, SeqEqual
  <2> QED
    BY <2>2, <2>3, <2>4
<1>7. ASSUME m <= n
      PROVE  (\A i \in 1..m : rs[i] = rt[i]) <=> (\A i \in 1..m : s[i] = t[n - m + i])
  <2>1. \A i \in 1..m : rs[i] = s[m - i + 1] /\ rt[i] = t[n - i + 1]
    BY <1>1, <1>2, <1>3, <1>7
  <2>2. ASSUME \A i \in 1..m : rs[i] = rt[i], NEW i \in 1..m
        PROVE  s[i] = t[n - m + i]
    <3>1. m - i + 1 \in 1..m /\ m - (m - i + 1) + 1 = i
          /\ n - (m - i + 1) + 1 = n - m + i
      BY <1>1
    <3> QED
      BY <2>1, <2>2, <3>1
  <2>3. ASSUME \A i \in 1..m : s[i] = t[n - m + i], NEW i \in 1..m
        PROVE  rs[i] = rt[i]
    <3>1. m - i + 1 \in 1..m /\ n - m + (m - i + 1) = n - i + 1
      BY <1>1
    <3> QED
      BY <2>1, <2>3, <3>1
  <2> QED
    BY <2>2, <2>3
<1> QED
  BY <1>4, <1>5, <1>6, <1>7

LEMMA SuffixOfItself ==
    ASSUME NEW S, NEW s \in Seq(S)
    PROVE  IsSuffix(s, s)
<1>1. Len(s) \in Nat
  BY LenProperties
<1> QED
  BY <1>1, SuffixMeans DEF EndsWith

LEMMA TailOfSuffix ==
    ASSUME NEW S, NEW s \in Seq(S), NEW t \in Seq(S), s # <<>>, IsSuffix(s, t)
    PROVE  IsSuffix(Tail(s), t)
<1>1. Len(s) \in Nat \ {0} /\ Len(t) \in Nat
  BY EmptySeq, LenProperties
<1>2. /\ Tail(s) \in Seq(S) /\ Len(Tail(s)) = Len(s) - 1
      /\ \A i \in 1..Len(s) - 1 : Tail(s)[i] = s[i + 1]
  BY HeadTailProperties
<1>3. EndsWith(t, s)
  BY SuffixMeans
<1>4. ASSUME NEW i \in 1..Len(s) - 1
      PROVE  Tail(s)[i] = t[Len(t) - (Len(s) - 1) + i]
  <2>1. i + 1 \in 1..Len(s)
        /\ Len(t) - Len(s) + (i + 1) = Len(t) - (Len(s) - 1) + i
    BY <1>1
  <2> QED
    BY <1>2, <1>3, <2>1 DEF EndsWith
<1>5. EndsWith(t, Tail(s))
  BY <1>1, <1>2, <1>3, <1>4 DEF EndsWith
<1> QED
  BY <1>2, <1>5, SuffixMeans

LEMMA SuffixElements ==
    ASSUME NEW S, NEW s \in Seq(S), NEW t \in Seq(S), IsSuffix(s, t)
    PROVE  ToSet(s) \subseteq ToSet(t)
<1>1. Len(s) \in Nat /\ Len(t) \in Nat /\ DOMAIN s = 1..Len(s) /\ DOMAIN t = 1..Len(t)
  BY LenProperties
<1>2. EndsWith(t, s)
  BY SuffixMeans
<1>3. ASSUME NEW i \in 1..Len(s)
      PROVE  s[i] \in ToSet(t)
  <2>1. Len(t) - Len(s) + i \in 1..Len(t)
    BY <1>1, <1>2 DEF EndsWith
  <2> QED
    BY <1>1, <1>2, <2>1 DEF EndsWith, ToSet
<1> QED
  BY <1>1, <1>3 DEF ToSet

(***************************************************************************)
(* The inductive invariant.  A line of operations repeats none, and no     *)
(* idempotency key; so a removal of the head is seen by ToSet, and a       *)
(* replacement takes one operation out.                                    *)
(***************************************************************************)
Line(q, ks) ==
    /\ q \in Seq(Op)
    /\ \A i \in 1..Len(q) : q[i] \in DOMAIN ks
    /\ \A i, j \in 1..Len(q) : q[i] = q[j] => i = j
    /\ \A i, j \in 1..Len(q) : ks[q[i]] = ks[q[j]] /\ ks[q[i]] # NoKey => i = j

Lines == Line(queue, key) /\ Line(stored, key)

(* A flush runs exactly while an operation is on the wire, and that is the  *)
(* head unless it was overtaken.                                            *)
HeadOnWire ==
    /\ flushing <=> sending # NoOp
    /\ sending # NoOp => sending \in Enqueued
    /\ sending # NoOp /\ ~overtaken => queue # <<>> /\ sending = Head(queue)

QueueInv == QueueTypeOK /\ Lines /\ HeadOnWire /\ NeverLost /\ PendingIsStored

Keys == Key \cup {NoKey}

LEMMA LineProperties ==
    ASSUME NEW ks, NEW q, Line(q, ks)
    PROVE  /\ q \in Seq(Op) /\ Len(q) \in Nat /\ DOMAIN q = 1..Len(q)
           /\ ToSet(q) \subseteq DOMAIN ks
           /\ \A i \in 1..Len(q) : q[i] \in Op /\ q[i] \in ToSet(q)
           /\ q # <<>> => Len(q) # 0 /\ Head(q) = q[1] /\ Head(q) \in ToSet(q)
<1>1. q \in Seq(Op)
  BY DEF Line
<1>2. Len(q) \in Nat /\ DOMAIN q = 1..Len(q) /\ \A i \in 1..Len(q) : q[i] \in Op
  BY <1>1, LenProperties, ElementOfSeq
<1>3. ToSet(q) \subseteq DOMAIN ks /\ \A i \in 1..Len(q) : q[i] \in ToSet(q)
  BY <1>2 DEF Line, ToSet
<1>4. ASSUME q # <<>>
      PROVE  Len(q) # 0 /\ Head(q) = q[1] /\ Head(q) \in ToSet(q)
  <2>1. Len(q) # 0 /\ 1 \in 1..Len(q)
    BY <1>1, <1>2, <1>4, EmptySeq
  <2>2. Head(q) = q[1]
    BY <1>1, <1>4
  <2> QED
    BY <1>3, <2>1, <2>2
<1> QED
  BY <1>1, <1>2, <1>3, <1>4

LEMMA EmptyLine ==
    ASSUME NEW ks
    PROVE  Line(<<>>, ks) /\ ToSet(<<>>) = {}
<1>1. <<>> \in Seq(Op) /\ Len(<<>>) = 0
  BY EmptySeq
<1>2. DOMAIN <<>> = {}
  OBVIOUS
<1> QED
  BY <1>1, <1>2 DEF Line, ToSet

(* What is left of a line when its first has gone.                          *)
LEMMA LineTail ==
    ASSUME NEW ks, NEW q, Line(q, ks), q # <<>>
    PROVE  /\ Line(Tail(q), ks)
           /\ Len(Tail(q)) = Len(q) - 1
           /\ ToSet(q) \subseteq ToSet(Tail(q)) \cup {Head(q)}
           /\ ToSet(Tail(q)) \subseteq ToSet(q)
<1>1. q \in Seq(Op) /\ Len(q) \in Nat \ {0} /\ DOMAIN q = 1..Len(q) /\ Head(q) = q[1]
  BY LineProperties
<1>2. /\ Tail(q) \in Seq(Op) /\ Len(Tail(q)) = Len(q) - 1
      /\ \A i \in 1..Len(q) - 1 : Tail(q)[i] = q[i + 1]
  BY <1>1, HeadTailProperties
<1>3. \A i \in 1..Len(q) - 1 : i + 1 \in 1..Len(q)
  BY <1>1
<1>4. Line(Tail(q), ks)
  <2>1. \A i \in 1..Len(Tail(q)) : Tail(q)[i] \in DOMAIN ks
    BY <1>2, <1>3 DEF Line
  <2>2. ASSUME NEW i \in 1..Len(Tail(q)), NEW j \in 1..Len(Tail(q))
        PROVE  /\ Tail(q)[i] = Tail(q)[j] => i = j
               /\ ks[Tail(q)[i]] = ks[Tail(q)[j]] /\ ks[Tail(q)[i]] # NoKey => i = j
    <3>1. i \in Nat /\ j \in Nat /\ i + 1 \in 1..Len(q) /\ j + 1 \in 1..Len(q)
          /\ Tail(q)[i] = q[i + 1] /\ Tail(q)[j] = q[j + 1]
      BY <1>1, <1>2, <1>3
    <3>2. i + 1 = j + 1 => i = j
      BY <3>1
    <3> QED
      BY <3>1, <3>2 DEF Line
  <2> QED
    BY <1>2, <2>1, <2>2 DEF Line
<1>5. DOMAIN Tail(q) = 1..Len(q) - 1
  BY <1>2, LenProperties
<1>6. ASSUME NEW i \in 1..Len(q), i # 1
      PROVE  q[i] \in ToSet(Tail(q))
  <2>1. i - 1 \in 1..Len(q) - 1 /\ (i - 1) + 1 = i
    BY <1>1, <1>6
  <2> QED
    BY <1>2, <1>5, <2>1 DEF ToSet
<1>7. ToSet(q) \subseteq ToSet(Tail(q)) \cup {Head(q)}
  BY <1>1, <1>6 DEF ToSet
<1>8. ToSet(Tail(q)) \subseteq ToSet(q)
  BY <1>1, <1>2, <1>3, <1>5 DEF ToSet
<1> QED
  BY <1>2, <1>4, <1>7, <1>8

(* A line stays one when another operation gets its key.                    *)
LEMMA LineGrows ==
    ASSUME NEW ks \in Seq(Keys), NEW k \in Keys, NEW q, Line(q, ks)
    PROVE  Line(q, Append(ks, k))
<1>1. \A i \in 1..Len(q) : q[i] \in 1..Len(ks)
  BY LenProperties DEF Line
<1>2. /\ \A n \in 1..Len(ks) : Append(ks, k)[n] = ks[n]
      /\ 1..Len(ks) \subseteq DOMAIN Append(ks, k)
  <2>1. Append(ks, k) \in Seq(Keys) /\ Len(Append(ks, k)) = Len(ks) + 1
        /\ \A n \in 1..Len(ks) : Append(ks, k)[n] = ks[n]
    BY AppendProperties
  <2>2. DOMAIN Append(ks, k) = 1..Len(ks) + 1 /\ Len(ks) \in Nat
    BY <2>1, LenProperties
  <2> QED
    BY <2>1, <2>2
<1> QED
  BY <1>1, <1>2 DEF Line

LEMMA LineTyped ==
    ASSUME QueueTypeOK, Lines
    PROVE  /\ key \in Seq(Keys) /\ Len(key) \in Nat /\ DOMAIN key = 1..Len(key)
           /\ Len(queue) <= MaxSize /\ Len(stored) <= MaxSize
           /\ MaxSize \in Nat \ {0} /\ MaxOps \in Nat \ {0}
BY QueueAssumption, LenProperties DEF QueueTypeOK, Keys

(* What enqueue puts in the queue: a line that holds the operation, within  *)
(* the limit, whose first is the old one unless that was taken out.         *)
AddedWell(q, op, ks) ==
    /\ Line(q, ks)
    /\ Len(q) <= MaxSize
    /\ op \in ToSet(q)
    /\ queue # <<>> /\ Head(queue) \in ToSet(q) => q # <<>> /\ Head(q) = Head(queue)

(* ... and the operations it takes out: one that is replaced, or the oldest *)
(* that make room.                                                          *)
Replaces(q, op) ==
    \E n \in 1..Len(queue) :
        /\ q = [queue EXCEPT ![n] = op]
        /\ ToSet(queue) \ ToSet(q) = {queue[n]}

MakesRoom(q, op) ==
    \E n \in 0..Len(queue) :
        /\ q = Append(SubSeq(queue, n + 1, Len(queue)), op)
        /\ ToSet(queue) \ ToSet(q) = {queue[i] : i \in 1..n}

(* A queued operation has the key: the new one takes its place.             *)
LEMMA ReplacedWell ==
    ASSUME QueueTypeOK, Lines, NEW k \in Keys, Len(key) < MaxOps, SameKey(k) # {}
    PROVE  /\ AddedWell(Added(Len(key) + 1, k), Len(key) + 1, Append(key, k))
           /\ Replaces(Added(Len(key) + 1, k), Len(key) + 1)
<1> DEFINE op == Len(key) + 1
<1> DEFINE ks == Append(key, k)
<1> DEFINE q == Added(op, k)
<1> DEFINE m == Len(queue)
<1>1. /\ key \in Seq(Keys) /\ DOMAIN key = 1..Len(key) /\ Len(key) \in Nat
      /\ op \in Op /\ op \notin DOMAIN key
  BY LineTyped DEF Op
<1>2. /\ queue \in Seq(Op) /\ m \in Nat /\ DOMAIN queue = 1..m /\ m <= MaxSize
      /\ \A i \in 1..m : queue[i] \in Op /\ queue[i] \in DOMAIN key
  BY LineProperties, LineTyped DEF Lines, Line
<1>3. \A i, j \in 1..m : queue[i] = queue[j] => i = j
  BY DEF Lines, Line
<1>4. /\ ks \in Seq(Keys) /\ DOMAIN ks = 1..Len(key) + 1 /\ ks[op] = k
      /\ \A o \in DOMAIN key : ks[o] = key[o]
  BY <1>1, AppendProperties, LenProperties
<1>5. PICK n \in SameKey(k) : TRUE
  OBVIOUS
<1>6. n \in 1..m /\ k # NoKey /\ key[queue[n]] = k
  BY <1>2, <1>5 DEF SameKey
<1>7. \A i \in 1..m : i \in SameKey(k) <=> i = n
  BY <1>2, <1>6 DEF SameKey, Lines, Line
<1>8. q = [i \in 1..m |-> IF i = n THEN op ELSE queue[i]]
  BY <1>2, <1>7 DEF Added
<1> HIDE DEF op, ks, q, m
<1>9. \A i \in 1..m : q[i] = IF i = n THEN op ELSE queue[i]
  BY <1>8
<1>10. q \in Seq(Op) /\ Len(q) = m /\ DOMAIN q = 1..m
  <2>1. q \in [1..m -> Op]
    BY <1>1, <1>2, <1>8
  <2>2. q \in Seq(Op)
    BY <1>2, <2>1, SeqDef
  <2> QED
    BY <1>2, <2>1, <2>2, LenProperties
<1>11. \A i \in 1..m : i # n => q[i] = queue[i] /\ q[i] \in DOMAIN key
                               /\ q[i] # op /\ ks[q[i]] = key[queue[i]] /\ ks[q[i]] # k
  <2>1. ASSUME NEW i \in 1..m, i # n
        PROVE  q[i] = queue[i] /\ queue[i] \in DOMAIN key /\ key[queue[i]] # k
    BY <1>2, <1>6, <1>7, <1>9, <2>1 DEF SameKey
  <2> QED
    BY <1>1, <1>4, <2>1
<1>12. q[n] = op /\ ks[q[n]] = k
  BY <1>4, <1>6, <1>9
<1>13. \A i \in 1..m : q[i] \in DOMAIN ks
  BY <1>1, <1>4, <1>11, <1>12 DEF op
<1>14. \A i, j \in 1..m : q[i] = q[j] => i = j
  BY <1>3, <1>11, <1>12
<1>15. \A i, j \in 1..m : ks[q[i]] = ks[q[j]] /\ ks[q[i]] # NoKey => i = j
  <2>1. \A i, j \in 1..m : key[queue[i]] = key[queue[j]] /\ key[queue[i]] # NoKey => i = j
    BY DEF Lines, Line, m
  <2> QED
    BY <2>1, <1>11, <1>12
<1>16. Line(q, ks)
  BY <1>10, <1>13, <1>14, <1>15 DEF Line
<1>17. op \in ToSet(q)
  BY <1>6, <1>10, <1>12 DEF ToSet
<1>18. ASSUME queue # <<>>, Head(queue) \in ToSet(q)
       PROVE  q # <<>> /\ Head(q) = Head(queue)
  <2>1. 1 \in 1..m /\ Head(queue) = queue[1]
    BY <1>2, <1>18, LineProperties DEF Lines, m
  <2>2. PICK i \in 1..m : q[i] = queue[1]
    BY <1>10, <1>18, <2>1 DEF ToSet
  <2>3. i = 1 /\ q[1] = queue[1]
    BY <1>1, <1>2, <1>3, <1>11, <1>12, <2>1, <2>2
  <2>4. q # <<>>
    BY <1>10, <2>1
  <2> QED
    BY <1>10, <2>1, <2>3, <2>4
<1>19. Replaces(q, op)
  <2>1. q = [queue EXCEPT ![n] = op]
    BY <1>2, <1>8
  <2>2. ToSet(q) = {q[i] : i \in 1..m} /\ ToSet(queue) = {queue[i] : i \in 1..m}
    BY <1>2, <1>10 DEF ToSet
  <2>3. queue[n] \notin ToSet(q)
    BY <1>1, <1>2, <1>3, <1>6, <1>11, <1>12, <2>2
  <2>4. \A i \in 1..m : i # n => queue[i] \in ToSet(q)
    BY <1>11, <2>2
  <2>5. ToSet(queue) \ ToSet(q) = {queue[n]}
    BY <1>6, <2>2, <2>3, <2>4
  <2> QED
    BY <1>6, <2>1, <2>5 DEF Replaces, m
<1> QED
  BY <1>2, <1>10, <1>16, <1>17, <1>18, <1>19 DEF AddedWell, q, ks, op

(* None has it: the new one comes last, and the first makes room for it.    *)
LEMMA AppendedWell ==
    ASSUME QueueTypeOK, Lines, NEW k \in Keys, Len(key) < MaxOps, SameKey(k) = {}
    PROVE  /\ AddedWell(Added(Len(key) + 1, k), Len(key) + 1, Append(key, k))
           /\ MakesRoom(Added(Len(key) + 1, k), Len(key) + 1)
<1> DEFINE op == Len(key) + 1
<1> DEFINE ks == Append(key, k)
<1> DEFINE q == Added(op, k)
<1> DEFINE m == Len(queue)
<1> DEFINE d == Overflow
<1>1. /\ key \in Seq(Keys) /\ DOMAIN key = 1..Len(key) /\ Len(key) \in Nat
      /\ op \in Op /\ op \notin DOMAIN key
  BY LineTyped DEF Op
<1>2. /\ queue \in Seq(Op) /\ m \in Nat /\ DOMAIN queue = 1..m /\ m <= MaxSize
      /\ \A i \in 1..m : queue[i] \in Op /\ queue[i] \in DOMAIN key
  BY LineProperties, LineTyped DEF Lines, Line
<1>3. \A i, j \in 1..m : queue[i] = queue[j] => i = j
  BY DEF Lines, Line
<1>4. /\ ks \in Seq(Keys) /\ DOMAIN ks = 1..Len(key) + 1 /\ ks[op] = k
      /\ \A o \in DOMAIN key : ks[o] = key[o]
  BY <1>1, AppendProperties, LenProperties
<1>5. /\ d \in {0, 1} /\ d <= m /\ m - d + 1 <= MaxSize
  BY <1>2, LineTyped DEF Overflow
<1>6. \A i \in 1..m : k # NoKey => key[queue[i]] # k
  BY <1>2 DEF SameKey
<1> DEFINE rest == SubSeq(queue, d + 1, m)
<1>7. q = Append(rest, op)
  BY DEF Added
<1> HIDE DEF op, ks, q, m, d
<1>8. /\ rest \in Seq(Op) /\ Len(rest) = m - d
      /\ \A i \in 1..m - d : rest[i] = queue[d + i]
  <2>1. d + 1 \in Int /\ m \in Int /\ \A i \in d + 1..m : queue[i] \in Op
    BY <1>2, <1>5
  <2>2. /\ rest \in Seq(Op) /\ Len(rest) = IF d + 1 <= m THEN m - (d + 1) + 1 ELSE 0
        /\ \A i \in 1..m - (d + 1) + 1 : rest[i] = queue[(d + 1) + i - 1]
    BY <2>1, SubSeqProperties
  <2> QED
    BY <1>2, <1>5, <2>2
<1> HIDE DEF rest
<1> DEFINE l == m - d + 1
<1>9. /\ q \in Seq(Op) /\ Len(q) = l /\ DOMAIN q = 1..l /\ q # <<>>
      /\ \A i \in 1..l : i # l => q[i] = queue[d + i] /\ d + i \in 1..m
      /\ q[l] = op /\ l \in 1..l
  <2>1. /\ q \in Seq(Op) /\ q # <<>> /\ Len(q) = Len(rest) + 1
        /\ \A i \in 1..Len(rest) : q[i] = rest[i]
        /\ q[Len(rest) + 1] = op
    BY <1>1, <1>7, <1>8, AppendProperties
  <2>2. \A i \in 1..l : i # l => i \in 1..m - d /\ d + i \in 1..m
    BY <1>2, <1>5
  <2>3. l \in 1..l
    BY <1>2, <1>5
  <2> QED
    BY <1>8, <2>1, <2>2, <2>3, LenProperties
<1> HIDE DEF l
<1>10. \A i \in 1..l : i # l =>
          /\ q[i] \in DOMAIN key /\ q[i] # op
          /\ ks[q[i]] = key[queue[d + i]] /\ (k # NoKey => ks[q[i]] # k)
  <2>1. ASSUME NEW i \in 1..l, i # l
        PROVE  q[i] = queue[d + i] /\ q[i] \in DOMAIN key
    BY <1>2, <1>9, <2>1
  <2> QED
    BY <1>1, <1>4, <1>6, <1>9, <2>1
<1>11. \A i \in 1..l : q[i] \in DOMAIN ks
  BY <1>1, <1>4, <1>9, <1>10 DEF op
<1>12. ASSUME NEW i \in 1..l, NEW j \in 1..l
       PROVE  /\ q[i] = q[j] => i = j
              /\ ks[q[i]] = ks[q[j]] /\ ks[q[i]] # NoKey => i = j
  <2>1. CASE i # l /\ j # l
    <3>1. d + i \in 1..m /\ d + j \in 1..m /\ q[i] = queue[d + i] /\ q[j] = queue[d + j]
      BY <1>9, <2>1
    <3>2. d + i = d + j => i = j
      BY <1>2, <1>5 DEF l
    <3>3. key[queue[d + i]] = key[queue[d + j]] /\ key[queue[d + i]] # NoKey => d + i = d + j
      BY <3>1 DEF Lines, Line, m
    <3> QED
      BY <1>3, <1>10, <2>1, <3>1, <3>2, <3>3
  <2>2. CASE i = l \/ j = l
    BY <1>4, <1>9, <1>10, <2>2
  <2> QED
    BY <2>1, <2>2
<1>13. Line(q, ks)
  BY <1>9, <1>11, <1>12 DEF Line
<1>14. op \in ToSet(q)
  BY <1>9 DEF ToSet
<1>15. ASSUME queue # <<>>, Head(queue) \in ToSet(q)
       PROVE  Head(q) = Head(queue)
  <2>1. 1 \in 1..m /\ Head(queue) = queue[1] /\ Head(q) = q[1]
    BY <1>2, <1>9, <1>15, LineProperties DEF Lines, m
  <2>2. PICK i \in 1..l : q[i] = queue[1]
    BY <1>9, <1>15, <2>1 DEF ToSet
  <2>3. i # l /\ d + i = 1
    BY <1>1, <1>2, <1>3, <1>9, <2>1, <2>2
  <2>4. i = 1
    BY <1>5, <2>3
  <2> QED
    BY <2>1, <2>2, <2>4
<1>16. MakesRoom(q, op)
  <2>1. ToSet(q) = {q[i] : i \in 1..l} /\ ToSet(queue) = {queue[i] : i \in 1..m}
    BY <1>2, <1>9 DEF ToSet
  <2>2. ASSUME NEW i \in 1..m, i > d
        PROVE  queue[i] \in ToSet(q)
    <3>1. i - d \in 1..l /\ i - d # l /\ d + (i - d) = i
      BY <1>2, <1>5, <2>2 DEF l
    <3> QED
      BY <1>9, <2>1, <3>1
  <2>3. ASSUME NEW i \in 1..m, i <= d
        PROVE  queue[i] \notin ToSet(q)
    <3>1. \A j \in 1..l : j # l => i # d + j
      BY <1>2, <1>5, <2>3 DEF l
    <3> QED
      BY <1>1, <1>2, <1>3, <1>9, <2>1, <3>1
  <2>4. \A i \in 1..d : i \in 1..m /\ i <= d
    BY <1>2, <1>5
  <2>5. \A i \in 1..m : i > d \/ (i \in 1..d /\ i <= d)
    BY <1>2, <1>5
  <2>6. ToSet(queue) \ ToSet(q) = {queue[i] : i \in 1..d}
    BY <2>1, <2>2, <2>3, <2>4, <2>5
  <2>7. d \in 0..m /\ q = Append(SubSeq(queue, d + 1, m), op)
    BY <1>2, <1>5, <1>7 DEF rest
  <2> QED
    BY <2>6, <2>7 DEF MakesRoom, m
<1> QED
  BY <1>5, <1>9, <1>13, <1>14, <1>15, <1>16 DEF AddedWell, q, ks, op, l

LEMMA EnqueuedWell ==
    ASSUME QueueTypeOK, Lines, NEW k \in Keys, Len(key) < MaxOps
    PROVE  /\ AddedWell(Added(Len(key) + 1, k), Len(key) + 1, Append(key, k))
           /\ \/ Replaces(Added(Len(key) + 1, k), Len(key) + 1)
              \/ MakesRoom(Added(Len(key) + 1, k), Len(key) + 1)
BY ReplacedWell, AppendedWell

(***************************************************************************)
(* What the steps do to the queue.                                         *)
(***************************************************************************)
Enqueues(k) ==
    /\ AddedWell(queue', Len(key) + 1, key')
    /\ Replaces(queue', Len(key) + 1) \/ MakesRoom(queue', Len(key) + 1)
    /\ Line(stored, key')
    /\ key' \in Seq(Keys)
    /\ DOMAIN key' = DOMAIN key \cup {Len(key) + 1}
    /\ Len(key) + 1 \in Op
    /\ announced' = announced \cup (ToSet(queue) \ ToSet(queue'))
    /\ overtaken' = (overtaken \/ sending \in ToSet(queue) \ ToSet(queue'))
    /\ Persist(queue')
    /\ UNCHANGED <<flushing, sending, refused, delivered, restarts>>

LEMMA EnqueueEffect ==
    ASSUME QueueTypeOK, Lines, NEW k \in Keys, Enqueue(k)
    PROVE  Enqueues(k)
<1>1. /\ key \in Seq(Keys) /\ Len(key) \in Nat /\ DOMAIN key = 1..Len(key)
      /\ Len(key) + 1 \in Op
  BY LineTyped DEF Enqueue, Op
<1>2. key' = Append(key, k) /\ queue' = Added(Len(key) + 1, k) /\ Len(key) < MaxOps
  BY DEF Enqueue
<1>3. /\ AddedWell(queue', Len(key) + 1, key')
      /\ Replaces(queue', Len(key) + 1) \/ MakesRoom(queue', Len(key) + 1)
  BY <1>2, EnqueuedWell
<1>4. Line(stored, key')
  BY <1>1, <1>2, LineGrows DEF Lines
<1>5. key' \in Seq(Keys) /\ Len(key') = Len(key) + 1
  BY <1>1, <1>2, AppendProperties
<1>6. DOMAIN key' = DOMAIN key \cup {Len(key) + 1}
  BY <1>1, <1>5, LenProperties
<1> QED
  BY <1>1, <1>3, <1>4, <1>5, <1>6 DEF Enqueues, Enqueue, TakeOut

(* What is shifted off is still a line, without its first.                  *)
ShiftsWell(q) ==
    /\ Line(q, key)
    /\ Len(q) <= MaxSize
    /\ ToSet(q) \subseteq ToSet(queue)
    /\ queue # <<>> => ToSet(queue) \subseteq ToSet(q) \cup {Head(queue)}
    /\ q # <<>> => Head(q) \in ToSet(q)

LEMMA ShiftedWell ==
    ASSUME QueueTypeOK, Lines
    PROVE  ShiftsWell(Shifted)
<1>1. /\ Line(queue, key) /\ Len(queue) \in Nat /\ Len(queue) <= MaxSize
      /\ MaxSize \in Nat /\ Line(<<>>, key) /\ Len(<<>>) = 0
  BY LineTyped, LineProperties, EmptyLine DEF Lines
<1>2. CASE queue = <<>>
  BY <1>1, <1>2 DEF Shifted, ShiftsWell
<1>3. CASE queue # <<>>
  <2>1. /\ Line(Tail(queue), key) /\ Len(Tail(queue)) = Len(queue) - 1
        /\ ToSet(queue) \subseteq ToSet(Tail(queue)) \cup {Head(queue)}
        /\ ToSet(Tail(queue)) \subseteq ToSet(queue)
    BY <1>1, <1>3, LineTail
  <2>2. Tail(queue) # <<>> => Head(Tail(queue)) \in ToSet(Tail(queue))
    BY <2>1, LineProperties
  <2> QED
    BY <1>1, <1>3, <2>1, <2>2 DEF Shifted, ShiftsWell
<1> QED
  BY <1>2, <1>3

(* Everything queued or stored was enqueued.                                *)
LEMMA LinesEnqueued ==
    ASSUME Lines
    PROVE  ToSet(queue) \subseteq Enqueued /\ ToSet(stored) \subseteq Enqueued
BY LineProperties DEF Lines, Enqueued

LEMMA KeysGrow ==
    ASSUME QueueTypeOK, Lines, [QueueNext]_queueVars
    PROVE  /\ key' \in Seq(Keys)
           /\ Enqueued \subseteq Enqueued'
<1>1. key \in Seq(Keys)
  BY LineTyped
<1>2. ASSUME NEW k \in Key \cup {NoKey}, Enqueue(k)
      PROVE  key' \in Seq(Keys) /\ Enqueued \subseteq Enqueued'
  BY <1>2, EnqueueEffect DEF Enqueues, Enqueued, Keys
<1>3. CASE UNCHANGED key
  BY <1>1, <1>3 DEF Enqueued
<1> QED
  BY <1>2, <1>3 DEF QueueNext, Clear, StartFlush, Sent, NotSent, Restart, queueVars

LEMMA LinesStep ==
    ASSUME QueueTypeOK, Lines, [QueueNext]_queueVars
    PROVE  Lines' /\ Len(queue)' <= MaxSize /\ Len(stored)' <= MaxSize
<1>1. /\ Line(queue, key) /\ Line(stored, key) /\ Line(<<>>, key) /\ Len(<<>>) = 0
      /\ Len(queue) <= MaxSize /\ Len(stored) <= MaxSize /\ 0 <= MaxSize
  BY LineTyped, EmptyLine DEF Lines
<1>2. ShiftsWell(Shifted)
  BY ShiftedWell
<1>3. ASSUME NEW k \in Key \cup {NoKey}, Enqueue(k)
      PROVE  Lines' /\ Len(queue)' <= MaxSize /\ Len(stored)' <= MaxSize
  <2>1. Enqueues(k)
    BY <1>3, EnqueueEffect DEF Keys
  <2> QED
    BY <1>1, <2>1 DEF Enqueues, AddedWell, Persist, Lines
<1>4. CASE Clear
  BY <1>1, <1>4 DEF Clear, Persist, Lines
<1>5. CASE StartFlush
  BY <1>1, <1>5 DEF StartFlush, Lines
<1>6. CASE Sent
  BY <1>1, <1>2, <1>6 DEF Sent, EndFlush, Persist, ShiftsWell, Lines
<1>7. CASE NotSent
  BY <1>1, <1>7 DEF NotSent, AfterFailure, EndFlush, Persist, Lines
<1>8. CASE Restart
  BY <1>1, <1>8 DEF Restart, Lines
<1>9. CASE UNCHANGED queueVars
  BY <1>1, <1>9 DEF queueVars, Lines
<1> QED
  BY <1>3, <1>4, <1>5, <1>6, <1>7, <1>8, <1>9 DEF QueueNext

LEMMA HeadOnWireStep ==
    ASSUME QueueTypeOK, Lines, HeadOnWire, [QueueNext]_queueVars
    PROVE  HeadOnWire'
<1>0. NoOp \notin Op /\ Enqueued \subseteq Op \cup DOMAIN key /\ NoOp \notin DOMAIN key
  BY LineTyped DEF Op, NoOp, Enqueued
<1>1. /\ ToSet(queue) \subseteq Enqueued
      /\ queue # <<>> => Head(queue) \in ToSet(queue) /\ Head(queue) # NoOp
  BY <1>0, LinesEnqueued, LineProperties DEF Lines, Enqueued
<1>2. ShiftsWell(Shifted)
  BY ShiftedWell
<1>3. ASSUME NEW k \in Key \cup {NoKey}, Enqueue(k)
      PROVE  HeadOnWire'
  <2>1. Enqueues(k)
    BY <1>3, EnqueueEffect DEF Keys
  <2> QED
    BY <1>1, <2>1 DEF Enqueues, AddedWell, HeadOnWire, Enqueued
<1>4. CASE Clear
  BY <1>1, <1>4 DEF Clear, TakeOut, HeadOnWire, Enqueued
<1>5. CASE StartFlush
  BY <1>1, <1>5 DEF StartFlush, HeadOnWire, Enqueued
<1>6. CASE Sent
  <2>1. CASE Shifted = <<>>
    BY <1>6, <2>1 DEF Sent, EndFlush, HeadOnWire
  <2>2. CASE Shifted # <<>>
    <3>1. queue' = Shifted /\ sending' = Head(Shifted) /\ UNCHANGED <<flushing, key>>
          /\ flushing
      BY <1>6, <2>2 DEF Sent, HeadOnWire
    <3>2. Head(Shifted) \in Enqueued /\ Head(Shifted) # NoOp
      BY <1>0, <1>1, <1>2, <2>2 DEF ShiftsWell, Enqueued
    <3> QED
      BY <2>2, <3>1, <3>2 DEF HeadOnWire, Enqueued
  <2> QED
    BY <2>1, <2>2
<1>7. CASE NotSent
  BY <1>7 DEF NotSent, EndFlush, HeadOnWire
<1>8. CASE Restart
  BY <1>8 DEF Restart, HeadOnWire
<1>9. CASE UNCHANGED queueVars
  BY <1>9 DEF queueVars, HeadOnWire, Enqueued
<1> QED
  BY <1>3, <1>4, <1>5, <1>6, <1>7, <1>8, <1>9 DEF QueueNext

LEMMA QueueTypeStep ==
    ASSUME QueueTypeOK, Lines, HeadOnWire, [QueueNext]_queueVars
    PROVE  QueueTypeOK'
<1> USE DEF Enqueued
<1>1. Lines' /\ Len(queue)' <= MaxSize /\ Len(stored)' <= MaxSize
  BY LinesStep
<1>2. queue' \in Seq(Op) /\ stored' \in Seq(Op)
  BY <1>1 DEF Lines, Line
<1>3. key' \in Seq(Keys) /\ DOMAIN key \subseteq DOMAIN key'
  BY KeysGrow
<1>4. (ToSet(queue) \subseteq DOMAIN key)' /\ (ToSet(stored) \subseteq DOMAIN key)'
  <2>1. \A q, ks : Line(q, ks) => ToSet(q) \subseteq DOMAIN ks
    BY LineProperties
  <2> QED
    BY <1>1, <2>1 DEF Lines
<1>5. /\ flushing' \in BOOLEAN /\ overtaken' \in BOOLEAN /\ storageFailed' \in BOOLEAN
  <2>1. flushing' \in BOOLEAN
    BY Zenon DEF QueueTypeOK, QueueNext, Enqueue, Clear, StartFlush, Sent, NotSent, Restart,
        EndFlush, queueVars
  <2>2. overtaken' \in BOOLEAN
    BY Zenon DEF QueueTypeOK, QueueNext, Enqueue, Clear, StartFlush, Sent, NotSent, Restart,
        TakeOut, queueVars
  <2>3. storageFailed' \in BOOLEAN
    BY Zenon DEF QueueTypeOK, QueueNext, Enqueue, Clear, StartFlush, Sent, NotSent, Restart,
        EndFlush, Persist, queueVars
  <2> QED
    BY <2>1, <2>2, <2>3
<1>6. sending' \in Op \cup {NoOp}
  <2>1. DOMAIN queue \subseteq DOMAIN key \cup DOMAIN queue /\ queue \in Seq(Op)
    BY DEF QueueTypeOK
  <2>2. queue # <<>> => Head(queue) \in Op
    BY <2>1, HeadTailProperties
  <2>3. Shifted # <<>> => Head(Shifted) \in Op
    BY ShiftedWell, HeadTailProperties DEF ShiftsWell, Line
  <2> QED
    BY <2>2, <2>3 DEF QueueTypeOK, QueueNext, Enqueue, Clear, StartFlush, Sent, NotSent,
        Restart, EndFlush, queueVars
<1>7. (delivered \subseteq DOMAIN key)'
  <2>1. delivered' \subseteq delivered \cup ({sending} \ {NoOp})
    BY DEF QueueNext, Enqueue, Clear, StartFlush, Sent, NotSent, Restart, queueVars
  <2>2. delivered \subseteq DOMAIN key /\ (sending # NoOp => sending \in DOMAIN key)
    BY DEF QueueTypeOK, HeadOnWire
  <2> QED
    BY <1>3, <2>1, <2>2
<1>8. (announced \subseteq DOMAIN key)'
  <2>1. announced' \subseteq announced \cup ToSet(queue)
    BY DEF QueueNext, Enqueue, Clear, TakeOut, StartFlush, Sent, NotSent, Restart, queueVars
  <2>2. announced \subseteq DOMAIN key /\ ToSet(queue) \subseteq DOMAIN key
    BY DEF QueueTypeOK
  <2> QED
    BY <1>3, <2>1, <2>2
<1>9. refused' \subseteq Op /\ restarts' \in 0..MaxRestarts
  BY QueueAssumption DEF QueueTypeOK, QueueNext, Enqueue, Clear, StartFlush, Sent, NotSent,
      Restart, queueVars
<1> QED
  BY <1>1, <1>2, <1>3, <1>4, <1>5, <1>6, <1>7, <1>8, <1>9 DEF QueueTypeOK, Keys

LEMMA NeverLostStep ==
    ASSUME QueueTypeOK, Lines, HeadOnWire, NeverLost, PendingIsStored,
           [QueueNext]_queueVars
    PROVE  NeverLost'
<1>1. storageFailed' \/ ~storageFailed
  BY Zenon DEF QueueTypeOK, QueueNext, Enqueue, Clear, StartFlush, Sent, NotSent, Restart,
      EndFlush, Persist, queueVars
<1>2. overtaken' \/ ~overtaken
  BY Zenon DEF QueueTypeOK, QueueNext, Enqueue, Clear, StartFlush, Sent, NotSent, Restart,
      TakeOut, queueVars
<1> SUFFICES ASSUME ~overtaken', ~storageFailed'
             PROVE  Enqueued' \subseteq (ToSet(queue) \cup delivered \cup announced)'
  BY DEF NeverLost
<1>3. /\ ~overtaken /\ ~storageFailed
      /\ Enqueued \subseteq ToSet(queue) \cup delivered \cup announced
  BY <1>1, <1>2 DEF NeverLost
<1>4. ASSUME NEW k \in Key \cup {NoKey}, Enqueue(k)
      PROVE  Enqueued' \subseteq (ToSet(queue) \cup delivered \cup announced)'
  <2>1. Enqueues(k)
    BY <1>4, EnqueueEffect DEF Keys
  <2> QED
    BY <1>3, <2>1 DEF Enqueues, AddedWell, Enqueued
<1>5. CASE Clear
  BY <1>3, <1>5 DEF Clear, TakeOut, Enqueued
<1>6. CASE Sent
  <2>1. queue # <<>> /\ sending = Head(queue)
    BY <1>3, <1>6 DEF Sent, HeadOnWire
  <2>2. ToSet(queue) \subseteq ToSet(Shifted) \cup {sending}
    BY <2>1, ShiftedWell DEF ShiftsWell
  <2>3. /\ queue' = Shifted /\ delivered' = delivered \cup {sending}
        /\ announced' = announced /\ key' = key
    BY <1>6 DEF Sent
  <2>4. ToSet(queue') = ToSet(Shifted) /\ Enqueued' = Enqueued
    BY <2>3 DEF Enqueued
  <2> QED
    BY <1>3, <2>2, <2>3, <2>4
<1>7. CASE Restart
  <2>1. ToSet(queue) \subseteq ToSet(stored)
    BY <1>3, SuffixElements DEF PendingIsStored, Lines, Line
  <2> QED
    BY <1>3, <1>7, <2>1 DEF Restart, Enqueued
<1>8. CASE StartFlush \/ NotSent \/ UNCHANGED queueVars
  <2>1. UNCHANGED <<queue, delivered, announced, key>>
    BY <1>8 DEF StartFlush, NotSent, AfterFailure, queueVars
  <2> QED
    BY <1>3, <2>1 DEF Enqueued
<1> QED
  BY <1>4, <1>5, <1>6, <1>7, <1>8 DEF QueueNext

LEMMA PendingIsStoredStep ==
    ASSUME QueueTypeOK, Lines, HeadOnWire, PendingIsStored, [QueueNext]_queueVars
    PROVE  PendingIsStored'
<1>0. /\ queue \in Seq(Op) /\ stored \in Seq(Op)
      /\ queue' \in Seq(Op) /\ stored' \in Seq(Op)
  BY LinesStep DEF Lines, Line
<1>1. ASSUME stored' = queue'
      PROVE  PendingIsStored'
  BY <1>0, <1>1, SuffixOfItself DEF PendingIsStored
<1>2. ASSUME Persist(queue')
      PROVE  PendingIsStored'
  BY <1>1, <1>2 DEF Persist, PendingIsStored
<1>3. ASSUME NEW k \in Key \cup {NoKey}, Enqueue(k)
      PROVE  PendingIsStored'
  BY <1>2, <1>3 DEF Enqueue
<1>4. CASE Clear
  BY <1>2, <1>4 DEF Clear
<1>5. CASE StartFlush
  BY <1>5 DEF StartFlush, PendingIsStored
<1>6. CASE Sent
  <2>1. CASE Shifted = <<>>
    BY <1>2, <1>6, <2>1 DEF Sent, EndFlush
  <2>2. CASE Shifted # <<>>
    <3>1. /\ queue' = Tail(queue) /\ queue # <<>> /\ flushing /\ sending # NoOp
          /\ UNCHANGED <<flushing, stored, storageFailed, overtaken>>
          /\ delivered' = delivered \cup {sending}
      BY <1>6, <2>2 DEF Sent, Shifted, HeadOnWire
    <3>2. ~storageFailed => IsSuffix(queue', stored')
      BY <1>0, <3>1, TailOfSuffix DEF PendingIsStored
    <3>3. ASSUME ~storageFailed, ~overtaken
          PROVE  (ToSet(stored) \ ToSet(queue) \subseteq delivered)'
      <4>1. sending = Head(queue)
        BY <3>1, <3>3 DEF HeadOnWire
      <4>2. ToSet(queue) \subseteq ToSet(queue') \cup {Head(queue)}
        BY <3>1, LineTail DEF Lines
      <4>3. ToSet(stored') = ToSet(stored)
        BY <3>1
      <4>4. ToSet(stored) \ ToSet(queue) \subseteq delivered
        BY <3>3 DEF PendingIsStored
      <4> QED
        BY <3>1, <4>1, <4>2, <4>3, <4>4
    <3> QED
      BY <3>1, <3>2, <3>3 DEF PendingIsStored
  <2> QED
    BY <2>1, <2>2
<1>7. CASE NotSent
  BY <1>2, <1>7 DEF NotSent, EndFlush
<1>8. CASE Restart
  BY <1>1, <1>8 DEF Restart
<1>9. CASE UNCHANGED queueVars
  BY <1>9 DEF queueVars, PendingIsStored
<1> QED
  BY <1>3, <1>4, <1>5, <1>6, <1>7, <1>8, <1>9 DEF QueueNext
-----------------------------------------------------------------------------
(***************************************************************************)
(* The theorems.                                                           *)
(***************************************************************************)
LEMMA QueueInvInit ==
    QueueInit => QueueInv
<1> SUFFICES ASSUME QueueInit PROVE QueueInv
  OBVIOUS
<1>1. <<>> \in Seq(Op) /\ <<>> \in Seq(Keys) /\ Len(<<>>) = 0 /\ ToSet(<<>>) = {}
      /\ Line(<<>>, <<>>) /\ DOMAIN <<>> = {}
  BY EmptyLine, EmptySeq
<1>2. 0 <= MaxSize /\ 1 \in Op /\ 0 \in 0..MaxRestarts
  BY QueueAssumption DEF Op
<1>3. QueueTypeOK
  BY <1>1, <1>2 DEF QueueInit, QueueTypeOK, Enqueued, Keys
<1>4. IsSuffix(queue, stored)
  BY <1>1, SuffixOfItself DEF QueueInit
<1> QED
  BY <1>1, <1>3, <1>4 DEF QueueInit, QueueInv, Lines, HeadOnWire, NeverLost,
      PendingIsStored, Enqueued

LEMMA QueueInvStep ==
    QueueInv /\ [QueueNext]_queueVars => QueueInv'
BY LinesStep, HeadOnWireStep, QueueTypeStep, NeverLostStep, PendingIsStoredStep DEF QueueInv

(* The inductive invariant of the queue (queue.ts).                         *)
THEOREM QueueInvariance == QueueSpec => []QueueInv
BY QueueInvInit, QueueInvStep, PTL DEF QueueSpec

(* The queue and what is stored hold enqueued operations only, and never    *)
(* more than maxSize of them: enqueue makes room first (queue.ts).          *)
THEOREM QueueTypeCorrect == QueueSpec => []QueueTypeOK
<1>1. QueueInv => QueueTypeOK
  BY DEF QueueInv
<1> QED
  BY <1>1, QueueInvariance, PTL

(* No operation leaves the queue silently: it was delivered or its removal  *)
(* was announced, unless flush's shift took another than it sent or the     *)
(* storage failed.                                                          *)
THEOREM OperationsNeverLost == QueueSpec => []NeverLost
<1>1. QueueInv => NeverLost
  BY DEF QueueInv
<1> QED
  BY <1>1, QueueInvariance, PTL

(* A restart resumes with the pending operations, in their order, and       *)
(* repeats only what the running flush has delivered.                       *)
THEOREM PendingAlwaysStored == QueueSpec => []PendingIsStored
<1>1. QueueInv => PendingIsStored
  BY DEF QueueInv
<1> QED
  BY <1>1, QueueInvariance, PTL
-----------------------------------------------------------------------------
(***************************************************************************)
(* Refinement.  A step after which the outbox still works is one of        *)
(* Outbox's, or a stutter; after any other it promises nothing.            *)
(***************************************************************************)
LEMMA EnqueueIsAccept ==
    ASSUME QueueTypeOK, Lines, NEW k \in Keys, Enqueue(k)
    PROVE  \/ \E op \in Op, n \in 0..Len(queue) : Box!Accept(op, n)
           \/ \E op \in Op, i \in 1..Len(queue) : Box!Replace(op, i)
<1> DEFINE op == Len(key) + 1
<1>1. Enqueues(k)
  BY EnqueueEffect
<1>2. /\ op \in Op /\ op \notin Enqueued /\ Enqueued' = Enqueued \cup {op}
      /\ delivered' = delivered
      /\ announced' = announced \cup (ToSet(queue) \ ToSet(queue'))
  BY <1>1, LineTyped DEF Enqueues, Enqueued
<1> HIDE DEF op
<1>3. CASE Replaces(queue', op)
  BY <1>2, <1>3 DEF Replaces, Box!Replace
<1>4. CASE MakesRoom(queue', op)
  BY <1>2, <1>4 DEF MakesRoom, Box!Accept, Box!Rest, Box!Oldest
<1> QED
  BY <1>1, <1>3, <1>4 DEF Enqueues, op

(* What a restart puts ahead of the pending operations was delivered.       *)
LEMMA RestartIsRewind ==
    ASSUME QueueInv, Restart, ~overtaken, ~storageFailed
    PROVE  Box!Rewind
<1>1. /\ queue \in Seq(Op) /\ stored \in Seq(Op) /\ IsSuffix(queue, stored)
      /\ ToSet(stored) \ ToSet(queue) \subseteq delivered
  BY DEF QueueInv, Lines, Line, PendingIsStored
<1>2. /\ Len(queue) \in Nat /\ DOMAIN queue = 1..Len(queue)
      /\ Len(stored) \in Nat /\ DOMAIN stored = 1..Len(stored)
  BY <1>1, LenProperties
<1>3. EndsWith(stored, queue)
  BY <1>1, SuffixMeans
<1>4. \A i, j \in 1..Len(stored) : stored[i] = stored[j] => i = j
  BY DEF QueueInv, Lines, Line
<1>5. ASSUME NEW i \in 1..Len(stored) - Len(queue)
      PROVE  stored[i] \in delivered
  <2>1. /\ i \in 1..Len(stored)
        /\ \A j \in 1..Len(queue) : /\ Len(stored) - Len(queue) + j \in 1..Len(stored)
                                    /\ i # Len(stored) - Len(queue) + j
    BY <1>2, <1>3 DEF EndsWith
  <2>2. stored[i] \in ToSet(stored) /\ stored[i] \notin ToSet(queue)
    BY <1>2, <1>3, <1>4, <2>1 DEF EndsWith, ToSet
  <2> QED
    BY <1>1, <2>2
<1>6. queue' = stored /\ UNCHANGED <<delivered, announced, key>>
  BY DEF Restart
<1>7. Box!IsSuffix(queue, queue')
  <2>1. IsSuffix(queue, queue')
    BY <1>1, <1>6
  <2> QED
    BY <2>1 DEF IsSuffix, IsPrefix, Reverse, Box!IsSuffix, Box!IsPrefix, Box!Reverse
<1>8. \A i \in 1..Len(queue') - Len(queue) : queue'[i] \in delivered
  BY <1>5, <1>6
<1>9. UNCHANGED <<Enqueued, delivered, announced>>
  BY <1>6 DEF Enqueued
<1> QED
  BY <1>7, <1>8, <1>9 DEF Box!Rewind

LEMMA OutboxStep ==
    QueueInv /\ [QueueNext]_queueVars => [Box!Next]_(Box!outboxVars)
<1> SUFFICES ASSUME QueueInv, [QueueNext]_queueVars
             PROVE  [Box!Next]_(Box!outboxVars)
  OBVIOUS
<1>1. QueueTypeOK /\ Lines /\ HeadOnWire
  BY DEF QueueInv
<1>2. CASE (overtaken \/ storageFailed)'
  BY <1>2 DEF Box!Next
<1>3. CASE ~(overtaken \/ storageFailed)'
  <2>1. ~overtaken /\ ~storageFailed
    <3>1. storageFailed' \/ ~storageFailed
      BY <1>1, Zenon DEF QueueTypeOK, QueueNext, Enqueue, Clear, StartFlush, Sent, NotSent,
          Restart, EndFlush, Persist, queueVars
    <3>2. overtaken' \/ ~overtaken
      BY <1>1, Zenon DEF QueueTypeOK, QueueNext, Enqueue, Clear, StartFlush, Sent, NotSent,
          Restart, TakeOut, queueVars
    <3> QED
      BY <1>3, <3>1, <3>2
  <2>2. ASSUME Box!Works PROVE Box!Next
    BY <1>3, <2>1, <2>2 DEF Box!Next
  <2>3. ASSUME UNCHANGED <<queue, key, delivered, announced>>
        PROVE  UNCHANGED Box!outboxVars
    BY <1>3, <2>1, <2>3 DEF Box!outboxVars, Enqueued
  <2>4. ASSUME NEW k \in Key \cup {NoKey}, Enqueue(k)
        PROVE  Box!Works
    BY <1>1, <2>4, EnqueueIsAccept DEF Box!Works, Keys
  <2>5. CASE Clear
    <3>1. Box!Discard
      BY <2>5 DEF Clear, TakeOut, Box!Discard, Enqueued, ToSet, Box!ToSet
    <3> QED
      BY <2>2, <3>1 DEF Box!Works
  <2>6. CASE Sent
    <3>1. queue # <<>> /\ sending = Head(queue)
      BY <1>1, <2>1, <2>6 DEF Sent, HeadOnWire
    <3>2. Box!Deliver
      BY <2>6, <3>1 DEF Sent, Shifted, Box!Deliver, Enqueued
    <3> QED
      BY <2>2, <3>2 DEF Box!Works
  <2>7. CASE Restart
    BY <2>1, <2>2, <2>7, RestartIsRewind DEF Box!Works
  <2>8. CASE StartFlush \/ NotSent \/ UNCHANGED queueVars
    BY <2>3, <2>8 DEF StartFlush, NotSent, AfterFailure, queueVars
  <2> QED
    BY <2>2, <2>4, <2>5, <2>6, <2>7, <2>8 DEF QueueNext
<1> QED
  BY <1>2, <1>3

(* The queue implements Outbox: delivery in order, each operation delivered *)
(* or announced, nothing but delivered ones back after a restart, whatever  *)
(* enqueue, clear, flush and restore do to one another (queue.ts).          *)
THEOREM QueueImplementsOutbox == QueueSpec => ImplementsOutbox
<1>1. QueueInit => Box!Init
  BY DEF QueueInit, Box!Init, Enqueued
<1> QED
  BY <1>1, OutboxStep, QueueInvariance, PTL DEF QueueSpec, ImplementsOutbox, Box!Spec
=============================================================================
