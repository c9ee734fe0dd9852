----------------------------- MODULE BillingProofs -----------------------------
(***************************************************************************)
(* Proofs about Billing, for every set of subscriptions and handlers, any  *)
(* period, lookahead and grace, and every bound.                           *)
(***************************************************************************)
EXTENDS Billing, Sequences, FiniteSetTheorems, TLAPS

(* The free year of a coupon, counted as one payment.                       *)
FreeYears(s) == IF sub[s].free THEN 1 ELSE 0

(* The period a is paid up to its start by other orders than o: whoever     *)
(* captures o may add a year to it.                                         *)
PaidBefore(a, o) ==
    a[2] - sub[a[1]].startsAt
        <= Period * (Cardinality(OrdersPaid(a[1]) \ {o}) + FreeYears(a[1]))

(* a was cut from a subscription that had a period.                         *)
HadPeriod(a) == a \in Attempt /\ sub[a[1]].endsAt # NoTime

(* A period starts when both its ends are written, and never in the future. *)
SubInv ==
    \A s \in Sub :
        /\ sub[s].startsAt = NoTime <=> sub[s].endsAt = NoTime
        /\ sub[s].startsAt <= now

(* Money moves only for orders that exist, and calls tell what happened.    *)
OrderInv ==
    /\ \A o \in Order :
        /\ order[o].status # "none" => order[o].sub \in Sub
        /\ gateway[o] # "open" => order[o].status # "none"
    /\ \A e \in inbox :
        /\ order[e[2]].status # "none"
        /\ e[1] # "failed" => gateway[e[2]] # "open"

(* o is an order for the renewal of period a.                               *)
Renews(o, a) ==
    /\ HadPeriod(a)
    /\ o \in Order /\ order[o].status # "none" /\ order[o].sub = a[1]
    /\ PaidBefore(a, o)

AttemptInv == \A a \in Attempt : attempt[a].order # NoOrder => Renews(attempt[a].order, a)

(* What a handler has looked up, also after the attempt got another order,  *)
(* and the window that a "Renew now" in flight has read, also when another  *)
(* order has paid for it since.                                             *)
HandlerOK(h) ==
    /\ handler[h].pc \in {"reread", "commit"} =>
        /\ handler[h].order \in Order /\ order[handler[h].order].status # "none"
        /\ handler[h].kind # "failed" => gateway[handler[h].order] # "open"
        /\ handler[h].attempt # NoAttempt => Renews(handler[h].order, handler[h].attempt)
        /\ handler[h].pc = "reread" => handler[h].attempt # NoAttempt
    /\ handler[h].pc \in Renewing =>
        HadPeriod(handler[h].attempt) /\ PaidBefore(handler[h].attempt, NoOrder)

HandlerInv == \A h \in Handler : HandlerOK(h)

(* The candidates of the tick in flight.  The first pass has not expired    *)
(* them, the second found them past their grace.                            *)
InTick == worker.todo \cup ({worker.cur} \ {NoAttempt})

Pass1 == {"pass1", "checkout", "mark"} \cup Renewing
Pass2 == {"pass2", "expire"}

WorkerInv ==
    /\ \A a \in InTick : HadPeriod(a)
    /\ worker.pc \in {"checkout", "mark", "expire"} \cup Renewing <=> worker.cur # NoAttempt
    /\ worker.pc \in Pass1 => \A a \in InTick : sub[a[1]].status # "EXPIRED"
    /\ worker.pc \in Pass2 => \A a \in InTick : a[2] + Grace < now
    /\ worker.pc \in Renewing => PaidBefore(worker.cur, NoOrder)

BillingInv ==
    /\ BillingTypeOK /\ SubInv /\ OrderInv /\ AttemptInv /\ HandlerInv /\ WorkerInv
    /\ PeriodsArePaid /\ ActiveHasInvoice /\ NoEarlyLapse
-----------------------------------------------------------------------------
(* Rows and locals.                                                         *)
SubRow == [status : {"none", "PENDING", "ACTIVE", "PAYMENT_FAILED", "CANCELLED",
                     "EXPIRED"},
           startsAt : Time \cup {NoTime}, endsAt : Time \cup {NoTime}, free : BOOLEAN]
OrderRow == [sub : Sub \cup {NoSub},
             status : {"none", "CREATED", "CAPTURED", "FAILED", "REFUNDED"},
             payment : {"none", "failed", "captured"}]
AttemptRow == [status : InFlight \cup Unpaid \cup {"none"}, order : Order \cup {NoOrder}]
HandlerLocals == [pc : {"idle", "reread", "commit"} \cup Renewing,
                  kind : Kind \cup {"renewal"}, order : Order \cup {NoOrder},
                  attempt : Attempt \cup {NoAttempt},
                  seen : InFlight \cup Unpaid \cup {"none"}]
WorkerLocals == [pc : {"idle", "pass1", "checkout", "mark", "pass2", "expire"}
                            \cup Renewing,
                 todo : SUBSET Attempt, cur : Attempt \cup {NoAttempt}]

LEMMA Types ==
    ASSUME BillingTypeOK
    PROVE  /\ sub \in [Sub -> SubRow] /\ order \in [Order -> OrderRow]
           /\ attempt \in [Attempt -> AttemptRow]
           /\ handler \in [Handler -> HandlerLocals] /\ worker \in WorkerLocals
           /\ gateway \in [Order -> {"open", "captured", "refunded"}]
           /\ inbox \subseteq Kind \X Order
           /\ now \in 0..MaxNow
  BY DEF BillingTypeOK, SubRow, OrderRow, AttemptRow, HandlerLocals, WorkerLocals

LEMMA Numbers ==
    /\ Period \in Nat /\ Period >= 1 /\ MaxOrders \in Nat /\ MaxNow \in Nat
    /\ Lookahead \in Nat /\ Grace \in Nat
    /\ Time \subseteq Nat /\ NoTime = -1 /\ NoTime \notin Time
    /\ Order \subseteq Nat /\ NoOrder \notin Order
    /\ Period * (MaxOrders + 1) \in Nat
<1>1. /\ Period \in Nat /\ Period >= 1 /\ MaxOrders \in Nat /\ MaxNow \in Nat
      /\ Lookahead \in Nat /\ Grace \in Nat
  BY BillingAssumption
<1>2. Period * (MaxOrders + 1) \in Nat
  BY <1>1
<1> QED
  BY <1>1, <1>2 DEF Time, NoTime, Order, NoOrder

LEMMA SubTimes ==
    ASSUME NEW r \in SubRow
    PROVE  r.startsAt \in Int /\ r.endsAt \in Int
<1>1. r.startsAt \in Time \cup {NoTime} /\ r.endsAt \in Time \cup {NoTime}
  BY DEF SubRow
<1>2. \A t \in Time \cup {NoTime} : t \in Int
  BY Numbers
<1> QED
  BY <1>1, <1>2

LEMMA AttemptIsPair ==
    ASSUME NEW a \in Attempt
    PROVE  a = <<a[1], a[2]>> /\ a[1] \in Sub /\ a[2] \in Time /\ a # NoAttempt
<1>1. a = <<a[1], a[2]>> /\ a[1] \in Sub /\ a[2] \in Time
  BY DEF Attempt
<1>2. Len(a) = 2 /\ Len(NoAttempt) = 0
  BY <1>1 DEF NoAttempt
<1> QED
  BY <1>1, <1>2

(* Counting payments.                                                       *)
LEMMA OrdersFinite ==
    ASSUME NEW S, S \subseteq Order
    PROVE  IsFiniteSet(S) /\ Cardinality(S) \in Nat /\ Cardinality(S) <= MaxOrders
<1>1. IsFiniteSet(Order) /\ Cardinality(Order) = MaxOrders
  BY Numbers, FS_Interval DEF Order
<1> QED
  BY <1>1, FS_Subset, FS_CardinalityType

LEMMA FewerOrders ==
    ASSUME NEW S, NEW T, S \subseteq T, T \subseteq Order
    PROVE  Cardinality(S) <= Cardinality(T)
  BY OrdersFinite, FS_Subset

LEMMA OneOrderMore ==
    ASSUME NEW S, S \subseteq Order, NEW o \in S
    PROVE  Cardinality(S) = Cardinality(S \ {o}) + 1
<1>1. IsFiniteSet(S) /\ Cardinality(S) \in Nat
  BY OrdersFinite
<1>2. Cardinality(S \ {o}) = Cardinality(S) - 1
  BY <1>1, FS_RemoveElement
<1> QED
  BY <1>1, <1>2

LEMMA MoreYears ==
    ASSUME NEW i \in Nat, NEW j \in Nat, i <= j
    PROVE  /\ Period * i \in Nat /\ Period * j \in Nat /\ Period * i <= Period * j
           /\ Period * (i + 1) = Period * i + Period
<1>1. PICK d \in Nat : j = i + d
  <2>1. j - i \in Nat /\ j = i + (j - i)
    OBVIOUS
  <2> QED
    BY <2>1
<1>2. Period \in Nat
  BY Numbers
<1>3. Period * i \in Nat /\ Period * d \in Nat
  BY <1>1, <1>2
<1>4. Period * j = Period * i + Period * d
  BY <1>1, <1>2
<1>5. Period * (i + 1) = Period * i + Period
  BY <1>2
<1> QED
  BY <1>3, <1>4, <1>5
-----------------------------------------------------------------------------
(* Which actions change which variable.                                     *)
LEMMA NextCases ==
    ASSUME [Next]_vars
    PROVE  \/ \E s \in Sub : StartCheckout(s) \/ StartFreeCheckout(s) \/ CancelSubscription(s)
           \/ \E o \in Order : Pay(o) \/ PaymentFails(o) \/ Refund(o)
           \/ AdvanceClock
           \/ \E h \in Handler : HandlerNext(h)
           \/ WorkerNext
           \/ Crash
           \/ UNCHANGED vars
  BY DEF Next

LEMMA SubEffects ==
    ASSUME [Next]_vars
    PROVE  \/ UNCHANGED sub
           \/ \E s \in Sub : StartCheckout(s) \/ StartFreeCheckout(s) \/ CancelSubscription(s)
           \/ \E h \in Handler : \/ CaptureRenewal(h) \/ CaptureByCallback(h)
                                 \/ CaptureByWebhook(h) \/ RecordFailure(h)
                                 \/ ApplyRefund(h)
           \/ ExpireRenewalAttempt
<1>1. ASSUME NEW h \in Handler, HandlerNext(h)
      PROVE  \/ UNCHANGED sub
             \/ CaptureRenewal(h) \/ CaptureByCallback(h) \/ CaptureByWebhook(h)
             \/ RecordFailure(h) \/ ApplyRefund(h)
  BY <1>1 DEF HandlerNext, ReceiveCallback, ReceiveWebhook, ReadAttempt, HandlerThrows,
     RequestRenewal, ReadRequestedWindow, PersistRequested, rows
<1>2. ASSUME WorkerNext PROVE UNCHANGED sub \/ ExpireRenewalAttempt
  BY <1>2 DEF WorkerNext, Scan, DecideRenewalAction, ReadSubscription, ReadWindow,
     PersistRenewal, RenewalFails, MarkRenewalEmailSent, EmailFails, ScanLapsed, ReadLapsed, EndTick,
     TickThrows, rows
<1> QED
  BY <1>1, <1>2, NextCases DEF Pay, PaymentFails, Refund, AdvanceClock, Crash, rows, vars

LEMMA OrderEffects ==
    ASSUME [Next]_vars
    PROVE  \/ UNCHANGED order
           \/ \E s \in Sub : StartCheckout(s)
           \/ \E h \in Handler : \/ CaptureRenewal(h) \/ CaptureByCallback(h)
                                 \/ CaptureByWebhook(h) \/ RecordFailure(h)
                                 \/ ApplyRefund(h) \/ PersistRequested(h)
           \/ PersistRenewal
<1>1. ASSUME NEW h \in Handler, HandlerNext(h)
      PROVE  \/ UNCHANGED order
             \/ CaptureRenewal(h) \/ CaptureByCallback(h) \/ CaptureByWebhook(h)
             \/ RecordFailure(h) \/ ApplyRefund(h) \/ PersistRequested(h)
  BY <1>1 DEF HandlerNext, ReceiveCallback, ReceiveWebhook, ReadAttempt, HandlerThrows,
     RequestRenewal, ReadRequestedWindow, rows
<1>2. ASSUME WorkerNext PROVE UNCHANGED order \/ PersistRenewal
  BY <1>2 DEF WorkerNext, Scan, DecideRenewalAction, ReadSubscription, ReadWindow,
     RenewalFails,
     MarkRenewalEmailSent, EmailFails, ScanLapsed, ReadLapsed, ExpireRenewalAttempt,
     EndTick, TickThrows, rows
<1> QED
  BY <1>1, <1>2, NextCases DEF StartFreeCheckout, CancelSubscription, Pay, PaymentFails,
     Refund, AdvanceClock, Crash, rows, vars

LEMMA AttemptEffects ==
    ASSUME [Next]_vars
    PROVE  \/ UNCHANGED attempt
           \/ \E h \in Handler : CaptureRenewal(h) \/ RecordFailure(h) \/ PersistRequested(h)
           \/ PersistRenewal \/ MarkRenewalEmailSent \/ ExpireRenewalAttempt
<1>1. ASSUME NEW h \in Handler, HandlerNext(h)
      PROVE  UNCHANGED attempt \/ CaptureRenewal(h) \/ RecordFailure(h) \/ PersistRequested(h)
  BY <1>1 DEF HandlerNext, ReceiveCallback, ReceiveWebhook, ReadAttempt, CaptureByCallback,
     CaptureByWebhook, ApplyRefund, HandlerThrows, RequestRenewal,
     ReadRequestedWindow, rows
<1>2. ASSUME WorkerNext
      PROVE  UNCHANGED attempt \/ PersistRenewal \/ MarkRenewalEmailSent
             \/ ExpireRenewalAttempt
  BY <1>2 DEF WorkerNext, Scan, DecideRenewalAction, ReadSubscription, ReadWindow,
     RenewalFails, EmailFails,
     ScanLapsed, ReadLapsed, EndTick, TickThrows, rows
<1> QED
  BY <1>1, <1>2, NextCases DEF StartCheckout, StartFreeCheckout, CancelSubscription, Pay,
     PaymentFails, Refund, AdvanceClock, Crash, rows, vars

LEMMA InvoiceEffects ==
    ASSUME [Next]_vars
    PROVE  \/ UNCHANGED invoice
           \/ \E s \in Sub : StartFreeCheckout(s)
           \/ \E h \in Handler : \/ CaptureRenewal(h) \/ CaptureByCallback(h)
                                 \/ CaptureByWebhook(h) \/ ApplyRefund(h)
<1>1. ASSUME NEW h \in Handler, HandlerNext(h)
      PROVE  UNCHANGED invoice \/ CaptureRenewal(h) \/ CaptureByCallback(h)
             \/ CaptureByWebhook(h) \/ ApplyRefund(h)
  BY <1>1 DEF HandlerNext, ReceiveCallback, ReceiveWebhook, ReadAttempt, RecordFailure,
     HandlerThrows, RequestRenewal, ReadRequestedWindow, PersistRequested, rows
<1>2. ASSUME WorkerNext PROVE UNCHANGED invoice
  BY <1>2 DEF WorkerNext, Scan, DecideRenewalAction, ReadSubscription, ReadWindow,
     PersistRenewal, RenewalFails, MarkRenewalEmailSent, EmailFails, ScanLapsed, ReadLapsed,
     ExpireRenewalAttempt, EndTick, TickThrows, rows
<1> QED
  BY <1>1, <1>2, NextCases DEF StartCheckout, CancelSubscription, Pay, PaymentFails,
     Refund, AdvanceClock, Crash, rows, vars

LEMMA GatewayEffects ==
    ASSUME [Next]_vars
    PROVE  \/ UNCHANGED outside
           \/ \E o \in Order : Pay(o) \/ PaymentFails(o) \/ Refund(o)
           \/ AdvanceClock
<1>1. ASSUME NEW h \in Handler, HandlerNext(h) PROVE UNCHANGED outside
  BY <1>1 DEF HandlerNext, ReceiveCallback, ReceiveWebhook, ReadAttempt, CaptureRenewal,
     CaptureByCallback, CaptureByWebhook, RecordFailure, ApplyRefund, HandlerThrows, Commits,
     RequestRenewal, ReadRequestedWindow, PersistRequested
<1>2. ASSUME WorkerNext PROVE UNCHANGED outside
  BY <1>2 DEF WorkerNext, Scan, DecideRenewalAction, ReadSubscription, ReadWindow,
     PersistRenewal, RenewalFails, MarkRenewalEmailSent, EmailFails, ScanLapsed, ReadLapsed,
     ExpireRenewalAttempt, EndTick, TickThrows
<1> QED
  BY <1>1, <1>2, NextCases DEF StartCheckout, StartFreeCheckout, CancelSubscription, Crash,
     vars, outside

LEMMA ClockEffects ==
    ASSUME [Next]_vars
    PROVE  UNCHANGED now \/ AdvanceClock
<1>1. ASSUME NEW h \in Handler, HandlerNext(h) PROVE UNCHANGED now
  BY <1>1 DEF HandlerNext, ReceiveCallback, ReceiveWebhook, ReadAttempt, CaptureRenewal,
     CaptureByCallback, CaptureByWebhook, RecordFailure, ApplyRefund, HandlerThrows, Commits,
     RequestRenewal, ReadRequestedWindow, PersistRequested
<1>2. ASSUME WorkerNext PROVE UNCHANGED now
  BY <1>2 DEF WorkerNext, Scan, DecideRenewalAction, ReadSubscription, ReadWindow,
     PersistRenewal, RenewalFails, MarkRenewalEmailSent, EmailFails, ScanLapsed, ReadLapsed,
     ExpireRenewalAttempt, EndTick, TickThrows
<1> QED
  BY <1>1, <1>2, NextCases DEF StartCheckout, StartFreeCheckout, CancelSubscription, Pay,
     PaymentFails, Refund, Crash, vars

LEMMA HandlerEffects ==
    ASSUME [Next]_vars
    PROVE  \/ UNCHANGED handler
           \/ \E h \in Handler : HandlerNext(h)
           \/ Crash
<1>1. ASSUME WorkerNext PROVE UNCHANGED handler
  BY <1>1 DEF WorkerNext, Scan, DecideRenewalAction, ReadSubscription, ReadWindow,
     PersistRenewal, RenewalFails, MarkRenewalEmailSent, EmailFails, ScanLapsed, ReadLapsed,
     ExpireRenewalAttempt, EndTick, TickThrows
<1> QED
  BY <1>1, NextCases DEF StartCheckout, StartFreeCheckout, CancelSubscription, Pay,
     PaymentFails, Refund, AdvanceClock, vars

LEMMA WorkerEffects ==
    ASSUME [Next]_vars
    PROVE  UNCHANGED worker \/ WorkerNext \/ Crash
<1>1. ASSUME NEW h \in Handler, HandlerNext(h) PROVE UNCHANGED worker
  BY <1>1 DEF HandlerNext, ReceiveCallback, ReceiveWebhook, ReadAttempt, CaptureRenewal,
     CaptureByCallback, CaptureByWebhook, RecordFailure, ApplyRefund, HandlerThrows, Commits,
     RequestRenewal, ReadRequestedWindow, PersistRequested
<1> QED
  BY <1>1, NextCases DEF StartCheckout, StartFreeCheckout, CancelSubscription, Pay,
     PaymentFails, Refund, AdvanceClock, vars
-----------------------------------------------------------------------------
(* What a step does to the rows of one subscription and one order.          *)
SameYear(s) ==
    /\ sub'[s].startsAt = sub[s].startsAt /\ sub'[s].endsAt = sub[s].endsAt
    /\ sub'[s].free = sub[s].free

FreeYear(s) ==
    /\ sub'[s].startsAt = now /\ sub'[s].endsAt = now + Period /\ sub'[s].free

RenewedYear(s, h) ==
    /\ CaptureRenewal(h)
    /\ handler[h].attempt \in Attempt /\ handler[h].attempt[1] = s
    /\ Renews(handler[h].order, handler[h].attempt)
    /\ gateway[handler[h].order] # "open"
    /\ sub'[s].startsAt = sub[s].startsAt /\ sub'[s].free = sub[s].free
    /\ sub'[s].endsAt = handler[h].attempt[2] + Period

FirstYear(s, h) ==
    /\ handler[h].order \in Order /\ order[handler[h].order].sub = s
    /\ gateway[handler[h].order] # "open"
    /\ sub'[s].startsAt = now /\ sub'[s].endsAt = now + Period
    /\ sub'[s].free = sub[s].free

SubMoves(s) ==
    \/ SameYear(s)
    \/ FreeYear(s)
    \/ \E h \in Handler : RenewedYear(s, h) \/ FirstYear(s, h)

(* The handler that commits has an order of a subscription, and its money.  *)
Prepared(h) ==
    /\ handler[h].order \in Order
    /\ order[handler[h].order].status # "none"
    /\ order[handler[h].order].sub \in Sub
    /\ handler[h].kind # "failed" => gateway[handler[h].order] # "open"
    /\ handler[h].pc = "reread" => handler[h].attempt # NoAttempt
    /\ handler[h].attempt # NoAttempt =>
          /\ handler[h].attempt \in Attempt /\ handler[h].attempt[1] \in Sub
          /\ Renews(handler[h].order, handler[h].attempt)

LEMMA HandlerPrepared ==
    ASSUME OrderInv, HandlerInv, NEW h \in Handler, handler[h].pc \in {"reread", "commit"}
    PROVE  Prepared(h)
<1>1. HandlerOK(h)
  BY DEF HandlerInv
<1>2. order[handler[h].order].sub \in Sub
  BY <1>1 DEF HandlerOK, OrderInv
<1> QED
  BY <1>1, <1>2, AttemptIsPair DEF HandlerOK, Prepared, Renews, HadPeriod

LEMMA SubChange ==
    ASSUME BillingTypeOK, SubInv, OrderInv, HandlerInv, [Next]_vars, NEW s \in Sub
    PROVE  SubMoves(s)
<1>1. sub \in [Sub -> SubRow] /\ DOMAIN sub = Sub /\ sub[s] \in SubRow
  BY Types
<1>2. ASSUME UNCHANGED sub PROVE SameYear(s)
  BY <1>2 DEF SameYear
<1>3. ASSUME NEW r \in Sub, NEW st, SubBecomes(r, st) PROVE SameYear(s)
  BY <1>1, <1>3 DEF SubBecomes, SameYear, SubRow
<1>4. ASSUME NEW r \in Sub, r # s, NEW x, NEW y, Activate(r, x, y) PROVE SameYear(s)
  BY <1>1, <1>4 DEF Activate, SameYear, SubRow
<1>5. ASSUME NEW x, NEW y, Activate(s, x, y)
      PROVE  sub'[s].startsAt = x /\ sub'[s].endsAt = y /\ sub'[s].free = sub[s].free
  BY <1>1, <1>5 DEF Activate, SubRow
<1>6. ASSUME NEW r \in Sub, StartFreeCheckout(r) PROVE SameYear(s) \/ FreeYear(s)
  BY <1>1, <1>6 DEF StartFreeCheckout, SameYear, FreeYear, SubRow
<1>7. ASSUME NEW h \in Handler, CaptureRenewal(h)
      PROVE  SameYear(s) \/ RenewedYear(s, h)
  <2>1. handler[h].pc = "commit" /\ handler[h].kind \in {"callback", "captured"}
        /\ handler[h].attempt # NoAttempt
    BY <1>7 DEF CaptureRenewal, Commits
  <2>2. Prepared(h)
    BY <2>1, HandlerPrepared
  <2>3. \/ UNCHANGED sub
        \/ Activate(handler[h].attempt[1], sub[handler[h].attempt[1]].startsAt,
                    RenewalEnd(handler[h].attempt[1], handler[h].attempt[2]))
    BY <1>7 DEF CaptureRenewal
  <2>4. CASE UNCHANGED sub
    BY <2>4, <1>2
  <2>5. CASE Activate(handler[h].attempt[1], sub[handler[h].attempt[1]].startsAt,
                      RenewalEnd(handler[h].attempt[1], handler[h].attempt[2]))
    <3>1. CASE handler[h].attempt[1] # s
      BY <3>1, <2>1, <2>2, <2>5, <1>4 DEF Prepared
    <3>2. CASE handler[h].attempt[1] = s
      <4>1. /\ sub'[s].startsAt = sub[s].startsAt /\ sub'[s].free = sub[s].free
            /\ sub'[s].endsAt = handler[h].attempt[2] + Period
        BY <3>2, <2>5, <1>5 DEF RenewalEnd
      <4> QED
        BY <3>2, <4>1, <2>1, <2>2, <1>7 DEF Prepared, RenewedYear
    <3> QED
      BY <3>1, <3>2
  <2> QED
    BY <2>3, <2>4, <2>5
<1>8. ASSUME NEW h \in Handler, CaptureByCallback(h) \/ CaptureByWebhook(h)
      PROVE  SameYear(s) \/ FirstYear(s, h)
  <2>1. handler[h].pc = "commit" /\ handler[h].kind \in {"callback", "captured"}
    BY <1>8 DEF CaptureByCallback, CaptureByWebhook, Commits
  <2>2. Prepared(h)
    BY <2>1, HandlerPrepared
  <2> DEFINE r == order[handler[h].order].sub
  <2>3. \/ UNCHANGED sub
        \/ Activate(r, now, now + Period)
        \/ Activate(r, IF sub[r].startsAt = NoTime THEN now ELSE sub[r].startsAt, EndOrNew(r))
    BY <1>8 DEF CaptureByCallback, CaptureByWebhook
  <2>4. r \in Sub
    BY <2>2 DEF Prepared
  <2>5. CASE UNCHANGED sub
    BY <2>5, <1>2
  <2>6. CASE r # s
    BY <2>3, <2>4, <2>6, <1>2, <1>4
  <2>7. CASE r = s /\ Activate(r, now, now + Period)
    <3>1. /\ sub'[s].startsAt = now /\ sub'[s].endsAt = now + Period
          /\ sub'[s].free = sub[s].free
      BY <2>7, <1>5
    <3> QED
      BY <3>1, <2>1, <2>2, <2>7 DEF FirstYear, Prepared
  <2>8. CASE r = s /\ Activate(r, IF sub[r].startsAt = NoTime THEN now ELSE sub[r].startsAt,
                               EndOrNew(r))
    <3>1. /\ sub'[s].startsAt = IF sub[s].startsAt = NoTime THEN now ELSE sub[s].startsAt
          /\ sub'[s].endsAt = EndOrNew(s) /\ sub'[s].free = sub[s].free
      BY <2>8, <1>5
    <3>2. sub[s].startsAt = NoTime <=> sub[s].endsAt = NoTime
      BY DEF SubInv
    <3> QED
      BY <3>1, <3>2, <2>1, <2>2, <2>8 DEF FirstYear, Prepared, EndOrNew, SameYear
  <2> QED
    BY <2>3, <2>5, <2>6, <2>7, <2>8
<1>9. ASSUME NEW h \in Handler, RecordFailure(h) \/ ApplyRefund(h) PROVE SameYear(s)
  <2>1. handler[h].pc = "commit"
    BY <1>9 DEF RecordFailure, ApplyRefund, Commits
  <2>2. order[handler[h].order].sub \in Sub
    BY <2>1, HandlerPrepared DEF Prepared
  <2>3. UNCHANGED sub \/ \E st \in {"PAYMENT_FAILED", "CANCELLED"} :
                              SubBecomes(order[handler[h].order].sub, st)
    BY <1>9 DEF RecordFailure, ApplyRefund
  <2> QED
    BY <2>2, <2>3, <1>2, <1>3
<1>10. ASSUME NEW r \in Sub, StartCheckout(r) \/ CancelSubscription(r) PROVE SameYear(s)
  <2>1. \E st \in {"PENDING", "CANCELLED"} : SubBecomes(r, st)
    BY <1>10 DEF StartCheckout, CancelSubscription
  <2> QED
    BY <2>1, <1>3
<1>11. ASSUME ExpireRenewalAttempt PROVE SameYear(s)
  <2>1. UNCHANGED sub \/ SubBecomes(worker.cur[1], "EXPIRED")
    BY <1>11 DEF ExpireRenewalAttempt
  <2>2. ASSUME SubBecomes(worker.cur[1], "EXPIRED") PROVE SameYear(s)
    BY <2>2, <1>1 DEF SubBecomes, SameYear, SubRow
  <2> QED
    BY <2>1, <2>2, <1>2
<1> QED
  BY SubEffects, <1>2, <1>6, <1>7, <1>8, <1>9, <1>10, <1>11 DEF SubMoves
-----------------------------------------------------------------------------
(* Whoever persists a renewal does it for a period that was paid up to its  *)
(* start, if not for a year more by now.                                    *)
PersistedFor(a, o) ==
    /\ HadPeriod(a) /\ PaidBefore(a, NoOrder)
    /\ CreateOrder(o, a[1])
    /\ attempt' = [attempt EXCEPT ![a] = [status |-> "PENDING", order |-> o]]
    /\ UNCHANGED <<sub, gateway>>

LEMMA WhoPersists ==
    ASSUME BillingTypeOK, HandlerInv, WorkerInv,
           PersistRenewal \/ \E h \in Handler : PersistRequested(h)
    PROVE  \/ UNCHANGED <<order, attempt>>
           \/ \E a \in Attempt, o \in Order : PersistedFor(a, o)
<1>1. ASSUME NEW how, NEW a, PersistAttempt(how, a), HadPeriod(a), PaidBefore(a, NoOrder),
             UNCHANGED <<sub, outside>>
      PROVE  \E b \in Attempt, o \in Order : PersistedFor(b, o)
  <2>1. a \in Attempt /\ \E o \in Order : PersistedFor(a, o)
    BY <1>1 DEF PersistAttempt, PersistedFor, HadPeriod, outside
  <2> QED
    BY <2>1
<1>2. CASE PersistRenewal
  <2>1. /\ worker.pc \in Renewing /\ worker.cur \in InTick
        /\ PersistAttempt(worker.pc, worker.cur) /\ UNCHANGED <<sub, outside>>
    BY <1>2 DEF PersistRenewal, WorkerInv, InTick, Renewing
  <2> QED
    BY <1>1, <2>1 DEF WorkerInv
<1>3. ASSUME NEW h \in Handler, PersistRequested(h)
      PROVE  \/ UNCHANGED <<order, attempt>>
             \/ \E b \in Attempt, o \in Order : PersistedFor(b, o)
  <2>1. HandlerOK(h) /\ handler[h].pc \in Renewing
    BY <1>3 DEF HandlerInv, PersistRequested, Renewing
  <2>2. \/ UNCHANGED <<order, attempt>>
        \/ PersistAttempt(handler[h].pc, handler[h].attempt) /\ UNCHANGED <<sub, outside>>
    BY <1>3 DEF PersistRequested
  <2> QED
    BY <1>1, <2>1, <2>2 DEF HandlerOK
<1> QED
  BY <1>2, <1>3
-----------------------------------------------------------------------------
(* What no step takes back: an order and its money, a subscription's period *)
(* and its start.                                                           *)
SubKept == \A s \in Sub :
    /\ sub[s].startsAt <= sub'[s].startsAt
    /\ sub[s].free => sub'[s].free
    /\ sub[s].endsAt # NoTime => sub'[s].endsAt # NoTime

OrderKept == \A o \in Order :
    /\ order[o].status # "none" => /\ order'[o].status # "none"
                                   /\ order'[o].sub = order[o].sub
    /\ gateway[o] # "open" => gateway'[o] # "open"

LEMMA SubIsKept ==
    ASSUME BillingTypeOK, SubInv, OrderInv, HandlerInv, [Next]_vars
    PROVE  SubKept
<1> SUFFICES ASSUME NEW s \in Sub
             PROVE  /\ sub[s].startsAt <= sub'[s].startsAt
                    /\ sub[s].free => sub'[s].free
                    /\ sub[s].endsAt # NoTime => sub'[s].endsAt # NoTime
  BY DEF SubKept
<1>1. /\ sub[s] \in SubRow /\ now \in Nat /\ sub[s].startsAt <= now
      /\ sub[s].startsAt \in Int
  BY Types, Numbers, SubTimes DEF SubInv
<1>2. now + Period # NoTime
  BY <1>1, Numbers
<1>3. CASE SameYear(s)
  BY <1>1, <1>3 DEF SameYear
<1>4. CASE FreeYear(s)
  BY <1>1, <1>2, <1>4 DEF FreeYear
<1>5. ASSUME NEW h \in Handler, RenewedYear(s, h)
      PROVE  /\ sub[s].startsAt <= sub'[s].startsAt
             /\ sub[s].free => sub'[s].free
             /\ sub'[s].endsAt # NoTime
  <2>1. handler[h].attempt[2] \in Nat
    BY <1>5, AttemptIsPair, Numbers DEF RenewedYear
  <2> QED
    BY <2>1, <1>1, <1>5, Numbers DEF RenewedYear
<1>6. ASSUME NEW h \in Handler, FirstYear(s, h)
      PROVE  /\ sub[s].startsAt <= sub'[s].startsAt
             /\ sub[s].free => sub'[s].free
             /\ sub'[s].endsAt # NoTime
  BY <1>1, <1>2, <1>6 DEF FirstYear
<1> QED
  BY SubChange, <1>3, <1>4, <1>5, <1>6 DEF SubMoves

LEMMA OrderIsKept ==
    ASSUME BillingTypeOK, OrderInv, HandlerInv, WorkerInv, [Next]_vars
    PROVE  OrderKept
<1> SUFFICES ASSUME NEW o \in Order
             PROVE  /\ order[o].status # "none" => /\ order'[o].status # "none"
                                                   /\ order'[o].sub = order[o].sub
                    /\ gateway[o] # "open" => gateway'[o] # "open"
  BY DEF OrderKept
<1>1. order \in [Order -> OrderRow] /\ order[o] \in OrderRow
      /\ gateway \in [Order -> {"open", "captured", "refunded"}]
  BY Types
<1>2. ASSUME NEW p, NEW s, CreateOrder(p, s), order[o].status # "none"
      PROVE  order'[o] = order[o]
  BY <1>1, <1>2 DEF CreateOrder
<1>3. ASSUME NEW p, NEW st, NEW pay, OrderBecomes(p, st, pay), st # "none",
             order[o].status # "none"
      PROVE  order'[o].status # "none" /\ order'[o].sub = order[o].sub
  BY <1>1, <1>3 DEF OrderBecomes, OrderRow
<1>4. ASSUME order[o].status # "none"
      PROVE  order'[o].status # "none" /\ order'[o].sub = order[o].sub
  <2>1. CASE UNCHANGED order
    BY <2>1, <1>4
  <2>2. ASSUME NEW s \in Sub, StartCheckout(s) PROVE order'[o] = order[o]
    BY <2>2, <1>2, <1>4 DEF StartCheckout
  <2>3. ASSUME NEW h \in Handler,
               \/ CaptureRenewal(h) \/ CaptureByCallback(h) \/ CaptureByWebhook(h)
               \/ RecordFailure(h) \/ ApplyRefund(h)
        PROVE  order'[o].status # "none" /\ order'[o].sub = order[o].sub
    <3>1. \E st \in {"CAPTURED", "FAILED", "REFUNDED"} : \E pay :
              OrderBecomes(handler[h].order, st, pay)
      BY <2>3 DEF CaptureRenewal, CaptureByCallback, CaptureByWebhook, RecordFailure,
         ApplyRefund
    <3> QED
      BY <3>1, <1>3, <1>4
  <2>4. ASSUME PersistRenewal \/ \E h \in Handler : PersistRequested(h)
        PROVE  order'[o] = order[o]
    BY <2>4, <1>2, <1>4, WhoPersists DEF PersistedFor
  <2> QED
    BY <1>4, OrderEffects, <2>1, <2>2, <2>3, <2>4
<1>5. ASSUME gateway[o] # "open" PROVE gateway'[o] # "open"
  <2>1. CASE UNCHANGED outside
    BY <2>1, <1>5 DEF outside
  <2>2. ASSUME NEW p \in Order, Pay(p) \/ PaymentFails(p) \/ Refund(p)
        PROVE  gateway'[o] # "open"
    BY <2>2, <1>1, <1>5 DEF Pay, PaymentFails, Refund
  <2>3. CASE AdvanceClock
    BY <2>3, <1>5 DEF AdvanceClock
  <2> QED
    BY GatewayEffects, <2>1, <2>2, <2>3
<1> QED
  BY <1>4, <1>5

LEMMA ClockIsKept ==
    ASSUME BillingTypeOK, [Next]_vars
    PROVE  now \in Nat /\ now' \in Nat /\ now <= now' /\ now' <= MaxNow
<1>1. now \in 0..MaxNow
  BY Types
<1> QED
  BY <1>1, ClockEffects, Numbers DEF AdvanceClock

(* So what was paid stays paid.                                             *)
LEMMA PaidGrows ==
    ASSUME OrderInv, OrderKept, NEW s \in Sub
    PROVE  OrdersPaid(s) \subseteq OrdersPaid(s)'
  BY DEF OrderInv, OrderKept, OrdersPaid

LEMMA YearsGrow ==
    ASSUME BillingTypeOK, OrderInv, SubKept, OrderKept, NEW s \in Sub, NEW o
    PROVE  /\ Cardinality(OrdersPaid(s) \ {o}) \in Nat
           /\ Cardinality(OrdersPaid(s)' \ {o}) \in Nat
           /\ FreeYears(s) \in {0, 1} /\ FreeYears(s)' \in {0, 1}
           /\ Period * (Cardinality(OrdersPaid(s) \ {o}) + FreeYears(s))
                <= Period * (Cardinality(OrdersPaid(s)' \ {o}) + FreeYears(s)')
<1> DEFINE P == OrdersPaid(s) \ {o}
           Q == OrdersPaid(s)' \ {o}
<1>1. P \subseteq Q /\ Q \subseteq Order
  BY PaidGrows DEF OrdersPaid
<1>2. Cardinality(P) \in Nat /\ Cardinality(Q) \in Nat /\ Cardinality(P) <= Cardinality(Q)
  BY <1>1, OrdersFinite, FewerOrders
<1>3. FreeYears(s) \in {0, 1} /\ FreeYears(s)' \in {0, 1} /\ FreeYears(s) <= FreeYears(s)'
  BY DEF SubKept, FreeYears
<1> HIDE DEF P, Q
<1>4. /\ Cardinality(P) + FreeYears(s) \in Nat /\ Cardinality(Q) + FreeYears(s)' \in Nat
      /\ Cardinality(P) + FreeYears(s) <= Cardinality(Q) + FreeYears(s)'
  BY <1>2, <1>3
<1>5. Period * (Cardinality(P) + FreeYears(s)) <= Period * (Cardinality(Q) + FreeYears(s)')
  BY <1>4, MoreYears
<1> QED
  BY <1>2, <1>3, <1>5 DEF P, Q

LEMMA PaidBeforeKept ==
    ASSUME BillingTypeOK, BillingTypeOK', OrderInv, SubKept, OrderKept,
           NEW a \in Attempt, NEW o, PaidBefore(a, o)
    PROVE  PaidBefore(a, o)'
<1>1. a[1] \in Sub /\ a[2] \in Nat
  BY AttemptIsPair, Numbers
<1>2. sub[a[1]].startsAt \in Int /\ sub'[a[1]].startsAt \in Int
  <2>1. sub[a[1]] \in SubRow /\ sub'[a[1]] \in SubRow
    BY <1>1, Types DEF BillingTypeOK, SubRow
  <2> QED
    BY <2>1, SubTimes
<1>3. sub[a[1]].startsAt <= sub'[a[1]].startsAt
  BY <1>1 DEF SubKept
<1> DEFINE y == Period * (Cardinality(OrdersPaid(a[1]) \ {o}) + FreeYears(a[1]))
           z == Period * (Cardinality(OrdersPaid(a[1])' \ {o}) + FreeYears(a[1])')
<1>4. y \in Int /\ z \in Int /\ y <= z
  <2>1. /\ Cardinality(OrdersPaid(a[1]) \ {o}) \in Nat
        /\ Cardinality(OrdersPaid(a[1])' \ {o}) \in Nat
        /\ FreeYears(a[1]) \in {0, 1} /\ FreeYears(a[1])' \in {0, 1}
        /\ y <= z
    BY <1>1, YearsGrow
  <2> QED
    BY <2>1, Numbers
<1>5. a[2] - sub[a[1]].startsAt <= y
  BY DEF PaidBefore
<1> HIDE DEF y, z
<1>6. a[2] - sub'[a[1]].startsAt <= z
  BY <1>1, <1>2, <1>3, <1>4, <1>5
<1> QED
  BY <1>6 DEF z, PaidBefore

LEMMA HadPeriodKept ==
    ASSUME SubKept, NEW a, HadPeriod(a)
    PROVE  HadPeriod(a)'
  BY AttemptIsPair DEF SubKept, HadPeriod

LEMMA RenewsKept ==
    ASSUME BillingTypeOK, BillingTypeOK', OrderInv, SubKept, OrderKept,
           NEW o, NEW a, Renews(o, a)
    PROVE  Renews(o, a)'
<1>1. HadPeriod(a)' /\ PaidBefore(a, o)'
  BY HadPeriodKept, PaidBeforeKept DEF Renews, HadPeriod
<1> QED
  BY <1>1 DEF OrderKept, Renews
-----------------------------------------------------------------------------
(* The parts of the invariant that the rows make up.                        *)
LEMMA SubStep ==
    ASSUME BillingTypeOK, SubInv, OrderInv, HandlerInv, [Next]_vars
    PROVE  SubInv'
<1> SUFFICES ASSUME NEW s \in Sub
             PROVE  /\ sub'[s].startsAt = NoTime <=> sub'[s].endsAt = NoTime
                    /\ sub'[s].startsAt <= now'
  BY DEF SubInv
<1>1. /\ now \in Nat /\ now' \in Nat /\ now <= now'
      /\ sub[s].startsAt \in Int /\ sub[s].startsAt <= now
      /\ sub[s].startsAt = NoTime <=> sub[s].endsAt = NoTime
  BY ClockIsKept, Types, SubTimes DEF SubInv
<1>2. now # NoTime /\ now + Period # NoTime
  BY <1>1, Numbers
<1>3. CASE SameYear(s)
  BY <1>1, <1>3 DEF SameYear
<1>4. CASE FreeYear(s)
  BY <1>1, <1>2, <1>4 DEF FreeYear
<1>5. ASSUME NEW h \in Handler, RenewedYear(s, h)
      PROVE  /\ sub'[s].startsAt = NoTime <=> sub'[s].endsAt = NoTime
             /\ sub'[s].startsAt <= now'
  <2>1. handler[h].attempt[2] \in Nat /\ sub[s].endsAt # NoTime
    BY <1>5, AttemptIsPair, Numbers DEF RenewedYear, Renews, HadPeriod
  <2> QED
    BY <2>1, <1>1, <1>5, Numbers DEF RenewedYear
<1>6. ASSUME NEW h \in Handler, FirstYear(s, h)
      PROVE  /\ sub'[s].startsAt = NoTime <=> sub'[s].endsAt = NoTime
             /\ sub'[s].startsAt <= now'
  BY <1>1, <1>2, <1>6 DEF FirstYear
<1> QED
  BY SubChange, <1>3, <1>4, <1>5, <1>6 DEF SubMoves

LEMMA OrderStep ==
    ASSUME BillingTypeOK, OrderInv, HandlerInv, WorkerInv, OrderKept, [Next]_vars
    PROVE  OrderInv'
<1>1. order \in [Order -> OrderRow] /\ inbox \subseteq Kind \X Order
      /\ gateway \in [Order -> {"open", "captured", "refunded"}]
  BY Types
<1>2. ASSUME NEW o \in Order, order'[o].status # "none" PROVE order'[o].sub \in Sub
  <2>1. CASE order[o].status # "none"
    BY <2>1 DEF OrderInv, OrderKept
  <2>2. CASE order[o].status = "none"
    <3>1. order'[o] # order[o]
      BY <1>2, <2>2
    <3>2. ASSUME NEW p \in Order, NEW s \in Sub, CreateOrder(p, s) PROVE order'[o].sub \in Sub
      BY <1>1, <3>1, <3>2 DEF CreateOrder
    <3>3. ASSUME PersistRenewal \/ \E h \in Handler : PersistRequested(h)
          PROVE  order'[o].sub \in Sub
      <4>1. PICK a \in Attempt, p \in Order : CreateOrder(p, a[1])
        BY <3>1, <3>3, WhoPersists DEF PersistedFor
      <4> QED
        BY <3>2, <4>1, AttemptIsPair
    <3>4. ASSUME NEW h \in Handler,
                 \/ CaptureRenewal(h) \/ CaptureByCallback(h) \/ CaptureByWebhook(h)
                 \/ RecordFailure(h) \/ ApplyRefund(h)
          PROVE  FALSE
      <4>1. handler[h].pc = "commit" /\ \E st, pay : OrderBecomes(handler[h].order, st, pay)
        BY <3>4 DEF CaptureRenewal, CaptureByCallback, CaptureByWebhook, RecordFailure,
           ApplyRefund, Commits
      <4>2. order[handler[h].order].status # "none"
        BY <4>1, HandlerPrepared DEF Prepared
      <4> QED
        BY <4>1, <4>2, <1>1, <2>2, <3>1 DEF OrderBecomes
    <3> QED
      BY OrderEffects, <3>1, <3>2, <3>3, <3>4 DEF StartCheckout
  <2> QED
    BY <2>1, <2>2
<1>3. ASSUME NEW o \in Order, gateway'[o] # "open" PROVE order'[o].status # "none"
  <2>1. CASE gateway[o] # "open"
    BY <2>1 DEF OrderInv, OrderKept
  <2>2. CASE gateway[o] = "open"
    BY GatewayEffects, <1>1, <1>3, <2>2
       DEF Pay, PaymentFails, Refund, AdvanceClock, outside, OrderKept
  <2> QED
    BY <2>1, <2>2
<1>4. ASSUME NEW e \in inbox'
      PROVE  /\ order'[e[2]].status # "none"
             /\ e[1] # "failed" => gateway'[e[2]] # "open"
  <2>1. CASE e \in inbox
    <3>1. e[2] \in Order
      BY <2>1, <1>1
    <3> QED
      BY <2>1, <3>1 DEF OrderInv, OrderKept
  <2>2. CASE e \notin inbox
    <3>1. PICK o \in Order : Pay(o) \/ PaymentFails(o) \/ Refund(o)
      BY GatewayEffects, <1>4, <2>2 DEF AdvanceClock, outside
    <3>2. e[1] # "failed" => gateway'[o] # "open"
      BY <1>1, <1>4, <2>2, <3>1 DEF Pay, PaymentFails, Refund, OrderInv
    <3>3. e[2] = o /\ order[o].status # "none"
      BY <1>1, <1>4, <2>2, <3>1 DEF Pay, PaymentFails, Refund, OrderInv
    <3> QED
      BY <3>1, <3>2, <3>3 DEF OrderKept
  <2> QED
    BY <2>1, <2>2
<1> QED
  BY <1>2, <1>3, <1>4 DEF OrderInv

LEMMA AttemptStep ==
    ASSUME BillingTypeOK, BillingTypeOK', OrderInv, AttemptInv, HandlerInv, WorkerInv,
           SubKept, OrderKept, [Next]_vars
    PROVE  AttemptInv'
<1> SUFFICES ASSUME NEW a \in Attempt, attempt'[a].order # NoOrder
             PROVE  Renews(attempt[a].order, a)'
  BY DEF AttemptInv
<1>1. attempt \in [Attempt -> AttemptRow] /\ order \in [Order -> OrderRow]
      /\ worker \in WorkerLocals
  BY Types
<1>2. ASSUME attempt'[a].order = attempt[a].order
      PROVE  Renews(attempt[a].order, a)'
  <2>1. Renews(attempt[a].order, a)
    BY <1>2 DEF AttemptInv
  <2>2. PICK o \in Order : o = attempt[a].order
    BY <2>1 DEF Renews
  <2>3. Renews(o, a)'
    BY <2>1, <2>2, RenewsKept
  <2> QED
    BY <1>2, <2>2, <2>3 DEF Renews, HadPeriod, PaidBefore
<1>3. ASSUME NEW b, NEW st, AttemptBecomes(b, st) PROVE attempt'[a].order = attempt[a].order
  BY <1>1, <1>3 DEF AttemptBecomes, AttemptRow
<1>4. ASSUME NEW h \in Handler, CaptureRenewal(h) \/ RecordFailure(h)
      PROVE  attempt'[a].order = attempt[a].order
  <2>1. UNCHANGED attempt \/ \E b, st : AttemptBecomes(b, st)
    BY <1>4 DEF CaptureRenewal, RecordFailure
  <2> QED
    BY <2>1, <1>3
<1>5. ASSUME MarkRenewalEmailSent \/ ExpireRenewalAttempt
      PROVE  attempt'[a].order = attempt[a].order
  <2>1. UNCHANGED attempt \/ \E b, st : AttemptBecomes(b, st)
    BY <1>5 DEF MarkRenewalEmailSent, ExpireRenewalAttempt
  <2> QED
    BY <2>1, <1>3
<1>6. ASSUME PersistRenewal \/ \E h \in Handler : PersistRequested(h)
      PROVE  Renews(attempt[a].order, a)'
  <2>1. CASE UNCHANGED attempt
    BY <2>1, <1>2
  <2>2. ASSUME NEW b \in Attempt, NEW o \in Order, PersistedFor(b, o), a # b
        PROVE  Renews(attempt[a].order, a)'
    BY <2>2, <1>1, <1>2 DEF PersistedFor
  <2>3. ASSUME NEW o \in Order, PersistedFor(a, o)
        PROVE  Renews(attempt[a].order, a)'
    <3>1. attempt'[a].order = o
      BY <2>3, <1>1 DEF PersistedFor
    <3>2. HadPeriod(a) /\ PaidBefore(a, NoOrder) /\ a[1] \in Sub
      BY <2>3, AttemptIsPair DEF PersistedFor
    <3>3. order[o].status = "none" /\ gateway[o] = "open"
      BY <2>3 DEF PersistedFor, CreateOrder, OrderInv
    <3>4. UNCHANGED <<sub, gateway>>
      BY <2>3 DEF PersistedFor
    <3>5. order'[o].status = "CREATED" /\ order'[o].sub = a[1]
          /\ \A p \in Order \ {o} : order'[p] = order[p]
      BY <2>3, <1>1 DEF PersistedFor, CreateOrder
    <3>6. OrdersPaid(a[1])' \ {o} = OrdersPaid(a[1]) \ {NoOrder}
      BY <3>3, <3>4, <3>5, Numbers DEF OrdersPaid
    <3>7. PaidBefore(a, o)'
      BY <3>2, <3>4, <3>6 DEF PaidBefore, FreeYears
    <3>8. Renews(o, a)'
      BY <3>2, <3>4, <3>5, <3>7 DEF Renews, HadPeriod
    <3> QED
      BY <3>1, <3>8 DEF Renews, HadPeriod, PaidBefore
  <2> QED
    BY <1>6, WhoPersists, <2>1, <2>2, <2>3
<1> QED
  BY AttemptEffects, <1>2, <1>4, <1>5, <1>6
-----------------------------------------------------------------------------
(* What a handler looks up holds when it commits.                           *)
LEMMA LookUpFinds ==
    ASSUME AttemptInv, NEW o \in Order
    PROVE  AttemptOf(o) # NoAttempt => Renews(o, AttemptOf(o))
<1> DEFINE found == {a \in Attempt : attempt[a].order = o}
<1>1. ASSUME AttemptOf(o) # NoAttempt PROVE AttemptOf(o) \in found
  BY <1>1 DEF AttemptOf
<1> QED
  BY <1>1, Numbers DEF AttemptInv

LEMMA HandlerOKKept ==
    ASSUME BillingTypeOK, BillingTypeOK', OrderInv, HandlerInv, SubKept, OrderKept,
           NEW h \in Handler, UNCHANGED handler[h]
    PROVE  HandlerOK(h)'
<1>1. ASSUME handler[h].pc \in {"reread", "commit"}
      PROVE  /\ handler[h].order \in Order
             /\ order'[handler[h].order].status # "none"
             /\ handler[h].kind # "failed" => gateway'[handler[h].order] # "open"
             /\ handler[h].attempt # NoAttempt =>
                   Renews(handler[h].order, handler[h].attempt)'
             /\ handler[h].pc = "reread" => handler[h].attempt # NoAttempt
  <2>1. Prepared(h)
    BY <1>1, HandlerPrepared
  <2>2. ASSUME handler[h].attempt # NoAttempt
        PROVE  Renews(handler[h].order, handler[h].attempt)'
    <3>1. PICK o \in Order, a \in Attempt : o = handler[h].order /\ a = handler[h].attempt
      BY <2>1, <2>2 DEF Prepared
    <3>2. Renews(o, a)'
      BY <2>1, <2>2, <3>1, RenewsKept DEF Prepared
    <3> QED
      BY <3>1, <3>2 DEF Renews, HadPeriod, PaidBefore
  <2> QED
    BY <2>1, <2>2 DEF Prepared, OrderKept, Renews, HadPeriod, PaidBefore
<1>2. ASSUME handler[h].pc \in Renewing
      PROVE  HadPeriod(handler[h].attempt)' /\ PaidBefore(handler[h].attempt, NoOrder)'
  <2>1. PICK a \in Attempt :
            a = handler[h].attempt /\ HadPeriod(a) /\ PaidBefore(a, NoOrder)
    BY <1>2 DEF HandlerInv, HandlerOK, HadPeriod
  <2>2. HadPeriod(a)' /\ PaidBefore(a, NoOrder)'
    BY <2>1, HadPeriodKept, PaidBeforeKept
  <2> QED
    BY <2>1, <2>2 DEF HadPeriod, PaidBefore
<1> QED
  BY <1>1, <1>2 DEF HandlerOK, Renews, HadPeriod, PaidBefore

(* A subscription with an attempt has a period, and what it says of it has  *)
(* been paid.                                                               *)
LEMMA WindowIsPaid ==
    ASSUME BillingTypeOK, PeriodsArePaid, NEW s \in Sub, sub[s].endsAt # NoTime
    PROVE  HadPeriod(Window(s)) /\ PaidBefore(Window(s), NoOrder) /\ Window(s)[1] = s
<1>1. sub[s].endsAt \in Time
  BY Types DEF SubRow
<1>2. Window(s) \in Attempt /\ Window(s)[1] = s /\ Window(s)[2] = sub[s].endsAt
  BY <1>1 DEF Attempt, Window
<1>3. OrdersPaid(s) \ {NoOrder} = OrdersPaid(s)
  BY Numbers DEF OrdersPaid
<1>4. sub[s].endsAt - sub[s].startsAt
        <= Period * (Cardinality(OrdersPaid(s)) + FreeYears(s))
  BY DEF PeriodsArePaid, FreeYears
<1> QED
  BY <1>2, <1>3, <1>4 DEF HadPeriod, PaidBefore

LEMMA HandlerStep ==
    ASSUME BillingTypeOK, BillingTypeOK', OrderInv, AttemptInv, HandlerInv, PeriodsArePaid,
           SubKept, OrderKept, [Next]_vars
    PROVE  HandlerInv'
<1> SUFFICES ASSUME NEW h \in Handler PROVE HandlerOK(h)'
  BY DEF HandlerInv
<1>1. handler \in [Handler -> HandlerLocals] /\ inbox \subseteq Kind \X Order
  BY Types
<1>2. CASE handler'[h] = handler[h]
  BY <1>2, HandlerOKKept
<1>3. CASE handler'[h] = IdleHandler
  BY <1>3 DEF HandlerOK, IdleHandler, Renewing, Persisting
<1>4. ASSUME NEW kind \in Kind, NEW o \in Order, <<kind, o>> \in inbox, LookUp(h, kind, o)
      PROVE  HandlerOK(h)'
  <2>1. /\ order'[o].status # "none"
        /\ kind # "failed" => gateway'[o] # "open"
    BY <1>4 DEF OrderInv, OrderKept
  <2>2. PICK a : a = AttemptOf(o)
    OBVIOUS
  <2>3. a # NoAttempt => Renews(o, a)'
    BY <2>2, LookUpFinds, RenewsKept
  <2>4. \/ handler'[h] = IdleHandler
        \/ /\ handler'[h].kind = kind /\ handler'[h].order = o
           /\ handler'[h].attempt = a
           /\ handler'[h].pc = "reread" => a # NoAttempt
           /\ handler'[h].pc \in {"reread", "commit"}
    BY <1>1, <1>4, <2>2 DEF LookUp
  <2>5. CASE /\ handler'[h].kind = kind /\ handler'[h].order = o /\ handler'[h].attempt = a
             /\ handler'[h].pc = "reread" => a # NoAttempt
             /\ handler'[h].pc \in {"reread", "commit"}
    BY <2>1, <2>3, <2>5
       DEF HandlerOK, Renews, HadPeriod, PaidBefore, Renewing, Persisting
  <2> QED
    BY <1>3, <2>4, <2>5
<1>5. ASSUME NEW g \in Handler, HandlerNext(g), g # h PROVE handler'[h] = handler[h]
  BY <1>1, <1>5 DEF HandlerNext, ReceiveCallback, ReceiveWebhook, LookUp, ReadAttempt,
     CaptureRenewal, CaptureByCallback, CaptureByWebhook, RecordFailure, ApplyRefund,
     Commits, HandlerThrows, RequestRenewal, ReadRequestedWindow, PersistRequested
<1>6. ASSUME HandlerNext(h) PROVE HandlerOK(h)'
  <2>1. CASE ReceiveCallback(h)
    BY <1>4, <2>1 DEF ReceiveCallback, Kind
  <2>2. CASE ReceiveWebhook(h)
    <3>1. PICK e \in inbox : LookUp(h, e[1], e[2])
      BY <2>2 DEF ReceiveWebhook
    <3>2. e = <<e[1], e[2]>> /\ e[1] \in Kind /\ e[2] \in Order
      BY <1>1, <3>1
    <3> QED
      BY <1>4, <3>1, <3>2
  <2>3. CASE ReadAttempt(h)
    <3>1. handler[h].pc = "reread"
      BY <2>3 DEF ReadAttempt
    <3>2. Prepared(h)
      BY <3>1, HandlerPrepared
    <3>3. /\ handler'[h].order = handler[h].order /\ handler'[h].kind = handler[h].kind
          /\ handler'[h].attempt = handler[h].attempt /\ handler'[h].pc = "commit"
      BY <1>1, <2>3 DEF ReadAttempt, HandlerLocals
    <3>4. /\ order'[handler[h].order].status # "none"
          /\ handler[h].kind # "failed" => gateway'[handler[h].order] # "open"
      BY <3>2 DEF Prepared, OrderKept
    <3>5. ASSUME handler[h].attempt # NoAttempt
          PROVE  Renews(handler[h].order, handler[h].attempt)'
      <4>1. PICK o \in Order, a \in Attempt : o = handler[h].order /\ a = handler[h].attempt
        BY <3>2, <3>5 DEF Prepared
      <4>2. Renews(o, a)'
        BY <3>2, <3>5, <4>1, RenewsKept DEF Prepared
      <4> QED
        BY <3>3, <4>1, <4>2 DEF Renews, HadPeriod, PaidBefore
    <3> QED
      BY <3>2, <3>3, <3>4, <3>5
         DEF HandlerOK, Prepared, Renews, HadPeriod, PaidBefore, Renewing, Persisting
  <2>4. ASSUME \/ CaptureRenewal(h) \/ CaptureByCallback(h) \/ CaptureByWebhook(h)
               \/ RecordFailure(h) \/ ApplyRefund(h) \/ HandlerThrows(h)
               \/ PersistRequested(h)
        PROVE  handler'[h] = IdleHandler
    BY <1>1, <2>4 DEF CaptureRenewal, CaptureByCallback, CaptureByWebhook, RecordFailure,
       ApplyRefund, Commits, HandlerThrows, PersistRequested
  <2>5. ASSUME NEW a, HadPeriod(a)', PaidBefore(a, NoOrder)', handler'[h].attempt = a,
               handler'[h].pc \in Renewing
        PROVE  HandlerOK(h)'
    BY <2>5 DEF HandlerOK, HadPeriod, PaidBefore, Renewing, Persisting
  <2>6. ASSUME NEW s \in Sub, RequestRenewal(h, s) PROVE HandlerOK(h)'
    <3>1. PICK b \in Attempt : b[1] = s /\ attempt[b].order # NoOrder
      BY <2>6 DEF RequestRenewal
    <3>2. sub[s].endsAt # NoTime
      BY <3>1 DEF AttemptInv, Renews, HadPeriod
    <3>3. PICK a : a = Window(s)
      OBVIOUS
    <3>4. HadPeriod(a)' /\ PaidBefore(a, NoOrder)'
      BY <3>2, <3>3, WindowIsPaid, HadPeriodKept, PaidBeforeKept DEF HadPeriod
    <3>5. handler'[h].attempt = a /\ handler'[h].pc = "window"
      BY <1>1, <2>6, <3>3 DEF RequestRenewal, IdleHandler
    <3> QED
      BY <2>5, <3>4, <3>5 DEF Renewing
  <2>7. CASE ReadRequestedWindow(h)
    <3>1. PICK a : a = handler[h].attempt
      OBVIOUS
    <3>2. HadPeriod(a) /\ PaidBefore(a, NoOrder)
      BY <2>7, <3>1 DEF ReadRequestedWindow, HandlerInv, HandlerOK, Renewing
    <3>3. HadPeriod(a)' /\ PaidBefore(a, NoOrder)'
      BY <3>2, HadPeriodKept, PaidBeforeKept DEF HadPeriod
    <3>4. \/ handler'[h] = IdleHandler
          \/ handler'[h].attempt = a /\ handler'[h].pc = HowToPersist(a)
      BY <1>1, <2>7, <3>1 DEF ReadRequestedWindow, HandlerLocals
    <3> QED
      BY <1>3, <2>5, <3>3, <3>4 DEF HowToPersist, Renewing, Persisting
  <2> QED
    BY <1>3, <1>6, <2>1, <2>2, <2>3, <2>4, <2>6, <2>7 DEF HandlerNext
<1>7. ASSUME Crash PROVE handler'[h] = IdleHandler
  BY <1>7 DEF Crash
<1> QED
  BY HandlerEffects, <1>2, <1>3, <1>5, <1>6, <1>7
-----------------------------------------------------------------------------
(* Only the second pass of the tick expires, and only its candidate.        *)
LEMMA WhoExpires ==
    ASSUME BillingTypeOK, NEW s \in Sub, [Next]_vars,
           sub'[s].status = "EXPIRED", sub[s].status # "EXPIRED"
    PROVE  ExpireRenewalAttempt /\ s = worker.cur[1] /\ AttemptBecomes(worker.cur, "FAILED")
<1>1. sub \in [Sub -> SubRow]
  BY Types
<1>2. ASSUME NEW r, NEW st, SubBecomes(r, st), st # "EXPIRED" PROVE FALSE
  BY <1>1, <1>2 DEF SubBecomes, SubRow
<1>3. ASSUME NEW r, NEW x, NEW y, Activate(r, x, y) PROVE FALSE
  BY <1>1, <1>3 DEF Activate, SubRow
<1>4. ASSUME NEW r \in Sub, StartCheckout(r) \/ StartFreeCheckout(r) \/ CancelSubscription(r)
      PROVE  FALSE
  <2>1. CASE StartFreeCheckout(r)
    BY <1>1, <2>1 DEF StartFreeCheckout
  <2>2. ASSUME StartCheckout(r) \/ CancelSubscription(r) PROVE FALSE
    <3>1. SubBecomes(r, "PENDING") \/ SubBecomes(r, "CANCELLED")
      BY <2>2 DEF StartCheckout, CancelSubscription
    <3> QED
      BY <3>1, <1>2
  <2> QED
    BY <1>4, <2>1, <2>2
<1>5. ASSUME NEW h \in Handler,
             \/ CaptureRenewal(h) \/ CaptureByCallback(h) \/ CaptureByWebhook(h)
             \/ RecordFailure(h) \/ ApplyRefund(h)
      PROVE  FALSE
  <2>1. \/ UNCHANGED sub
        \/ \E r, x, y : Activate(r, x, y)
        \/ \E r : SubBecomes(r, "PAYMENT_FAILED") \/ SubBecomes(r, "CANCELLED")
    BY <1>5 DEF CaptureRenewal, CaptureByCallback, CaptureByWebhook, RecordFailure,
       ApplyRefund
  <2> QED
    BY <2>1, <1>2, <1>3
<1>6. ExpireRenewalAttempt
  BY SubEffects, <1>4, <1>5
<1>7. SubBecomes(worker.cur[1], "EXPIRED") /\ AttemptBecomes(worker.cur, "FAILED")
  BY <1>6 DEF ExpireRenewalAttempt
<1> QED
  BY <1>1, <1>6, <1>7 DEF SubBecomes, SubRow

(* Apart from its scans and the read of a subscription, the tick only drops *)
(* candidates.                                                              *)
TickGoesOn ==
    /\ InTick' \subseteq InTick
    /\ worker'.pc \in {"checkout", "mark", "expire"} \cup Renewing
            <=> worker'.cur # NoAttempt
    /\ worker'.pc \in Renewing => worker.pc \in Renewing /\ worker'.cur = worker.cur
    /\ \/ worker.pc \in Pass1 /\ worker'.pc \in Pass1
       \/ worker.pc \in Pass2 /\ worker'.pc \in Pass2

LEMMA WorkerMoves ==
    ASSUME BillingTypeOK, WorkerInv, [Next]_vars
    PROVE  \/ UNCHANGED worker \/ worker' = IdleWorker
           \/ Scan \/ ScanLapsed \/ TickGoesOn
           \/ /\ ReadSubscription
              /\ worker' = [worker EXCEPT !.pc = "window", !.cur = Window(worker.cur[1])]
<1>1. worker \in WorkerLocals /\ worker.todo \subseteq Attempt
  BY Types DEF WorkerLocals
<1>2. \A a \in Attempt : a # NoAttempt
  BY AttemptIsPair
<1>3. ASSUME NextCandidate, worker.pc \in Pass1 PROVE TickGoesOn
  BY <1>1, <1>3 DEF NextCandidate, WorkerLocals, TickGoesOn, InTick, Pass1, Pass2, Renewing,
     Persisting
<1>4. CASE DecideRenewalAction
  <2>1. PICK a \in worker.todo :
          worker' = [pc |-> IF attempt[a].status \in InFlight THEN "pass1" ELSE "checkout",
                     todo |-> worker.todo \ {a},
                     cur |-> IF attempt[a].status \in InFlight THEN NoAttempt ELSE a]
    BY <1>4 DEF DecideRenewalAction
  <2>2. worker.pc = "pass1" /\ a # NoAttempt
    BY <1>1, <1>2, <1>4, <2>1 DEF DecideRenewalAction, WorkerAt
  <2>3. CASE attempt[a].status \in InFlight
    BY <2>1, <2>2, <2>3 DEF TickGoesOn, InTick, Pass1, Renewing, Persisting
  <2>4. CASE attempt[a].status \notin InFlight
    BY <2>1, <2>2, <2>4 DEF TickGoesOn, InTick, Pass1, Renewing, Persisting
  <2> QED
    BY <2>3, <2>4
<1>5. CASE ReadLapsed
  <2>1. PICK a \in worker.todo :
          worker' = [pc |-> IF attempt[a].status = "PAID" THEN "pass2" ELSE "expire",
                     todo |-> worker.todo \ {a},
                     cur |-> IF attempt[a].status = "PAID" THEN NoAttempt ELSE a]
    BY <1>5 DEF ReadLapsed
  <2>2. worker.pc = "pass2" /\ a # NoAttempt
    BY <1>1, <1>2, <1>5, <2>1 DEF ReadLapsed, WorkerAt
  <2>3. CASE attempt[a].status = "PAID"
    BY <2>1, <2>2, <2>3 DEF TickGoesOn, InTick, Pass2, Renewing, Persisting
  <2>4. CASE attempt[a].status # "PAID"
    BY <2>1, <2>2, <2>4 DEF TickGoesOn, InTick, Pass2, Renewing, Persisting
  <2> QED
    BY <2>3, <2>4
<1>6. CASE ReadSubscription
  <2>1. worker.pc = "checkout"
    BY <1>6 DEF ReadSubscription, WorkerAt
  <2>2. \/ NextCandidate
        \/ worker' = [worker EXCEPT !.pc = "window", !.cur = Window(worker.cur[1])]
    BY <1>6 DEF ReadSubscription
  <2> QED
    BY <1>3, <1>6, <2>1, <2>2 DEF Pass1
<1>11. CASE ReadWindow
  <2>1. worker.pc = "window" /\ worker.cur # NoAttempt
    BY <1>11 DEF ReadWindow, WorkerAt, WorkerInv, Renewing
  <2>2. NextCandidate \/ WorkerGoes(HowToPersist(worker.cur))
    BY <1>11 DEF ReadWindow
  <2>3. CASE WorkerGoes(HowToPersist(worker.cur))
    <3>1. /\ worker'.pc \in Persisting
          /\ worker'.cur = worker.cur /\ worker'.todo = worker.todo
      BY <1>1, <2>3 DEF WorkerGoes, HowToPersist, Persisting, WorkerLocals
    <3> QED
      BY <2>1, <3>1 DEF TickGoesOn, InTick, Pass1, Renewing
  <2> QED
    BY <1>3, <2>1, <2>2, <2>3 DEF Pass1, Renewing
<1>7. CASE RenewalFails \/ MarkRenewalEmailSent \/ EmailFails
  <2>1. NextCandidate /\ worker.pc \in Pass1
    BY <1>7 DEF RenewalFails, MarkRenewalEmailSent, EmailFails, WorkerAt, Pass1
  <2> QED
    BY <1>3, <2>1
<1>8. CASE PersistRenewal
  <2>1. worker.pc \in Renewing /\ worker.cur # NoAttempt
    BY <1>8 DEF PersistRenewal, WorkerInv, Renewing
  <2>2. worker'.pc = "mark" /\ worker'.cur = worker.cur /\ worker'.todo = worker.todo
    BY <1>1, <1>8 DEF PersistRenewal, WorkerGoes, WorkerLocals
  <2> QED
    BY <2>1, <2>2 DEF TickGoesOn, InTick, Pass1, Renewing, Persisting
<1>9. CASE ExpireRenewalAttempt
  <2>1. worker.pc = "expire"
    BY <1>9 DEF ExpireRenewalAttempt, WorkerAt
  <2>2. worker'.pc = "pass2" /\ worker'.cur = NoAttempt /\ worker'.todo = worker.todo
    BY <1>1, <1>9 DEF ExpireRenewalAttempt, WorkerLocals
  <2> QED
    BY <2>1, <2>2 DEF TickGoesOn, InTick, Pass2, Renewing, Persisting
<1>10. CASE EndTick \/ TickThrows \/ Crash
  BY <1>10 DEF EndTick, TickThrows, Crash
<1> QED
  BY WorkerEffects, <1>4, <1>5, <1>6, <1>7, <1>8, <1>9, <1>10, <1>11 DEF WorkerNext

LEMMA WorkerStep ==
    ASSUME BillingTypeOK, BillingTypeOK', SubInv, OrderInv, WorkerInv, PeriodsArePaid,
           SubKept, OrderKept, [Next]_vars
    PROVE  WorkerInv'
<1>1. worker \in WorkerLocals /\ worker.todo \subseteq Attempt
      /\ sub \in [Sub -> SubRow]
  BY Types DEF WorkerLocals
<1>2. now \in Nat /\ now' \in Nat /\ now <= now' /\ Grace \in Nat
  BY ClockIsKept, Numbers
<1>3. \A a \in InTick : HadPeriod(a) /\ HadPeriod(a)' /\ a \in Attempt /\ a[1] \in Sub
                        /\ a[2] \in Nat
  BY HadPeriodKept, AttemptIsPair, Numbers DEF WorkerInv, HadPeriod
<1>4. ASSUME worker.pc # "expire", NEW s \in Sub, sub[s].status # "EXPIRED"
      PROVE  sub'[s].status # "EXPIRED"
  BY <1>4, WhoExpires DEF ExpireRenewalAttempt, WorkerAt
<1>5. ASSUME NEW s \in Sub, sub[s].status = "ACTIVE"
      PROVE  sub[s].endsAt \in Time /\ sub[s].endsAt # NoTime
  <2>1. sub[s].endsAt # NoTime
    BY <1>5 DEF BillingTypeOK
  <2> QED
    BY <1>1, <2>1 DEF SubRow
<1>6. CASE UNCHANGED worker
  <2>1. InTick' = InTick
    BY <1>6 DEF InTick
  <2>2. \A a \in InTick' : HadPeriod(a)'
    BY <1>3, <2>1
  <2>3. worker'.pc \in Pass1 => \A a \in InTick' : sub'[a[1]].status # "EXPIRED"
    BY <1>3, <1>4, <1>6, <2>1 DEF WorkerInv, Pass1, Renewing, Persisting
  <2>4. worker'.pc \in Pass2 => \A a \in InTick' : a[2] + Grace < now'
    BY <1>2, <1>3, <1>6, <2>1 DEF WorkerInv, Pass2
  <2>5. ASSUME worker'.pc \in Renewing PROVE PaidBefore(worker.cur, NoOrder)'
    <3>1. PICK a \in Attempt : a = worker.cur /\ PaidBefore(a, NoOrder)
      BY <1>6, <1>3, <2>5 DEF WorkerInv, InTick
    <3>2. PaidBefore(a, NoOrder)'
      BY <3>1, PaidBeforeKept
    <3> QED
      BY <1>6, <3>1, <3>2 DEF PaidBefore
  <2> QED
    BY <1>6, <2>2, <2>3, <2>4, <2>5 DEF WorkerInv, Pass1, Pass2
<1>7. CASE worker' = IdleWorker
  BY <1>7 DEF WorkerInv, InTick, IdleWorker, Pass1, Pass2, Renewing, Persisting
<1>8. CASE Scan
  <2>1. /\ worker'.pc = "pass1" /\ worker'.cur = NoAttempt
        /\ worker'.todo = {<<s, sub[s].endsAt>> : s \in
              {r \in Sub : sub[r].status = "ACTIVE" /\ sub[r].endsAt < now + Lookahead}}
        /\ UNCHANGED sub
    BY <1>8 DEF Scan, IdleWorker, rows
  <2>2. \A a \in InTick' : HadPeriod(a)' /\ sub'[a[1]].status # "EXPIRED"
    BY <2>1, <1>5 DEF InTick, HadPeriod, Attempt
  <2> QED
    BY <2>1, <2>2 DEF WorkerInv, Pass1, Pass2, Renewing, Persisting
<1>9. CASE ScanLapsed
  <2>1. /\ worker'.pc = "pass2" /\ worker'.cur = worker.cur /\ worker.cur = NoAttempt
        /\ worker'.todo = {a \in Attempt : /\ MayLapse(a) /\ GraceIsOver(a)
                                           /\ sub[a[1]].status = "ACTIVE"}
        /\ UNCHANGED <<sub, now>> /\ worker.pc = "pass1"
    BY <1>1, <1>9 DEF ScanLapsed, WorkerAt, WorkerLocals, WorkerInv, rows, Renewing,
       Persisting
  <2>2. ASSUME NEW a \in InTick' PROVE HadPeriod(a)' /\ a[2] + Grace < now'
    <3>1. a \in Attempt /\ GraceIsOver(a) /\ sub[a[1]].status = "ACTIVE"
      BY <2>1, <2>2 DEF InTick
    <3>2. a[1] \in Sub /\ a[2] \in Nat
      BY <3>1, AttemptIsPair, Numbers
    <3> QED
      BY <1>2, <1>5, <2>1, <3>1, <3>2 DEF HadPeriod, GraceIsOver
  <2> QED
    BY <2>1, <2>2 DEF WorkerInv, Pass1, Pass2, Renewing, Persisting
<1>10. CASE TickGoesOn
  <2>1. \A a \in InTick' : HadPeriod(a)'
    BY <1>3, <1>10 DEF TickGoesOn
  <2>2. worker'.pc \in Pass1 => \A a \in InTick' : sub'[a[1]].status # "EXPIRED"
    BY <1>3, <1>4, <1>10 DEF WorkerInv, TickGoesOn, Pass1, Pass2, Renewing, Persisting
  <2>3. worker'.pc \in Pass2 => \A a \in InTick' : a[2] + Grace < now'
    BY <1>2, <1>3, <1>10 DEF WorkerInv, TickGoesOn, Pass1, Pass2, Renewing, Persisting
  <2>4. ASSUME worker'.pc \in Renewing PROVE PaidBefore(worker.cur, NoOrder)'
    <3>1. PICK a \in Attempt : a = worker.cur /\ PaidBefore(a, NoOrder)
      BY <1>3, <1>10, <2>4 DEF WorkerInv, InTick, TickGoesOn
    <3>2. PaidBefore(a, NoOrder)'
      BY <3>1, PaidBeforeKept
    <3> QED
      BY <1>10, <2>4, <3>1, <3>2 DEF PaidBefore, TickGoesOn
  <2> QED
    BY <1>10, <2>1, <2>2, <2>3, <2>4 DEF WorkerInv, TickGoesOn, Pass1, Pass2, PaidBefore
<1>11. CASE /\ ReadSubscription
            /\ worker' = [worker EXCEPT !.pc = "window", !.cur = Window(worker.cur[1])]
  <2>1. worker.pc = "checkout" /\ worker.cur \in InTick
        /\ UNCHANGED <<sub, order, gateway>>
    BY <1>11 DEF ReadSubscription, WorkerAt, WorkerInv, InTick, rows, outside
  <2>2. PICK s \in Sub :
            s = worker.cur[1] /\ sub[s].endsAt # NoTime /\ sub[s].status # "EXPIRED"
    BY <1>3, <2>1 DEF HadPeriod, WorkerInv, Pass1
  <2>3. PICK a \in Attempt :
            /\ a = Window(s) /\ a[1] = s /\ a # NoAttempt
            /\ HadPeriod(a) /\ PaidBefore(a, NoOrder)
    BY <2>2, WindowIsPaid, AttemptIsPair DEF HadPeriod
  <2>4. worker'.pc = "window" /\ worker'.cur = a /\ worker'.todo = worker.todo
    BY <1>1, <1>11, <2>2, <2>3 DEF WorkerLocals
  <2>5. HadPeriod(a)' /\ sub'[a[1]].status # "EXPIRED" /\ PaidBefore(a, NoOrder)'
    BY <2>1, <2>2, <2>3, HadPeriodKept, PaidBeforeKept
  <2>6. \A b \in InTick' : b = a \/ b \in InTick
    BY <2>4 DEF InTick
  <2>7. \A b \in InTick' : HadPeriod(b)' /\ sub'[b[1]].status # "EXPIRED"
    BY <1>3, <2>1, <2>5, <2>6 DEF WorkerInv, Pass1
  <2> QED
    BY <2>3, <2>4, <2>5, <2>7
       DEF WorkerInv, PaidBefore, Pass1, Pass2, Renewing, Persisting
<1> QED
  BY WorkerMoves, <1>6, <1>7, <1>8, <1>9, <1>10, <1>11
-----------------------------------------------------------------------------
(* Every year that is granted was paid: a renewal adds its year to a period *)
(* that other orders had paid for.                                          *)
Paid(s) == Period * (Cardinality(OrdersPaid(s)) + FreeYears(s))

LEMMA PaidIsMore ==
    ASSUME BillingTypeOK, OrderInv, SubKept, OrderKept, NEW s \in Sub
    PROVE  Paid(s) \in Nat /\ Paid(s)' \in Nat /\ Paid(s) <= Paid(s)'
<1>1. OrdersPaid(s) \ {NoOrder} = OrdersPaid(s) /\ OrdersPaid(s)' \ {NoOrder} = OrdersPaid(s)'
  BY Numbers DEF OrdersPaid
<1>2. /\ Cardinality(OrdersPaid(s)) \in Nat /\ Cardinality(OrdersPaid(s)') \in Nat
      /\ FreeYears(s) \in {0, 1} /\ FreeYears(s)' \in {0, 1}
      /\ Period * (Cardinality(OrdersPaid(s)) + FreeYears(s))
            <= Period * (Cardinality(OrdersPaid(s)') + FreeYears(s)')
  BY <1>1, YearsGrow
<1>3. Paid(s) \in Nat /\ Paid(s)' \in Nat
  BY <1>2, Numbers DEF Paid
<1> QED
  BY <1>2, <1>3 DEF Paid

LEMMA OneYearMore ==
    ASSUME NEW s \in Sub, NEW o \in OrdersPaid(s)
    PROVE  /\ Period * (Cardinality(OrdersPaid(s) \ {o}) + FreeYears(s)) \in Nat
           /\ Paid(s) = Period * (Cardinality(OrdersPaid(s) \ {o}) + FreeYears(s)) + Period
<1> DEFINE n == Cardinality(OrdersPaid(s) \ {o})
<1>1. Cardinality(OrdersPaid(s)) = n + 1
  BY OneOrderMore DEF OrdersPaid
<1>2. n \in Nat
  BY OrdersFinite DEF OrdersPaid
<1>3. FreeYears(s) \in {0, 1}
  BY DEF FreeYears
<1> HIDE DEF n
<1>4. n + FreeYears(s) \in Nat /\ n + 1 + FreeYears(s) = (n + FreeYears(s)) + 1
  BY <1>2, <1>3
<1>5. /\ Period * (n + FreeYears(s)) \in Nat
      /\ Period * ((n + FreeYears(s)) + 1) = Period * (n + FreeYears(s)) + Period
  BY <1>4, MoreYears
<1> QED
  BY <1>1, <1>4, <1>5 DEF Paid, n

LEMMA PaidStep ==
    ASSUME BillingTypeOK, SubInv, OrderInv, HandlerInv, PeriodsArePaid, SubKept, OrderKept,
           [Next]_vars
    PROVE  PeriodsArePaid'
<1> SUFFICES ASSUME NEW s \in Sub, sub'[s].endsAt # NoTime
             PROVE  sub'[s].endsAt - sub'[s].startsAt <= Paid(s)'
  BY DEF PeriodsArePaid, Paid, FreeYears
<1>1. Paid(s) \in Nat /\ Paid(s)' \in Nat /\ Paid(s) <= Paid(s)'
  BY PaidIsMore
<1>2. /\ now \in Nat /\ sub[s].startsAt \in Int /\ sub[s].endsAt \in Int
      /\ Period \in Nat
  BY ClockIsKept, Types, SubTimes, Numbers
<1>3. CASE SameYear(s)
  <2>1. sub[s].endsAt - sub[s].startsAt <= Paid(s)
    BY <1>3 DEF SameYear, PeriodsArePaid, Paid, FreeYears
  <2> QED
    BY <2>1, <1>1, <1>2, <1>3 DEF SameYear
<1>4. CASE FreeYear(s)
  <2> DEFINE n == Cardinality(OrdersPaid(s)')
  <2>1. n \in Nat
    BY OrdersFinite DEF OrdersPaid
  <2>2. Paid(s)' = Period * (n + 1)
    BY <1>4 DEF Paid, FreeYears, FreeYear
  <2> HIDE DEF n
  <2>3. Period * (n + 1) = Period * n + Period /\ Period * n \in Nat
    BY <2>1, MoreYears
  <2> QED
    BY <2>2, <2>3, <1>2, <1>4 DEF FreeYear
<1>5. ASSUME NEW h \in Handler, RenewedYear(s, h)
      PROVE  sub'[s].endsAt - sub'[s].startsAt <= Paid(s)'
  <2>1. PICK o \in Order, a \in Attempt : o = handler[h].order /\ a = handler[h].attempt
    BY <1>5 DEF RenewedYear, Renews
  <2>2. o \in OrdersPaid(s) /\ a[1] = s /\ a[2] \in Nat /\ PaidBefore(a, o)
    BY <1>5, <2>1, AttemptIsPair, Numbers DEF RenewedYear, Renews, OrdersPaid
  <2> DEFINE y == Period * (Cardinality(OrdersPaid(s) \ {o}) + FreeYears(s))
  <2>3. y \in Nat /\ Paid(s) = y + Period
    BY <2>2, OneYearMore
  <2>4. a[2] - sub[s].startsAt <= y
    BY <2>2 DEF PaidBefore
  <2>5. sub'[s].startsAt = sub[s].startsAt /\ sub'[s].endsAt = a[2] + Period
    BY <1>5, <2>1 DEF RenewedYear
  <2> HIDE DEF y
  <2> QED
    BY <1>1, <1>2, <2>2, <2>3, <2>4, <2>5
<1>6. ASSUME NEW h \in Handler, FirstYear(s, h)
      PROVE  sub'[s].endsAt - sub'[s].startsAt <= Paid(s)'
  <2>1. PICK o \in OrdersPaid(s) : TRUE
    BY <1>6 DEF FirstYear, OrdersPaid
  <2> DEFINE y == Period * (Cardinality(OrdersPaid(s) \ {o}) + FreeYears(s))
  <2>2. y \in Nat /\ Paid(s) = y + Period
    BY <2>1, OneYearMore
  <2> HIDE DEF y
  <2> QED
    BY <1>1, <1>2, <1>6, <2>2 DEF FirstYear
<1> QED
  BY SubChange, <1>3, <1>4, <1>5, <1>6 DEF SubMoves

(* A period ends within the years its orders and its coupon can pay for.    *)
LEMMA EndsInTime ==
    ASSUME NEW P, P \subseteq Order, NEW f \in {0, 1},
           NEW x \in 0..MaxNow, NEW y \in Nat, y - x <= Period * (Cardinality(P) + f)
    PROVE  y \in Time
<1> DEFINE n == Cardinality(P) + f
<1>1. n \in Nat /\ MaxOrders + 1 \in Nat /\ n <= MaxOrders + 1
  <2>1. Cardinality(P) \in Nat /\ Cardinality(P) <= MaxOrders
    BY OrdersFinite
  <2> QED
    BY <2>1, Numbers
<1>2. y - x <= Period * n
  OBVIOUS
<1> HIDE DEF n
<1>3. Period * n \in Nat /\ Period * n <= Period * (MaxOrders + 1)
  BY <1>1, MoreYears
<1>4. y <= MaxNow + Period * (MaxOrders + 1)
  BY <1>2, <1>3, Numbers
<1> QED
  BY <1>4, Numbers DEF Time
-----------------------------------------------------------------------------
(* Whoever makes a subscription ACTIVE gives it a period and an invoice.    *)
Activated(s) ==
    sub'[s].status = "ACTIVE" => invoice'[s].paid > 0 /\ sub'[s].endsAt # NoTime

Invoiced(s) == IssueInvoice(s) \/ (UNCHANGED invoice /\ HasInvoice(s))

LEMMA ActiveStep ==
    ASSUME BillingTypeOK, OrderInv, HandlerInv, ActiveHasInvoice, SubKept, [Next]_vars,
           NEW s \in Sub
    PROVE  Activated(s)
<1>1. /\ sub \in [Sub -> SubRow] /\ sub[s] \in SubRow
      /\ invoice \in [Sub -> [paid : Nat, refunded : Nat]]
      /\ now \in Nat /\ Period \in Nat
  BY Types, ClockIsKept, Numbers DEF BillingTypeOK
<1>2. invoice[s].paid \in Nat /\ NoTime \notin Nat
  BY <1>1, Numbers
<1>3. ASSUME sub[s].status = "ACTIVE" PROVE invoice[s].paid > 0 /\ sub'[s].endsAt # NoTime
  BY <1>3 DEF ActiveHasInvoice, BillingTypeOK, SubKept
<1>4. ASSUME UNCHANGED sub, UNCHANGED invoice PROVE Activated(s)
  BY <1>3, <1>4 DEF Activated
<1>5. ASSUME NEW r, NEW st, SubBecomes(r, st), st # "ACTIVE", UNCHANGED invoice
      PROVE  Activated(s)
  <2>1. sub'[s].status = "ACTIVE" => sub[s].status = "ACTIVE"
    BY <1>1, <1>5 DEF SubBecomes, SubRow
  <2> QED
    BY <2>1, <1>3, <1>5 DEF Activated
<1>6. ASSUME NEW r \in Sub, NEW x, NEW y, Activate(r, x, y), y # NoTime,
             Invoiced(r)
      PROVE  Activated(s)
  <2>1. CASE s = r
    <3>1. sub'[s].endsAt # NoTime
      BY <1>1, <1>6, <2>1 DEF Activate, SubRow
    <3>2. invoice'[s].paid > 0
      BY <1>1, <1>2, <1>6, <2>1 DEF Invoiced, IssueInvoice, HasInvoice
    <3> QED
      BY <3>1, <3>2 DEF Activated
  <2>2. CASE s # r
    <3>1. sub'[s] = sub[s] /\ invoice'[s] = invoice[s]
      BY <1>1, <1>6, <2>2 DEF Activate, Invoiced, IssueInvoice
    <3> QED
      BY <3>1, <1>3 DEF Activated
  <2> QED
    BY <2>1, <2>2
<1>7. ASSUME NEW r \in Sub, StartFreeCheckout(r) PROVE Activated(s)
  <2>1. CASE s = r
    <3>1. sub'[s].endsAt = now + Period /\ invoice'[s].paid = invoice[s].paid + 1
      BY <1>1, <1>7, <2>1 DEF StartFreeCheckout, IssueInvoice
    <3> QED
      BY <3>1, <1>1, <1>2, Numbers DEF Activated
  <2>2. CASE s # r
    <3>1. sub'[s] = sub[s] /\ invoice'[s] = invoice[s]
      BY <1>1, <1>7, <2>2 DEF StartFreeCheckout, IssueInvoice
    <3> QED
      BY <3>1, <1>3 DEF Activated
  <2> QED
    BY <2>1, <2>2
<1>8. ASSUME NEW h \in Handler, handler[h].pc = "commit"
      PROVE  /\ order[handler[h].order].sub \in Sub
             /\ handler[h].attempt # NoAttempt =>
                   handler[h].attempt[1] \in Sub /\ handler[h].attempt[2] \in Nat
  BY <1>8, HandlerPrepared, AttemptIsPair, Numbers DEF Prepared
<1>9. ASSUME NEW h \in Handler, CaptureRenewal(h) PROVE Activated(s)
  <2>1. handler[h].attempt[1] \in Sub /\ handler[h].attempt[2] + Period # NoTime
    BY <1>1, <1>2, <1>8, <1>9, Numbers DEF CaptureRenewal, Commits
  <2>2. \/ UNCHANGED sub /\ UNCHANGED invoice
        \/ \E x : Activate(handler[h].attempt[1], x, handler[h].attempt[2] + Period)
                  /\ Invoiced(handler[h].attempt[1])
    BY <1>9 DEF CaptureRenewal, RenewalEnd, Invoiced
  <2> QED
    BY <2>1, <2>2, <1>4, <1>6
<1>10. ASSUME NEW h \in Handler, CaptureByCallback(h) PROVE Activated(s)
  <2>1. order[handler[h].order].sub \in Sub /\ now + Period # NoTime
    BY <1>1, <1>2, <1>8, <1>10, Numbers DEF CaptureByCallback, Commits
  <2>2. Activate(order[handler[h].order].sub, now, now + Period)
        /\ Invoiced(order[handler[h].order].sub)
    BY <1>10 DEF CaptureByCallback, Invoiced
  <2> QED
    BY <2>1, <2>2, <1>6
<1>11. ASSUME NEW h \in Handler, CaptureByWebhook(h) PROVE Activated(s)
  <2>1. PICK r \in Sub : r = order[handler[h].order].sub
    BY <1>8, <1>11 DEF CaptureByWebhook, Commits
  <2>2. EndOrNew(r) # NoTime
    BY <1>1, Numbers DEF EndOrNew
  <2>3. \/ UNCHANGED sub /\ UNCHANGED invoice
        \/ \E x : /\ Activate(r, x, EndOrNew(r))
                  /\ Invoiced(r)
    <3>1. CASE sub[r].status = "ACTIVE"
      BY <1>11, <2>1, <3>1 DEF CaptureByWebhook
    <3>2. CASE sub[r].status # "ACTIVE"
      BY <1>11, <2>1, <3>2 DEF CaptureByWebhook, Invoiced
    <3> QED
      BY <3>1, <3>2
  <2> QED
    BY <2>1, <2>2, <2>3, <1>4, <1>6
<1>12. ASSUME NEW h \in Handler, RecordFailure(h) PROVE Activated(s)
  <2>1. UNCHANGED invoice /\ (UNCHANGED sub \/ \E r : SubBecomes(r, "PAYMENT_FAILED"))
    BY <1>12 DEF RecordFailure
  <2> QED
    BY <2>1, <1>4, <1>5
<1>13. ASSUME NEW h \in Handler, ApplyRefund(h) PROVE Activated(s)
  <2>1. PICK r \in Sub : r = order[handler[h].order].sub
    BY <1>8, <1>13 DEF ApplyRefund, Commits
  <2>2. /\ sub' = [sub EXCEPT ![r].status = "CANCELLED"]
        /\ \A q \in Sub \ {r} : invoice'[q] = invoice[q]
    BY <1>1, <1>13, <2>1 DEF ApplyRefund, SubBecomes
  <2>3. CASE s = r
    BY <1>1, <2>2, <2>3 DEF Activated, SubRow
  <2>4. CASE s # r
    BY <1>1, <1>3, <2>2, <2>4 DEF Activated
  <2> QED
    BY <2>3, <2>4
<1>14. ASSUME NEW r \in Sub, StartCheckout(r) \/ CancelSubscription(r) PROVE Activated(s)
  <2>1. UNCHANGED invoice /\ (SubBecomes(r, "PENDING") \/ SubBecomes(r, "CANCELLED"))
    BY <1>14 DEF StartCheckout, CancelSubscription
  <2> QED
    BY <2>1, <1>5
<1>15. ASSUME ExpireRenewalAttempt PROVE Activated(s)
  <2>1. UNCHANGED invoice /\ (UNCHANGED sub \/ SubBecomes(worker.cur[1], "EXPIRED"))
    BY <1>15 DEF ExpireRenewalAttempt
  <2> QED
    BY <2>1, <1>4, <1>5
<1> QED
  BY SubEffects, InvoiceEffects, <1>4, <1>7, <1>9, <1>10, <1>11, <1>12, <1>13, <1>14, <1>15

LEMMA LapseStep ==
    ASSUME BillingTypeOK, HandlerInv, OrderInv, WorkerInv, NoEarlyLapse, [Next]_vars
    PROVE  NoEarlyLapse'
<1> SUFFICES ASSUME NEW s \in Sub, sub'[s].status = "EXPIRED"
             PROVE  \E a \in Attempt :
                        a[1] = s /\ a[2] + Grace < now' /\ attempt'[a].status \in Unpaid
  BY DEF NoEarlyLapse
<1>1. /\ now \in Nat /\ now' \in Nat /\ now <= now' /\ Grace \in Nat
      /\ attempt \in [Attempt -> AttemptRow] /\ sub \in [Sub -> SubRow]
  BY ClockIsKept, Numbers, Types
<1>2. CASE sub[s].status # "EXPIRED"
  <2>1. ExpireRenewalAttempt /\ s = worker.cur[1] /\ AttemptBecomes(worker.cur, "FAILED")
    BY <1>2, WhoExpires
  <2>2. worker.pc = "expire" /\ UNCHANGED now
    BY <2>1 DEF ExpireRenewalAttempt, WorkerAt
  <2>3. worker.cur \in Attempt /\ worker.cur[2] + Grace < now
    BY <2>2 DEF WorkerInv, InTick, HadPeriod, Pass2
  <2>4. attempt'[worker.cur].status = "FAILED"
    BY <1>1, <2>1, <2>3 DEF AttemptBecomes, AttemptRow
  <2> QED
    BY <2>1, <2>2, <2>3, <2>4 DEF Unpaid
<1>3. CASE sub[s].status = "EXPIRED"
  <2>1. PICK a \in Attempt : a[1] = s /\ a[2] + Grace < now /\ attempt[a].status \in Unpaid
    BY <1>3 DEF NoEarlyLapse
  <2>2. a[2] \in Nat
    BY AttemptIsPair, Numbers
  <2>3. a[2] + Grace < now'
    BY <1>1, <2>1, <2>2
  <2>4. ASSUME NEW b, \E st : AttemptBecomes(b, st) /\ (b # a \/ st \in Unpaid)
        PROVE  attempt'[a].status \in Unpaid
    BY <1>1, <2>1, <2>4 DEF AttemptBecomes, AttemptRow
  <2>5. ASSUME NEW h \in Handler, CaptureRenewal(h) PROVE attempt'[a].status \in Unpaid
    <3>1. \/ UNCHANGED attempt
          \/ /\ AttemptBecomes(handler[h].attempt, "PAID")
             /\ \E x, y : Activate(handler[h].attempt[1], x, y)
      BY <2>5 DEF CaptureRenewal
    <3>2. ASSUME NEW x, NEW y, Activate(s, x, y) PROVE FALSE
      BY <1>1, <3>2 DEF Activate, SubRow
    <3> QED
      BY <2>1, <2>4, <3>1, <3>2
  <2>6. ASSUME NEW h \in Handler, RecordFailure(h) PROVE attempt'[a].status \in Unpaid
    BY <2>1, <2>4, <2>6 DEF RecordFailure, Unpaid
  <2>7. ASSUME PersistRenewal \/ \E h \in Handler : PersistRequested(h)
        PROVE  attempt'[a].status \in Unpaid
    <3>1. ASSUME NEW b \in Attempt, NEW o \in Order, PersistedFor(b, o)
          PROVE  attempt'[a].status \in Unpaid
      BY <1>1, <2>1, <3>1 DEF PersistedFor, Unpaid
    <3> QED
      BY <2>1, <2>7, <3>1, WhoPersists
  <2>8. ASSUME MarkRenewalEmailSent PROVE attempt'[a].status \in Unpaid
    BY <2>1, <2>4, <2>8 DEF MarkRenewalEmailSent, Unpaid
  <2>9. ASSUME ExpireRenewalAttempt PROVE attempt'[a].status \in Unpaid
    BY <2>1, <2>4, <2>9 DEF ExpireRenewalAttempt, Unpaid
  <2>10. attempt'[a].status \in Unpaid
    BY AttemptEffects, <2>1, <2>5, <2>6, <2>7, <2>8, <2>9
  <2> QED
    BY <2>1, <2>3, <2>10
<1> QED
  BY <1>2, <1>3
-----------------------------------------------------------------------------
(* The types of the rows: a period that ends beyond the clock was paid for. *)
LEMMA SubRows ==
    ASSUME BillingTypeOK, SubInv, SubInv', OrderInv, HandlerInv, PeriodsArePaid', [Next]_vars
    PROVE  sub' \in [Sub -> SubRow]
<1>1. sub \in [Sub -> SubRow] /\ now \in 0..MaxNow
  BY Types
<1>2. /\ \A t \in 0..MaxNow : t \in Time
      /\ Period \in Nat /\ MaxNow \in Nat /\ Time \subseteq Nat
  BY Numbers DEF Time
<1>3. now' \in 0..MaxNow
  BY ClockIsKept, Numbers
<1>4. ASSUME NEW r, NEW st \in {"PENDING", "PAYMENT_FAILED", "CANCELLED", "EXPIRED"},
             SubBecomes(r, st)
      PROVE  sub' \in [Sub -> SubRow]
  <2>1. ASSUME NEW e \in SubRow PROVE [e EXCEPT !.status = st] \in SubRow
    BY <2>1 DEF SubRow
  <2> HIDE DEF SubRow
  <2> QED
    BY <1>1, <1>4, <2>1 DEF SubBecomes
<1>5. ASSUME NEW s \in Sub, NEW x, NEW y \in Nat, Activate(s, x, y),
             x = sub[s].startsAt \/ x = now
      PROVE  sub' \in [Sub -> SubRow]
  <2>1. sub'[s].startsAt = x /\ sub'[s].endsAt = y
    BY <1>1, <1>5 DEF Activate, SubRow
  <2>2. x \in Time \cup {NoTime}
    BY <1>1, <1>2, <1>5 DEF SubRow
  <2>3. x # NoTime /\ x \in Int /\ x <= now'
    BY <1>2, <2>1, <2>2, Numbers DEF SubInv
  <2>4. x \in 0..MaxNow
    BY <1>2, <1>3, <2>2, <2>3
  <2>5. y \in Time
    <3>1. y - x <= Period * (Cardinality(OrdersPaid(s)') + FreeYears(s)')
      BY <2>1, Numbers DEF PeriodsArePaid, FreeYears
    <3>2. OrdersPaid(s)' \subseteq Order /\ FreeYears(s)' \in {0, 1}
      BY DEF OrdersPaid, FreeYears
    <3> QED
      BY <3>1, <3>2, <2>4, EndsInTime
  <2>6. ASSUME NEW e \in SubRow
        PROVE  [[[e EXCEPT !.status = "ACTIVE"] EXCEPT !.startsAt = x] EXCEPT !.endsAt = y]
                  \in SubRow
    BY <2>2, <2>5, <2>6 DEF SubRow
  <2>7. sub'[s] = [[[sub[s] EXCEPT !.status = "ACTIVE"] EXCEPT !.startsAt = x] EXCEPT !.endsAt = y]
        /\ DOMAIN sub' = Sub /\ sub' = [r \in Sub |-> sub'[r]]
        /\ \A r \in Sub \ {s} : sub'[r] = sub[r]
    BY <1>1, <1>5 DEF Activate
  <2> HIDE DEF SubRow
  <2>8. sub[s] \in SubRow
    BY <1>1
  <2>9. [[[sub[s] EXCEPT !.status = "ACTIVE"] EXCEPT !.startsAt = x] EXCEPT !.endsAt = y]
           \in SubRow
    BY <2>6, <2>8
  <2>10. sub'[s] \in SubRow
    BY <2>7, <2>9
  <2>11. \A r \in Sub \ {s} : sub'[r] \in SubRow
    BY <1>1, <2>7
  <2>12. \A r \in Sub : sub'[r] \in SubRow
    BY <2>10, <2>11
  <2> QED
    BY <2>7, <2>12
<1>6. ASSUME NEW s \in Sub, StartFreeCheckout(s) PROVE sub' \in [Sub -> SubRow]
  <2>1. now + Period \in Time
    <3>1. now + Period <= MaxNow + Period * (MaxOrders + 1)
      <4>1. Period * 1 <= Period * (MaxOrders + 1)
        BY MoreYears, Numbers
      <4> QED
        BY <4>1, <1>1, <1>2, Numbers
    <3> QED
      BY <3>1, <1>1, <1>2, Numbers DEF Time
  <2>2. [status |-> "ACTIVE", startsAt |-> now, endsAt |-> now + Period, free |-> TRUE]
           \in SubRow
    BY <1>1, <1>2, <2>1 DEF SubRow
  <2> HIDE DEF SubRow
  <2> QED
    BY <1>1, <1>6, <2>2 DEF StartFreeCheckout
<1>7. ASSUME NEW h \in Handler,
             \/ CaptureRenewal(h) \/ CaptureByCallback(h) \/ CaptureByWebhook(h)
             \/ RecordFailure(h) \/ ApplyRefund(h)
      PROVE  sub' \in [Sub -> SubRow]
  <2>1. handler[h].pc = "commit"
    BY <1>7 DEF CaptureRenewal, CaptureByCallback, CaptureByWebhook, RecordFailure,
       ApplyRefund, Commits
  <2>2. PICK s : s = order[handler[h].order].sub
    OBVIOUS
  <2>3. Prepared(h) /\ s \in Sub
    BY <2>1, <2>2, HandlerPrepared DEF Prepared
  <2>4. CASE CaptureRenewal(h)
    <3>1. PICK a \in Attempt : a = handler[h].attempt
      BY <2>3, <2>4 DEF CaptureRenewal, Prepared
    <3>2. a[1] \in Sub /\ a[2] + Period \in Nat
      <4>1. a[1] \in Sub /\ a[2] \in Nat
        BY <1>2, AttemptIsPair
      <4> QED
        BY <1>2, <4>1
    <3>3. UNCHANGED sub \/ Activate(a[1], sub[a[1]].startsAt, a[2] + Period)
      BY <2>4, <3>1 DEF CaptureRenewal, RenewalEnd
    <3> QED
      BY <1>1, <1>5, <3>2, <3>3
  <2>5. CASE CaptureByCallback(h)
    <3>1. Activate(s, now, now + Period) /\ now + Period \in Nat
      BY <1>1, <1>2, <2>2, <2>5 DEF CaptureByCallback
    <3> QED
      BY <1>5, <2>3, <3>1
  <2>6. CASE CaptureByWebhook(h)
    <3>1. EndOrNew(s) \in Nat
      <4>1. sub[s].endsAt \in Time \cup {NoTime} /\ now + Period \in Nat
        BY <1>1, <1>2, <2>3 DEF SubRow
      <4> QED
        BY <1>2, <4>1 DEF EndOrNew
    <3>2. \/ UNCHANGED sub
          \/ Activate(s, IF sub[s].startsAt = NoTime THEN now ELSE sub[s].startsAt, EndOrNew(s))
      BY <2>2, <2>6 DEF CaptureByWebhook
    <3> QED
      BY <1>1, <1>5, <2>3, <3>1, <3>2
  <2>7. CASE RecordFailure(h) \/ ApplyRefund(h)
    <3>1. UNCHANGED sub \/ SubBecomes(s, "PAYMENT_FAILED") \/ SubBecomes(s, "CANCELLED")
      BY <2>2, <2>7 DEF RecordFailure, ApplyRefund
    <3> QED
      BY <1>1, <1>4, <3>1
  <2> QED
    BY <1>7, <2>4, <2>5, <2>6, <2>7
<1>8. ASSUME NEW s \in Sub, StartCheckout(s) \/ CancelSubscription(s)
      PROVE  sub' \in [Sub -> SubRow]
  <2>1. SubBecomes(s, "PENDING") \/ SubBecomes(s, "CANCELLED")
    BY <1>8 DEF StartCheckout, CancelSubscription
  <2> QED
    BY <1>4, <2>1
<1>9. ASSUME ExpireRenewalAttempt PROVE sub' \in [Sub -> SubRow]
  <2>1. UNCHANGED sub \/ SubBecomes(worker.cur[1], "EXPIRED")
    BY <1>9 DEF ExpireRenewalAttempt
  <2> QED
    BY <1>1, <1>4, <2>1
<1> QED
  BY SubEffects, <1>1, <1>6, <1>7, <1>8, <1>9

LEMMA OrderRows ==
    ASSUME BillingTypeOK, OrderInv, HandlerInv, WorkerInv, [Next]_vars
    PROVE  order' \in [Order -> OrderRow]
<1>1. order \in [Order -> OrderRow]
  BY Types
<1>2. ASSUME NEW o, NEW s \in Sub, CreateOrder(o, s) PROVE order' \in [Order -> OrderRow]
  <2>1. [sub |-> s, status |-> "CREATED", payment |-> "none"] \in OrderRow
    BY DEF OrderRow
  <2> QED
    BY <1>1, <1>2, <2>1 DEF CreateOrder
<1>3. ASSUME NEW o, NEW st \in {"CAPTURED", "FAILED", "REFUNDED"},
             NEW pay \in {"none", "failed", "captured"}, OrderBecomes(o, st, pay)
      PROVE  order' \in [Order -> OrderRow]
  <2>1. ASSUME NEW e \in OrderRow
        PROVE  [[e EXCEPT !.status = st] EXCEPT !.payment = pay] \in OrderRow
    BY <2>1 DEF OrderRow
  <2> HIDE DEF OrderRow
  <2>2. /\ DOMAIN order' = Order /\ order' = [p \in Order |-> order'[p]]
        /\ \A p \in Order \ {o} : order'[p] = order[p]
        /\ o \in Order => order'[o] = [[order[o] EXCEPT !.status = st] EXCEPT !.payment = pay]
    BY <1>1, <1>3 DEF OrderBecomes
  <2>3. ASSUME NEW p \in Order PROVE order'[p] \in OrderRow
    <3>1. order[p] \in OrderRow
      BY <1>1
    <3>2. [[order[p] EXCEPT !.status = st] EXCEPT !.payment = pay] \in OrderRow
      BY <2>1, <3>1
    <3>3. CASE p = o
      BY <2>2, <3>2, <3>3
    <3>4. CASE p # o
      BY <2>2, <3>1, <3>4
    <3> QED
      BY <3>3, <3>4
  <2> QED
    BY <2>2, <2>3
<1>4. ASSUME NEW h \in Handler,
             \/ CaptureRenewal(h) \/ CaptureByCallback(h) \/ CaptureByWebhook(h)
             \/ RecordFailure(h) \/ ApplyRefund(h)
      PROVE  order' \in [Order -> OrderRow]
  <2>1. handler[h].pc = "commit"
    BY <1>4 DEF CaptureRenewal, CaptureByCallback, CaptureByWebhook, RecordFailure,
       ApplyRefund, Commits
  <2>2. order[handler[h].order].payment \in {"none", "failed", "captured"}
    BY <1>1, <2>1, HandlerPrepared DEF Prepared, OrderRow
  <2>3. \/ OrderBecomes(handler[h].order, "CAPTURED", "captured")
        \/ OrderBecomes(handler[h].order, "FAILED", "failed")
        \/ OrderBecomes(handler[h].order, "REFUNDED", order[handler[h].order].payment)
    BY <1>4 DEF CaptureRenewal, CaptureByCallback, CaptureByWebhook, RecordFailure,
       ApplyRefund
  <2> QED
    BY <1>3, <2>2, <2>3
<1>5. ASSUME PersistRenewal \/ \E h \in Handler : PersistRequested(h)
      PROVE  order' \in [Order -> OrderRow]
  <2>1. ASSUME NEW a \in Attempt, NEW o \in Order, PersistedFor(a, o)
        PROVE  order' \in [Order -> OrderRow]
    BY <1>2, <2>1, AttemptIsPair DEF PersistedFor
  <2> QED
    BY <1>1, <1>5, <2>1, WhoPersists
<1> QED
  BY OrderEffects, <1>1, <1>2, <1>4, <1>5 DEF StartCheckout

LEMMA AttemptRows ==
    ASSUME BillingTypeOK, HandlerInv, WorkerInv, [Next]_vars
    PROVE  attempt' \in [Attempt -> AttemptRow]
<1>1. attempt \in [Attempt -> AttemptRow]
  BY Types
<1>2. ASSUME NEW a, NEW st \in {"PAID", "FAILED", "EMAIL_SENT"}, AttemptBecomes(a, st)
      PROVE  attempt' \in [Attempt -> AttemptRow]
  <2>1. ASSUME NEW e \in AttemptRow PROVE [e EXCEPT !.status = st] \in AttemptRow
    BY <2>1 DEF AttemptRow, InFlight, Unpaid
  <2> HIDE DEF AttemptRow
  <2> QED
    BY <1>1, <1>2, <2>1 DEF AttemptBecomes
<1>3. ASSUME NEW a, NEW st, UNCHANGED attempt \/ AttemptBecomes(a, st),
             st \in {"PAID", "FAILED", "EMAIL_SENT"}
      PROVE  attempt' \in [Attempt -> AttemptRow]
  BY <1>1, <1>2, <1>3
<1>4. ASSUME NEW h \in Handler, CaptureRenewal(h) \/ RecordFailure(h)
      PROVE  attempt' \in [Attempt -> AttemptRow]
  <2>1. \/ UNCHANGED attempt
        \/ AttemptBecomes(handler[h].attempt, "PAID")
        \/ AttemptBecomes(handler[h].attempt, "FAILED")
    BY <1>4 DEF CaptureRenewal, RecordFailure
  <2> QED
    BY <1>3, <2>1
<1>5. ASSUME MarkRenewalEmailSent \/ ExpireRenewalAttempt
      PROVE  attempt' \in [Attempt -> AttemptRow]
  <2>1. \/ UNCHANGED attempt
        \/ AttemptBecomes(worker.cur, "EMAIL_SENT")
        \/ AttemptBecomes(worker.cur, "FAILED")
    BY <1>5 DEF MarkRenewalEmailSent, ExpireRenewalAttempt
  <2> QED
    BY <1>3, <2>1
<1>6. ASSUME PersistRenewal \/ \E h \in Handler : PersistRequested(h)
      PROVE  attempt' \in [Attempt -> AttemptRow]
  <2>1. ASSUME NEW a \in Attempt, NEW o \in Order, PersistedFor(a, o)
        PROVE  attempt' \in [Attempt -> AttemptRow]
    <3>1. [status |-> "PENDING", order |-> o] \in AttemptRow
      BY DEF AttemptRow, InFlight
    <3> QED
      BY <1>1, <2>1, <3>1 DEF PersistedFor
  <2> QED
    BY <1>1, <1>6, <2>1, WhoPersists
<1> QED
  BY AttemptEffects, <1>1, <1>4, <1>5, <1>6

LEMMA InvoiceRows ==
    ASSUME BillingTypeOK, [Next]_vars
    PROVE  invoice' \in [Sub -> [paid : Nat, refunded : Nat]]
<1> DEFINE Row == [paid : Nat, refunded : Nat]
<1>1. invoice \in [Sub -> Row]
  BY DEF BillingTypeOK
<1>2. ASSUME NEW s, IssueInvoice(s) PROVE invoice' \in [Sub -> Row]
  <2>1. ASSUME NEW e \in Row PROVE [e EXCEPT !.paid = e.paid + 1] \in Row
    BY <2>1
  <2>2. /\ DOMAIN invoice' = Sub /\ invoice' = [r \in Sub |-> invoice'[r]]
        /\ \A r \in Sub \ {s} : invoice'[r] = invoice[r]
        /\ s \in Sub => invoice'[s] = [invoice[s] EXCEPT !.paid = invoice[s].paid + 1]
    BY <1>1, <1>2 DEF IssueInvoice
  <2> HIDE DEF Row
  <2>3. \A r \in Sub : invoice'[r] \in Row
    BY <1>1, <2>1, <2>2
  <2> QED
    BY <2>2, <2>3
<1>3. ASSUME NEW h \in Handler, ApplyRefund(h) PROVE invoice' \in [Sub -> Row]
  <2>1. PICK s : invoice' = [invoice EXCEPT ![s] =
                                [paid |-> 0, refunded |-> @.paid + @.refunded]]
    BY <1>3 DEF ApplyRefund
  <2>2. ASSUME NEW e \in Row PROVE [paid |-> 0, refunded |-> e.paid + e.refunded] \in Row
    BY <2>2
  <2> HIDE DEF Row
  <2> QED
    BY <1>1, <2>1, <2>2
<1>4. \/ UNCHANGED invoice \/ (\E s : IssueInvoice(s))
      \/ \E h \in Handler : ApplyRefund(h)
  BY InvoiceEffects
     DEF StartFreeCheckout, CaptureRenewal, CaptureByCallback, CaptureByWebhook
<1> QED
  BY <1>1, <1>2, <1>3, <1>4
-----------------------------------------------------------------------------
(* The types of what lies outside the rows.                                 *)
LEMMA GatewayRows ==
    ASSUME BillingTypeOK, [Next]_vars
    PROVE  /\ gateway' \in [Order -> {"open", "captured", "refunded"}]
           /\ inbox' \subseteq Kind \X Order /\ events' \subseteq Kind \X Order
           /\ now' \in 0..MaxNow /\ troubles' \in 0..MaxTroubles
<1>1. /\ gateway \in [Order -> {"open", "captured", "refunded"}]
      /\ inbox \subseteq Kind \X Order /\ events \subseteq Kind \X Order
      /\ now \in 0..MaxNow /\ troubles \in 0..MaxTroubles
  BY DEF BillingTypeOK
<1>2. gateway' \in [Order -> {"open", "captured", "refunded"}]
      /\ inbox' \subseteq Kind \X Order
  <2>1. CASE UNCHANGED outside
    BY <1>1, <2>1 DEF outside
  <2>2. ASSUME NEW o \in Order, Pay(o) \/ PaymentFails(o) \/ Refund(o)
        PROVE  gateway' \in [Order -> {"open", "captured", "refunded"}]
               /\ inbox' \subseteq Kind \X Order
    BY <1>1, <2>2 DEF Pay, PaymentFails, Refund, Kind
  <2>3. CASE AdvanceClock
    BY <1>1, <2>3 DEF AdvanceClock
  <2> QED
    BY GatewayEffects, <2>1, <2>2, <2>3
<1>3. now' \in 0..MaxNow
  BY ClockIsKept, Numbers
<1>4. events' \subseteq Kind \X Order
  <2>1. ASSUME NEW h \in Handler, HandlerNext(h) PROVE events' \subseteq Kind \X Order
    BY <1>1, <2>1 DEF HandlerNext, ReceiveCallback, ReceiveWebhook, ReadAttempt,
       CaptureRenewal, CaptureByCallback, CaptureByWebhook, RecordFailure, ApplyRefund,
       HandlerThrows, Commits, RequestRenewal, ReadRequestedWindow, PersistRequested
  <2>2. ASSUME WorkerNext PROVE UNCHANGED events
    BY <2>2 DEF WorkerNext, Scan, DecideRenewalAction, ReadSubscription, ReadWindow,
       PersistRenewal, RenewalFails, MarkRenewalEmailSent, EmailFails, ScanLapsed, ReadLapsed,
       ExpireRenewalAttempt, EndTick, TickThrows
  <2> QED
    BY <1>1, <2>1, <2>2, NextCases DEF StartCheckout, StartFreeCheckout,
       CancelSubscription, Pay, PaymentFails, Refund, AdvanceClock, Crash, vars
<1>5. troubles' \in 0..MaxTroubles
  <2>1. ASSUME Trouble PROVE troubles' \in 0..MaxTroubles
    <3>1. MaxTroubles \in Nat
      BY BillingAssumption
    <3> QED
      BY <1>1, <2>1, <3>1 DEF Trouble
  <2>2. UNCHANGED troubles \/ Trouble
    <3>1. ASSUME NEW h \in Handler, HandlerNext(h) PROVE UNCHANGED troubles \/ Trouble
      BY <3>1 DEF HandlerNext, ReceiveCallback, ReceiveWebhook, ReadAttempt,
         CaptureRenewal, CaptureByCallback, CaptureByWebhook, RecordFailure, ApplyRefund,
         HandlerThrows, Commits, RequestRenewal, ReadRequestedWindow, PersistRequested
    <3>2. ASSUME WorkerNext PROVE UNCHANGED troubles \/ Trouble
      BY <3>2 DEF WorkerNext, Scan, DecideRenewalAction, ReadSubscription, ReadWindow,
         PersistRenewal, RenewalFails, MarkRenewalEmailSent, EmailFails, ScanLapsed, ReadLapsed,
         ExpireRenewalAttempt, EndTick, TickThrows
    <3> QED
      BY <3>1, <3>2, NextCases DEF StartCheckout, StartFreeCheckout,
         CancelSubscription, Pay, PaymentFails, Refund, AdvanceClock, Crash, vars
  <2> QED
    BY <1>1, <2>1, <2>2
<1> QED
  BY <1>2, <1>3, <1>4, <1>5

LEMMA HandlerRows ==
    ASSUME BillingTypeOK, HandlerInv, OrderInv, AttemptInv, PeriodsArePaid, [Next]_vars
    PROVE  handler' \in [Handler -> HandlerLocals]
<1>1. handler \in [Handler -> HandlerLocals] /\ inbox \subseteq Kind \X Order
      /\ attempt \in [Attempt -> AttemptRow]
  BY Types
<1>2. IdleHandler \in HandlerLocals
  BY DEF IdleHandler, HandlerLocals, Kind
<1>3. ASSUME NEW h \in Handler, NEW kind \in Kind, NEW o \in Order, LookUp(h, kind, o)
      PROVE  handler' \in [Handler -> HandlerLocals]
  <2>1. PICK a : a = AttemptOf(o)
    OBVIOUS
  <2>2. a \in Attempt \cup {NoAttempt}
    BY <2>1, LookUpFinds DEF Renews, HadPeriod
  <2>3. \A pc \in {"reread", "commit"} :
           [pc |-> pc, kind |-> kind, order |-> o, attempt |-> a, seen |-> "none"]
              \in HandlerLocals
    BY <2>2 DEF HandlerLocals
  <2>4. \E e \in HandlerLocals : handler' = [handler EXCEPT ![h] = e]
    <3>1. CASE NothingToDo(kind, o)
      BY <1>2, <1>3, <3>1 DEF LookUp
    <3>2. CASE ~NothingToDo(kind, o)
      <4>1. PICK pc \in {"reread", "commit"} :
              handler' = [handler EXCEPT ![h] =
                [pc |-> pc, kind |-> kind, order |-> o, attempt |-> a, seen |-> "none"]]
        BY <1>3, <2>1, <3>2 DEF LookUp
      <4> QED
        BY <2>3, <4>1
    <3> QED
      BY <3>1, <3>2
  <2> QED
    BY <1>1, <2>4
<1>4. ASSUME NEW h \in Handler, HandlerNext(h) PROVE handler' \in [Handler -> HandlerLocals]
  <2>1. CASE ReceiveCallback(h)
    BY <1>3, <2>1 DEF ReceiveCallback, Kind
  <2>2. CASE ReceiveWebhook(h)
    <3>1. PICK e \in inbox : LookUp(h, e[1], e[2])
      BY <2>2 DEF ReceiveWebhook
    <3>2. e = <<e[1], e[2]>> /\ e[1] \in Kind /\ e[2] \in Order
      BY <1>1, <3>1
    <3> QED
      BY <1>3, <3>1, <3>2
  <2>3. CASE ReadAttempt(h)
    <3>1. attempt[handler[h].attempt].status \in InFlight \cup Unpaid \cup {"none"}
      <4>1. handler[h].attempt \in Attempt \cup {NoAttempt} /\ Prepared(h)
        BY <1>1, <2>3, HandlerPrepared DEF ReadAttempt, HandlerLocals
      <4>2. handler[h].attempt # NoAttempt
        BY <2>3, <4>1 DEF ReadAttempt, Prepared
      <4> QED
        BY <1>1, <4>1, <4>2 DEF AttemptRow
    <3>2. ASSUME NEW st \in InFlight \cup Unpaid \cup {"none"}
          PROVE  [handler[h] EXCEPT !.pc = "commit", !.seen = st] \in HandlerLocals
      BY <1>1 DEF HandlerLocals
    <3>3. handler' = [handler EXCEPT ![h] =
              [handler[h] EXCEPT !.pc = "commit", !.seen = attempt[handler[h].attempt].status]]
      BY <1>1, <2>3 DEF ReadAttempt, HandlerLocals
    <3> QED
      BY <1>1, <3>1, <3>2, <3>3
  <2>4. ASSUME \/ CaptureRenewal(h) \/ CaptureByCallback(h) \/ CaptureByWebhook(h)
               \/ RecordFailure(h) \/ ApplyRefund(h) \/ HandlerThrows(h)
               \/ PersistRequested(h)
        PROVE  handler' = [handler EXCEPT ![h] = IdleHandler]
    BY <2>4 DEF CaptureRenewal, CaptureByCallback, CaptureByWebhook, RecordFailure,
       ApplyRefund, Commits, HandlerThrows, PersistRequested
  <2>5. ASSUME NEW s \in Sub, RequestRenewal(h, s)
        PROVE  handler' \in [Handler -> HandlerLocals]
    <3>1. PICK b \in Attempt : b[1] = s /\ attempt[b].order # NoOrder
      BY <2>5 DEF RequestRenewal
    <3>2. Window(s) \in Attempt
      BY <3>1, WindowIsPaid DEF AttemptInv, Renews, HadPeriod
    <3>3. [IdleHandler EXCEPT !.pc = "window", !.kind = "renewal", !.attempt = Window(s)]
             \in HandlerLocals
      BY <3>2 DEF IdleHandler, HandlerLocals, Renewing
    <3> QED
      BY <1>1, <2>5, <3>3 DEF RequestRenewal
  <2>6. CASE ReadRequestedWindow(h)
    <3>1. ASSUME NEW pc \in Persisting
          PROVE  [handler[h] EXCEPT !.pc = pc] \in HandlerLocals
      BY <1>1 DEF HandlerLocals, Renewing
    <3>2. HowToPersist(handler[h].attempt) \in Persisting
      BY DEF HowToPersist, Persisting
    <3> QED
      BY <1>1, <1>2, <2>6, <3>1, <3>2 DEF ReadRequestedWindow
  <2> QED
    BY <1>1, <1>2, <1>4, <2>1, <2>2, <2>3, <2>4, <2>5, <2>6 DEF HandlerNext
<1> QED
  BY HandlerEffects, <1>1, <1>2, <1>4 DEF Crash

LEMMA WorkerRows ==
    ASSUME BillingTypeOK, WorkerInv, SubInv, [Next]_vars
    PROVE  worker' \in WorkerLocals
<1>1. worker \in WorkerLocals /\ sub \in [Sub -> SubRow]
  BY Types
<1>2. \A pc \in {"pass1", "checkout", "mark", "pass2", "expire"},
         todo \in SUBSET Attempt, cur \in Attempt \cup {NoAttempt} :
         [pc |-> pc, todo |-> todo, cur |-> cur] \in WorkerLocals
  BY DEF WorkerLocals
<1>3. IdleWorker \in WorkerLocals
  BY DEF IdleWorker, WorkerLocals
<1>4. ASSUME NEW pc \in {"pass1", "mark", "pass2"} \cup Renewing, NEW e,
             e = [worker EXCEPT !.pc = pc]
      PROVE  e \in WorkerLocals
  BY <1>1, <1>4 DEF WorkerLocals
<1>5. ASSUME NEW pc \in {"pass1", "window", "pass2"},
             NEW cur \in Attempt \cup {NoAttempt}, NEW e,
             e = [worker EXCEPT !.pc = pc, !.cur = cur]
      PROVE  e \in WorkerLocals
  BY <1>1, <1>5 DEF WorkerLocals, Renewing
<1>6. ASSUME NextCandidate PROVE worker' \in WorkerLocals
  BY <1>5, <1>6 DEF NextCandidate
<1>7. CASE Scan
  <2>1. {<<s, sub[s].endsAt>> : s \in {r \in Sub : /\ sub[r].status = "ACTIVE"
                                                  /\ sub[r].endsAt < now + Lookahead}}
          \subseteq Attempt
    <3>1. ASSUME NEW s \in Sub, sub[s].status = "ACTIVE" PROVE <<s, sub[s].endsAt>> \in Attempt
      <4>1. sub[s].endsAt # NoTime /\ sub[s].endsAt \in Time \cup {NoTime}
        BY <1>1, <3>1 DEF BillingTypeOK, SubRow
      <4> QED
        BY <4>1 DEF Attempt
    <3> QED
      BY <3>1
  <2> QED
    BY <1>7, <2>1 DEF Scan, IdleWorker, WorkerLocals
<1>8. CASE DecideRenewalAction
  <2>1. PICK a \in worker.todo :
          worker' = [pc |-> IF attempt[a].status \in InFlight THEN "pass1" ELSE "checkout",
                     todo |-> worker.todo \ {a},
                     cur |-> IF attempt[a].status \in InFlight THEN NoAttempt ELSE a]
    BY <1>8 DEF DecideRenewalAction
  <2>2. worker.todo \ {a} \in SUBSET Attempt /\ a \in Attempt
    BY <1>1 DEF WorkerLocals
  <2> QED
    BY <1>2, <2>1, <2>2
<1>9. CASE ReadLapsed
  <2>1. PICK a \in worker.todo :
          worker' = [pc |-> IF attempt[a].status = "PAID" THEN "pass2" ELSE "expire",
                     todo |-> worker.todo \ {a},
                     cur |-> IF attempt[a].status = "PAID" THEN NoAttempt ELSE a]
    BY <1>9 DEF ReadLapsed
  <2>2. worker.todo \ {a} \in SUBSET Attempt /\ a \in Attempt
    BY <1>1 DEF WorkerLocals
  <2> QED
    BY <1>2, <2>1, <2>2
<1>10. CASE ReadSubscription
  <2>1. worker.cur \in InTick
    BY <1>10 DEF ReadSubscription, WorkerAt, WorkerInv, InTick
  <2>2. worker.cur[1] \in Sub /\ sub[worker.cur[1]].endsAt # NoTime
    BY <2>1, AttemptIsPair DEF WorkerInv, HadPeriod
  <2>3. Window(worker.cur[1]) \in Attempt
    BY <1>1, <2>2 DEF Attempt, SubRow, Window
  <2> QED
    BY <1>5, <1>6, <1>10, <2>3 DEF ReadSubscription
<1>16. CASE ReadWindow
  BY <1>4, <1>6, <1>16 DEF ReadWindow, WorkerGoes, HowToPersist, Renewing, Persisting
<1>11. CASE PersistRenewal
  BY <1>4, <1>11 DEF PersistRenewal, WorkerGoes
<1>12. CASE RenewalFails \/ MarkRenewalEmailSent \/ EmailFails
  BY <1>6, <1>12 DEF RenewalFails, MarkRenewalEmailSent, EmailFails
<1>13. CASE ScanLapsed
  BY <1>1, <1>13 DEF ScanLapsed, WorkerLocals
<1>14. CASE ExpireRenewalAttempt
  BY <1>5, <1>14 DEF ExpireRenewalAttempt
<1>15. CASE EndTick \/ TickThrows \/ Crash
  BY <1>3, <1>15 DEF EndTick, TickThrows, Crash
<1> QED
  BY WorkerEffects, <1>1, <1>7, <1>8, <1>9, <1>10, <1>11, <1>12, <1>13, <1>14, <1>15,
     <1>16 DEF WorkerNext

LEMMA TypeStep ==
    ASSUME BillingInv, SubInv', PeriodsArePaid', SubKept, [Next]_vars
    PROVE  BillingTypeOK'
<1> USE DEF BillingInv
<1>1. ASSUME NEW s \in Sub, sub'[s].status \in {"ACTIVE", "EXPIRED"}
      PROVE  sub'[s].endsAt # NoTime
  <2>1. CASE sub'[s].status = "ACTIVE"
    BY <2>1, ActiveStep DEF Activated
  <2>2. CASE sub[s].status = "EXPIRED"
    BY <2>2 DEF BillingTypeOK, SubKept
  <2>3. CASE sub'[s].status = "EXPIRED" /\ sub[s].status # "EXPIRED"
    <3>1. ExpireRenewalAttempt /\ s = worker.cur[1]
      BY <2>3, WhoExpires
    <3>2. HadPeriod(worker.cur)
      BY <3>1 DEF ExpireRenewalAttempt, WorkerAt, WorkerInv, InTick
    <3> QED
      BY <3>1, <3>2 DEF HadPeriod, SubKept
  <2> QED
    BY <1>1, <2>1, <2>2, <2>3
<1>2. /\ sub' \in [Sub -> SubRow] /\ order' \in [Order -> OrderRow]
      /\ attempt' \in [Attempt -> AttemptRow]
      /\ invoice' \in [Sub -> [paid : Nat, refunded : Nat]]
  BY SubRows, OrderRows, AttemptRows, InvoiceRows
<1>3. /\ gateway' \in [Order -> {"open", "captured", "refunded"}]
      /\ inbox' \subseteq Kind \X Order /\ events' \subseteq Kind \X Order
      /\ now' \in 0..MaxNow /\ troubles' \in 0..MaxTroubles
  BY GatewayRows
<1>4. handler' \in [Handler -> HandlerLocals] /\ worker' \in WorkerLocals
  BY HandlerRows, WorkerRows
<1> QED
  BY <1>1, <1>2, <1>3, <1>4
     DEF BillingTypeOK, SubRow, OrderRow, AttemptRow, HandlerLocals, WorkerLocals
-----------------------------------------------------------------------------
(* The invariant, and what follows from it.                                 *)
LEMMA InitBilling ==
    ASSUME Init
    PROVE  BillingInv
<1>1. /\ \A s \in Sub : sub[s] = [status |-> "none", startsAt |-> NoTime,
                                  endsAt |-> NoTime, free |-> FALSE]
      /\ \A o \in Order : /\ order[o] = [sub |-> NoSub, status |-> "none", payment |-> "none"]
                          /\ gateway[o] = "open"
      /\ \A a \in Attempt : attempt[a] = [status |-> "none", order |-> NoOrder]
      /\ \A h \in Handler : handler[h] = IdleHandler
      /\ worker = IdleWorker /\ inbox = {} /\ now = 0
  BY DEF Init
<1>2. BillingTypeOK
  <2>1. 0 \in 0..MaxNow /\ 0 \in 0..MaxTroubles
    BY BillingAssumption
  <2>2. IdleHandler \in HandlerLocals /\ IdleWorker \in WorkerLocals
    BY DEF IdleHandler, IdleWorker, HandlerLocals, WorkerLocals, Kind
  <2>3. /\ sub \in [Sub -> SubRow] /\ order \in [Order -> OrderRow]
        /\ attempt \in [Attempt -> AttemptRow]
        /\ invoice \in [Sub -> [paid : Nat, refunded : Nat]]
        /\ gateway \in [Order -> {"open", "captured", "refunded"}]
        /\ handler \in [Handler -> HandlerLocals]
    BY <2>2 DEF Init, SubRow, OrderRow, AttemptRow
  <2> QED
    BY <1>1, <2>1, <2>2, <2>3
       DEF Init, BillingTypeOK, SubRow, OrderRow, AttemptRow, HandlerLocals, WorkerLocals
<1>3. SubInv
  BY <1>1, Numbers DEF SubInv
<1>4. OrderInv /\ AttemptInv /\ HandlerInv /\ WorkerInv
  BY <1>1 DEF OrderInv, AttemptInv, HandlerInv, HandlerOK, IdleHandler, WorkerInv, InTick,
     IdleWorker, Pass1, Pass2, Renewing, Persisting
<1>5. PeriodsArePaid /\ ActiveHasInvoice /\ NoEarlyLapse
  BY <1>1 DEF PeriodsArePaid, ActiveHasInvoice, NoEarlyLapse
<1> QED
  BY <1>2, <1>3, <1>4, <1>5 DEF BillingInv

LEMMA NextBilling ==
    ASSUME BillingInv, [Next]_vars
    PROVE  BillingInv'
<1> USE DEF BillingInv
<1>1. SubKept /\ OrderKept
  BY SubIsKept, OrderIsKept
<1>2. SubInv' /\ PeriodsArePaid'
  BY <1>1, SubStep, PaidStep
<1>3. BillingTypeOK'
  BY <1>1, <1>2, TypeStep
<1>4. OrderInv' /\ AttemptInv' /\ HandlerInv' /\ WorkerInv'
  BY <1>1, <1>3, OrderStep, AttemptStep, HandlerStep, WorkerStep
<1>5. ActiveHasInvoice'
  BY <1>1, ActiveStep DEF ActiveHasInvoice, Activated
<1>6. NoEarlyLapse'
  BY LapseStep
<1> QED
  BY <1>2, <1>3, <1>4, <1>5, <1>6

(* The inductive invariant: what rows, handlers and the tick remember of    *)
(* each other in the middle of checkouts, captures, refunds and renewals.   *)
THEOREM BillingInvariance == Spec => []BillingInv
<1>1. Init => BillingInv
  BY InitBilling
<1>2. BillingInv /\ [Next]_vars => BillingInv'
  BY NextBilling
<1> QED
  BY <1>1, <1>2, PTL DEF Spec

(* Rows hold values of their columns, whatever the handlers and the tick do *)
(* to them: no period outgrows the payments, so endsAt stays in its range.  *)
THEOREM BillingTypeCorrect == Spec => []BillingTypeOK
<1>1. BillingInv => BillingTypeOK
  BY DEF BillingInv
<1> QED
  BY <1>1, BillingInvariance, PTL

(* However callback, webhooks, retried renewals and refunds interleave, no  *)
(* subscription runs longer than its captured orders and its coupon pay for *)
(* (applyRenewalCapture, processPaymentSuccess, handlePaymentCaptured).     *)
THEOREM PeriodsAlwaysPaid == Spec => []PeriodsArePaid
<1>1. BillingInv => PeriodsArePaid
  BY DEF BillingInv
<1> QED
  BY <1>1, BillingInvariance, PTL

(* A subscription is ACTIVE only with an invoice that is not refunded       *)
(* (handlePaymentCaptured, handleRefundProcessed).                          *)
THEOREM ActiveAlwaysInvoiced == Spec => []ActiveHasInvoice
<1>1. BillingInv => ActiveHasInvoice
  BY DEF BillingInv
<1> QED
  BY <1>1, BillingInvariance, PTL

(* Nobody is cut off before a renewal window ran past its grace unpaid, and *)
(* a subscription that lapsed has one until it is paid, whatever "Renew     *)
(* now" does to the attempt beside the tick and after the lapse             *)
(* (processRenewalTick, expireRenewalAttempt, startRenewalCheckout).        *)
THEOREM NobodyLapsesEarly == Spec => []NoEarlyLapse
<1>1. BillingInv => NoEarlyLapse
  BY DEF BillingInv
<1> QED
  BY <1>1, BillingInvariance, PTL

(* A subscription the organisation cancelled is brought back by money only, *)
(* not by the tick that found it ACTIVE (expireRenewalAttempt).             *)
THEOREM CancelledStaysCancelled == Spec => CancelledStays
<1> DEFINE Step == \A s \in Sub : sub[s].status = "CANCELLED" =>
                      \/ sub'[s].status = "CANCELLED"
                      \/ \E h \in Handler : handler[h].kind \in {"callback", "captured"}
                                            /\ handler[h].pc = "commit"
<1>1. ASSUME BillingInv, [Next]_vars PROVE Step
  <2> SUFFICES ASSUME NEW s \in Sub, sub[s].status = "CANCELLED",
                      ~ \E h \in Handler : handler[h].kind \in {"callback", "captured"}
                                           /\ handler[h].pc = "commit"
               PROVE  sub'[s].status = "CANCELLED"
    OBVIOUS
  <2>1. sub \in [Sub -> SubRow]
    BY <1>1, Types DEF BillingInv
  <2>2. ASSUME NEW r, NEW st, SubBecomes(r, st), r # s \/ st = "CANCELLED"
        PROVE  sub'[s].status = "CANCELLED"
    BY <2>1, <2>2 DEF SubBecomes, SubRow
  <2>3. ASSUME NEW r \in Sub, StartCheckout(r) PROVE sub'[s].status = "CANCELLED"
    BY <2>2, <2>3 DEF StartCheckout
  <2>4. ASSUME NEW r \in Sub, StartFreeCheckout(r) PROVE sub'[s].status = "CANCELLED"
    BY <2>1, <2>4 DEF StartFreeCheckout
  <2>5. ASSUME NEW r \in Sub, CancelSubscription(r) PROVE sub'[s].status = "CANCELLED"
    BY <2>2, <2>5 DEF CancelSubscription
  <2>6. ASSUME NEW h \in Handler, CaptureRenewal(h) \/ CaptureByCallback(h) \/ CaptureByWebhook(h)
        PROVE  FALSE
    BY <2>6 DEF CaptureRenewal, CaptureByCallback, CaptureByWebhook, Commits
  <2>7. ASSUME NEW h \in Handler, RecordFailure(h) PROVE sub'[s].status = "CANCELLED"
    <3>1. \/ UNCHANGED sub
          \/ /\ sub[order[handler[h].order].sub].status = "PENDING"
             /\ SubBecomes(order[handler[h].order].sub, "PAYMENT_FAILED")
      BY <2>7 DEF RecordFailure
    <3> QED
      BY <2>1, <3>1 DEF SubBecomes, SubRow
  <2>8. ASSUME NEW h \in Handler, ApplyRefund(h) PROVE sub'[s].status = "CANCELLED"
    <3>1. SubBecomes(order[handler[h].order].sub, "CANCELLED")
      BY <2>8 DEF ApplyRefund
    <3> QED
      BY <2>1, <3>1 DEF SubBecomes, SubRow
  <2>9. ASSUME ExpireRenewalAttempt PROVE sub'[s].status = "CANCELLED"
    <3>1. \/ UNCHANGED sub
          \/ MayExpire(worker.cur[1]) /\ SubBecomes(worker.cur[1], "EXPIRED")
      BY <2>9 DEF ExpireRenewalAttempt
    <3> QED
      BY <2>1, <3>1 DEF MayExpire, SubBecomes, SubRow
  <2> QED
    BY <1>1, SubEffects, <2>3, <2>4, <2>5, <2>6, <2>7, <2>8, <2>9
<1>2. BillingInv /\ [Next]_vars => [Step]_vars
  BY <1>1
<1> QED
  BY <1>2, BillingInvariance, PTL DEF Spec, CancelledStays
=============================================================================
