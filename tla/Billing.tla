-------------------------------- MODULE Billing --------------------------------
(***************************************************************************)
(* Yearly subscriptions: checkout, the payment provider's callback and     *)
(* webhooks, cancellation, refunds, and the renewal worker, over one       *)
(* database (services/billing/subscription.service.ts, routes/billing.ts   *)
(* and workers/subscription-renewal.worker.ts).                            *)
(*                                                                         *)
(* One action is the code between two awaits.  A transaction that updates  *)
(* a RazorpayOrder row holds its lock, then that of the subscription, to   *)
(* the end, so its writes are one action; what it read before the lock is  *)
(* a local of the handler.  Amounts, taxes and receipts are left out.      *)
(***************************************************************************)
EXTENDS Integers, FiniteSets

CONSTANTS
    Sub, NoSub,          \* subscriptions
    Handler,             \* concurrent executions of the confirm, webhook and
                         \* renewal checkout routes
    Period,              \* addOneYear, in units of the clock
    Lookahead, Grace,    \* RENEWAL_WINDOW_DAYS, RENEWAL_GRACE_DAYS
    MaxOrders,           \* bound: orders the provider creates
    MaxNow,              \* bound: the clock
    MaxTroubles          \* bound: cancellations, failed payments, refunds, refused
                         \* calls, exceptions and crashes

ASSUME BillingAssumption ==
    /\ NoSub \notin Sub
    /\ Period \in Nat \ {0}
    /\ Lookahead \in 1..Period
    /\ Grace \in Nat
    /\ MaxOrders \in Nat
    /\ MaxNow \in Nat
    /\ MaxTroubles \in Nat

Order == 1..MaxOrders
Time == 0..(MaxNow + Period * (MaxOrders + 1))
NoTime == -1
NoOrder == 0
Attempt == Sub \X Time
NoAttempt == <<>>

VARIABLES
    \* database rows
    sub,                 \* Subscription: status, startsAt, endsAt, shortCircuited
    order,               \* RazorpayOrder: its subscription, status and payment id
    attempt,             \* RenewalAttempt, unique on (subscription, periodStart)
    invoice,             \* Invoice rows of a subscription, counted by status
    events,              \* RazorpayWebhookEvent: stored webhook event ids
    \* the payment provider and the customer's browser
    gateway,             \* what happened to the money of an order
    inbox,               \* calls that may be delivered, once or again, by now
    \* processes
    handler,             \* locals of a route execution
    worker,              \* locals of the renewal tick
    now, troubles

rows == <<sub, order, attempt, invoice>>
outside == <<gateway, inbox>>
vars == <<sub, order, attempt, invoice, events, gateway, inbox, handler, worker,
          now, troubles>>

Kind == {"callback", "captured", "failed", "refund"}
InFlight == {"PENDING", "EMAIL_SENT", "PAID"}
Unpaid == {"PENDING", "EMAIL_SENT", "FAILED"}

(* Where startRenewalCheckout stands: it has read the subscription, and     *)
(* then whether its window has an attempt.                                  *)
Persisting == {"create", "reuse"}
Renewing == {"window"} \cup Persisting

IdleHandler == [pc |-> "idle", kind |-> "callback", order |-> NoOrder,
                attempt |-> NoAttempt, seen |-> "none"]
IdleWorker == [pc |-> "idle", todo |-> {}, cur |-> NoAttempt]

(* Every row holds values of its columns, locals point at rows that exist, *)
(* and a subscription that was ever active has both ends of its period.    *)
BillingTypeOK ==
    /\ sub \in [Sub -> [status : {"none", "PENDING", "ACTIVE", "PAYMENT_FAILED",
                                  "CANCELLED", "EXPIRED"},
                        startsAt : Time \cup {NoTime}, endsAt : Time \cup {NoTime},
                        free : BOOLEAN]]
    /\ order \in [Order -> [sub : Sub \cup {NoSub},
                            status : {"none", "CREATED", "CAPTURED", "FAILED", "REFUNDED"},
                            payment : {"none", "failed", "captured"}]]
    /\ attempt \in [Attempt -> [status : InFlight \cup Unpaid \cup {"none"},
                                order : Order \cup {NoOrder}]]
    /\ invoice \in [Sub -> [paid : Nat, refunded : Nat]]
    /\ events \subseteq Kind \X Order
    /\ gateway \in [Order -> {"open", "captured", "refunded"}]
    /\ inbox \subseteq Kind \X Order
    /\ handler \in [Handler -> [pc : {"idle", "reread", "commit"} \cup Renewing,
                                kind : Kind \cup {"renewal"}, order : Order \cup {NoOrder},
                                attempt : Attempt \cup {NoAttempt},
                                seen : InFlight \cup Unpaid \cup {"none"}]]
    /\ worker \in [pc : {"idle", "pass1", "checkout", "mark", "pass2", "expire"}
                            \cup Renewing,
                   todo : SUBSET Attempt, cur : Attempt \cup {NoAttempt}]
    /\ now \in 0..MaxNow
    /\ troubles \in 0..MaxTroubles
    /\ \A s \in Sub : sub[s].status \in {"ACTIVE", "EXPIRED"} => sub[s].endsAt # NoTime

Init ==
    /\ sub = [s \in Sub |-> [status |-> "none", startsAt |-> NoTime,
                             endsAt |-> NoTime, free |-> FALSE]]
    /\ order = [o \in Order |-> [sub |-> NoSub, status |-> "none", payment |-> "none"]]
    /\ attempt = [a \in Attempt |-> [status |-> "none", order |-> NoOrder]]
    /\ invoice = [s \in Sub |-> [paid |-> 0, refunded |-> 0]]
    /\ events = {}
    /\ gateway = [o \in Order |-> "open"]
    /\ inbox = {}
    /\ handler = [h \in Handler |-> IdleHandler]
    /\ worker = IdleWorker
    /\ now = 0
    /\ troubles = 0

(* Takes one of what may go wrong from the bound.                           *)
Trouble == troubles < MaxTroubles /\ troubles' = troubles + 1

-----------------------------------------------------------------------------
(* Updates of the rows.                                                     *)

CreateOrder(o, s) ==
    /\ order[o].status = "none"
    /\ \A p \in Order : p < o => order[p].status # "none"
    /\ order' = [order EXCEPT ![o] = [sub |-> s, status |-> "CREATED", payment |-> "none"]]

OrderBecomes(o, status, payment) ==
    order' = [order EXCEPT ![o].status = status, ![o].payment = payment]

Activate(s, start, end) ==
    sub' = [sub EXCEPT ![s].status = "ACTIVE", ![s].startsAt = start, ![s].endsAt = end]

SubBecomes(s, status) == sub' = [sub EXCEPT ![s].status = status]

AttemptBecomes(a, status) == attempt' = [attempt EXCEPT ![a].status = status]

IssueInvoice(s) == invoice' = [invoice EXCEPT ![s].paid = @ + 1]

-----------------------------------------------------------------------------
(* The organisation: checkout, cancellation.                                *)

(* startCheckout.  An order whose creation the provider refused leaves the  *)
(* rows of one that the customer never pays.                                *)
StartCheckout(s) ==
    /\ sub[s].status = "none"
    /\ \E o \in Order : CreateOrder(o, s)
    /\ SubBecomes(s, "PENDING")
    /\ UNCHANGED <<attempt, invoice, events, outside, handler, worker, now, troubles>>

(* startCheckout with a coupon that takes the whole amount off.             *)
StartFreeCheckout(s) ==
    /\ sub[s].status = "none"
    /\ sub' = [sub EXCEPT ![s] = [status |-> "ACTIVE", startsAt |-> now,
                                  endsAt |-> now + Period, free |-> TRUE]]
    /\ IssueInvoice(s)
    /\ UNCHANGED <<order, attempt, events, outside, handler, worker, now, troubles>>

CancelSubscription(s) ==
    /\ sub[s].status \notin {"none", "CANCELLED"}
    /\ Trouble
    /\ SubBecomes(s, "CANCELLED")
    /\ UNCHANGED <<order, attempt, invoice, events, outside, handler, worker, now>>

-----------------------------------------------------------------------------
(* The provider.  A payment of an order may fail and be tried again; a call *)
(* is delivered in any order, more than once, or never.                     *)

Pay(o) ==
    /\ order[o].status # "none"
    /\ gateway[o] = "open"
    /\ gateway' = [gateway EXCEPT ![o] = "captured"]
    /\ inbox' = inbox \cup ({"callback", "captured"} \X {o})
    /\ UNCHANGED <<rows, events, handler, worker, now, troubles>>

PaymentFails(o) ==
    /\ order[o].status # "none"
    /\ gateway[o] = "open"
    /\ Trouble
    /\ inbox' = inbox \cup {<<"failed", o>>}
    /\ UNCHANGED <<rows, events, gateway, handler, worker, now>>

Refund(o) ==
    /\ gateway[o] = "captured"
    /\ Trouble
    /\ gateway' = [gateway EXCEPT ![o] = "refunded"]
    /\ inbox' = inbox \cup {<<"refund", o>>}
    /\ UNCHANGED <<rows, events, handler, worker, now>>

(* A unit of the clock is longer than the provider's retries and than any   *)
(* run of a handler or tick.                                                *)
AdvanceClock ==
    /\ now < MaxNow
    /\ \A h \in Handler : handler[h].pc = "idle"
    /\ worker.pc = "idle"
    /\ now' = now + 1
    /\ inbox' = {}
    /\ UNCHANGED <<rows, events, gateway, handler, worker, troubles>>

-----------------------------------------------------------------------------
(* processPaymentSuccess and processWebhook.                                *)

AttemptOf(o) ==
    LET found == {a \in Attempt : attempt[a].order = o}
    IN  IF found = {} THEN NoAttempt ELSE CHOOSE a \in found : TRUE

CapturedAlready(o) == order[o].status = "CAPTURED" /\ order[o].payment = "captured"

(* The guard on a repeated call, before any transaction.                    *)
NothingToDo(kind, o) ==
    CASE kind = "callback" ->
            /\ CapturedAlready(o)
            /\ invoice[order[o].sub].paid + invoice[order[o].sub].refunded > 0
      [] kind = "captured" -> CapturedAlready(o)
      [] kind = "failed"   -> FALSE
      [] kind = "refund"   -> order[o].payment # "captured"

(* The reads before the transaction: the order's row, then its attempt's.   *)
LookUp(h, kind, o) ==
    LET a == AttemptOf(o)
        renews == kind \in {"callback", "captured"} /\ a # NoAttempt
    IN  handler' = [handler EXCEPT ![h] =
            IF NothingToDo(kind, o) THEN IdleHandler
            ELSE [pc |-> IF renews THEN "reread" ELSE "commit", kind |-> kind,
                  order |-> o, attempt |-> a, seen |-> "none"]]

ReceiveCallback(h) ==
    /\ handler[h].pc = "idle"
    /\ \E o \in Order : <<"callback", o>> \in inbox /\ LookUp(h, "callback", o)
    /\ UNCHANGED <<rows, events, outside, worker, now, troubles>>

(* An event id already stored is a duplicate: nothing happens.  Storing one *)
(* is seen by nobody but its duplicates, so the lookup is the same action.  *)
ReceiveWebhook(h) ==
    /\ handler[h].pc = "idle"
    /\ \E e \in inbox \ events :
        /\ e[1] # "callback"
        /\ events' = events \cup {e}
        /\ LookUp(h, e[1], e[2])
    /\ UNCHANGED <<rows, outside, worker, now, troubles>>

(* applyRenewalCapture reads the attempt before it waits for the order row. *)
ReadAttempt(h) ==
    /\ handler[h].pc = "reread"
    /\ handler' = [handler EXCEPT ![h].pc = "commit",
                                  ![h].seen = attempt[handler[h].attempt].status]
    /\ UNCHANGED <<rows, events, outside, worker, now, troubles>>

Commits(h, kinds) ==
    /\ handler[h].pc = "commit"
    /\ handler[h].kind \in kinds
    /\ handler' = [handler EXCEPT ![h] = IdleHandler]
    /\ UNCHANGED <<events, outside, worker, now, troubles>>

(* Mutant: the year is added to whatever the row says by now.               *)
RenewalEndFromRow(s, start) == sub[s].endsAt + Period

(* The attempt's own periodEnd, so that a repeated capture adds nothing.    *)
RenewalEnd(s, start) == start + Period

(* applyRenewalCapture, for callback and webhook alike.                     *)
CaptureRenewal(h) ==
    LET a == handler[h].attempt
        s == a[1]
        paidBefore == handler[h].seen = "PAID" /\ invoice[s].paid + invoice[s].refunded > 0
    IN  /\ a # NoAttempt
        /\ Commits(h, {"callback", "captured"})
        /\ OrderBecomes(handler[h].order, "CAPTURED", "captured")
        /\ \/ paidBefore /\ UNCHANGED <<sub, attempt, invoice>>
           \/ /\ ~paidBefore
              /\ AttemptBecomes(a, "PAID")
              /\ Activate(s, sub[s].startsAt, RenewalEnd(s, a[2]))
              /\ IssueInvoice(s)

(* processPaymentSuccess for a first payment.                               *)
CaptureByCallback(h) ==
    LET s == order[handler[h].order].sub
    IN  /\ handler[h].attempt = NoAttempt
        /\ Commits(h, {"callback"})
        /\ OrderBecomes(handler[h].order, "CAPTURED", "captured")
        /\ Activate(s, now, now + Period)
        /\ IssueInvoice(s)
        /\ UNCHANGED attempt

(* handlePaymentCaptured for a first payment: a period already stored is    *)
(* kept, an invoice that is not refunded stands for this payment.           *)
EndKept(s) == sub[s].endsAt  \* mutant: no period for a first activation

EndOrNew(s) == IF sub[s].endsAt = NoTime THEN now + Period ELSE sub[s].endsAt

EverInvoiced(s) == invoice[s].paid + invoice[s].refunded > 0  \* mutant

HasInvoice(s) == invoice[s].paid > 0

CaptureByWebhook(h) ==
    LET s == order[handler[h].order].sub
        start == IF sub[s].startsAt = NoTime THEN now ELSE sub[s].startsAt
    IN  /\ handler[h].attempt = NoAttempt
        /\ Commits(h, {"captured"})
        /\ OrderBecomes(handler[h].order, "CAPTURED", "captured")
        /\ \/ sub[s].status = "ACTIVE" /\ UNCHANGED <<sub, invoice>>
           \/ /\ sub[s].status # "ACTIVE"
              /\ Activate(s, start, EndOrNew(s))
              /\ IF HasInvoice(s) THEN UNCHANGED invoice ELSE IssueInvoice(s)
        /\ UNCHANGED attempt

(* handlePaymentFailed: the order's row is overwritten whatever it says.    *)
RecordFailure(h) ==
    LET o == handler[h].order
        a == handler[h].attempt
        s == order[o].sub
    IN  /\ Commits(h, {"failed"})
        /\ OrderBecomes(o, "FAILED", "failed")
        /\ IF a # NoAttempt
           THEN AttemptBecomes(a, "FAILED") /\ UNCHANGED sub
           ELSE /\ IF sub[s].status = "PENDING" THEN SubBecomes(s, "PAYMENT_FAILED")
                                                ELSE UNCHANGED sub
                /\ UNCHANGED attempt
        /\ UNCHANGED invoice

(* handleRefundProcessed.                                                   *)
ApplyRefund(h) ==
    LET o == handler[h].order
        s == order[o].sub
    IN  /\ Commits(h, {"refund"})
        /\ OrderBecomes(o, "REFUNDED", order[o].payment)
        /\ SubBecomes(s, "CANCELLED")
        /\ invoice' = [invoice EXCEPT ![s] = [paid |-> 0, refunded |-> @.paid + @.refunded]]
        /\ UNCHANGED attempt

(* A handler that throws: a query fails, the provider refuses the order, or *)
(* the invoice number it drew was taken.  The transaction is undone, the    *)
(* stored event stays.                                                      *)
HandlerThrows(h) ==
    /\ handler[h].pc # "idle"
    /\ Trouble
    /\ handler' = [handler EXCEPT ![h] = IdleHandler]
    /\ UNCHANGED <<rows, events, outside, worker, now>>

-----------------------------------------------------------------------------
(* startRenewalCheckout, which the tick calls for a candidate and the       *)
(* customer by "Renew now", also while the tick runs and after the lapse.   *)

(* The period comes from the subscription as it is read, whatever the       *)
(* caller saw before.                                                       *)
Renewable(s) == sub[s].status \notin {"CANCELLED", "PENDING"}
Window(s) == <<s, sub[s].endsAt>>

HowToPersist(a) == IF attempt[a].status = "none" THEN "create" ELSE "reuse"

(* The attempt is created, or the one that was read is used again, whatever *)
(* it has become while the provider created the order.                      *)
PersistAttempt(how, a) ==
    /\ how = "create" => attempt[a].status = "none"
    /\ \E o \in Order :
        /\ CreateOrder(o, a[1])
        /\ attempt' = [attempt EXCEPT ![a] = [status |-> "PENDING", order |-> o]]

(* Somebody else created it (the unique key), or the bound is reached.      *)
CannotPersist(how, a) ==
    \/ how = "create" /\ attempt[a].status # "none"
    \/ how \in Persisting /\ \A o \in Order : order[o].status # "none"

(* POST /renewal-attempts/:id/checkout, for a subscription that has an      *)
(* attempt and so a period.                                                 *)
RequestRenewal(h, s) ==
    /\ handler[h].pc = "idle"
    /\ \E a \in Attempt : a[1] = s /\ attempt[a].order # NoOrder
    /\ Renewable(s)
    /\ handler' = [handler EXCEPT ![h] = [IdleHandler EXCEPT
            !.pc = "window", !.kind = "renewal", !.attempt = Window(s)]]
    /\ UNCHANGED <<rows, events, outside, worker, now, troubles>>

(* The order of an attempt in flight is shown again.                        *)
ReadRequestedWindow(h) ==
    LET a == handler[h].attempt
    IN  /\ handler[h].pc = "window"
        /\ handler' = [handler EXCEPT ![h] =
                IF attempt[a].status \in InFlight THEN IdleHandler
                ELSE [handler[h] EXCEPT !.pc = HowToPersist(a)]]
        /\ UNCHANGED <<rows, events, outside, worker, now, troubles>>

PersistRequested(h) ==
    /\ handler[h].pc \in Persisting
    /\ IF CannotPersist(handler[h].pc, handler[h].attempt)
       THEN UNCHANGED <<order, attempt>>
       ELSE PersistAttempt(handler[h].pc, handler[h].attempt)
    /\ handler' = [handler EXCEPT ![h] = IdleHandler]
    /\ UNCHANGED <<sub, invoice, events, outside, worker, now, troubles>>

-----------------------------------------------------------------------------
(* processRenewalTick.                                                      *)

WorkerAt(pc) == worker.pc = pc

WorkerGoes(pc) == worker' = [worker EXCEPT !.pc = pc]

NextCandidate == worker' = [worker EXCEPT !.pc = "pass1", !.cur = NoAttempt]

(* A candidate is a subscription with the endsAt the scan saw.              *)
Scan ==
    /\ WorkerAt("idle")
    /\ worker' = [IdleWorker EXCEPT !.pc = "pass1",
            !.todo = {<<s, sub[s].endsAt>> : s \in
                {r \in Sub : /\ sub[r].status = "ACTIVE"
                             /\ sub[r].endsAt < now + Lookahead}}]
    /\ UNCHANGED <<rows, events, outside, handler, now, troubles>>

DecideRenewalAction ==
    /\ WorkerAt("pass1")
    /\ \E a \in worker.todo :
        worker' = [pc |-> IF attempt[a].status \in InFlight THEN "pass1" ELSE "checkout",
                   todo |-> worker.todo \ {a},
                   cur |-> IF attempt[a].status \in InFlight THEN NoAttempt ELSE a]
    /\ UNCHANGED <<rows, events, outside, handler, now, troubles>>

(* startRenewalCheckout, called by the tick.                                *)
ReadSubscription ==
    LET s == worker.cur[1]
    IN  /\ WorkerAt("checkout")
        /\ IF Renewable(s)
           THEN worker' = [worker EXCEPT !.pc = "window", !.cur = Window(s)]
           ELSE NextCandidate
        /\ UNCHANGED <<rows, events, outside, handler, now, troubles>>

ReadWindow ==
    /\ WorkerAt("window")
    /\ IF attempt[worker.cur].status \in InFlight
       THEN NextCandidate ELSE WorkerGoes(HowToPersist(worker.cur))
    /\ UNCHANGED <<rows, events, outside, handler, now, troubles>>

PersistRenewal ==
    /\ worker.pc \in Persisting
    /\ PersistAttempt(worker.pc, worker.cur)
    /\ WorkerGoes("mark")
    /\ UNCHANGED <<sub, invoice, events, outside, handler, now, troubles>>

(* The provider refuses the order, or a query of the checkout throws.       *)
RenewalFails ==
    /\ worker.pc \in {"checkout"} \cup Renewing
    /\ \/ Trouble
       \/ CannotPersist(worker.pc, worker.cur) /\ UNCHANGED troubles
    /\ NextCandidate
    /\ UNCHANGED <<rows, events, outside, handler, now>>

(* The payment link is sent, then the row follows; or sending it fails.     *)
MarkRenewalEmailSent ==
    /\ WorkerAt("mark")
    /\ IF attempt[worker.cur].status = "PENDING"
       THEN AttemptBecomes(worker.cur, "EMAIL_SENT") ELSE UNCHANGED attempt
    /\ NextCandidate
    /\ UNCHANGED <<sub, order, invoice, events, outside, handler, now, troubles>>

EmailFails ==
    /\ WorkerAt("mark")
    /\ Trouble
    /\ NextCandidate
    /\ UNCHANGED <<rows, events, outside, handler, now>>

GraceEndsToday(a) == a[2] <= now - Grace  \* mutant

GraceIsOver(a) == a[2] < now - Grace

OnlyFailedLapses(a) == attempt[a].status = "FAILED"  \* mutant

MayLapse(a) == attempt[a].status \in Unpaid

ScanLapsed ==
    /\ WorkerAt("pass1")
    /\ worker.todo = {}
    /\ worker' = [worker EXCEPT !.pc = "pass2",
            !.todo = {a \in Attempt : /\ MayLapse(a)
                                      /\ GraceIsOver(a)
                                      /\ sub[a[1]].status = "ACTIVE"}]
    /\ UNCHANGED <<rows, events, outside, handler, now, troubles>>

(* expireRenewalAttempt: what it reads outside its transaction, ...         *)
ReadLapsed ==
    /\ WorkerAt("pass2")
    /\ \E a \in worker.todo :
        worker' = [pc |-> IF attempt[a].status = "PAID" THEN "pass2" ELSE "expire",
                   todo |-> worker.todo \ {a},
                   cur |-> IF attempt[a].status = "PAID" THEN NoAttempt ELSE a]
    /\ UNCHANGED <<rows, events, outside, handler, now, troubles>>

ExpiresAnyway(s) == sub[s].status # "EXPIRED"  \* mutant

MayExpire(s) == sub[s].status \notin {"CANCELLED", "EXPIRED"}

(* ... and the transaction, or an exception out of it.                      *)
ExpireRenewalAttempt ==
    LET s == worker.cur[1]
    IN  /\ WorkerAt("expire")
        /\ \/ /\ AttemptBecomes(worker.cur, "FAILED")
              /\ IF MayExpire(s) THEN SubBecomes(s, "EXPIRED") ELSE UNCHANGED sub
              /\ UNCHANGED troubles
           \/ Trouble /\ UNCHANGED <<sub, attempt>>
        /\ worker' = [worker EXCEPT !.pc = "pass2", !.cur = NoAttempt]
        /\ UNCHANGED <<order, invoice, events, outside, handler, now>>

EndTick ==
    /\ WorkerAt("pass2")
    /\ worker.todo = {}
    /\ worker' = IdleWorker
    /\ UNCHANGED <<rows, events, outside, handler, now, troubles>>

(* An exception out of the tick: it ends and is scheduled again.            *)
TickThrows ==
    /\ WorkerAt("pass1")
    /\ Trouble
    /\ worker' = IdleWorker
    /\ UNCHANGED <<rows, events, outside, handler, now>>

(* The process dies and is started again.                                   *)
Crash ==
    /\ Trouble
    /\ handler' = [h \in Handler |-> IdleHandler]
    /\ worker' = IdleWorker
    /\ UNCHANGED <<rows, events, outside, now>>

-----------------------------------------------------------------------------
WorkerNext ==
    \/ Scan \/ DecideRenewalAction \/ ReadSubscription \/ ReadWindow
    \/ PersistRenewal \/ RenewalFails \/ MarkRenewalEmailSent \/ EmailFails
    \/ ScanLapsed \/ ReadLapsed \/ ExpireRenewalAttempt \/ EndTick \/ TickThrows

HandlerNext(h) ==
    \/ ReceiveCallback(h) \/ ReceiveWebhook(h)
    \/ ReadAttempt(h) \/ CaptureRenewal(h) \/ CaptureByCallback(h)
    \/ CaptureByWebhook(h) \/ RecordFailure(h) \/ ApplyRefund(h) \/ HandlerThrows(h)
    \/ \E s \in Sub : RequestRenewal(h, s)
    \/ ReadRequestedWindow(h) \/ PersistRequested(h)

Next ==
    \/ \E s \in Sub : StartCheckout(s) \/ StartFreeCheckout(s) \/ CancelSubscription(s)
    \/ \E o \in Order : Pay(o) \/ PaymentFails(o) \/ Refund(o)
    \/ AdvanceClock
    \/ \E h \in Handler : HandlerNext(h)
    \/ WorkerNext
    \/ Crash

(* The tick runs again and again; no customer, provider or handler must act.*)
Spec == Init /\ [][Next]_vars /\ WF_vars(WorkerNext)

-----------------------------------------------------------------------------
(* Properties.                                                              *)

OrdersPaid(s) == {o \in Order : order[o].sub = s /\ gateway[o] # "open"}

(* Service is granted for payments: however callbacks, webhooks, retries of *)
(* a renewal and refunds interleave, the period of a subscription is never  *)
(* longer than one year per captured order, or the one free year of a       *)
(* coupon (applyRenewalCapture, processPaymentSuccess).                     *)
PeriodsArePaid ==
    \A s \in Sub : sub[s].endsAt # NoTime =>
        sub[s].endsAt - sub[s].startsAt <=
            Period * (Cardinality(OrdersPaid(s)) + (IF sub[s].free THEN 1 ELSE 0))

(* An ACTIVE subscription has an invoice that is not refunded, also when a  *)
(* capture is applied after the refund (handlePaymentCaptured).             *)
ActiveHasInvoice ==
    \A s \in Sub : sub[s].status = "ACTIVE" => invoice[s].paid > 0

(* Nobody is cut off early: a subscription is EXPIRED only if a renewal     *)
(* window of it ran past its grace and is not paid, also when the customer  *)
(* tries that renewal again after the lapse and when several orders of the  *)
(* window are paid out of turn (processRenewalTick, startRenewalCheckout).  *)
NoEarlyLapse ==
    \A s \in Sub : sub[s].status = "EXPIRED" =>
        \E a \in Attempt : a[1] = s /\ a[2] + Grace < now /\ attempt[a].status \in Unpaid

(* A subscription the organisation cancelled stays CANCELLED while the tick *)
(* that found it ACTIVE goes on (expireRenewalAttempt): only money brings   *)
(* it back.                                                                 *)
CancelledStays ==
    [][\A s \in Sub : sub[s].status = "CANCELLED" =>
        \/ sub'[s].status = "CANCELLED"
        \/ \E h \in Handler : handler[h].kind \in {"callback", "captured"}
                              /\ handler[h].pc = "commit"]_vars

Overdue(s) ==
    /\ sub[s].status = "ACTIVE"
    /\ sub[s].endsAt < now - Grace
    /\ attempt[<<s, sub[s].endsAt>>].status # "PAID"

(* No free ride: a subscription whose period and grace are over is renewed, *)
(* cancelled or expired in the end, also after a crash in the middle of a   *)
(* tick and after an order the provider refused.                            *)
FreeRideEnds == \A s \in Sub : Overdue(s) ~> ~Overdue(s)

-----------------------------------------------------------------------------
(* What the comments say and the code does not do.                          *)

(* expireRenewalAttempt is for an attempt "without payment": a subscription *)
(* is not EXPIRED while a period it paid for is running.                    *)
PaidIsNotExpired ==
    \A s \in Sub : sub[s].status = "EXPIRED" => sub[s].endsAt <= now

(* A payment delivered by the callback and the webhook is "processed ...    *)
(* without double-issuing invoices".                                        *)
OneInvoicePerPayment ==
    \A s \in Sub : invoice[s].paid + invoice[s].refunded <=
        Cardinality(OrdersPaid(s)) + (IF sub[s].free THEN 1 ELSE 0)
=============================================================================
