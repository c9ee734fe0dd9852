----------------------------- MODULE MC_Services -----------------------------
(* The services that share no state with one another, in one run: focus is  *)
(* the one whose calls a behaviour makes, the others stay as they started.  *)
(* TLC so explores the sum of their state spaces, not the product.          *)
(* Billing is among them for its liveness, with one route execution at a    *)
(* time; its safety is checked under symmetry, which liveness excludes.     *)
EXTENDS ActivityCycle, BaselineScenarios, OfflineQueue, Approvals, Coupons,
        Archival, Sessions, KycChecks, Awd2Handoff, TLC

CONSTANTS c1, c2, p1, k1, u1, u2, e1, e2, e3, d1, d2, v1, v2, s1, s2, n1, n2, n3,
          t1, t2

MCPair == {c1, c2}
MCMonPeriod == {p1}
MCOpinion == {"POSITIVE", "NEGATIVE", "CONDITIONAL"}
MCKey == {k1}
MCApprover == {u1, u2}
MCQuorum == {2, 3}
MCEmail == {e1, e2, e3}
MCCapValue == {1, 2}
MCDatapoint == {d1, d2}
MCInstant == {t1, t2}
MCVerification == {v1, v2}
MCSerial == {s1, s2}
MCNonce == {n1, n2, n3}

VARIABLES
    focus,
    sub, order, attempt, invoice, events, gateway, inbox, handler, worker, now, troubles

Renewals == INSTANCE Billing WITH
    Sub <- {s1}, NoSub <- "none", Handler <- {c1}, Period <- 2, Lookahead <- 2,
    Grace <- 0, MaxOrders <- 2, MaxNow <- 3, MaxTroubles <- 1

billingVars == <<sub, order, attempt, invoice, events, gateway, inbox, handler, worker,
                 now, troubles>>

servicesVars == <<focus, billingVars, activityVars, baselineVars, queueVars, approvalVars,
                  couponVars, archivalVars, sessionVars, kycVars, handoffVars>>

Init ==
    /\ focus \in {"activity", "baseline", "queue", "approval", "coupon",
                  "archival", "session", "kyc", "awd2", "billing"}
    /\ ActivityInit
    /\ BaselineInit
    /\ QueueInit
    /\ ApprovalInit
    /\ CouponInit
    /\ ArchivalInit
    /\ SessionInit
    /\ KycInit
    /\ HandoffInit
    /\ Renewals!Init
    /\ focus # "queue" => refused = {}
    /\ focus # "coupon" => cap = NoCap
    /\ focus # "awd2" => eligible

ActivityFocus ==
    /\ focus = "activity" /\ ActivityNext
    /\ UNCHANGED <<focus, billingVars, baselineVars, queueVars, approvalVars, couponVars,
                   archivalVars, sessionVars, kycVars, handoffVars>>
BaselineFocus ==
    /\ focus = "baseline" /\ BaselineNext
    /\ UNCHANGED <<focus, billingVars, activityVars, queueVars, approvalVars, couponVars,
                   archivalVars, sessionVars, kycVars, handoffVars>>
QueueFocus ==
    /\ focus = "queue" /\ QueueNext
    /\ UNCHANGED <<focus, billingVars, activityVars, baselineVars, approvalVars, couponVars,
                   archivalVars, sessionVars, kycVars, handoffVars>>
ApprovalFocus ==
    /\ focus = "approval" /\ ApprovalNext
    /\ UNCHANGED <<focus, billingVars, activityVars, baselineVars, queueVars, couponVars,
                   archivalVars, sessionVars, kycVars, handoffVars>>
CouponFocus ==
    /\ focus = "coupon" /\ CouponNext
    /\ UNCHANGED <<focus, billingVars, activityVars, baselineVars, queueVars, approvalVars,
                   archivalVars, sessionVars, kycVars, handoffVars>>
ArchivalFocus ==
    /\ focus = "archival" /\ ArchivalNext
    /\ UNCHANGED <<focus, billingVars, activityVars, baselineVars, queueVars, approvalVars,
                   couponVars, sessionVars, kycVars, handoffVars>>
SessionFocus ==
    /\ focus = "session" /\ SessionNext
    /\ UNCHANGED <<focus, billingVars, activityVars, baselineVars, queueVars, approvalVars,
                   couponVars, archivalVars, kycVars, handoffVars>>
KycFocus ==
    /\ focus = "kyc" /\ KycNext
    /\ UNCHANGED <<focus, billingVars, activityVars, baselineVars, queueVars, approvalVars,
                   couponVars, archivalVars, sessionVars, handoffVars>>
HandoffFocus ==
    /\ focus = "awd2" /\ HandoffNext
    /\ UNCHANGED <<focus, billingVars, activityVars, baselineVars, queueVars, approvalVars,
                   couponVars, archivalVars, sessionVars, kycVars>>
OthersIdle ==
    UNCHANGED <<focus, activityVars, baselineVars, queueVars, approvalVars, couponVars,
                archivalVars, sessionVars, kycVars, handoffVars>>
BillingFocus == focus = "billing" /\ Renewals!Next /\ OthersIdle
TickFocus == focus = "billing" /\ Renewals!WorkerNext /\ OthersIdle

Next ==
    \/ ActivityFocus \/ BaselineFocus \/ QueueFocus \/ ApprovalFocus
    \/ CouponFocus \/ ArchivalFocus \/ SessionFocus \/ KycFocus \/ HandoffFocus
    \/ BillingFocus

(* With the focus elsewhere the queue stays empty: its fairness asks nothing. *)
Spec == Init /\ [][Next]_servicesVars /\ QueueFairness /\ WF_servicesVars(TickFocus)

(* A subscription whose period and grace are over is renewed, cancelled or  *)
(* expired in the end (Billing's FreeRideEnds; processRenewalTick).         *)
FreeRideEnds == Renewals!FreeRideEnds

(* Every service's state has its type; the queue never exceeds maxSize, in  *)
(* memory or stored, and a coupon's counter stays a count.                  *)
ServicesTypeOK ==
    /\ ActivityTypeOK
    /\ BaselineTypeOK
    /\ QueueTypeOK
    /\ ApprovalTypeOK
    /\ CouponTypeOK
    /\ ArchivalTypeOK
    /\ SessionTypeOK
    /\ KycTypeOK
    /\ HandoffTypeOK
=============================================================================
