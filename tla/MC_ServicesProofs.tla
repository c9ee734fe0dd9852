--------------------------- MODULE MC_ServicesProofs ---------------------------
(***************************************************************************)
(* The services together: each keeps its inductive invariant whatever the  *)
(* others do, for they share no state.  (Billing's is in BillingProofs.)   *)
(***************************************************************************)
EXTENDS MC_Services, ServicesProofs, LifecycleProofs, OfflineQueueProofs

ServicesInv ==
    /\ ActivityInv
    /\ BaselineInv
    /\ QueueInv
    /\ ApprovalInv
    /\ CouponInv
    /\ ArchivalInv
    /\ SessionInv
    /\ KycInv
    /\ HandoffInv /\ CreatedInv

LEMMA ServicesInvInit ==
    Init => ServicesInv
BY ActivityInvInit, BaselineInvInit, QueueInvInit, ApprovalInvInit, CouponInvInit,
   ArchivalInvInit, SessionInvInit, KycInvInit, HandoffInvInit
   DEF Init, ServicesInv, HandoffInit, CreatedInv

(* A step of the composition is a step or a stutter of each service.        *)
LEMMA StepOfEach ==
    ASSUME [Next]_servicesVars
    PROVE  /\ [ActivityNext]_activityVars
           /\ [BaselineNext]_baselineVars
           /\ [QueueNext]_queueVars
           /\ [ApprovalNext]_approvalVars
           /\ [CouponNext]_couponVars
           /\ [ArchivalNext]_archivalVars
           /\ [SessionNext]_sessionVars
           /\ [KycNext]_kycVars
           /\ [HandoffNext]_handoffVars
BY DEF Next, servicesVars, ActivityFocus, BaselineFocus, QueueFocus, ApprovalFocus,
       CouponFocus, ArchivalFocus, SessionFocus, KycFocus, HandoffFocus,
       BillingFocus, OthersIdle

LEMMA ServicesInvStep ==
    ServicesInv /\ [Next]_servicesVars => ServicesInv'
<1> SUFFICES ASSUME ServicesInv, [Next]_servicesVars PROVE ServicesInv'
  OBVIOUS
<1>1. ActivityInv' /\ BaselineInv' /\ KycInv'
  BY StepOfEach, ActivityInvStep, BaselineInvStep, KycInvStep DEF ServicesInv
<1>2. QueueInv' /\ ApprovalInv' /\ CouponInv'
  BY StepOfEach, QueueInvStep, ApprovalInvStep, CouponInvStep DEF ServicesInv
<1>3. ArchivalInv' /\ SessionInv' /\ HandoffInv' /\ CreatedInv'
  BY StepOfEach, ArchivalInvStep, SessionInvStep, HandoffInvStep, CreatedInvStep DEF ServicesInv
<1> QED
  BY <1>1, <1>2, <1>3 DEF ServicesInv

(* Every service keeps its inductive invariant in the composition.          *)
THEOREM ServicesInvariance == Spec => []ServicesInv
BY ServicesInvInit, ServicesInvStep, PTL DEF Spec

(* Every service's state keeps the type the schema and its code give it.    *)
THEOREM ServicesTypeCorrect == Spec => []ServicesTypeOK
<1>1. ASSUME ServicesInv
      PROVE  ServicesTypeOK
  <2>1. HandoffTypeOK
    BY <1>1, AttachingCount DEF ServicesInv, HandoffInv, HandoffTypes, CreatedInv, HandoffTypeOK
  <2> QED
    BY <1>1, <2>1 DEF ServicesInv, ServicesTypeOK, ActivityInv, BaselineInv, QueueInv,
        ApprovalInv, CountInv, CouponInv, ArchivalInv, SessionInv, KycInv
<1>2. ServicesInv => ServicesTypeOK
  BY <1>1
<1> QED
  BY <1>2, ServicesInvariance, PTL
===============================================================================
