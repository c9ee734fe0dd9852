-------------------------------- MODULE Coupons --------------------------------
(***************************************************************************)
(* One signup coupon: its redemption in a transaction (coupon.service.ts,  *)
(* redeemCoupon), the administrator's changes to it, and the conversion of *)
(* a trial.  The database runs READ COMMITTED: an update waits for the     *)
(* transaction that holds the row, then looks at the committed row again;  *)
(* what a transaction read before may be old.                              *)
(***************************************************************************)
EXTENDS Naturals, FiniteSets

CONSTANTS
    Redeemer,            \* concurrent calls of redeemCoupon
    Email,               \* e-mail addresses
    CapValue,            \* values of maxRedemptions
    NoCap                \* unlimited

ASSUME CouponAssumption ==
    /\ IsFiniteSet(Redeemer) /\ IsFiniteSet(Email) /\ IsFiniteSet(CapValue)
    /\ CapValue \subseteq Nat
    /\ NoCap \notin Nat

VARIABLES
    cap,                 \* SignupCoupon.maxRedemptions
    active,              \* isActive, and today within validFrom..validUntil
    used,                \* SignupCoupon.currentRedemptions
    redemption,          \* CouponRedemption.trialStatus, unique on the e-mail
    redeem,              \* the transactions
    caps                 \* history: every cap there was

couponVars == <<cap, active, used, redemption, redeem, caps>>

NoRedeem == [pc |-> "idle", email |-> "none", cap |-> NoCap]

CouponTypeOK ==
    /\ cap \in CapValue \cup {NoCap}
    /\ active \in BOOLEAN
    /\ used \in Nat
    /\ redemption \in [Email -> {"none", "ACTIVE", "CONVERTED"}]
    /\ redeem \in [Redeemer -> [pc : {"idle", "checked", "counted"},
                                email : Email \cup {"none"},
                                cap : CapValue \cup {NoCap}]]
    /\ caps \subseteq CapValue \cup {NoCap}

CouponInit ==
    /\ cap \in CapValue \cup {NoCap}
    /\ active = TRUE
    /\ used = 0
    /\ redemption = [e \in Email |-> "none"]
    /\ redeem = [r \in Redeemer |-> NoRedeem]
    /\ caps = {cap}

(* No transaction holds the coupon's row.                                   *)
RowFree == \A r \in Redeemer : redeem[r].pc # "counted"

(* Steps 1 and 2: the coupon is read, the e-mail has no redemption.         *)
BeginRedeem(r, e) ==
    /\ redeem[r] = NoRedeem
    /\ active
    /\ redemption[e] = "none"
    /\ redeem' = [redeem EXCEPT ![r] = [pc |-> "checked", email |-> e, cap |-> cap]]
    /\ UNCHANGED <<cap, active, used, redemption, caps>>

(* Step 3: the guarded increment, visible to others when committed.         *)
BelowCapAlways(r) == TRUE
BelowCap(r) == redeem[r].cap = NoCap \/ used < redeem[r].cap

CountRedemption(r) ==
    /\ redeem[r].pc = "checked"
    /\ RowFree
    /\ redeem' = [redeem EXCEPT ![r] = IF BelowCap(r) THEN [@ EXCEPT !.pc = "counted"]
                                                      ELSE NoRedeem]
    /\ UNCHANGED <<cap, active, used, redemption, caps>>

(* Step 4: the row, unless the e-mail has one by now, and the commit.       *)
CommitRedemption(r) ==
    /\ redeem[r].pc = "counted"
    /\ IF redemption[redeem[r].email] = "none"
       THEN /\ used' = used + 1
            /\ redemption' = [redemption EXCEPT ![redeem[r].email] = "ACTIVE"]
       ELSE UNCHANGED <<used, redemption>>
    /\ redeem' = [redeem EXCEPT ![r] = NoRedeem]
    /\ UNCHANGED <<cap, active, caps>>

(* The transaction is rolled back.                                          *)
Rollback(r) ==
    /\ redeem[r] # NoRedeem
    /\ redeem' = [redeem EXCEPT ![r] = NoRedeem]
    /\ UNCHANGED <<cap, active, used, redemption, caps>>

(* updateCoupon, deactivateCoupon: the cap is not compared with the count   *)
UpdateCoupon(newCap, newActive) ==
    /\ RowFree
    /\ cap' = newCap
    /\ active' = newActive
    /\ caps' = caps \cup {newCap}
    /\ UNCHANGED <<used, redemption, redeem>>

MarkConverted(e) ==
    /\ redemption[e] = "ACTIVE"
    /\ redemption' = [redemption EXCEPT ![e] = "CONVERTED"]
    /\ UNCHANGED <<cap, active, used, redeem, caps>>

CouponNext ==
    \/ \E r \in Redeemer :
        \/ \E e \in Email : BeginRedeem(r, e)
        \/ CountRedemption(r)
        \/ CommitRedemption(r)
        \/ Rollback(r)
    \/ \E newCap \in CapValue \cup {NoCap}, newActive \in BOOLEAN :
        UpdateCoupon(newCap, newActive)
    \/ \E e \in Email : MarkConverted(e)

CouponSpec == CouponInit /\ [][CouponNext]_couponVars
-----------------------------------------------------------------------------
(* The counter is the number of redemptions, no e-mail has two, and they    *)
(* never exceed every cap the coupon has had, in whatever order the         *)
(* transactions of concurrent redemptions and of the administrator run.  A  *)
(* cap that was lowered may be exceeded: a redemption counts against the    *)
(* cap it has read (coupon.service.ts:288).                                 *)
Redeemed == {e \in Email : redemption[e] # "none"}
CapHolds ==
    /\ used = Cardinality(Redeemed)
    /\ NoCap \notin caps => \E c \in caps : used <= c
=============================================================================
