------------------------------- MODULE KycChecks -------------------------------
(***************************************************************************)
(* The KYC verifications of one subject: the vendor's record of each, the  *)
(* KycVerification row that follows it, the calls that start, refresh and  *)
(* revoke them or name a beneficiary (kyc.service.ts), and what a          *)
(* retirement asks of the row (retirement.service.ts).  A call asks the    *)
(* vendor and writes the row after another await; one action is the code   *)
(* between two awaits.                                                     *)
(* The vendor is what kyc-adapter.ts describes: it does to a record what   *)
(* mock-kyc-adapter.ts does, and finds it by the reference it gave (the    *)
(* mock looks under another key and refuses: a call that fails there).     *)
(***************************************************************************)
EXTENDS FiniteSets

CONSTANTS
    Verification,
    KycCall              \* concurrent calls of the service

ASSUME KycAssumption == IsFiniteSet(Verification) /\ IsFiniteSet(KycCall)

VARIABLES
    vendor,              \* the vendor's status of each verification
    check,               \* KycVerification.status, "none" without a row
    named,               \* rows with a beneficiaryRef
    kycCall,             \* where a call is, its verification and the vendor's answer
    \* history
    crossed,             \* a refresh held an older answer when the vendor revoked
    swallowed            \* a call was dropped after the vendor applied it

kycVars == <<vendor, check, named, kycCall, crossed, swallowed>>

KycStatus == {"none", "PENDING", "APPROVED", "REJECTED", "REVOKED"}
NoKycCall == [pc |-> "idle", id |-> "none", answer |-> "none"]

KycTypeOK ==
    /\ vendor \in [Verification -> KycStatus]
    /\ check \in [Verification -> KycStatus]
    /\ named \subseteq Verification
    /\ kycCall \in [KycCall -> [pc : {"idle", "createRow", "refresh", "writeBeneficiary",
                                      "markRevoked"},
                                id : Verification \cup {"none"}, answer : KycStatus]]
    /\ crossed \subseteq Verification
    /\ swallowed \subseteq Verification

KycInit ==
    /\ vendor = [k \in Verification |-> "none"]
    /\ check = [k \in Verification |-> "none"]
    /\ named = {}
    /\ kycCall = [c \in KycCall |-> NoKycCall]
    /\ crossed = {}
    /\ swallowed = {}

KycGoes(c, pc, k, answer) ==
    kycCall' = [kycCall EXCEPT ![c] = [pc |-> pc, id |-> k, answer |-> answer]]
KycEnds(c) == kycCall' = [kycCall EXCEPT ![c] = NoKycCall]

(* startVerification: refused while one of the subject is active            *)
StartVerification(c, k) ==
    /\ kycCall[c] = NoKycCall
    /\ vendor[k] = "none"
    /\ \A other \in Verification : vendor[other] \notin {"PENDING", "APPROVED"}
    /\ vendor' = [vendor EXCEPT ![k] = "PENDING"]
    /\ KycGoes(c, "createRow", k, "PENDING")
    /\ UNCHANGED <<check, named, crossed, swallowed>>

CreateRow(c) ==
    /\ kycCall[c].pc = "createRow"
    /\ check' = [check EXCEPT ![kycCall[c].id] = kycCall[c].answer]
    /\ KycEnds(c)
    /\ UNCHANGED <<vendor, named, crossed, swallowed>>

(* The vendor decides.                                                      *)
VendorDecides(k, decision) ==
    /\ vendor[k] = "PENDING"
    /\ vendor' = [vendor EXCEPT ![k] = decision]
    /\ UNCHANGED <<check, named, kycCall, crossed, swallowed>>

(* getVerification: the vendor's answer overwrites the row                  *)
AskStatus(c, k) ==
    /\ kycCall[c] = NoKycCall
    /\ check[k] # "none"
    /\ KycGoes(c, "refresh", k, vendor[k])
    /\ UNCHANGED <<vendor, check, named, crossed, swallowed>>

RefreshRow(c) ==
    /\ kycCall[c].pc = "refresh"
    /\ check' = [check EXCEPT ![kycCall[c].id] = kycCall[c].answer]
    /\ KycEnds(c)
    /\ UNCHANGED <<vendor, named, crossed, swallowed>>

(* markBeneficiaryVerified: the vendor takes approved verifications only    *)
AskBeneficiary(c, k) ==
    /\ kycCall[c] = NoKycCall
    /\ check[k] # "none"
    /\ vendor[k] = "APPROVED"
    /\ KycGoes(c, "writeBeneficiary", k, "APPROVED")
    /\ UNCHANGED <<vendor, check, named, crossed, swallowed>>

WriteBeneficiary(c) ==
    /\ kycCall[c].pc = "writeBeneficiary"
    /\ named' = named \cup {kycCall[c].id}
    /\ KycEnds(c)
    /\ UNCHANGED <<vendor, check, crossed, swallowed>>

(* revokeVerification: the vendor refuses a second revocation               *)
Revoke(c, k) ==
    /\ kycCall[c] = NoKycCall
    /\ check[k] # "none"
    /\ vendor[k] # "REVOKED"
    /\ vendor' = [vendor EXCEPT ![k] = "REVOKED"]
    /\ KycGoes(c, "markRevoked", k, "REVOKED")
    /\ crossed' = IF \E d \in KycCall : kycCall[d].pc = "refresh" /\ kycCall[d].id = k
                  THEN crossed \cup {k} ELSE crossed
    /\ UNCHANGED <<check, named, swallowed>>

(* The row keeps its status and only gets revokedAt.                        *)
RevokedKeepsStatus(k) == check[k]
RevokedStatus(k) == "REVOKED"

MarkRevoked(c) ==
    /\ kycCall[c].pc = "markRevoked"
    /\ check' = [check EXCEPT ![kycCall[c].id] = RevokedStatus(kycCall[c].id)]
    /\ KycEnds(c)
    /\ UNCHANGED <<vendor, named, crossed, swallowed>>

(* The write of the row fails and is swallowed, or the process dies.        *)
DropKycCall(c) ==
    /\ kycCall[c] # NoKycCall
    /\ swallowed' = IF kycCall[c].pc = "markRevoked" THEN swallowed \cup {kycCall[c].id}
                                                     ELSE swallowed
    /\ KycEnds(c)
    /\ UNCHANGED <<vendor, check, named, crossed>>

KycNext ==
    \/ \E c \in KycCall :
        \/ \E k \in Verification : StartVerification(c, k) \/ AskStatus(c, k) \/ Revoke(c, k)
        \/ \E k \in Verification : AskBeneficiary(c, k)
        \/ CreateRow(c) \/ RefreshRow(c) \/ WriteBeneficiary(c) \/ MarkRevoked(c)
        \/ DropKycCall(c)
    \/ \E k \in Verification, decision \in {"APPROVED", "REJECTED"} : VendorDecides(k, decision)

KycSpec == KycInit /\ [][KycNext]_kycVars
-----------------------------------------------------------------------------
(* verifyKyc: the row lets a retirement for its beneficiary through.        *)
LetsRetire(k) == check[k] = "APPROVED" /\ k \in named

(* A retirement is let through only on a verification the vendor has        *)
(* approved and not revoked, and on one of the subject's at most, up to the *)
(* moment in which a revocation's own call has still to mark the row;       *)
(* unless a refresh overlapped the revocation and wrote the older answer,   *)
(* or the write of the row was swallowed, which no second revocation        *)
(* repairs (kyc.service.ts:404).                                            *)
RevocationSticks ==
    LET sound == Verification \ (crossed \cup swallowed)
        Marking(k) == \E c \in KycCall : /\ kycCall[c].pc = "markRevoked"
                                         /\ kycCall[c].id = k
    IN /\ \A k \in sound : LetsRetire(k) => vendor[k] = "APPROVED" \/ Marking(k)
       /\ \A k \in sound : vendor[k] = "REVOKED" => check[k] = "REVOKED" \/ Marking(k)
       /\ \A k, other \in sound :
            LetsRetire(k) /\ LetsRetire(other) /\ k # other =>
                Marking(k) \/ Marking(other)
=============================================================================
