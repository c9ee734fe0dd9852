----------------------------- MODULE ActivityCycle -----------------------------
(***************************************************************************)
(* How an activity comes to be registered and its periods verified: the    *)
(* design documents (pdd.service.ts, monitoring.service.ts), validation    *)
(* and verification by an operational entity (verification.service.ts),    *)
(* the host's letter of authorization (host-authorization.service.ts) and  *)
(* the status transitions (activity.service.ts).  CreditLedger goes on     *)
(* from here.                                                              *)
(*                                                                         *)
(* Every handler checks a status it has read and writes the next one after *)
(* another await, unconditionally.  One action is the code between two     *)
(* awaits; visit[c] is what a call has read.  Where a row can only grow    *)
(* (a design document appears, then is locked) check and write are one     *)
(* action: nothing can invalidate the check.                               *)
(***************************************************************************)
EXTENDS FiniteSets

CONSTANTS
    Clerk,               \* concurrent calls
    MonPeriod,           \* monitoring periods the activity may get
    Opinion              \* DoeOpinion

ASSUME ActivityAssumption ==
    /\ IsFiniteSet(Clerk) /\ IsFiniteSet(MonPeriod)
    /\ Opinion \subseteq {"POSITIVE", "NEGATIVE", "CONDITIONAL"}

VARIABLES
    activity,            \* Activity.status
    pdd,                 \* "none", "draft", or "locked" once submittedAt is set
    plan,                \* a MonitoringPlan exists
    validation,          \* ValidationReport.opinion, unique on the activity
    letter,              \* HostAuthorization.status, unique on the activity
    period,              \* MonitoringPeriod.status
    verification,        \* VerificationReport.opinion, unique on the period
    anchored,            \* reports with a dmrvAttestationId
    visit                \* what a call has read and will do

documents == <<pdd, plan>>
reports == <<validation, verification, anchored>>
activityVars == <<activity, documents, reports, letter, period, visit>>

ActivityStatus == {"DRAFT", "SUBMITTED", "VALIDATING", "AWAITING_HOST",
                   "REGISTERED", "CLOSED", "REJECTED"}

Away == [pc |-> "idle", to |-> "DRAFT", period |-> "none", opinion |-> "none",
         existed |-> FALSE]

ActivityTypeOK ==
    /\ activity \in ActivityStatus
    /\ pdd \in {"none", "draft", "locked"}
    /\ plan \in BOOLEAN
    /\ validation \in Opinion \cup {"none"}
    /\ letter \in {"none", "ISSUED", "REVOKED"}
    /\ period \in [MonPeriod -> {"none", "OPEN", "SUBMITTED", "VERIFIED", "REJECTED"}]
    /\ verification \in [MonPeriod -> Opinion \cup {"none"}]
    /\ anchored \subseteq MonPeriod
    /\ visit \in [Clerk -> [pc : {"idle", "transition", "move", "createValidation",
                                  "readLetter", "writeLetter", "writeRevoked",
                                  "submitPeriod", "createVerification",
                                  "movePeriod", "anchor"},
                            to : ActivityStatus, period : MonPeriod \cup {"none"},
                            opinion : Opinion \cup {"none"}, existed : BOOLEAN]]

(* After createActivity.                                                    *)
ActivityInit ==
    /\ activity = "DRAFT"
    /\ pdd = "none"
    /\ plan = FALSE
    /\ validation = "none"
    /\ letter = "none"
    /\ period = [p \in MonPeriod |-> "none"]
    /\ verification = [p \in MonPeriod |-> "none"]
    /\ anchored = {}
    /\ visit = [c \in Clerk |-> Away]

Arrive(c, local) == visit[c] = Away /\ visit' = [visit EXCEPT ![c] = local]
At(c, pc) == visit[c].pc = pc
GoOn(c, pc) == visit' = [visit EXCEPT ![c].pc = pc]
Leave(c) == visit' = [visit EXCEPT ![c] = Away]
-----------------------------------------------------------------------------
(* Design documents.                                                        *)
UpsertPdd ==
    /\ pdd = "none"
    /\ pdd' = "draft"
    /\ UNCHANGED <<activity, plan, reports, letter, period, visit>>

SubmitPdd ==
    /\ pdd = "draft"
    /\ pdd' = "locked"
    /\ UNCHANGED <<activity, plan, reports, letter, period, visit>>

UpsertMonitoringPlan ==
    /\ ~plan
    /\ plan' = TRUE
    /\ UNCHANGED <<activity, pdd, reports, letter, period, visit>>
-----------------------------------------------------------------------------
(* Status transitions: assertStatus, then transition.                       *)
MayMove(to) ==
    CASE to = "SUBMITTED"     -> activity = "DRAFT" /\ pdd # "none" /\ plan
      [] to = "VALIDATING"    -> activity = "SUBMITTED"
      [] to = "AWAITING_HOST" -> activity = "VALIDATING"
      [] to = "REGISTERED"    -> activity = "AWAITING_HOST" /\ letter = "ISSUED"
      [] to \in {"CLOSED", "REJECTED"} -> TRUE

(* submitActivity, startValidation, closeActivity, rejectActivity           *)
BeginMove(c, to) ==
    /\ MayMove(to)
    /\ Arrive(c, [Away EXCEPT !.pc = "move", !.to = to])
    /\ UNCHANGED <<activity, documents, reports, letter, period>>

(* markValidated, rejectActivity, markRegistered called by another handler  *)
CallTransition(c) ==
    /\ At(c, "transition")
    /\ IF MayMove(visit[c].to) THEN GoOn(c, "move") ELSE Leave(c)
    /\ UNCHANGED <<activity, documents, reports, letter, period>>

Move(c) ==
    /\ At(c, "move")
    /\ activity' = visit[c].to
    /\ Leave(c)
    /\ UNCHANGED <<documents, reports, letter, period>>
-----------------------------------------------------------------------------
(* submitValidationReport                                                   *)
BeginValidation(c, opinion) ==
    /\ activity = "VALIDATING"
    /\ validation = "none"
    /\ Arrive(c, [Away EXCEPT !.pc = "createValidation", !.opinion = opinion])
    /\ UNCHANGED <<activity, documents, reports, letter, period>>

(* A second report, as without the unique index on activityId.              *)
ValidationReportAgain(c) ==
    /\ validation' = visit[c].opinion
    /\ visit' = [visit EXCEPT ![c].pc = "transition",
                   ![c].to = IF visit[c].opinion = "POSITIVE" THEN "AWAITING_HOST"
                                                              ELSE "REJECTED"]

ValidationReport(c) ==
    IF validation = "none"
    THEN /\ validation' = visit[c].opinion
         /\ visit' = [visit EXCEPT ![c].pc = "transition",
                        ![c].to = IF visit[c].opinion = "POSITIVE"
                                  THEN "AWAITING_HOST" ELSE "REJECTED"]
    ELSE Leave(c) /\ UNCHANGED validation

CreateValidation(c) ==
    /\ At(c, "createValidation")
    /\ ValidationReport(c)
    /\ UNCHANGED <<activity, documents, verification, anchored, letter, period>>

(* issueAuthorization                                                       *)
BeginLetter(c) ==
    /\ activity = "AWAITING_HOST"
    /\ Arrive(c, [Away EXCEPT !.pc = "readLetter"])
    /\ UNCHANGED <<activity, documents, reports, letter, period>>

ReadLetter(c) ==
    /\ At(c, "readLetter")
    /\ IF letter = "ISSUED" THEN Leave(c)
       ELSE visit' = [visit EXCEPT ![c].pc = "writeLetter",
                                   ![c].existed = letter # "none"]
    /\ UNCHANGED <<activity, documents, reports, letter, period>>

WriteLetter(c) ==
    /\ At(c, "writeLetter")
    /\ IF visit[c].existed \/ letter = "none"
       THEN /\ letter' = "ISSUED"
            /\ visit' = [visit EXCEPT ![c].pc = "transition", ![c].to = "REGISTERED"]
       ELSE Leave(c) /\ UNCHANGED letter
    /\ UNCHANGED <<activity, documents, reports, period>>

(* revokeAuthorization: it is also refused after a first transfer, here a   *)
(* call that is dropped                                                     *)
BeginRevoke(c) ==
    /\ letter = "ISSUED"
    /\ Arrive(c, [Away EXCEPT !.pc = "writeRevoked"])
    /\ UNCHANGED <<activity, documents, reports, letter, period>>

WriteRevoked(c) ==
    /\ At(c, "writeRevoked")
    /\ letter' = "REVOKED"
    /\ Leave(c)
    /\ UNCHANGED <<activity, documents, reports, period>>
-----------------------------------------------------------------------------
(* Monitoring periods and their verification; none of it looks at the       *)
(* activity's status.                                                       *)
CreatePeriod(p) ==
    /\ period[p] = "none"
    /\ period' = [period EXCEPT ![p] = "OPEN"]
    /\ UNCHANGED <<activity, documents, reports, letter, visit>>

BeginSubmitPeriod(c, p) ==
    /\ period[p] = "OPEN"
    /\ Arrive(c, [Away EXCEPT !.pc = "submitPeriod", !.period = p])
    /\ UNCHANGED <<activity, documents, reports, letter, period>>

SubmitPeriod(c) ==
    /\ At(c, "submitPeriod")
    /\ period' = [period EXCEPT ![visit[c].period] = "SUBMITTED"]
    /\ Leave(c)
    /\ UNCHANGED <<activity, documents, reports, letter>>

(* submitVerificationReport                                                 *)
BeginVerification(c, p, opinion) ==
    /\ period[p] = "SUBMITTED"
    /\ verification[p] = "none"
    /\ Arrive(c, [Away EXCEPT !.pc = "createVerification", !.period = p,
                              !.opinion = opinion])
    /\ UNCHANGED <<activity, documents, reports, letter, period>>

CreateVerification(c) ==
    /\ At(c, "createVerification")
    /\ IF verification[visit[c].period] = "none"
       THEN /\ verification' = [verification EXCEPT ![visit[c].period] = visit[c].opinion]
            /\ GoOn(c, "movePeriod")
       ELSE Leave(c) /\ UNCHANGED verification
    /\ UNCHANGED <<activity, documents, validation, anchored, letter, period>>

(* Only an outright NEGATIVE rejects.                                       *)
ConditionalPasses(opinion) == IF opinion = "NEGATIVE" THEN "REJECTED" ELSE "VERIFIED"
Verdict(opinion) == IF opinion = "POSITIVE" THEN "VERIFIED" ELSE "REJECTED"

MovePeriod(c) ==
    /\ At(c, "movePeriod")
    /\ period' = [period EXCEPT ![visit[c].period] = Verdict(visit[c].opinion)]
    /\ IF visit[c].opinion = "POSITIVE" THEN GoOn(c, "anchor") ELSE Leave(c)
    /\ UNCHANGED <<activity, documents, reports, letter>>

(* A failed attestation is swallowed: the call ends as if dropped.          *)
Anchor(c) ==
    /\ At(c, "anchor")
    /\ anchored' = anchored \cup {visit[c].period}
    /\ Leave(c)
    /\ UNCHANGED <<activity, documents, validation, verification, letter, period>>

(* An await throws, or the process dies.                                    *)
DropVisit(c) ==
    /\ ~At(c, "idle")
    /\ Leave(c)
    /\ UNCHANGED <<activity, documents, reports, letter, period>>
-----------------------------------------------------------------------------
ClerkStep(c) ==
    \/ \E to \in {"SUBMITTED", "VALIDATING", "CLOSED", "REJECTED"} : BeginMove(c, to)
    \/ CallTransition(c)
    \/ Move(c)
    \/ \E opinion \in Opinion : BeginValidation(c, opinion)
    \/ CreateValidation(c)
    \/ BeginLetter(c)
    \/ ReadLetter(c)
    \/ WriteLetter(c)
    \/ BeginRevoke(c)
    \/ WriteRevoked(c)
    \/ \E p \in MonPeriod : BeginSubmitPeriod(c, p)
    \/ SubmitPeriod(c)
    \/ \E p \in MonPeriod, opinion \in Opinion : BeginVerification(c, p, opinion)
    \/ CreateVerification(c)
    \/ MovePeriod(c)
    \/ Anchor(c)
    \/ DropVisit(c)

ActivityNext ==
    \/ UpsertPdd \/ SubmitPdd \/ UpsertMonitoringPlan
    \/ \E p \in MonPeriod : CreatePeriod(p)
    \/ \E c \in Clerk : ClerkStep(c)

ActivitySpec == ActivityInit /\ [][ActivityNext]_activityVars
-----------------------------------------------------------------------------
(* No status without its evidence, however late writes of overlapping calls *)
(* and stale submissions throw it back and forth: an activity is REGISTERED *)
(* only with its documents, a positive validation and a letter that was     *)
(* issued (activity.service.ts:225); a VERIFIED or anchored period has a    *)
(* positive report and a REJECTED one another (verification.service.ts:187).*)
StatusHasEvidence ==
    /\ activity = "REGISTERED" =>
        /\ pdd # "none" /\ plan
        /\ validation = "POSITIVE"
        /\ letter # "none"
    /\ \A p \in MonPeriod :
        /\ period[p] = "VERIFIED" => verification[p] = "POSITIVE"
        /\ period[p] = "REJECTED" => verification[p] \notin {"none", "POSITIVE"}
        /\ p \in anchored => verification[p] = "POSITIVE"
=============================================================================
