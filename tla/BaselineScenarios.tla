--------------------------- MODULE BaselineScenarios ---------------------------
(***************************************************************************)
(* The versions of an activity's baseline scenario and the decisions of    *)
(* the operational entity on them (baseline-scenario.service.ts).  The     *)
(* verification of a period takes whichever version is APPROVED, and the   *)
(* baseline its caller sent when none is (verification.service.ts:141).    *)
(*                                                                         *)
(* A handler reads the version and checks its status; an approval then     *)
(* supersedes the other approved versions and approves its own in two      *)
(* separate writes.  One action is the code between two awaits.            *)
(***************************************************************************)
EXTENDS Naturals, FiniteSets

CONSTANTS
    Assessor,            \* concurrent calls
    MaxVersion           \* bound: versions created

ASSUME BaselineAssumption == IsFiniteSet(Assessor) /\ MaxVersion \in Nat

Version == 1..MaxVersion

VARIABLES
    scenario,            \* BaselineScenario.status of each version
    desk,                \* what a call has read and will do
    \* history
    contested,           \* two calls overlapped, one of them an approval
    unfinished           \* an approval was dropped between its two writes

baselineVars == <<scenario, desk, contested, unfinished>>

FreeDesk == [pc |-> "idle", version |-> 0]
OnDesk(pc, v) == [pc |-> pc, version |-> v]

BaselineTypeOK ==
    /\ scenario \in [Version -> {"none", "DRAFT", "SUBMITTED", "APPROVED",
                                 "REJECTED", "SUPERSEDED"}]
    /\ desk \in [Assessor -> [pc : {"idle", "create", "submit", "supersede",
                                    "approve", "reject"},
                              version : Version \cup {0}]]
    /\ contested \in BOOLEAN
    /\ unfinished \in BOOLEAN

BaselineInit ==
    /\ scenario = [v \in Version |-> "none"]
    /\ desk = [a \in Assessor |-> FreeDesk]
    /\ contested = FALSE
    /\ unfinished = FALSE

Approved == {v \in Version : scenario[v] = "APPROVED"}

Take(a, pc, v) ==
    /\ desk[a] = FreeDesk
    /\ desk' = [desk EXCEPT ![a] = OnDesk(pc, v)]

(* Whether a call that takes up pc runs at the same time as another, one of *)
(* the two an approval.                                                     *)
Approving == {"supersede", "approve"}
NoteContest(pc) ==
    contested' = (contested \/ \E a \in Assessor :
                     /\ desk[a].pc \in {"submit", "reject"} \cup Approving
                     /\ pc \in Approving \/ desk[a].pc \in Approving)

(* createScenario: the next version is read, (activityId, version) unique   *)
BeginCreate(a) ==
    /\ \E v \in Version :
        /\ scenario[v] = "none"
        /\ \A w \in Version : w < v => scenario[w] # "none"
        /\ Take(a, "create", v)
    /\ UNCHANGED <<scenario, contested, unfinished>>

Create(a) ==
    /\ desk[a].pc = "create"
    /\ scenario' = IF scenario[desk[a].version] = "none"
                   THEN [scenario EXCEPT ![desk[a].version] = "DRAFT"] ELSE scenario
    /\ desk' = [desk EXCEPT ![a] = FreeDesk]
    /\ UNCHANGED <<contested, unfinished>>

(* submitScenario, approveByDoe and rejectByDoe check the status they read  *)
BeginDecision(a, v, pc) ==
    /\ scenario[v] = IF pc = "submit" THEN "DRAFT" ELSE "SUBMITTED"
    /\ Take(a, pc, v)
    /\ NoteContest(pc)
    /\ UNCHANGED <<scenario, unfinished>>

(* Only versions before it, as the header of the service has it.            *)
EarlierSupersededBy(v) ==
    [w \in Version |-> IF w < v /\ scenario[w] = "APPROVED" THEN "SUPERSEDED"
                                                            ELSE scenario[w]]
SupersededBy(v) ==
    [w \in Version |-> IF w # v /\ scenario[w] = "APPROVED" THEN "SUPERSEDED"
                                                            ELSE scenario[w]]

Supersede(a) ==
    /\ desk[a].pc = "supersede"
    /\ scenario' = SupersededBy(desk[a].version)
    /\ desk' = [desk EXCEPT ![a].pc = "approve"]
    /\ UNCHANGED <<contested, unfinished>>

Decision(pc) ==
    CASE pc = "submit"  -> "SUBMITTED"
      [] pc = "approve" -> "APPROVED"
      [] pc = "reject"  -> "REJECTED"

Decide(a) ==
    /\ desk[a].pc \in {"submit", "approve", "reject"}
    /\ scenario' = [scenario EXCEPT ![desk[a].version] = Decision(desk[a].pc)]
    /\ desk' = [desk EXCEPT ![a] = FreeDesk]
    /\ UNCHANGED <<contested, unfinished>>

(* An await throws, or the process dies.                                    *)
DropDecision(a) ==
    /\ desk[a] # FreeDesk
    /\ unfinished' = (unfinished \/ desk[a].pc = "approve")
    /\ desk' = [desk EXCEPT ![a] = FreeDesk]
    /\ UNCHANGED <<scenario, contested>>

BaselineNext ==
    \E a \in Assessor :
        \/ BeginCreate(a)
        \/ Create(a)
        \/ \E v \in Version, pc \in {"submit", "supersede", "reject"} :
            BeginDecision(a, v, pc)
        \/ Supersede(a)
        \/ Decide(a)
        \/ DropDecision(a)

BaselineSpec == BaselineInit /\ [][BaselineNext]_baselineVars
-----------------------------------------------------------------------------
(* The verification finds the approved scenario, not one of several: at     *)
(* most one version is APPROVED, in whatever order the versions were        *)
(* approved, and once one was, one is until an approval is between its two  *)
(* writes.  Only overlapping decisions and an approval dropped there can    *)
(* break it (baseline-scenario.service.ts:160 runs no transaction).         *)
OneBaseline ==
    ~contested =>
        /\ Cardinality(Approved) <= 1
        /\ ~unfinished /\ (\E v \in Version : scenario[v] = "SUPERSEDED") =>
               \/ Approved # {}
               \/ \E a \in Assessor : desk[a].pc = "approve"
=============================================================================
