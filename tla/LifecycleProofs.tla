---------------------------- MODULE LifecycleProofs ----------------------------
(***************************************************************************)
(* Proofs about the services in which a call checks a status, awaits, and  *)
(* then writes: the activity cycle, the baseline scenarios and the KYC     *)
(* checks, for any number of concurrent calls.                             *)
(***************************************************************************)
EXTENDS ActivityCycle, BaselineScenarios, KycChecks, FiniteSetTheorems, TLAPS

(***************************************************************************)
(* The activity cycle.  A status needs evidence; evidence is only added,   *)
(* so a call that has checked it may write its status however late.        *)
(***************************************************************************)
Documented == pdd # "none" /\ plan

Evidence(status) ==
    /\ status \in {"SUBMITTED", "VALIDATING", "AWAITING_HOST", "REGISTERED"} => Documented
    /\ status \in {"AWAITING_HOST", "REGISTERED"} => validation = "POSITIVE"
    /\ status = "REGISTERED" => letter # "none"

(* What a call carries while it awaits.                                     *)
VisitOK(c) ==
    /\ visit[c].pc = "move" => Evidence(visit[c].to)
    /\ visit[c].pc = "transition" =>
          /\ visit[c].to \in {"AWAITING_HOST", "REJECTED", "REGISTERED"}
          /\ visit[c].to = "AWAITING_HOST" => validation = "POSITIVE"
          /\ visit[c].to = "REGISTERED" => letter # "none"
    /\ visit[c].pc \in {"submitPeriod", "createVerification", "movePeriod", "anchor"} =>
          visit[c].period \in MonPeriod
    /\ visit[c].pc \in {"createValidation", "createVerification", "movePeriod"} =>
          visit[c].opinion \in Opinion
    /\ visit[c].pc = "movePeriod" => verification[visit[c].period] = visit[c].opinion
    /\ visit[c].pc = "anchor" => verification[visit[c].period] = "POSITIVE"

PeriodEvidence ==
    \A p \in MonPeriod :
        /\ period[p] = "VERIFIED" => verification[p] = "POSITIVE"
        /\ period[p] = "REJECTED" => verification[p] \notin {"none", "POSITIVE"}
        /\ p \in anchored => verification[p] = "POSITIVE"

ActivityInv ==
    /\ ActivityTypeOK
    /\ Evidence(activity)
    /\ \A c \in Clerk : VisitOK(c)
    /\ PeriodEvidence

(* No step takes evidence back.                                             *)
EvidenceStays ==
    /\ Documented => Documented'
    /\ validation # "none" => validation' = validation
    /\ letter # "none" => letter' # "none"
    /\ \A p \in MonPeriod : verification[p] # "none" => verification'[p] = verification[p]

VisitRow == [pc : {"idle", "transition", "move", "createValidation", "readLetter",
                   "writeLetter", "writeRevoked", "submitPeriod", "createVerification",
                   "movePeriod", "anchor"},
             to : ActivityStatus, period : MonPeriod \cup {"none"},
             opinion : Opinion \cup {"none"}, existed : BOOLEAN]

LEMMA ActivityTypes ==
    ASSUME ActivityTypeOK
    PROVE  /\ visit \in [Clerk -> VisitRow] /\ activity \in ActivityStatus
           /\ verification \in [MonPeriod -> Opinion \cup {"none"}]
           /\ "none" \notin Opinion
  BY ActivityAssumption DEF ActivityTypeOK, VisitRow

LEMMA ActivityCases ==
    ASSUME [ActivityNext]_activityVars
    PROVE  \/ UNCHANGED activityVars
           \/ UpsertPdd \/ SubmitPdd \/ UpsertMonitoringPlan
           \/ \E p \in MonPeriod : CreatePeriod(p)
           \/ \E c \in Clerk : ClerkStep(c)
  BY DEF ActivityNext

LEMMA EvidenceIsKept ==
    ASSUME ActivityInv, [ActivityNext]_activityVars
    PROVE  EvidenceStays
<1>1. ActivityTypeOK
  BY DEF ActivityInv
<1>2. CASE UNCHANGED activityVars
  BY <1>2 DEF activityVars, documents, reports, EvidenceStays, Documented
<1>3. CASE UpsertPdd \/ SubmitPdd \/ UpsertMonitoringPlan
  BY <1>3 DEF UpsertPdd, SubmitPdd, UpsertMonitoringPlan, reports, EvidenceStays, Documented
<1>4. ASSUME NEW p \in MonPeriod, CreatePeriod(p) PROVE EvidenceStays
  BY <1>4 DEF CreatePeriod, documents, reports, EvidenceStays, Documented
<1>5. ASSUME NEW c \in Clerk, ClerkStep(c) PROVE EvidenceStays
  <2>1. UNCHANGED documents
    BY <1>5 DEF ClerkStep, BeginMove, CallTransition, Move, BeginValidation, CreateValidation,
       BeginLetter, ReadLetter, WriteLetter, BeginRevoke, WriteRevoked, BeginSubmitPeriod,
       SubmitPeriod, BeginVerification, CreateVerification, MovePeriod, Anchor, DropVisit
  <2>2. UNCHANGED validation \/ validation = "none"
    BY <1>5 DEF ClerkStep, BeginMove, CallTransition, Move, BeginValidation, CreateValidation,
       ValidationReport, BeginLetter, ReadLetter, WriteLetter, BeginRevoke, WriteRevoked,
       BeginSubmitPeriod, SubmitPeriod, BeginVerification, CreateVerification, MovePeriod,
       Anchor, DropVisit, reports
  <2>3. UNCHANGED letter \/ letter' \in {"ISSUED", "REVOKED"}
    BY <1>5 DEF ClerkStep, BeginMove, CallTransition, Move, BeginValidation, CreateValidation,
       BeginLetter, ReadLetter, WriteLetter, BeginRevoke, WriteRevoked, BeginSubmitPeriod,
       SubmitPeriod, BeginVerification, CreateVerification, MovePeriod, Anchor, DropVisit
  <2>4. \/ UNCHANGED verification
        \/ /\ verification[visit[c].period] = "none"
           /\ verification' = [verification EXCEPT ![visit[c].period] = visit[c].opinion]
    BY <1>5 DEF ClerkStep, BeginMove, CallTransition, Move, BeginValidation, CreateValidation,
       BeginLetter, ReadLetter, WriteLetter, BeginRevoke, WriteRevoked, BeginSubmitPeriod,
       SubmitPeriod, BeginVerification, CreateVerification, MovePeriod, Anchor, DropVisit,
       reports
  <2>5. ASSUME NEW p \in MonPeriod, verification[p] # "none"
        PROVE  verification'[p] = verification[p]
    BY <1>1, <2>4, <2>5 DEF ActivityTypeOK
  <2> QED
    BY <2>1, <2>2, <2>3, <2>5 DEF documents, EvidenceStays, Documented
<1> QED
  BY ActivityCases, <1>2, <1>3, <1>4, <1>5

(* So what a call carries stays true while others run.                      *)
LEMMA VisitOKStays ==
    ASSUME ActivityInv, EvidenceStays, NEW c \in Clerk, UNCHANGED visit[c]
    PROVE  VisitOK(c)'
<1>1. VisitOK(c) /\ "none" \notin Opinion
  BY ActivityAssumption DEF ActivityInv
<1> QED
  BY <1>1 DEF VisitOK, Evidence, EvidenceStays

LEMMA EvidenceKept ==
    ASSUME EvidenceStays, NEW status, Evidence(status)
    PROVE  Evidence(status)'
  BY DEF Evidence, EvidenceStays

LEMMA ActivityInvInit ==
    ASSUME ActivityInit
    PROVE  ActivityInv
<1>1. ActivityTypeOK
  BY DEF ActivityInit, ActivityTypeOK, ActivityStatus, Away
<1>2. Evidence(activity) /\ PeriodEvidence
  BY DEF ActivityInit, Evidence, PeriodEvidence
<1>3. \A c \in Clerk : VisitOK(c)
  BY DEF ActivityInit, VisitOK, Away
<1> QED
  BY <1>1, <1>2, <1>3 DEF ActivityInv

(* One step of a call, for the call itself.                                 *)
LEMMA VisitStep ==
    ASSUME ActivityInv, EvidenceStays, NEW c \in Clerk, ClerkStep(c)
    PROVE  VisitOK(c)'
<1>1. /\ visit \in [Clerk -> VisitRow] /\ visit[c] \in VisitRow /\ VisitOK(c)
      /\ verification \in [MonPeriod -> Opinion \cup {"none"}]
      /\ "none" \notin Opinion
  BY ActivityTypes DEF ActivityInv
<1>2. ASSUME Leave(c) PROVE VisitOK(c)'
  BY <1>1, <1>2 DEF Leave, VisitOK, Away
<1>3. ASSUME NEW to, BeginMove(c, to), to \in {"SUBMITTED", "VALIDATING", "CLOSED", "REJECTED"}
      PROVE  VisitOK(c)'
  <2>1. visit'[c].pc = "move" /\ visit'[c].to = to
    BY <1>1, <1>3 DEF BeginMove, Arrive, Away
  <2>2. Evidence(to)
    BY <1>3 DEF BeginMove, MayMove, Evidence, Documented, ActivityInv
  <2>3. Evidence(to)'
    BY <2>2, EvidenceKept
  <2> QED
    BY <2>1, <2>3 DEF VisitOK, Evidence, Documented
<1>4. CASE CallTransition(c)
  <2>1. CASE MayMove(visit[c].to)
    <3>1. PICK to : to = visit[c].to
      OBVIOUS
    <3>2. visit'[c].pc = "move" /\ visit'[c].to = to
      BY <1>1, <1>4, <2>1, <3>1 DEF CallTransition, GoOn, VisitRow
    <3>3. Evidence(to)
      BY <1>1, <1>4, <2>1, <3>1
         DEF CallTransition, At, VisitOK, MayMove, Evidence, Documented, ActivityInv
    <3>4. Evidence(to)'
      BY <3>3, EvidenceKept
    <3> QED
      BY <3>2, <3>4 DEF VisitOK, Evidence, Documented
  <2>2. CASE ~MayMove(visit[c].to)
    BY <1>2, <1>4, <2>2 DEF CallTransition
  <2> QED
    BY <2>1, <2>2
<1>5. ASSUME NEW opinion \in Opinion, BeginValidation(c, opinion) PROVE VisitOK(c)'
  BY <1>1, <1>5 DEF BeginValidation, Arrive, Away, VisitOK
<1>6. CASE CreateValidation(c)
  <2>1. CASE validation = "none"
    BY <1>1, <1>6, <2>1 DEF CreateValidation, ValidationReport, At, VisitRow, VisitOK
  <2>2. CASE validation # "none"
    BY <1>2, <1>6, <2>2 DEF CreateValidation, ValidationReport
  <2> QED
    BY <2>1, <2>2
<1>7. CASE BeginLetter(c) \/ BeginRevoke(c)
  BY <1>1, <1>7 DEF BeginLetter, BeginRevoke, Arrive, Away, VisitOK
<1>8. CASE ReadLetter(c)
  <2>1. CASE letter = "ISSUED"
    BY <1>2, <1>8, <2>1 DEF ReadLetter
  <2>2. CASE letter # "ISSUED"
    BY <1>1, <1>8, <2>2 DEF ReadLetter, VisitRow, VisitOK
  <2> QED
    BY <2>1, <2>2
<1>9. CASE WriteLetter(c)
  <2>1. CASE visit[c].existed \/ letter = "none"
    BY <1>1, <1>9, <2>1 DEF WriteLetter, VisitRow, VisitOK
  <2>2. CASE ~(visit[c].existed \/ letter = "none")
    BY <1>2, <1>9, <2>2 DEF WriteLetter
  <2> QED
    BY <2>1, <2>2
<1>10. ASSUME NEW p \in MonPeriod, BeginSubmitPeriod(c, p) PROVE VisitOK(c)'
  BY <1>1, <1>10 DEF BeginSubmitPeriod, Arrive, Away, VisitOK
<1>11. ASSUME NEW p \in MonPeriod, NEW opinion \in Opinion, BeginVerification(c, p, opinion)
       PROVE  VisitOK(c)'
  BY <1>1, <1>11 DEF BeginVerification, Arrive, Away, VisitOK
<1>12. CASE CreateVerification(c)
  <2>1. CASE verification[visit[c].period] = "none"
    BY <1>1, <1>12, <2>1 DEF CreateVerification, At, GoOn, VisitRow, VisitOK
  <2>2. CASE verification[visit[c].period] # "none"
    BY <1>2, <1>12, <2>2 DEF CreateVerification
  <2> QED
    BY <2>1, <2>2
<1>13. CASE MovePeriod(c)
  <2>1. CASE visit[c].opinion = "POSITIVE"
    <3>1. UNCHANGED verification
      BY <1>13 DEF MovePeriod, reports
    <3> QED
      BY <1>1, <1>13, <2>1, <3>1 DEF MovePeriod, At, GoOn, VisitRow, VisitOK
  <2>2. CASE visit[c].opinion # "POSITIVE"
    BY <1>2, <1>13, <2>2 DEF MovePeriod
  <2> QED
    BY <2>1, <2>2
<1>14. CASE Move(c) \/ WriteRevoked(c) \/ SubmitPeriod(c) \/ Anchor(c) \/ DropVisit(c)
  BY <1>2, <1>14 DEF Move, WriteRevoked, SubmitPeriod, Anchor, DropVisit
<1> QED
  BY <1>3, <1>4, <1>5, <1>6, <1>7, <1>8, <1>9, <1>10, <1>11, <1>12, <1>13, <1>14
     DEF ClerkStep

LEMMA VisitRows ==
    ASSUME ActivityInv, NEW c \in Clerk, ClerkStep(c)
    PROVE  visit' \in [Clerk -> VisitRow]
<1> DEFINE VisitsOK == visit' \in [Clerk -> VisitRow]
<1>1. visit \in [Clerk -> VisitRow] /\ visit[c] \in VisitRow /\ VisitOK(c)
  BY ActivityTypes DEF ActivityInv
<1>2. Away \in VisitRow
  BY DEF Away, VisitRow, ActivityStatus
<1>3. ASSUME NEW v \in VisitRow, visit' = [visit EXCEPT ![c] = v] PROVE VisitsOK
  BY <1>1, <1>3
<1>4. ASSUME NEW v \in VisitRow, Arrive(c, v) PROVE VisitsOK
  BY <1>3, <1>4 DEF Arrive
<1>5. ASSUME Leave(c) PROVE VisitsOK
  BY <1>2, <1>3, <1>5 DEF Leave
<1>6. ASSUME NEW pc \in {"move", "movePeriod", "anchor"}, GoOn(c, pc) PROVE VisitsOK
  BY <1>1, <1>6 DEF GoOn, VisitRow
<1>7. /\ \A to \in ActivityStatus : [Away EXCEPT !.pc = "move", !.to = to] \in VisitRow
      /\ \A opinion \in Opinion :
            [Away EXCEPT !.pc = "createValidation", !.opinion = opinion] \in VisitRow
      /\ [Away EXCEPT !.pc = "readLetter"] \in VisitRow
      /\ [Away EXCEPT !.pc = "writeRevoked"] \in VisitRow
      /\ \A p \in MonPeriod : [Away EXCEPT !.pc = "submitPeriod", !.period = p] \in VisitRow
      /\ \A p \in MonPeriod, opinion \in Opinion :
            [Away EXCEPT !.pc = "createVerification", !.period = p, !.opinion = opinion] \in VisitRow
  BY DEF Away, VisitRow, ActivityStatus
<1>8. CASE \E to \in {"SUBMITTED", "VALIDATING", "CLOSED", "REJECTED"} : BeginMove(c, to)
  BY <1>4, <1>7, <1>8 DEF BeginMove, ActivityStatus
<1>9. CASE \E opinion \in Opinion : BeginValidation(c, opinion)
  BY <1>4, <1>7, <1>9 DEF BeginValidation
<1>10. CASE BeginLetter(c) \/ BeginRevoke(c)
  BY <1>4, <1>7, <1>10 DEF BeginLetter, BeginRevoke
<1>11. CASE \E p \in MonPeriod : BeginSubmitPeriod(c, p)
  BY <1>4, <1>7, <1>11 DEF BeginSubmitPeriod
<1>12. CASE \E p \in MonPeriod, opinion \in Opinion : BeginVerification(c, p, opinion)
  BY <1>4, <1>7, <1>12 DEF BeginVerification
<1>13. CASE ReadLetter(c)
  <2>1. CASE Leave(c)
    BY <1>5, <2>1
  <2>2. CASE visit' = [visit EXCEPT ![c].pc = "writeLetter", ![c].existed = letter # "none"]
    BY <1>1, <2>2 DEF VisitRow
  <2> QED
    BY <1>13, <2>1, <2>2 DEF ReadLetter
<1>14. CASE \/ CallTransition(c) \/ Move(c) \/ CreateValidation(c) \/ WriteLetter(c)
            \/ WriteRevoked(c) \/ SubmitPeriod(c) \/ CreateVerification(c) \/ MovePeriod(c)
            \/ Anchor(c) \/ DropVisit(c)
  <2>1. \/ Leave(c)
        \/ \E pc \in {"move", "movePeriod", "anchor"} : GoOn(c, pc)
        \/ visit' = [visit EXCEPT ![c].pc = "transition",
                         ![c].to = IF visit[c].opinion = "POSITIVE"
                                   THEN "AWAITING_HOST" ELSE "REJECTED"]
        \/ visit' = [visit EXCEPT ![c].pc = "transition", ![c].to = "REGISTERED"]
    BY <1>14 DEF CallTransition, Move, CreateValidation, ValidationReport, WriteLetter,
       WriteRevoked, SubmitPeriod, CreateVerification, MovePeriod, Anchor, DropVisit
  <2>2. ASSUME NEW to \in {"AWAITING_HOST", "REJECTED", "REGISTERED"},
               visit' = [visit EXCEPT ![c].pc = "transition", ![c].to = to]
        PROVE  VisitsOK
    BY <1>1, <2>2 DEF VisitRow, ActivityStatus
  <2> QED
    BY <1>5, <1>6, <2>1, <2>2
<1> QED
  BY <1>8, <1>9, <1>10, <1>11, <1>12, <1>13, <1>14 DEF ClerkStep

(* The rows one step of a call may write.                                   *)
LEMMA ClerkWrites ==
    ASSUME NEW c \in Clerk, ClerkStep(c)
    PROVE  /\ UNCHANGED documents
           /\ UNCHANGED <<activity, documents, reports, letter, period>>
              \/ Move(c) \/ CreateValidation(c) \/ WriteLetter(c) \/ WriteRevoked(c)
              \/ SubmitPeriod(c) \/ CreateVerification(c) \/ MovePeriod(c) \/ Anchor(c)
  BY DEF ClerkStep, BeginMove, CallTransition, Move, BeginValidation, CreateValidation,
     BeginLetter, ReadLetter, WriteLetter, BeginRevoke, WriteRevoked, BeginSubmitPeriod,
     SubmitPeriod, BeginVerification, CreateVerification, MovePeriod, Anchor, DropVisit

LEMMA ActivityTypeStep ==
    ASSUME ActivityInv, [ActivityNext]_activityVars
    PROVE  ActivityTypeOK'
<1>1. ActivityTypeOK /\ visit \in [Clerk -> VisitRow] /\ "none" \notin Opinion
  BY ActivityTypes DEF ActivityInv
<1>2. CASE UNCHANGED activityVars
  BY <1>1, <1>2 DEF activityVars, documents, reports, ActivityTypeOK
<1>3. CASE UpsertPdd \/ SubmitPdd \/ UpsertMonitoringPlan
  BY <1>1, <1>3 DEF UpsertPdd, SubmitPdd, UpsertMonitoringPlan, reports, ActivityTypeOK
<1>4. ASSUME NEW p \in MonPeriod, CreatePeriod(p) PROVE ActivityTypeOK'
  BY <1>1, <1>4 DEF CreatePeriod, documents, reports, ActivityTypeOK
<1>5. ASSUME NEW c \in Clerk, ClerkStep(c) PROVE ActivityTypeOK'
  <2>1. visit' \in [Clerk -> VisitRow]
    BY <1>5, VisitRows
  <2>2. visit[c] \in VisitRow /\ VisitOK(c)
    BY <1>1 DEF ActivityInv
  <2>3. CASE UNCHANGED <<activity, documents, reports, letter, period>>
    BY <1>1, <2>1, <2>3 DEF documents, reports, ActivityTypeOK, VisitRow
  <2>4. CASE Move(c) \/ WriteLetter(c) \/ WriteRevoked(c)
    BY <1>1, <2>1, <2>2, <2>4
       DEF Move, WriteLetter, WriteRevoked, documents, reports, ActivityTypeOK, VisitRow
  <2>5. CASE CreateValidation(c)
    BY <1>1, <2>1, <2>2, <2>5
       DEF CreateValidation, ValidationReport, documents, ActivityTypeOK, VisitRow
  <2>6. CASE SubmitPeriod(c) \/ MovePeriod(c)
    BY <1>1, <2>1, <2>6
       DEF SubmitPeriod, MovePeriod, Verdict, documents, reports, ActivityTypeOK, VisitRow
  <2>7. CASE CreateVerification(c)
    BY <1>1, <2>1, <2>2, <2>7 DEF CreateVerification, documents, ActivityTypeOK, VisitRow
  <2>8. CASE Anchor(c)
    BY <1>1, <2>1, <2>2, <2>8 DEF Anchor, At, VisitOK, documents, ActivityTypeOK, VisitRow
  <2> QED
    BY <1>5, <2>3, <2>4, <2>5, <2>6, <2>7, <2>8, ClerkWrites
<1> QED
  BY ActivityCases, <1>2, <1>3, <1>4, <1>5

LEMMA PeriodStep ==
    ASSUME ActivityInv, EvidenceStays, [ActivityNext]_activityVars
    PROVE  PeriodEvidence'
<1>1. /\ PeriodEvidence /\ visit \in [Clerk -> VisitRow] /\ "none" \notin Opinion
      /\ period \in [MonPeriod -> {"none", "OPEN", "SUBMITTED", "VERIFIED", "REJECTED"}]
  BY ActivityTypes DEF ActivityInv, ActivityTypeOK
<1>2. ASSUME NEW p \in MonPeriod, period'[p] \in {period[p], "none", "OPEN", "SUBMITTED"},
             p \in anchored' => p \in anchored
      PROVE  /\ period'[p] = "VERIFIED" => verification'[p] = "POSITIVE"
             /\ period'[p] = "REJECTED" => verification'[p] \notin {"none", "POSITIVE"}
             /\ p \in anchored' => verification'[p] = "POSITIVE"
  BY <1>1, <1>2 DEF PeriodEvidence, EvidenceStays
<1>3. CASE UNCHANGED activityVars \/ UpsertPdd \/ SubmitPdd \/ UpsertMonitoringPlan
  <2>1. UNCHANGED <<period, anchored>>
    BY <1>3 DEF activityVars, UpsertPdd, SubmitPdd, UpsertMonitoringPlan, reports
  <2> QED
    BY <1>2, <2>1 DEF PeriodEvidence
<1>4. ASSUME NEW p \in MonPeriod, CreatePeriod(p) PROVE PeriodEvidence'
  <2>1. UNCHANGED anchored /\ \A q \in MonPeriod : period'[q] \in {period[q], "OPEN"}
    BY <1>1, <1>4 DEF CreatePeriod, reports
  <2> QED
    BY <1>2, <2>1 DEF PeriodEvidence
<1>5. ASSUME NEW c \in Clerk, ClerkStep(c) PROVE PeriodEvidence'
  <2>1. VisitOK(c)
    BY DEF ActivityInv
  <2>2. CASE MovePeriod(c)
    <3>1. PICK p \in MonPeriod : p = visit[c].period
      BY <2>1, <2>2 DEF MovePeriod, At, VisitOK
    <3>2. verification[p] = visit[c].opinion /\ visit[c].opinion # "none"
          /\ UNCHANGED <<verification, anchored>>
      BY <1>1, <2>1, <2>2, <3>1 DEF MovePeriod, At, VisitOK, reports
    <3>3. period'[p] = Verdict(visit[c].opinion)
          /\ \A q \in MonPeriod \ {p} : period'[q] = period[q]
      BY <1>1, <2>2, <3>1 DEF MovePeriod
    <3> QED
      BY <1>1, <1>2, <3>2, <3>3 DEF Verdict, PeriodEvidence
  <2>3. CASE Anchor(c)
    <3>1. verification[visit[c].period] = "POSITIVE"
      BY <2>1, <2>3 DEF Anchor, At, VisitOK
    <3> QED
      BY <1>1, <2>3, <3>1 DEF Anchor, PeriodEvidence
  <2>4. CASE SubmitPeriod(c)
    <3>1. UNCHANGED anchored /\ \A q \in MonPeriod : period'[q] \in {period[q], "SUBMITTED"}
      BY <1>1, <2>4 DEF SubmitPeriod, reports
    <3> QED
      BY <1>2, <3>1 DEF PeriodEvidence
  <2>5. CASE UNCHANGED <<period, anchored>>
    BY <1>2, <2>5 DEF PeriodEvidence
  <2> QED
    BY <1>5, <2>2, <2>3, <2>4, <2>5, ClerkWrites
       DEF Move, CreateValidation, WriteLetter, WriteRevoked, CreateVerification, reports
<1> QED
  BY ActivityCases, <1>3, <1>4, <1>5

LEMMA ActivityInvStep ==
    ASSUME ActivityInv, [ActivityNext]_activityVars
    PROVE  ActivityInv'
<1>1. EvidenceStays /\ ActivityTypeOK' /\ PeriodEvidence'
  BY EvidenceIsKept, ActivityTypeStep, PeriodStep
<1>2. visit \in [Clerk -> VisitRow] /\ Evidence(activity) /\ \A c \in Clerk : VisitOK(c)
  BY ActivityTypes DEF ActivityInv
<1>3. ASSUME NEW c \in Clerk PROVE VisitOK(c)'
  <2>1. CASE visit'[c] = visit[c]
    BY <1>1, <2>1, VisitOKStays
  <2>2. CASE ClerkStep(c)
    BY <1>1, <2>2, VisitStep
  <2>3. ASSUME NEW d \in Clerk, d # c, ClerkStep(d) PROVE visit'[c] = visit[c]
    BY <1>2, <2>3 DEF ClerkStep, BeginMove, CallTransition, Move, BeginValidation,
       CreateValidation, ValidationReport, BeginLetter, ReadLetter, WriteLetter, BeginRevoke,
       WriteRevoked, BeginSubmitPeriod, SubmitPeriod, BeginVerification, CreateVerification,
       MovePeriod, Anchor, DropVisit, Arrive, GoOn, Leave
  <2>4. ASSUME \/ UNCHANGED activityVars \/ UpsertPdd \/ SubmitPdd \/ UpsertMonitoringPlan
               \/ \E p \in MonPeriod : CreatePeriod(p)
        PROVE  visit'[c] = visit[c]
    BY <2>4 DEF activityVars, UpsertPdd, SubmitPdd, UpsertMonitoringPlan, CreatePeriod
  <2> QED
    BY ActivityCases, <2>1, <2>2, <2>3, <2>4
<1>4. Evidence(activity)'
  <2>1. CASE UNCHANGED activity
    <3>1. Evidence(activity)
      BY <1>2
    <3> QED
      BY <1>1, <2>1, <3>1 DEF Evidence, EvidenceStays
  <2>2. ASSUME NEW c \in Clerk, Move(c) PROVE Evidence(activity)'
    <3>1. Evidence(visit[c].to) /\ activity' = visit[c].to
      BY <1>2, <2>2 DEF Move, At, VisitOK
    <3>2. PICK to : to = visit[c].to
      OBVIOUS
    <3>3. Evidence(to)'
      BY <1>1, <3>1, <3>2, EvidenceKept
    <3> QED
      BY <3>1, <3>2, <3>3 DEF Evidence, Documented
  <2>3. UNCHANGED activity \/ \E c \in Clerk : Move(c)
    BY ActivityCases, ClerkWrites DEF activityVars, UpsertPdd, SubmitPdd,
       UpsertMonitoringPlan, CreatePeriod, CreateValidation, WriteLetter, WriteRevoked,
       SubmitPeriod, CreateVerification, MovePeriod, Anchor
  <2> QED
    BY <2>1, <2>2, <2>3
<1> QED
  BY <1>1, <1>3, <1>4 DEF ActivityInv

(* No status without its evidence, in whatever order the writes of          *)
(* overlapping calls arrive (activity.service.ts, verification.service.ts). *)
THEOREM StatusAlwaysHasEvidence == ActivitySpec => []StatusHasEvidence
<1>1. ActivityInit => ActivityInv
  BY ActivityInvInit
<1>2. ActivityInv /\ [ActivityNext]_activityVars => ActivityInv'
  BY ActivityInvStep
<1>3. ActivityInv => StatusHasEvidence
  BY DEF ActivityInv, Evidence, Documented, PeriodEvidence, StatusHasEvidence
<1> QED
  BY <1>1, <1>2, <1>3, PTL DEF ActivitySpec

-----------------------------------------------------------------------------
(***************************************************************************)
(* Baseline scenarios.  While decisions do not overlap an approval, the    *)
(* version an approval holds waits for it, and no other is approved once   *)
(* its first write is done.                                                *)
(***************************************************************************)
Decisions == {"submit", "reject"} \cup Approving

DeskOK(a) ==
    /\ desk[a].pc \in Decisions => desk[a].version \in Version
    /\ desk[a].pc \in {"submit", "reject"} =>
          scenario[desk[a].version] \notin {"APPROVED", "SUPERSEDED"}
    /\ desk[a].pc \in Approving => scenario[desk[a].version] = "SUBMITTED"
    /\ desk[a].pc = "approve" => Approved = {}

(* An approval is alone.                                                    *)
Alone ==
    \A a, b \in Assessor :
        desk[a].pc \in Approving /\ desk[b].pc \in Decisions => a = b

OneApproved == \A v, w \in Approved : v = w

SupersededByOne ==
    ~unfinished /\ (\E v \in Version : scenario[v] = "SUPERSEDED") =>
        Approved # {} \/ \E a \in Assessor : desk[a].pc = "approve"

BaselineInv ==
    /\ BaselineTypeOK
    /\ \A a \in Assessor : desk[a].pc = "create" => desk[a].version \in Version
    /\ ~contested =>
          Alone /\ OneApproved /\ SupersededByOne /\ \A a \in Assessor : DeskOK(a)

DeskRow == [pc : {"idle", "create", "submit", "supersede", "approve", "reject"},
            version : Version \cup {0}]
ScenarioStatus == {"none", "DRAFT", "SUBMITTED", "APPROVED", "REJECTED", "SUPERSEDED"}

LEMMA BaselineTypes ==
    ASSUME BaselineTypeOK
    PROVE  /\ desk \in [Assessor -> DeskRow] /\ scenario \in [Version -> ScenarioStatus]
           /\ contested \in BOOLEAN /\ unfinished \in BOOLEAN
           /\ 0 \notin Version
  BY BaselineAssumption DEF BaselineTypeOK, DeskRow, ScenarioStatus, Version

LEMMA BaselineInvInit ==
    ASSUME BaselineInit
    PROVE  BaselineInv
<1>1. BaselineTypeOK
  BY DEF BaselineInit, BaselineTypeOK, FreeDesk
<1>2. /\ \A a \in Assessor : desk[a].pc = "idle"
      /\ \A v \in Version : scenario[v] = "none"
  BY DEF BaselineInit, FreeDesk
<1> QED
  BY <1>1, <1>2 DEF BaselineInv, Alone, OneApproved, SupersededByOne, DeskOK, Approved,
     Decisions, Approving

(* What the desk of a becomes.                                              *)
DeskTakes(a, pc, v) ==
    /\ desk'[a].pc = pc /\ desk'[a].version = v
    /\ \A b \in Assessor \ {a} : desk'[b] = desk[b]

LEMMA TakeFacts ==
    ASSUME BaselineTypeOK, NEW a \in Assessor, NEW pc, NEW v, Take(a, pc, v)
    PROVE  DeskTakes(a, pc, v) /\ desk[a].pc = "idle"
  BY BaselineTypes DEF Take, OnDesk, DeskTakes, FreeDesk

LEMMA BaselineTypeStep ==
    ASSUME BaselineInv, [BaselineNext]_baselineVars
    PROVE  BaselineTypeOK'
<1>1. BaselineTypeOK /\ desk \in [Assessor -> DeskRow]
      /\ scenario \in [Version -> ScenarioStatus]
  BY BaselineTypes DEF BaselineInv
<1> DEFINE Frees(a) == desk' = [desk EXCEPT ![a] = FreeDesk]
<1>2. ASSUME NEW a \in Assessor, Frees(a) PROVE desk' \in [Assessor -> DeskRow]
  BY <1>1, <1>2 DEF FreeDesk, DeskRow
<1>3. ASSUME NEW a \in Assessor, NEW v \in Version,
             NEW pc \in {"create", "submit", "supersede", "reject"}, Take(a, pc, v)
      PROVE  desk' \in [Assessor -> DeskRow]
  BY <1>1, <1>3 DEF Take, OnDesk, DeskRow
<1>4. CASE UNCHANGED baselineVars
  BY <1>1, <1>4 DEF baselineVars, BaselineTypeOK
<1>5. ASSUME NEW a \in Assessor, BeginCreate(a) PROVE BaselineTypeOK'
  BY <1>1, <1>3, <1>5 DEF BeginCreate, BaselineTypeOK, DeskRow
<1>6. ASSUME NEW a \in Assessor, Create(a) PROVE BaselineTypeOK'
  BY <1>1, <1>2, <1>6 DEF Create, BaselineTypeOK, DeskRow
<1>7. ASSUME NEW a \in Assessor, NEW v \in Version, NEW pc \in {"submit", "supersede", "reject"},
             BeginDecision(a, v, pc)
      PROVE  BaselineTypeOK'
  BY <1>1, <1>3, <1>7 DEF BeginDecision, NoteContest, BaselineTypeOK, DeskRow
<1>8. ASSUME NEW a \in Assessor, Supersede(a) PROVE BaselineTypeOK'
  <2>1. scenario' \in [Version -> ScenarioStatus]
    BY <1>1, <1>8 DEF Supersede, SupersededBy, ScenarioStatus
  <2>2. desk' \in [Assessor -> DeskRow]
    BY <1>1, <1>8 DEF Supersede, DeskRow
  <2> QED
    BY <1>1, <1>8, <2>1, <2>2 DEF Supersede, BaselineTypeOK, DeskRow, ScenarioStatus
<1>9. ASSUME NEW a \in Assessor, Decide(a) PROVE BaselineTypeOK'
  <2>1. Decision(desk[a].pc) \in ScenarioStatus
    BY <1>9 DEF Decide, Decision, ScenarioStatus
  <2>2. scenario' \in [Version -> ScenarioStatus]
    BY <1>1, <1>9, <2>1 DEF Decide
  <2> QED
    BY <1>1, <1>2, <1>9, <2>2 DEF Decide, BaselineTypeOK, DeskRow, ScenarioStatus
<1>10. ASSUME NEW a \in Assessor, DropDecision(a) PROVE BaselineTypeOK'
  BY <1>1, <1>2, <1>10 DEF DropDecision, BaselineTypeOK, DeskRow
<1> QED
  BY <1>4, <1>5, <1>6, <1>7, <1>8, <1>9, <1>10 DEF BaselineNext

Sound == Alone /\ OneApproved /\ SupersededByOne /\ \A a \in Assessor : DeskOK(a)

LEMMA SoundStep ==
    ASSUME BaselineInv, [BaselineNext]_baselineVars, ~contested'
    PROVE  Sound'
<1>1. BaselineTypeOK /\ desk \in [Assessor -> DeskRow]
      /\ scenario \in [Version -> ScenarioStatus]
      /\ contested \in BOOLEAN /\ unfinished \in BOOLEAN
  BY BaselineTypes DEF BaselineInv
<1>2. ~contested
  BY <1>1 DEF BaselineNext, BeginCreate, Create, BeginDecision, NoteContest, Supersede, Decide,
     DropDecision, baselineVars
<1>3. /\ Alone /\ OneApproved /\ SupersededByOne
      /\ \A a \in Assessor : DeskOK(a)
  BY <1>2 DEF BaselineInv
<1> USE DEF Sound
(* A desk that is freed, or takes up a creation, leaves the others sound.   *)
<1>4. ASSUME NEW a \in Assessor, NEW pc \in {"idle", "create"}, NEW v,
             DeskTakes(a, pc, v),
             \A w \in Version : \/ scenario'[w] = scenario[w]
                                \/ scenario[w] = "none" /\ scenario'[w] = "DRAFT",
             unfinished' = (unfinished \/ desk[a].pc = "approve")
      PROVE  Sound'
  <2>1. Approved' = Approved
    BY <1>4 DEF Approved
  <2>2. Alone' /\ OneApproved'
    BY <1>3, <1>4, <2>1 DEF Alone, OneApproved, DeskTakes, Decisions, Approving
  <2>3. \A b \in Assessor : DeskOK(b)'
    <3>1. \A b \in Assessor \ {a} : DeskOK(b)'
      BY <1>3, <1>4, <2>1 DEF DeskOK, DeskTakes, Decisions, Approving
    <3>2. DeskOK(a)'
      BY <1>4 DEF DeskOK, DeskTakes, Decisions, Approving
    <3> QED
      BY <3>1, <3>2
  <2>4. SupersededByOne'
    BY <1>3, <1>4, <2>1 DEF SupersededByOne, DeskTakes
  <2> QED
    BY <2>2, <2>3, <2>4
<1>5. CASE UNCHANGED baselineVars
  BY <1>3, <1>5 DEF baselineVars, Alone, OneApproved, SupersededByOne, DeskOK, Approved
<1>6. ASSUME NEW a \in Assessor, BeginCreate(a) PROVE Sound'
  <2>1. PICK v \in Version : Take(a, "create", v)
    BY <1>6 DEF BeginCreate
  <2> QED
    BY <1>1, <1>4, <1>6, <2>1, TakeFacts DEF BeginCreate
<1>7. ASSUME NEW a \in Assessor, Create(a) PROVE Sound'
  <2>1. DeskTakes(a, "idle", 0)
    BY <1>1, <1>7 DEF Create, DeskTakes, FreeDesk
  <2>2. \A w \in Version : \/ scenario'[w] = scenario[w]
                           \/ scenario[w] = "none" /\ scenario'[w] = "DRAFT"
    BY <1>1, <1>7 DEF Create
  <2>3. unfinished' = (unfinished \/ desk[a].pc = "approve")
    BY <1>1, <1>7 DEF Create
  <2> QED
    BY <1>4, <2>1, <2>2, <2>3
<1>8. ASSUME NEW a \in Assessor, DropDecision(a) PROVE Sound'
  <2>1. DeskTakes(a, "idle", 0)
    BY <1>1, <1>8 DEF DropDecision, DeskTakes, FreeDesk
  <2> QED
    BY <1>4, <1>8, <2>1 DEF DropDecision
<1>9. ASSUME NEW a \in Assessor, NEW v \in Version, NEW pc \in {"submit", "supersede", "reject"},
             BeginDecision(a, v, pc)
      PROVE  Sound'
  <2>1. DeskTakes(a, pc, v) /\ desk[a].pc = "idle"
    BY <1>1, <1>9, TakeFacts DEF BeginDecision
  <2>2. UNCHANGED <<scenario, unfinished>> /\ Approved' = Approved
        /\ scenario[v] \in {"DRAFT", "SUBMITTED"} /\ (pc = "supersede" => scenario[v] = "SUBMITTED")
    BY <1>9 DEF BeginDecision, Approved
  <2>3. \A b \in Assessor : desk[b].pc \in Decisions =>
            pc \notin Approving /\ desk[b].pc \notin Approving
    BY <1>2, <1>9 DEF BeginDecision, NoteContest, Decisions
  <2>4. Alone'
    BY <1>3, <2>1, <2>3 DEF Alone, DeskTakes, Decisions, Approving
  <2>5. \A b \in Assessor : DeskOK(b)'
    <3>1. \A b \in Assessor \ {a} : DeskOK(b)'
      BY <1>3, <2>1, <2>2 DEF DeskOK, DeskTakes
    <3>2. DeskOK(a)'
      BY <2>1, <2>2 DEF DeskOK, DeskTakes, Approving
    <3> QED
      BY <3>1, <3>2
  <2>6. OneApproved' /\ SupersededByOne'
    BY <1>3, <2>1, <2>2 DEF OneApproved, SupersededByOne, DeskTakes
  <2> QED
    BY <2>4, <2>5, <2>6
<1>10. ASSUME NEW a \in Assessor, Supersede(a) PROVE Sound'
  <2>1. /\ desk[a].pc = "supersede" /\ desk[a].version \in Version
        /\ scenario[desk[a].version] = "SUBMITTED"
    BY <1>3, <1>10 DEF Supersede, DeskOK, Approving, Decisions
  <2>2. DeskTakes(a, "approve", desk[a].version)
    BY <1>1, <1>10 DEF Supersede, DeskTakes, DeskRow
  <2>3. Approved' = {} /\ scenario'[desk[a].version] = "SUBMITTED"
    BY <1>1, <1>10, <2>1 DEF Supersede, SupersededBy, Approved
  <2>4. \A b \in Assessor \ {a} : desk'[b].pc \notin Decisions
    BY <1>3, <2>1, <2>2 DEF Alone, DeskTakes, Decisions, Approving
  <2>5. Alone' /\ \A b \in Assessor : DeskOK(b)'
    BY <2>1, <2>2, <2>3, <2>4 DEF Alone, DeskOK, DeskTakes, Decisions, Approving
  <2> QED
    BY <2>2, <2>3, <2>5 DEF OneApproved, SupersededByOne, DeskTakes
<1>11. ASSUME NEW a \in Assessor, Decide(a) PROVE Sound'
  <2> DEFINE v == desk[a].version
  <2>1. desk[a].pc \in {"submit", "approve", "reject"} /\ v \in Version
    BY <1>3, <1>11 DEF Decide, DeskOK, Decisions, Approving
  <2>2. DeskTakes(a, "idle", 0)
    BY <1>1, <1>11 DEF Decide, DeskTakes, FreeDesk
  <2>3. scenario'[v] = Decision(desk[a].pc)
        /\ \A w \in Version \ {v} : scenario'[w] = scenario[w]
        /\ UNCHANGED unfinished
    BY <1>1, <1>11, <2>1 DEF Decide
  <2>4. Alone'
    BY <1>3, <2>2 DEF Alone, DeskTakes, Decisions, Approving
  <2>5. DeskOK(a)'
    BY <2>2 DEF DeskOK, DeskTakes, Decisions, Approving
  <2>6. CASE desk[a].pc = "approve"
    <3>1. Approved = {} /\ Approved' = {v}
      BY <1>3, <2>1, <2>3, <2>6 DEF DeskOK, Approved, Decision
    <3>2. \A b \in Assessor \ {a} : desk'[b].pc \notin Decisions
      BY <1>3, <2>2, <2>6 DEF Alone, DeskTakes, Decisions, Approving
    <3>3. \A b \in Assessor : DeskOK(b)'
      BY <2>5, <3>2 DEF DeskOK, Decisions, Approving
    <3> QED
      BY <2>4, <3>1, <3>3 DEF OneApproved, SupersededByOne
  <2>7. CASE desk[a].pc # "approve"
    <3>1. scenario[v] \notin {"APPROVED", "SUPERSEDED"}
          /\ scenario'[v] \in {"SUBMITTED", "REJECTED"}
      BY <1>3, <2>1, <2>3, <2>7 DEF DeskOK, Decision
    <3>2. Approved' = Approved
      BY <2>3, <3>1 DEF Approved
    <3>3. \A b \in Assessor \ {a} : desk'[b].pc \notin Approving
      BY <1>3, <2>1, <2>2, <2>7 DEF Alone, DeskTakes, Decisions
    <3>4. \A b \in Assessor \ {a} : DeskOK(b)'
      BY <1>3, <2>2, <2>3, <3>1, <3>2, <3>3 DEF DeskOK, DeskTakes, Approving, Decisions
    <3>5. SupersededByOne'
      BY <1>3, <2>2, <2>3, <2>7, <3>1, <3>2 DEF SupersededByOne, DeskTakes
    <3> QED
      BY <1>3, <2>4, <2>5, <3>2, <3>4, <3>5 DEF OneApproved
  <2> QED
    BY <2>6, <2>7
<1> QED
  BY <1>5, <1>6, <1>7, <1>8, <1>9, <1>10, <1>11 DEF BaselineNext

LEMMA BaselineInvStep ==
    ASSUME BaselineInv, [BaselineNext]_baselineVars
    PROVE  BaselineInv'
<1>1. ASSUME NEW a \in Assessor, desk'[a].pc = "create" PROVE desk'[a].version \in Version
  <2>1. CASE desk'[a] = desk[a]
    BY <1>1, <2>1 DEF BaselineInv
  <2>2. CASE desk'[a] # desk[a]
    BY <1>1, <2>2, BaselineTypes DEF BaselineInv, BaselineNext, BeginCreate, Take, OnDesk,
       FreeDesk, Create, BeginDecision, Supersede, Decide, DropDecision, baselineVars, DeskRow
  <2> QED
    BY <2>1, <2>2
<1> QED
  BY <1>1, BaselineTypeStep, SoundStep DEF BaselineInv, Sound

(* At most one version is in force, and none is superseded for nothing,     *)
(* unless decisions overlapped an approval or one was dropped halfway       *)
(* (baseline-scenario.service.ts:160).                                      *)
THEOREM OneBaselineAlways == BaselineSpec => []OneBaseline
<1>1. BaselineInit => BaselineInv
  BY BaselineInvInit
<1>2. BaselineInv /\ [BaselineNext]_baselineVars => BaselineInv'
  BY BaselineInvStep
<1>3. ASSUME BaselineInv PROVE OneBaseline
  <2>1. ASSUME OneApproved PROVE Cardinality(Approved) <= 1
    <3>1. CASE Approved = {}
      BY <3>1, FS_EmptySet
    <3>2. CASE Approved # {}
      <4>1. PICK v : v \in Approved
        BY <3>2
      <4>2. Approved = {v}
        BY <2>1, <4>1 DEF OneApproved
      <4>3. Cardinality({v}) = 1
        BY FS_Singleton
      <4> QED
        BY <4>2, <4>3
    <3> QED
      BY <3>1, <3>2
  <2> QED
    BY <1>3, <2>1 DEF BaselineInv, SupersededByOne, OneBaseline
<1> QED
  BY <1>1, <1>2, <1>3, PTL DEF BaselineSpec

-----------------------------------------------------------------------------
(***************************************************************************)
(* KYC checks.  An answer the vendor gave before a revocation may only be  *)
(* in flight where the history says so; a revocation is on the row or its  *)
(* own call has still to write it.                                         *)
(***************************************************************************)
KycSound == Verification \ (crossed \cup swallowed)

Marking(k) == \E c \in KycCall : kycCall[c].pc = "markRevoked" /\ kycCall[c].id = k

(* What the vendor answered has become true and stays so until it revokes.  *)
AnswerHolds(k, status) == status = "APPROVED" => vendor[k] \in {"APPROVED", "REVOKED"}

KycCallOK(c) ==
    /\ kycCall[c].pc # "idle" =>
          kycCall[c].id \in Verification /\ vendor[kycCall[c].id] # "none"
    /\ kycCall[c].pc = "createRow" =>
          /\ check[kycCall[c].id] = "none" /\ vendor[kycCall[c].id] # "REVOKED"
          /\ kycCall[c].answer = "PENDING"
          /\ \A d \in KycCall : kycCall[d].pc # "idle" /\ kycCall[d].id = kycCall[c].id => d = c
    /\ kycCall[c].pc = "refresh" =>
          /\ AnswerHolds(kycCall[c].id, kycCall[c].answer)
          /\ vendor[kycCall[c].id] = "REVOKED" /\ kycCall[c].id \notin crossed =>
                kycCall[c].answer = "REVOKED"

RowsFollow ==
    \A k \in Verification :
        /\ AnswerHolds(k, check[k])
        /\ vendor[k] = "none" => check[k] = "none"
        /\ k \in KycSound /\ vendor[k] = "REVOKED" => check[k] = "REVOKED" \/ Marking(k)

(* The subject has one verification under way or approved.                  *)
OneActive ==
    \A k, other \in Verification :
        vendor[k] \in {"PENDING", "APPROVED"} /\ vendor[other] \in {"PENDING", "APPROVED"} =>
            k = other

KycInv ==
    /\ KycTypeOK
    /\ \A c \in KycCall : KycCallOK(c)
    /\ RowsFollow
    /\ OneActive

KycLocal == [pc : {"idle", "createRow", "refresh", "writeBeneficiary", "markRevoked"},
             id : Verification \cup {"none"}, answer : KycStatus]

LEMMA KycTypes ==
    ASSUME KycTypeOK
    PROVE  /\ kycCall \in [KycCall -> KycLocal]
           /\ vendor \in [Verification -> KycStatus] /\ check \in [Verification -> KycStatus]
  BY DEF KycTypeOK, KycLocal

(* In the calls' idle state nothing is carried.                             *)
LEMMA KycInvInit ==
    ASSUME KycInit
    PROVE  KycInv
<1>1. KycTypeOK
  BY DEF KycInit, KycTypeOK, NoKycCall, KycStatus
<1>2. \A c \in KycCall : kycCall[c].pc = "idle"
  BY DEF KycInit, NoKycCall
<1>3. \A k \in Verification : vendor[k] = "none" /\ check[k] = "none"
  BY DEF KycInit
<1> QED
  BY <1>1, <1>2, <1>3 DEF KycInv, KycCallOK, RowsFollow, OneActive, AnswerHolds

LEMMA KycTypeStep ==
    ASSUME KycInv, [KycNext]_kycVars
    PROVE  KycTypeOK'
<1>1. /\ KycTypeOK /\ kycCall \in [KycCall -> KycLocal]
      /\ vendor \in [Verification -> KycStatus] /\ check \in [Verification -> KycStatus]
      /\ \A c \in KycCall : KycCallOK(c)
  BY KycTypes DEF KycInv
<1>2. CASE UNCHANGED kycVars
  BY <1>1, <1>2 DEF kycVars, KycTypeOK
<1>3. ASSUME NEW c \in KycCall, NEW k \in Verification,
             StartVerification(c, k) \/ AskStatus(c, k) \/ Revoke(c, k) \/ AskBeneficiary(c, k)
      PROVE  KycTypeOK'
  <2>1. kycCall' \in [KycCall -> KycLocal]
    <3>1. PICK pc \in {"createRow", "refresh", "markRevoked", "writeBeneficiary"},
               answer \in KycStatus : KycGoes(c, pc, k, answer)
      BY <1>1, <1>3 DEF StartVerification, AskStatus, Revoke, AskBeneficiary, KycStatus
    <3> QED
      BY <1>1, <3>1 DEF KycGoes, KycLocal
  <2>2. vendor' \in [Verification -> KycStatus]
    BY <1>1, <1>3 DEF StartVerification, AskStatus, Revoke, AskBeneficiary, KycStatus
  <2>3. crossed' \subseteq Verification /\ UNCHANGED <<check, named, swallowed>>
    BY <1>1, <1>3 DEF StartVerification, AskStatus, Revoke, AskBeneficiary, KycTypeOK
  <2> QED
    BY <1>1, <2>1, <2>2, <2>3 DEF KycTypeOK, KycLocal
<1>4. ASSUME NEW c \in KycCall, CreateRow(c) \/ RefreshRow(c) \/ MarkRevoked(c)
                                \/ WriteBeneficiary(c) \/ DropKycCall(c)
      PROVE  KycTypeOK'
  <2>1. kycCall' \in [KycCall -> KycLocal]
    BY <1>1, <1>4 DEF CreateRow, RefreshRow, MarkRevoked, WriteBeneficiary, DropKycCall,
       KycEnds, NoKycCall, KycLocal, KycStatus
  <2>2. check' \in [Verification -> KycStatus]
    BY <1>1, <1>4 DEF CreateRow, RefreshRow, MarkRevoked, RevokedStatus, WriteBeneficiary,
       DropKycCall, KycLocal, KycStatus
  <2>3. /\ named' \subseteq Verification /\ swallowed' \subseteq Verification
        /\ UNCHANGED <<vendor, crossed>>
    BY <1>1, <1>4 DEF CreateRow, RefreshRow, MarkRevoked, WriteBeneficiary, DropKycCall,
       KycTypeOK, KycCallOK
  <2> QED
    BY <1>1, <2>1, <2>2, <2>3 DEF KycTypeOK, KycLocal
<1>5. ASSUME NEW k \in Verification, NEW decision \in {"APPROVED", "REJECTED"},
             VendorDecides(k, decision)
      PROVE  KycTypeOK'
  BY <1>1, <1>5 DEF VendorDecides, KycTypeOK, KycStatus
<1> QED
  BY <1>2, <1>3, <1>4, <1>5 DEF KycNext

(* How the vendor's records move.                                           *)
VendorMoves(k) ==
    \/ vendor'[k] = vendor[k]
    \/ vendor[k] = "none" /\ vendor'[k] = "PENDING"
    \/ vendor[k] = "PENDING" /\ vendor'[k] \in {"APPROVED", "REJECTED"}
    \/ vendor[k] # "none" /\ vendor'[k] = "REVOKED"

LEMMA KycCases ==
    ASSUME [KycNext]_kycVars
    PROVE  \/ UNCHANGED kycVars
           \/ \E c \in KycCall, k \in Verification :
                 StartVerification(c, k) \/ AskStatus(c, k) \/ Revoke(c, k)
                 \/ AskBeneficiary(c, k)
           \/ \E c \in KycCall : CreateRow(c) \/ RefreshRow(c) \/ WriteBeneficiary(c)
                                 \/ MarkRevoked(c) \/ DropKycCall(c)
           \/ \E k \in Verification, decision \in {"APPROVED", "REJECTED"} :
                 VendorDecides(k, decision)
  BY DEF KycNext

LEMMA VendorStep ==
    ASSUME KycInv, [KycNext]_kycVars, NEW k \in Verification
    PROVE  VendorMoves(k)
<1>1. vendor \in [Verification -> KycStatus] /\ (vendor[k] = "none" => check[k] = "none")
  BY KycTypes DEF KycInv, RowsFollow
<1> QED
  BY <1>1, KycCases DEF kycVars, StartVerification, AskStatus, Revoke, AskBeneficiary,
     CreateRow, RefreshRow, WriteBeneficiary, MarkRevoked, DropKycCall, VendorDecides,
     VendorMoves

LEMMA OneActiveStep ==
    ASSUME KycInv, [KycNext]_kycVars
    PROVE  OneActive'
<1>1. vendor \in [Verification -> KycStatus] /\ OneActive
  BY KycTypes DEF KycInv
<1>2. ASSUME NEW c \in KycCall, NEW k \in Verification, StartVerification(c, k)
      PROVE  OneActive'
  BY <1>1, <1>2 DEF StartVerification, OneActive
<1>3. ASSUME ~ \E c \in KycCall, k \in Verification : StartVerification(c, k)
      PROVE  OneActive'
  <2>1. \A k \in Verification : vendor'[k] \in {"PENDING", "APPROVED"} =>
                                    vendor[k] \in {"PENDING", "APPROVED"}
    BY <1>1, <1>3, KycCases DEF kycVars, AskStatus, Revoke, AskBeneficiary,
       CreateRow, RefreshRow, WriteBeneficiary, MarkRevoked, DropKycCall, VendorDecides
  <2> QED
    BY <1>1, <2>1 DEF OneActive
<1> QED
  BY <1>2, <1>3

(* A call by which another call or the vendor moves stays good.             *)
LEMMA KycOthersStay ==
    ASSUME KycInv, [KycNext]_kycVars, NEW c \in KycCall, UNCHANGED kycCall[c]
    PROVE  KycCallOK(c)'
<1>1. /\ kycCall \in [KycCall -> KycLocal] /\ KycCallOK(c)
      /\ vendor \in [Verification -> KycStatus] /\ check \in [Verification -> KycStatus]
      /\ \A d \in KycCall : KycCallOK(d)
  BY KycTypes DEF KycInv
<1>2. CASE kycCall[c].pc = "idle"
  BY <1>2 DEF KycCallOK
<1>3. CASE kycCall[c].pc # "idle"
  <2>1. PICK k \in Verification : k = kycCall[c].id
    BY <1>1, <1>3 DEF KycCallOK
  <2>2. VendorMoves(k) /\ vendor[k] # "none" /\ vendor'[k] # "none"
    BY <1>1, <1>3, <2>1, VendorStep DEF VendorMoves, KycCallOK
  <2>3. CASE kycCall[c].pc = "createRow"
    <3>1. /\ check[k] = "none" /\ vendor[k] \notin {"none", "REVOKED"}
          /\ \A d \in KycCall : kycCall[d].pc # "idle" /\ kycCall[d].id = k => d = c
      BY <1>1, <2>1, <2>3 DEF KycCallOK
    <3>2. ASSUME NEW d \in KycCall, d # c, kycCall'[d].pc # "idle" PROVE kycCall'[d].id # k
      <4>1. CASE kycCall'[d] = kycCall[d]
        BY <3>1, <3>2, <4>1
      <4>2. CASE kycCall'[d] # kycCall[d]
        BY <1>1, <3>1, <3>2, <4>2, KycCases DEF kycVars, StartVerification, AskStatus, Revoke,
           AskBeneficiary, CreateRow, RefreshRow, WriteBeneficiary, MarkRevoked, DropKycCall,
           VendorDecides, KycGoes, KycEnds, NoKycCall
      <4> QED
        BY <4>1, <4>2
    <3>3. check'[k] = "none"
      <4>1. ASSUME NEW d \in KycCall, CreateRow(d) \/ RefreshRow(d) \/ MarkRevoked(d)
            PROVE  check'[k] = check[k]
        <5>1. d # c
          BY <1>1, <2>3, <4>1 DEF CreateRow, RefreshRow, MarkRevoked, KycEnds, NoKycCall
        <5>2. kycCall[d].id # k
          BY <3>1, <4>1, <5>1 DEF CreateRow, RefreshRow, MarkRevoked
        <5> QED
          BY <1>1, <4>1, <5>2 DEF CreateRow, RefreshRow, MarkRevoked
      <4> QED
        BY <3>1, <4>1, KycCases DEF kycVars, StartVerification, AskStatus, Revoke,
           AskBeneficiary, WriteBeneficiary, DropKycCall, VendorDecides
    <3>4. vendor'[k] \notin {"none", "REVOKED"}
      BY <1>1, <3>1, KycCases DEF kycVars, StartVerification, AskStatus, Revoke,
         AskBeneficiary, CreateRow, RefreshRow, WriteBeneficiary, MarkRevoked, DropKycCall,
         VendorDecides
    <3> QED
      BY <1>1, <2>1, <2>2, <2>3, <3>2, <3>3, <3>4 DEF KycCallOK
  <2>4. CASE kycCall[c].pc = "refresh"
    <3>1. AnswerHolds(k, kycCall[c].answer)'
      BY <1>1, <2>1, <2>2, <2>4 DEF KycCallOK, AnswerHolds, VendorMoves
    <3>2. crossed \subseteq crossed'
      BY KycCases DEF kycVars, StartVerification, AskStatus, Revoke, AskBeneficiary,
         CreateRow, RefreshRow, WriteBeneficiary, MarkRevoked, DropKycCall, VendorDecides
    <3>3. ASSUME vendor[k] # "REVOKED", vendor'[k] = "REVOKED" PROVE k \in crossed'
      <4>1. PICK d \in KycCall : Revoke(d, k)
        BY <1>1, <3>3, KycCases DEF kycVars, StartVerification, AskStatus, Revoke,
           AskBeneficiary, CreateRow, RefreshRow, WriteBeneficiary, MarkRevoked, DropKycCall,
           VendorDecides
      <4> QED
        BY <2>1, <2>4, <4>1 DEF Revoke
    <3>4. vendor'[k] = "REVOKED" /\ k \notin crossed' => kycCall[c].answer = "REVOKED"
      BY <1>1, <2>1, <2>4, <3>2, <3>3 DEF KycCallOK
    <3> QED
      BY <2>1, <2>2, <2>4, <3>1, <3>4 DEF KycCallOK, AnswerHolds
  <2>5. CASE kycCall[c].pc \notin {"createRow", "refresh"}
    BY <2>1, <2>2, <2>5 DEF KycCallOK
  <2> QED
    BY <2>3, <2>4, <2>5
<1> QED
  BY <1>2, <1>3

LEMMA KycCallStep ==
    ASSUME KycInv, [KycNext]_kycVars, NEW c \in KycCall
    PROVE  KycCallOK(c)'
<1>1. /\ kycCall \in [KycCall -> KycLocal] /\ \A d \in KycCall : KycCallOK(d)
      /\ vendor \in [Verification -> KycStatus] /\ check \in [Verification -> KycStatus]
      /\ RowsFollow
  BY KycTypes DEF KycInv
<1>2. CASE kycCall'[c] = kycCall[c]
  BY <1>2, KycOthersStay
<1>3. CASE kycCall'[c] = NoKycCall
  BY <1>3 DEF KycCallOK, NoKycCall
<1>4. ASSUME NEW k \in Verification, StartVerification(c, k) PROVE KycCallOK(c)'
  <2>1. /\ kycCall'[c] = [pc |-> "createRow", id |-> k, answer |-> "PENDING"]
        /\ \A d \in KycCall \ {c} : kycCall'[d] = kycCall[d]
    BY <1>1, <1>4 DEF StartVerification, KycGoes
  <2>2. vendor[k] = "none" /\ vendor'[k] = "PENDING" /\ check'[k] = "none"
    BY <1>1, <1>4 DEF StartVerification, RowsFollow
  <2>3. ASSUME NEW d \in KycCall, d # c, kycCall'[d].pc # "idle" PROVE kycCall'[d].id # k
    BY <1>1, <2>1, <2>2, <2>3 DEF KycCallOK
  <2> QED
    BY <2>1, <2>2, <2>3 DEF KycCallOK
<1>5. ASSUME NEW k \in Verification, AskStatus(c, k) PROVE KycCallOK(c)'
  <2>1. /\ kycCall'[c] = [pc |-> "refresh", id |-> k, answer |-> vendor[k]]
        /\ vendor' = vendor /\ vendor[k] # "none"
    BY <1>1, <1>5 DEF AskStatus, KycGoes, RowsFollow
  <2> QED
    BY <2>1 DEF KycCallOK, AnswerHolds
<1>6. ASSUME NEW k \in Verification, Revoke(c, k) \/ AskBeneficiary(c, k) PROVE KycCallOK(c)'
  <2>1. /\ kycCall'[c].pc \in {"markRevoked", "writeBeneficiary"} /\ kycCall'[c].id = k
        /\ vendor'[k] # "none"
    BY <1>1, <1>6 DEF Revoke, AskBeneficiary, KycGoes
  <2> QED
    BY <2>1 DEF KycCallOK
<1>7. ASSUME NEW d \in KycCall, NEW k \in Verification, d # c,
             StartVerification(d, k) \/ AskStatus(d, k) \/ Revoke(d, k) \/ AskBeneficiary(d, k)
      PROVE  kycCall'[c] = kycCall[c]
  BY <1>1, <1>7 DEF StartVerification, AskStatus, Revoke, AskBeneficiary, KycGoes
<1>8. ASSUME NEW d \in KycCall, CreateRow(d) \/ RefreshRow(d) \/ WriteBeneficiary(d)
                                \/ MarkRevoked(d) \/ DropKycCall(d)
      PROVE  kycCall'[c] \in {kycCall[c], NoKycCall}
  BY <1>1, <1>8 DEF CreateRow, RefreshRow, WriteBeneficiary, MarkRevoked, DropKycCall, KycEnds
<1> QED
  BY <1>2, <1>3, <1>4, <1>5, <1>6, <1>7, <1>8, KycCases DEF VendorDecides, kycVars

LEMMA RowsStep ==
    ASSUME KycInv, [KycNext]_kycVars
    PROVE  RowsFollow'
<1>1. /\ kycCall \in [KycCall -> KycLocal] /\ \A d \in KycCall : KycCallOK(d)
      /\ vendor \in [Verification -> KycStatus] /\ check \in [Verification -> KycStatus]
      /\ RowsFollow
  BY KycTypes DEF KycInv
<1> SUFFICES ASSUME NEW k \in Verification
             PROVE  /\ AnswerHolds(k, check[k])'
                    /\ vendor'[k] = "none" => check'[k] = "none"
                    /\ (k \in KycSound)' /\ vendor'[k] = "REVOKED" =>
                          check'[k] = "REVOKED" \/ Marking(k)'
  BY DEF RowsFollow
<1>2. /\ VendorMoves(k) /\ AnswerHolds(k, check[k])
      /\ vendor[k] = "none" => check[k] = "none"
      /\ k \in KycSound /\ vendor[k] = "REVOKED" => check[k] = "REVOKED" \/ Marking(k)
  BY <1>1, VendorStep DEF RowsFollow
<1>3. crossed \subseteq crossed' /\ swallowed \subseteq swallowed'
  BY KycCases DEF kycVars, StartVerification, AskStatus, Revoke, AskBeneficiary,
     CreateRow, RefreshRow, WriteBeneficiary, MarkRevoked, DropKycCall, VendorDecides
<1>4. ASSUME check'[k] = check[k]
      PROVE  AnswerHolds(k, check[k])' /\ (vendor'[k] = "none" => check'[k] = "none")
  BY <1>2, <1>4 DEF AnswerHolds, VendorMoves
(* The row of another verification, or no row, is written.                  *)
<1>5. ASSUME check'[k] = check[k],
             vendor'[k] = "REVOKED" => vendor[k] = "REVOKED",
             k \in KycSound' /\ Marking(k) => Marking(k)'
      PROVE  (k \in KycSound)' /\ vendor'[k] = "REVOKED" => check'[k] = "REVOKED" \/ Marking(k)'
  BY <1>2, <1>3, <1>5 DEF KycSound
<1>6. ASSUME NEW c \in KycCall, \A d \in KycCall \ {c} : kycCall'[d] = kycCall[d],
             kycCall[c].pc # "markRevoked" \/ kycCall[c].id # k
      PROVE  Marking(k) => Marking(k)'
  BY <1>6 DEF Marking
<1>7. CASE UNCHANGED kycVars
  BY <1>4, <1>5, <1>7 DEF kycVars, Marking
<1>8. ASSUME NEW c \in KycCall, NEW j \in Verification,
             StartVerification(c, j) \/ AskStatus(c, j) \/ Revoke(c, j) \/ AskBeneficiary(c, j)
      PROVE  /\ AnswerHolds(k, check[k])'
             /\ vendor'[k] = "none" => check'[k] = "none"
             /\ (k \in KycSound)' /\ vendor'[k] = "REVOKED" =>
                   check'[k] = "REVOKED" \/ Marking(k)'
  <2>1. /\ UNCHANGED check /\ kycCall[c].pc = "idle"
        /\ \A d \in KycCall \ {c} : kycCall'[d] = kycCall[d]
    BY <1>1, <1>8 DEF StartVerification, AskStatus, Revoke, AskBeneficiary, KycGoes, NoKycCall
  <2>2. CASE vendor'[k] = "REVOKED" /\ vendor[k] # "REVOKED"
    <3>1. Revoke(c, j) /\ j = k
      BY <1>1, <1>8, <2>2 DEF StartVerification, AskStatus, Revoke, AskBeneficiary
    <3>2. Marking(k)'
      BY <1>1, <3>1 DEF Revoke, KycGoes, Marking
    <3> QED
      BY <1>4, <2>1, <3>2
  <2>3. CASE ~(vendor'[k] = "REVOKED" /\ vendor[k] # "REVOKED")
    BY <1>4, <1>5, <1>6, <2>1, <2>3
  <2> QED
    BY <2>2, <2>3
<1>9. ASSUME NEW c \in KycCall, WriteBeneficiary(c) \/ DropKycCall(c)
      PROVE  /\ AnswerHolds(k, check[k])'
             /\ vendor'[k] = "none" => check'[k] = "none"
             /\ (k \in KycSound)' /\ vendor'[k] = "REVOKED" =>
                   check'[k] = "REVOKED" \/ Marking(k)'
  <2>1. UNCHANGED <<check, vendor>> /\ \A d \in KycCall \ {c} : kycCall'[d] = kycCall[d]
    BY <1>1, <1>9 DEF WriteBeneficiary, DropKycCall, KycEnds
  <2>2. (k \in KycSound)' => kycCall[c].pc # "markRevoked" \/ kycCall[c].id # k
    BY <1>9 DEF WriteBeneficiary, DropKycCall, KycSound
  <2> QED
    BY <1>4, <1>5, <1>6, <2>1, <2>2
<1>10. ASSUME NEW c \in KycCall, CreateRow(c) \/ RefreshRow(c) \/ MarkRevoked(c)
       PROVE  /\ AnswerHolds(k, check[k])'
              /\ vendor'[k] = "none" => check'[k] = "none"
              /\ (k \in KycSound)' /\ vendor'[k] = "REVOKED" =>
                    check'[k] = "REVOKED" \/ Marking(k)'
  <2>1. UNCHANGED <<vendor, crossed, swallowed>>
        /\ \A d \in KycCall \ {c} : kycCall'[d] = kycCall[d]
    BY <1>1, <1>10 DEF CreateRow, RefreshRow, MarkRevoked, KycEnds
  <2>2. CASE kycCall[c].id # k
    <3>1. check'[k] = check[k]
      BY <1>1, <1>10, <2>2 DEF CreateRow, RefreshRow, MarkRevoked
    <3> QED
      BY <1>4, <1>5, <1>6, <2>1, <2>2, <3>1
  <2>3. CASE kycCall[c].id = k /\ CreateRow(c)
    <3>1. check'[k] = "PENDING" /\ vendor'[k] \notin {"none", "REVOKED"}
      BY <1>1, <2>1, <2>3 DEF CreateRow, KycCallOK
    <3> QED
      BY <3>1 DEF AnswerHolds
  <2>4. CASE kycCall[c].id = k /\ RefreshRow(c)
    <3>1. check'[k] = kycCall[c].answer /\ KycCallOK(c) /\ kycCall[c].pc = "refresh"
      BY <1>1, <2>4 DEF RefreshRow
    <3>2. AnswerHolds(k, check[k])'
      BY <2>1, <2>4, <3>1 DEF KycCallOK, AnswerHolds
    <3>3. (k \in KycSound)' /\ vendor'[k] = "REVOKED" => check'[k] = "REVOKED"
      BY <2>1, <2>4, <3>1 DEF KycCallOK, KycSound
    <3>4. vendor'[k] # "none"
      BY <2>1, <2>4, <3>1 DEF KycCallOK
    <3> QED
      BY <3>2, <3>3, <3>4
  <2>5. CASE kycCall[c].id = k /\ MarkRevoked(c)
    <3>1. check'[k] = "REVOKED" /\ kycCall[c].pc = "markRevoked"
      BY <1>1, <2>5 DEF MarkRevoked, RevokedStatus
    <3>2. vendor'[k] # "none"
      BY <1>1, <2>1, <2>5, <3>1 DEF KycCallOK
    <3> QED
      BY <3>1, <3>2 DEF AnswerHolds
  <2> QED
    BY <1>10, <2>2, <2>3, <2>4, <2>5
<1>11. ASSUME NEW j \in Verification, NEW decision \in {"APPROVED", "REJECTED"},
              VendorDecides(j, decision)
       PROVE  /\ AnswerHolds(k, check[k])'
              /\ vendor'[k] = "none" => check'[k] = "none"
              /\ (k \in KycSound)' /\ vendor'[k] = "REVOKED" =>
                    check'[k] = "REVOKED" \/ Marking(k)'
  <2>1. UNCHANGED <<check, kycCall>> /\ (vendor'[k] = "REVOKED" => vendor[k] = "REVOKED")
    BY <1>1, <1>11 DEF VendorDecides
  <2> QED
    BY <1>4, <1>5, <2>1 DEF Marking
<1> QED
  BY KycCases, <1>7, <1>8, <1>9, <1>10, <1>11

LEMMA KycInvStep ==
    ASSUME KycInv, [KycNext]_kycVars
    PROVE  KycInv'
  BY KycTypeStep, KycCallStep, RowsStep, OneActiveStep DEF KycInv

(* A retirement goes through only on a verification that the vendor has     *)
(* approved and not revoked, apart from the moment in which the revocation  *)
(* still has to mark the row and from what overlapped or lost its write     *)
(* (kyc.service.ts:404, retirement.service.ts).                             *)
THEOREM RevocationAlwaysSticks == KycSpec => []RevocationSticks
<1>1. KycInit => KycInv
  BY KycInvInit
<1>2. KycInv /\ [KycNext]_kycVars => KycInv'
  BY KycInvStep
<1>3. ASSUME KycInv PROVE RevocationSticks
  <2>1. RowsFollow /\ OneActive
    BY <1>3 DEF KycInv
  <2>2. ASSUME NEW k \in KycSound, LetsRetire(k) PROVE vendor[k] = "APPROVED" \/ Marking(k)
    BY <2>1, <2>2 DEF KycSound, LetsRetire, RowsFollow, AnswerHolds
  <2>3. ASSUME NEW k \in KycSound, vendor[k] = "REVOKED"
        PROVE  check[k] = "REVOKED" \/ Marking(k)
    BY <2>1, <2>3 DEF KycSound, RowsFollow
  <2>4. ASSUME NEW k \in KycSound, NEW other \in KycSound, k # other,
               LetsRetire(k), LetsRetire(other)
        PROVE  Marking(k) \/ Marking(other)
    BY <2>1, <2>2, <2>4 DEF KycSound, OneActive
  <2> QED
    BY <2>2, <2>3, <2>4 DEF KycSound, Marking, RevocationSticks
<1> QED
  BY <1>1, <1>2, <1>3, PTL DEF KycSpec
=============================================================================
