---------------------------- MODULE ServicesProofs ----------------------------
(***************************************************************************)
(* Proofs about the services MC_Services composes, for any number of       *)
(* concurrent calls and every value of their constants.                    *)
(***************************************************************************)
EXTENDS Approvals, Coupons, Archival, Sessions, Awd2Handoff, FiniteSetTheorems, TLAPS

(***************************************************************************)
(* Approvals.  The tally a vote will write is what it has seen plus one:   *)
(* what it has seen was a number of votes then, and votes are never taken  *)
(* back.                                                                   *)
(***************************************************************************)
Votes == Cardinality(VotesFor)

BallotInv ==
    \A b \in Ballot : ballot[b].pc # "idle" =>
        /\ ballot[b].user \in Approver
        /\ ballot[b].decision \in {"APPROVED", "REJECTED"}
        /\ ballot[b].seen <= Votes
        /\ ballot[b].pc = "tally" => vote[ballot[b].user] = ballot[b].decision
        /\ ballot[b].pc = "tally" /\ ballot[b].decision = "APPROVED" =>
               ballot[b].seen + 1 <= Votes

(* QuorumIsReal, in two parts: what overlapping calls keep, ...             *)
SafeTally ==
    /\ request.received <= Votes
    /\ request.status = "APPROVED" => Votes >= request.required
    /\ request.status = "REJECTED" => SomeReject

CountInv == ApprovalTypeOK /\ BallotInv /\ SafeTally

(* ... and what calls that come one after another keep.  A call in flight   *)
(* is then the only one: what it has seen is what is there, and its vote is *)
(* the only one that is not tallied.                                        *)
ExactTally ==
    Tallied /\ ~overlapped =>
        /\ request.received = Votes
        /\ SomeReject => request.status = "REJECTED"
        /\ ~SomeReject => (request.status = "APPROVED" <=> Votes >= request.required)

TallyInv ==
    /\ request.status = "none" =>
        /\ \A u \in Approver : vote[u] = "none"
        /\ \A b \in Ballot : ballot[b].pc = "idle"
    /\ \A b \in Ballot : ballot[b].pc # "idle" /\ ~overlapped =>
        /\ request.status = "PENDING" /\ ballot[b].seen = request.received
        /\ \A c \in Ballot \ {b} : ballot[c].pc = "idle"
    /\ \A b \in Ballot : ballot[b].pc = "tally" /\ ~overlapped /\ ~untallied =>
        /\ Votes = ballot[b].seen + (IF ballot[b].decision = "APPROVED" THEN 1 ELSE 0)
        /\ SomeReject <=> ballot[b].decision = "REJECTED"

ApprovalInv == CountInv /\ TallyInv /\ ExactTally

(* A vote leaves the number of approvals as it was, or adds its own.        *)
LEMMA VotesGrow ==
    ASSUME CountInv, NEW u \in Approver, vote[u] = "none",
           NEW decision \in {"APPROVED", "REJECTED"},
           vote' = [vote EXCEPT ![u] = decision]
    PROVE  /\ Votes \in Nat /\ Votes' \in Nat
           /\ Votes' = IF decision = "APPROVED" THEN Votes + 1 ELSE Votes
<1>1. IsFiniteSet(VotesFor)
  BY ApprovalAssumption, FS_Subset DEF VotesFor
<1>2. u \notin VotesFor
  BY DEF VotesFor
<1>3. CASE decision = "APPROVED"
  <2>1. VotesFor' = VotesFor \cup {u}
    BY <1>3 DEF VotesFor, CountInv, ApprovalTypeOK
  <2> QED
    BY <1>1, <1>2, <1>3, <2>1, FS_AddElement, FS_CardinalityType DEF Votes
<1>4. CASE decision = "REJECTED"
  <2>1. VotesFor' = VotesFor
    BY <1>2, <1>4 DEF VotesFor, CountInv, ApprovalTypeOK
  <2> QED
    BY <1>1, <1>4, <2>1, FS_CardinalityType DEF Votes
<1> QED
  BY <1>3, <1>4

LEMMA VotesType ==
    Votes \in Nat
BY ApprovalAssumption, FS_Subset, FS_CardinalityType DEF Votes, VotesFor

(* Votes is a function of vote alone.                                       *)
LEMMA VotesStay ==
    ASSUME UNCHANGED vote
    PROVE  Votes' = Votes
BY DEF Votes, VotesFor

LEMMA CountInvInit ==
    ApprovalInit => CountInv
<1> SUFFICES ASSUME ApprovalInit PROVE CountInv
  OBVIOUS
<1>1. ApprovalTypeOK
  BY DEF ApprovalInit, ApprovalTypeOK, NoBallot
<1>2. BallotInv
  BY DEF ApprovalInit, BallotInv, NoBallot
<1>3. SafeTally
  BY VotesType DEF ApprovalInit, SafeTally, SomeReject, Votes
<1> QED
  BY <1>1, <1>2, <1>3 DEF CountInv

LEMMA CountInvStep ==
    CountInv /\ [ApprovalNext]_approvalVars => CountInv'
<1> SUFFICES ASSUME CountInv, [ApprovalNext]_approvalVars PROVE CountInv'
  OBVIOUS
<1> USE ApprovalAssumption
<1>a. ApprovalTypeOK /\ BallotInv /\ SafeTally
  BY DEF CountInv
<1>b. Votes \in Nat
  BY VotesType
<1>1. ASSUME NEW quorum \in Quorum \cup {1}, EnableRecipe(quorum) PROVE CountInv'
  <2>1. Votes' = Votes
    BY <1>1, VotesStay DEF EnableRecipe
  <2>2. ApprovalTypeOK'
    BY <1>a, <1>1 DEF EnableRecipe, ApprovalTypeOK
  <2>3. BallotInv'
    BY <1>a, <1>1, <2>1 DEF EnableRecipe, BallotInv
  <2>4. SafeTally'
    BY <1>a, <1>1, <2>1 DEF EnableRecipe, SafeTally, SomeReject, Votes
  <2> QED
    BY <2>2, <2>3, <2>4 DEF CountInv
<1>2. CASE SubmitApproval
  <2>1. Votes' = Votes
    BY <1>2, VotesStay DEF SubmitApproval
  <2>2. ApprovalTypeOK'
    BY <1>a, <1>2 DEF SubmitApproval, ApprovalTypeOK
  <2>3. BallotInv'
    BY <1>a, <1>2, <2>1 DEF SubmitApproval, BallotInv
  <2>4. SafeTally'
    BY <1>a, <1>b, <1>2, <2>1 DEF SubmitApproval, SafeTally, SomeReject, Votes
  <2> QED
    BY <2>2, <2>3, <2>4 DEF CountInv
<1>3. ASSUME NEW b \in Ballot, NEW u \in Approver, NEW decision \in {"APPROVED", "REJECTED"},
             BeginVote(b, u, decision)
      PROVE  CountInv'
  <2>1. Votes' = Votes
    BY <1>3, VotesStay DEF BeginVote
  <2>2. ApprovalTypeOK'
    BY <1>a, <1>3 DEF BeginVote, ApprovalTypeOK
  <2>3. BallotInv'
    BY <1>a, <1>3, <2>1 DEF BeginVote, BallotInv, ApprovalTypeOK, SafeTally, SomeReject, Votes
  <2>4. SafeTally'
    BY <1>a, <1>3, <2>1 DEF BeginVote, SafeTally, SomeReject, Votes
  <2> QED
    BY <2>2, <2>3, <2>4 DEF CountInv
<1>4. ASSUME NEW b \in Ballot, CastVote(b) PROVE CountInv'
  <2> DEFINE u == ballot[b].user
             decision == ballot[b].decision
  <2>1. u \in Approver /\ decision \in {"APPROVED", "REJECTED"} /\ ballot[b].seen <= Votes
    BY <1>a, <1>4 DEF CastVote, BallotInv
  <2>2. CASE MayVote(u)
    <3>1. /\ vote[u] = "none"
          /\ vote' = [vote EXCEPT ![u] = decision]
          /\ ballot' = [ballot EXCEPT ![b].pc = "tally"]
          /\ UNCHANGED <<recipe, request, overlapped, untallied>>
      BY <1>4, <2>2 DEF CastVote, MayVote
    <3>2. Votes' \in Nat /\ Votes' = IF decision = "APPROVED" THEN Votes + 1 ELSE Votes
      <4> HIDE DEF u, decision
      <4> QED BY <2>1, <3>1, VotesGrow
    <3>3. ApprovalTypeOK'
      BY <1>a, <2>1, <3>1 DEF ApprovalTypeOK
    <3>4. BallotInv'
      BY <1>a, <1>b, <2>1, <3>1, <3>2 DEF BallotInv, ApprovalTypeOK
    <3>5. SafeTally'
      BY <1>a, <1>b, <2>1, <3>1, <3>2 DEF SafeTally, SomeReject, ApprovalTypeOK, Votes
    <3> QED
      BY <3>3, <3>4, <3>5 DEF CountInv
  <2>3. CASE ~MayVote(u)
    <3>1. /\ ballot' = [ballot EXCEPT ![b] = NoBallot]
          /\ UNCHANGED <<recipe, request, vote, overlapped, untallied>>
      BY <1>4, <2>3 DEF CastVote
    <3>2. Votes' = Votes
      BY <3>1, VotesStay
    <3>3. ApprovalTypeOK'
      BY <1>a, <3>1 DEF ApprovalTypeOK, NoBallot
    <3>4. BallotInv'
      BY <1>a, <3>1, <3>2 DEF BallotInv, ApprovalTypeOK, NoBallot
    <3>5. SafeTally'
      BY <1>a, <3>1, <3>2 DEF SafeTally, SomeReject, Votes
    <3> QED
      BY <3>3, <3>4, <3>5 DEF CountInv
  <2> QED
    BY <2>2, <2>3
<1>5. ASSUME NEW b \in Ballot, UpdateRequest(b) PROVE CountInv'
  <2>1. Votes' = Votes
    BY <1>5, VotesStay DEF UpdateRequest
  <2>2. ApprovalTypeOK'
    <3>1. ballot[b].seen + 1 \in Nat /\ request.required \in Nat
      BY <1>a DEF ApprovalTypeOK
    <3>2. request' \in [status : {"none", "PENDING", "APPROVED", "REJECTED"},
                        required : Nat, received : Nat]
      <4>1. CASE ballot[b].decision = "REJECTED"
        BY <1>a, <1>5, <4>1 DEF UpdateRequest, ApprovalTypeOK
      <4>2. CASE ballot[b].decision # "REJECTED"
        <5>1. CASE ballot[b].seen + 1 >= request.required
          BY <1>a, <1>5, <3>1, <4>2, <5>1 DEF UpdateRequest, ApprovalTypeOK
        <5>2. CASE ~(ballot[b].seen + 1 >= request.required)
          BY <1>a, <1>5, <3>1, <4>2, <5>2 DEF UpdateRequest, ApprovalTypeOK
        <5> QED
          BY <5>1, <5>2
      <4> QED
        BY <4>1, <4>2
    <3> QED
      BY <1>a, <1>5, <3>2 DEF UpdateRequest, ApprovalTypeOK, NoBallot
  <2>3. BallotInv'
    BY <1>a, <1>5, <2>1 DEF UpdateRequest, BallotInv, ApprovalTypeOK, NoBallot
  <2>4. SafeTally'
    BY <1>a, <1>b, <1>5, <2>1
    DEF UpdateRequest, SafeTally, SomeReject, BallotInv, ApprovalTypeOK, Votes
  <2> QED
    BY <2>2, <2>3, <2>4 DEF CountInv
<1>6. ASSUME NEW b \in Ballot, DropBallot(b) PROVE CountInv'
  <2>1. Votes' = Votes
    BY <1>6, VotesStay DEF DropBallot
  <2>2. ApprovalTypeOK'
    BY <1>a, <1>6 DEF DropBallot, ApprovalTypeOK, NoBallot
  <2>3. BallotInv'
    BY <1>a, <1>6, <2>1 DEF DropBallot, BallotInv, ApprovalTypeOK, NoBallot
  <2>4. SafeTally'
    BY <1>a, <1>6, <2>1 DEF DropBallot, SafeTally, SomeReject, Votes
  <2> QED
    BY <2>2, <2>3, <2>4 DEF CountInv
<1>7. CASE UNCHANGED approvalVars
  <2>1. Votes' = Votes
    BY <1>7, VotesStay DEF approvalVars
  <2>2. ApprovalTypeOK'
    BY <1>a, <1>7 DEF approvalVars, ApprovalTypeOK
  <2>3. BallotInv'
    BY <1>a, <1>7, <2>1 DEF approvalVars, BallotInv
  <2>4. SafeTally'
    BY <1>a, <1>7, <2>1 DEF approvalVars, SafeTally, SomeReject, Votes
  <2> QED
    BY <2>2, <2>3, <2>4 DEF CountInv
<1> QED
  BY <1>1, <1>2, <1>3, <1>4, <1>5, <1>6, <1>7 DEF ApprovalNext

(* What calls that do not overlap have tallied.                             *)
LEMMA TallyInvInit ==
    ApprovalInit => TallyInv /\ ExactTally
BY DEF ApprovalInit, TallyInv, ExactTally, Tallied, NoBallot

LEMMA TallyInvStep ==
    ASSUME ApprovalInv, [ApprovalNext]_approvalVars
    PROVE  TallyInv' /\ ExactTally'
<1> USE ApprovalAssumption
<1>a. ApprovalTypeOK /\ BallotInv /\ TallyInv /\ ExactTally /\ Votes \in Nat
  BY VotesType DEF ApprovalInv, CountInv
<1>1. ASSUME NEW quorum \in Quorum \cup {1}, EnableRecipe(quorum)
      PROVE  TallyInv' /\ ExactTally'
  <2>1. Votes' = Votes
    BY <1>1, VotesStay DEF EnableRecipe
  <2> QED
    BY <1>a, <1>1, <2>1 DEF EnableRecipe, TallyInv, ExactTally, Tallied, SomeReject
<1>2. CASE SubmitApproval
  <2>1. /\ \A u \in Approver : vote[u] = "none"
        /\ \A b \in Ballot : ballot[b].pc = "idle"
        /\ UNCHANGED <<vote, ballot, overlapped, untallied>>
        /\ request'.status = "PENDING" /\ request'.received = 0
        /\ request'.required = recipe
    BY <1>a, <1>2 DEF SubmitApproval, TallyInv
  <2>2. Votes' = 0
    <3>1. VotesFor' = {}
      BY <2>1 DEF VotesFor
    <3> QED
      BY <3>1, FS_EmptySet DEF Votes
  <2>3. recipe \in Nat \ {0}
    BY <1>a DEF ApprovalTypeOK
  <2>4. TallyInv'
    BY <2>1 DEF TallyInv
  <2>5. ExactTally'
    BY <2>1, <2>2, <2>3 DEF ExactTally, SomeReject
  <2> QED
    BY <2>4, <2>5
<1>3. ASSUME NEW b \in Ballot, NEW u \in Approver, NEW decision \in {"APPROVED", "REJECTED"},
             BeginVote(b, u, decision)
      PROVE  TallyInv' /\ ExactTally'
  <2>1. Votes' = Votes
    BY <1>3, VotesStay DEF BeginVote
  <2>2. /\ request.status = "PENDING" /\ UNCHANGED <<request, vote, untallied>>
        /\ ballot[b].pc = "idle"
        /\ ballot'[b].pc = "cast" /\ ballot'[b].seen = request.received
        /\ \A c \in Ballot \ {b} : ballot'[c] = ballot[c]
    BY <1>a, <1>3 DEF BeginVote, ApprovalTypeOK, NoBallot
  <2>3. ~overlapped' => ~overlapped /\ \A c \in Ballot : ballot[c].pc = "idle"
    <3>1. overlapped' <=> overlapped \/ \E c \in Ballot : ballot[c] # NoBallot
      BY <1>3 DEF BeginVote
    <3> QED
      BY <3>1 DEF NoBallot
  <2>4. TallyInv'
    BY <2>2, <2>3 DEF TallyInv
  <2>5. ExactTally'
    BY <1>a, <2>1, <2>2, <2>3 DEF ExactTally, Tallied, SomeReject
  <2> QED
    BY <2>4, <2>5
<1>4. ASSUME NEW b \in Ballot, ballot[b].pc = "cast", ballot' = [ballot EXCEPT ![b] = NoBallot],
             UNCHANGED <<request, vote, overlapped, untallied>>
      PROVE  TallyInv' /\ ExactTally'
  <2>1. Votes' = Votes
    BY <1>4, VotesStay
  <2>2. ballot'[b].pc = "idle" /\ \A c \in Ballot \ {b} : ballot'[c] = ballot[c]
    BY <1>a, <1>4 DEF ApprovalTypeOK, NoBallot
  <2>3. TallyInv'
    BY <1>a, <1>4, <2>1, <2>2 DEF TallyInv, SomeReject
  <2>4. ExactTally'
    BY <1>a, <1>4, <2>1, <2>2 DEF ExactTally, Tallied, SomeReject
  <2> QED
    BY <2>3, <2>4
<1>5. ASSUME NEW b \in Ballot, CastVote(b), MayVote(ballot[b].user)
      PROVE  TallyInv' /\ ExactTally'
  <2>1. PICK u \in Approver, decision \in {"APPROVED", "REJECTED"} :
            /\ u = ballot[b].user /\ decision = ballot[b].decision
            /\ vote[u] = "none" /\ vote' = [vote EXCEPT ![u] = decision]
    BY <1>a, <1>5 DEF CastVote, MayVote, BallotInv
  <2>2. Votes' = IF decision = "APPROVED" THEN Votes + 1 ELSE Votes
    BY <2>1, VotesGrow DEF ApprovalInv
  <2>3. /\ ballot[b].pc = "cast"
        /\ ballot'[b].pc = "tally" /\ ballot'[b].seen = ballot[b].seen
        /\ ballot'[b].decision = decision
        /\ \A c \in Ballot \ {b} : ballot'[c] = ballot[c]
        /\ UNCHANGED <<request, overlapped, untallied>>
    BY <1>a, <1>5, <2>1 DEF CastVote, ApprovalTypeOK
  <2>4. SomeReject' <=> SomeReject \/ decision = "REJECTED"
    BY <1>a, <2>1 DEF SomeReject, ApprovalTypeOK
  <2>5. request.status # "none"
    BY <1>a, <2>3 DEF TallyInv
  <2>6. ASSUME ~overlapped, ~untallied
        PROVE  /\ ballot[b].seen = Votes /\ ~SomeReject /\ Votes < request.required
               /\ \A c \in Ballot \ {b} : ballot[c].pc = "idle"
    <3>1. /\ request.status = "PENDING" /\ ballot[b].seen = request.received
          /\ \A c \in Ballot \ {b} : ballot[c].pc = "idle"
      BY <1>a, <2>3, <2>6 DEF TallyInv
    <3>2. Tallied
      BY <2>3, <2>5, <2>6, <3>1 DEF Tallied
    <3> QED
      BY <1>a, <2>6, <3>1, <3>2 DEF ExactTally, ApprovalTypeOK
  <2>7. TallyInv'
    <3>1. ~overlapped => /\ request.status = "PENDING" /\ ballot[b].seen = request.received
                         /\ \A c \in Ballot \ {b} : ballot[c].pc = "idle"
      BY <1>a, <2>3 DEF TallyInv
    <3>2. ~overlapped' /\ ~untallied' =>
              /\ Votes' = ballot'[b].seen + (IF ballot'[b].decision = "APPROVED" THEN 1 ELSE 0)
              /\ SomeReject' <=> ballot'[b].decision = "REJECTED"
      BY <1>a, <2>1, <2>2, <2>3, <2>4, <2>6
    <3>3. \A c \in Ballot \ {b} : ~overlapped' => ballot'[c].pc = "idle"
      BY <2>3, <3>1
    <3> HIDE DEF Votes, SomeReject
    <3> QED
      BY <2>3, <2>5, <3>1, <3>2, <3>3 DEF TallyInv
  <2>8. ExactTally'
    BY <2>3 DEF ExactTally, Tallied
  <2> QED
    BY <2>7, <2>8
<1>6. ASSUME NEW b \in Ballot, UpdateRequest(b) PROVE TallyInv' /\ ExactTally'
  <2>1. Votes' = Votes
    BY <1>6, VotesStay DEF UpdateRequest
  <2>2. /\ ballot[b].pc = "tally" /\ ballot'[b].pc = "idle"
        /\ \A c \in Ballot \ {b} : ballot'[c] = ballot[c]
        /\ UNCHANGED <<vote, overlapped, untallied>>
        /\ request'.required = request.required
        /\ ballot[b].seen \in Nat /\ request.required \in Nat
        /\ ballot[b].decision \in {"APPROVED", "REJECTED"}
    BY <1>a, <1>6 DEF UpdateRequest, ApprovalTypeOK, BallotInv, NoBallot
  <2>3. request.status # "none" /\ request'.status # "none"
    BY <1>a, <1>6, <2>2 DEF TallyInv, UpdateRequest, ApprovalTypeOK
  <2>4. ASSUME ~overlapped
        PROVE  /\ \A c \in Ballot : ballot'[c].pc = "idle"
               /\ request.status = "PENDING" /\ ballot[b].seen = request.received
    BY <1>a, <2>2, <2>4 DEF TallyInv
  <2>5. TallyInv'
    BY <2>2, <2>3, <2>4 DEF TallyInv
  <2>6. ASSUME ~overlapped, ~untallied
        PROVE  /\ request'.received = Votes
               /\ SomeReject => request'.status = "REJECTED"
               /\ ~SomeReject => (request'.status = "APPROVED" <=> Votes >= request.required)
    <3>1. /\ Votes = ballot[b].seen + (IF ballot[b].decision = "APPROVED" THEN 1 ELSE 0)
          /\ SomeReject <=> ballot[b].decision = "REJECTED"
      BY <1>a, <2>2, <2>6 DEF TallyInv
    <3>2. CASE ballot[b].decision = "REJECTED"
      <4>1. request' = [request EXCEPT !.status = "REJECTED"]
        BY <1>6, <3>2 DEF UpdateRequest
      <4> QED
        BY <1>a, <2>2, <2>4, <2>6, <3>1, <3>2, <4>1 DEF ApprovalTypeOK
    <3>3. CASE ballot[b].decision = "APPROVED"
      <4>1. /\ request'.received = ballot[b].seen + 1
            /\ request'.status = IF ballot[b].seen + 1 >= request.required
                                 THEN "APPROVED" ELSE request.status
        BY <1>a, <1>6, <3>3 DEF UpdateRequest, ApprovalTypeOK
      <4> QED
        BY <2>2, <2>4, <2>6, <3>1, <3>3, <4>1
    <3> QED
      BY <2>2, <3>2, <3>3
  <2>7. ExactTally'
    BY <2>1, <2>2, <2>6 DEF ExactTally, Tallied, SomeReject
  <2> QED
    BY <2>5, <2>7
<1>7. ASSUME NEW b \in Ballot, DropBallot(b), ballot[b].pc # "cast"
      PROVE  TallyInv' /\ ExactTally'
  <2>1. /\ ballot'[b].pc = "idle" /\ \A c \in Ballot \ {b} : ballot'[c] = ballot[c]
        /\ UNCHANGED <<request, vote, overlapped>>
        /\ ballot[b].pc = "tally" => untallied'
        /\ untallied => untallied'
    BY <1>a, <1>7 DEF DropBallot, ApprovalTypeOK, NoBallot
  <2>2. Votes' = Votes
    BY <2>1, VotesStay
  <2>3. ballot[b].pc # "idle" => untallied'
    BY <1>a, <1>7, <2>1 DEF ApprovalTypeOK
  <2>4. TallyInv'
    BY <1>a, <2>1, <2>2 DEF TallyInv, SomeReject
  <2>5. ExactTally'
    BY <1>a, <2>1, <2>2, <2>3 DEF ExactTally, Tallied, SomeReject
  <2> QED
    BY <2>4, <2>5
<1>8. CASE UNCHANGED approvalVars
  <2>1. Votes' = Votes
    BY <1>8, VotesStay DEF approvalVars
  <2> QED
    BY <1>a, <1>8, <2>1 DEF approvalVars, TallyInv, ExactTally, Tallied, SomeReject
<1>9. ASSUME NEW b \in Ballot, CastVote(b) PROVE TallyInv' /\ ExactTally'
  BY <1>4, <1>5, <1>9 DEF CastVote
<1>10. ASSUME NEW b \in Ballot, DropBallot(b) PROVE TallyInv' /\ ExactTally'
  <2>1. CASE ballot[b].pc = "cast"
    BY <1>4, <1>10, <1>a, <2>1 DEF DropBallot, ApprovalTypeOK
  <2> QED
    BY <1>7, <1>10, <2>1
<1> QED
  BY <1>1, <1>2, <1>3, <1>6, <1>8, <1>9, <1>10 DEF ApprovalNext

LEMMA ApprovalInvInit ==
    ApprovalInit => ApprovalInv
BY CountInvInit, TallyInvInit DEF ApprovalInv

LEMMA ApprovalInvStep ==
    ApprovalInv /\ [ApprovalNext]_approvalVars => ApprovalInv'
BY CountInvStep, TallyInvStep DEF ApprovalInv

(* decideApproval: with any number of approvers, concurrent votes and       *)
(* recipes, a request is APPROVED only with its quorum of distinct users,   *)
(* and calls that do not overlap tally exactly.                             *)
THEOREM QuorumAlwaysReal ==
    ApprovalSpec => []QuorumIsReal
<1>1. ApprovalInv => QuorumIsReal
  BY DEF ApprovalInv, CountInv, SafeTally, SomeReject, ExactTally, QuorumIsReal, VotesDecide, Votes
<1> QED
  BY <1>1, ApprovalInvInit, ApprovalInvStep, PTL DEF ApprovalSpec
-----------------------------------------------------------------------------
(***************************************************************************)
(* Coupons.  The row lock lets one transaction at a time count, and from   *)
(* its look at the committed counter to its commit the counter stands      *)
(* still: it is below a cap the coupon has had.                            *)
(***************************************************************************)
CountedInv ==
    \A r \in Redeemer :
        /\ redeem[r].pc # "idle" => redeem[r].email \in Email /\ redeem[r].cap \in caps
        /\ redeem[r].pc = "counted" =>
            /\ BelowCap(r)
            /\ \A q \in Redeemer : redeem[q].pc = "counted" => q = r

CouponInv == CouponTypeOK /\ cap \in caps /\ CountedInv /\ CapHolds

LEMMA CouponInvInit ==
    CouponInit => CouponInv
<1> SUFFICES ASSUME CouponInit PROVE CouponInv
  OBVIOUS
<1>1. CouponTypeOK /\ cap \in caps
  BY DEF CouponInit, CouponTypeOK, NoRedeem
<1>2. CountedInv
  BY DEF CouponInit, CountedInv, NoRedeem
<1>3. CapHolds
  <2>1. Redeemed = {} /\ used = 0 /\ caps = {cap} /\ cap \in CapValue \cup {NoCap}
    BY DEF CouponInit, Redeemed
  <2> QED
    BY <2>1, CouponAssumption, FS_EmptySet DEF CapHolds
<1> QED
  BY <1>1, <1>2, <1>3 DEF CouponInv

LEMMA CouponInvStep ==
    CouponInv /\ [CouponNext]_couponVars => CouponInv'
<1> SUFFICES ASSUME CouponInv, [CouponNext]_couponVars PROVE CouponInv'
  OBVIOUS
<1> USE CouponAssumption
<1>a. CouponTypeOK /\ cap \in caps /\ CountedInv /\ CapHolds
  BY DEF CouponInv
<1>1. ASSUME NEW r \in Redeemer, NEW e \in Email, BeginRedeem(r, e) PROVE CouponInv'
  <2>1. CouponTypeOK' /\ cap' \in caps'
    BY <1>a, <1>1 DEF BeginRedeem, CouponTypeOK
  <2>2. CountedInv'
    BY <1>a, <1>1 DEF BeginRedeem, CountedInv, BelowCap, CouponTypeOK, NoRedeem
  <2>3. CapHolds'
    BY <1>a, <1>1 DEF BeginRedeem, CapHolds, Redeemed
  <2> QED
    BY <2>1, <2>2, <2>3 DEF CouponInv
<1>2. ASSUME NEW r \in Redeemer, CountRedemption(r) PROVE CouponInv'
  <2>1. CouponTypeOK' /\ cap' \in caps'
    BY <1>a, <1>2 DEF CountRedemption, CouponTypeOK, NoRedeem
  <2>2. CountedInv'
    BY <1>a, <1>2 DEF CountRedemption, RowFree, CountedInv, BelowCap, CouponTypeOK, NoRedeem
  <2>3. CapHolds'
    BY <1>a, <1>2 DEF CountRedemption, CapHolds, Redeemed
  <2> QED
    BY <2>1, <2>2, <2>3 DEF CouponInv
<1>3. ASSUME NEW r \in Redeemer, CommitRedemption(r) PROVE CouponInv'
  <2> DEFINE e == redeem[r].email
  <2>1. /\ e \in Email /\ redeem[r].cap \in caps /\ BelowCap(r)
        /\ \A q \in Redeemer \ {r} : redeem[q].pc # "counted"
    BY <1>a, <1>3 DEF CommitRedemption, CountedInv
  <2>2. redeem' = [redeem EXCEPT ![r] = NoRedeem] /\ UNCHANGED <<cap, active, caps>>
    BY <1>3 DEF CommitRedemption
  <2>3. /\ used' \in Nat
        /\ redemption' \in [Email -> {"none", "ACTIVE", "CONVERTED"}]
    BY <1>a, <1>3, <2>1 DEF CommitRedemption, CouponTypeOK
  <2>4. CouponTypeOK' /\ cap' \in caps'
    BY <1>a, <2>2, <2>3 DEF CouponTypeOK, NoRedeem
  <2>5. CountedInv'
    BY <1>a, <2>1, <2>2 DEF CountedInv, CouponTypeOK, NoRedeem
  <2>6. CASE redemption[e] = "none"
    <3>1. used' = used + 1 /\ redemption' = [redemption EXCEPT ![e] = "ACTIVE"]
      BY <1>3, <2>6 DEF CommitRedemption
    <3>2. Redeemed' = Redeemed \cup {e} /\ e \notin Redeemed
      BY <1>a, <2>1, <2>6, <3>1 DEF Redeemed, CouponTypeOK
    <3>3. IsFiniteSet(Redeemed)
      BY FS_Subset DEF Redeemed
    <3>4. used' = Cardinality(Redeemed')
      BY <1>a, <3>1, <3>2, <3>3, FS_AddElement DEF CapHolds
    <3>5. NoCap \notin caps' => \E c \in caps' : used' <= c
      <4> SUFFICES ASSUME NoCap \notin caps PROVE \E c \in caps : used + 1 <= c
        BY <2>2, <3>1
      <4>1. redeem[r].cap \in Nat /\ used < redeem[r].cap
        BY <1>a, <2>1 DEF BelowCap, CouponTypeOK
      <4>2. used + 1 <= redeem[r].cap
        BY <1>a, <4>1 DEF CouponTypeOK
      <4> QED
        BY <2>1, <4>2
    <3> QED
      BY <2>4, <2>5, <3>4, <3>5 DEF CouponInv, CapHolds
  <2>7. CASE redemption[e] # "none"
    <3>1. UNCHANGED <<used, redemption, caps>>
      BY <1>3, <2>2, <2>7 DEF CommitRedemption
    <3>2. CapHolds'
      BY <1>a, <3>1 DEF CapHolds, Redeemed
    <3> QED
      BY <2>4, <2>5, <3>2 DEF CouponInv
  <2> QED
    BY <2>6, <2>7
<1>4. ASSUME NEW r \in Redeemer, Rollback(r) PROVE CouponInv'
  <2>1. CouponTypeOK' /\ cap' \in caps'
    BY <1>a, <1>4 DEF Rollback, CouponTypeOK, NoRedeem
  <2>2. CountedInv'
    BY <1>a, <1>4 DEF Rollback, CountedInv, BelowCap, CouponTypeOK, NoRedeem
  <2>3. CapHolds'
    BY <1>a, <1>4 DEF Rollback, CapHolds, Redeemed
  <2> QED
    BY <2>1, <2>2, <2>3 DEF CouponInv
<1>5. ASSUME NEW newCap \in CapValue \cup {NoCap}, NEW newActive \in BOOLEAN,
             UpdateCoupon(newCap, newActive)
      PROVE  CouponInv'
  <2>1. CouponTypeOK' /\ cap' \in caps'
    BY <1>a, <1>5 DEF UpdateCoupon, CouponTypeOK
  <2>2. CountedInv'
    BY <1>a, <1>5 DEF UpdateCoupon, CountedInv, BelowCap
  <2>3. CapHolds'
    BY <1>a, <1>5 DEF UpdateCoupon, CapHolds, Redeemed
  <2> QED
    BY <2>1, <2>2, <2>3 DEF CouponInv
<1>6. ASSUME NEW e \in Email, MarkConverted(e) PROVE CouponInv'
  <2>1. CouponTypeOK' /\ cap' \in caps'
    BY <1>a, <1>6 DEF MarkConverted, CouponTypeOK
  <2>2. CountedInv'
    BY <1>a, <1>6 DEF MarkConverted, CountedInv, BelowCap
  <2>3. Redeemed' = Redeemed
    BY <1>a, <1>6 DEF MarkConverted, Redeemed, CouponTypeOK
  <2>4. CapHolds'
    BY <1>a, <1>6, <2>3 DEF MarkConverted, CapHolds
  <2> QED
    BY <2>1, <2>2, <2>4 DEF CouponInv
<1>7. CASE UNCHANGED couponVars
  <2>1. CouponTypeOK' /\ cap' \in caps'
    BY <1>a, <1>7 DEF couponVars, CouponTypeOK
  <2>2. CountedInv'
    BY <1>a, <1>7 DEF couponVars, CountedInv, BelowCap
  <2>3. CapHolds'
    BY <1>a, <1>7 DEF couponVars, CapHolds, Redeemed
  <2> QED
    BY <2>1, <2>2, <2>3 DEF CouponInv
<1> QED
  BY <1>1, <1>2, <1>3, <1>4, <1>5, <1>6, <1>7 DEF CouponNext

(* redeemCoupon: with any number of concurrent redemptions and changes of   *)
(* the cap, the counter counts the redemptions and stays within some cap    *)
(* the coupon has had.                                                      *)
THEOREM CapAlwaysHolds ==
    CouponSpec => []CapHolds
<1>1. CouponInv => CapHolds
  BY DEF CouponInv
<1> QED
  BY <1>1, CouponInvInit, CouponInvStep, PTL DEF CouponSpec
-----------------------------------------------------------------------------
(***************************************************************************)
(* Archival.  As long as nothing is archived, every run that has read has  *)
(* read all there was to read, in its hands or in its blob, so whichever   *)
(* commits first deletes nothing else.  A run that may still overwrite the *)
(* blob of the archive read in the same millisecond as the one that put    *)
(* it: it writes all there was to read then, too.                          *)
(***************************************************************************)
Kept == added \ late

RunInv ==
    /\ \A a \in Archiver :
        /\ job[a].pc \in {"put", "commit"} => job[a].key \in Instant
        /\ job[a].pc = "put" /\ archive = NoArchive => Kept \subseteq job[a].rows
        /\ job[a].pc = "put" /\ archive.key = job[a].key =>
               Kept \subseteq datapoints \cup job[a].rows
        /\ job[a].pc = "commit" => job[a].key \in DOMAIN blob
        /\ job[a].pc = "commit" /\ archive = NoArchive => Kept \subseteq blob[job[a].key]
    /\ archive.key = "none" => archive = NoArchive
    /\ restoring => archive # NoArchive

ArchivalInv == ArchivalTypeOK /\ RunInv /\ DatapointsKept

LEMMA ArchivalInvInit ==
    ArchivalInit => ArchivalInv
<1> SUFFICES ASSUME ArchivalInit PROVE ArchivalInv
  OBVIOUS
<1>1. DOMAIN blob = {}
  BY DEF ArchivalInit
<1>2. ArchivalTypeOK
  BY <1>1 DEF ArchivalInit, ArchivalTypeOK, NoArchive, IdleJob
<1>3. RunInv
  BY ArchivalAssumption DEF ArchivalInit, RunInv, NoArchive, IdleJob
<1>4. DatapointsKept
  BY DEF ArchivalInit, DatapointsKept, InBlob
<1> QED
  BY <1>2, <1>3, <1>4 DEF ArchivalInv

LEMMA ArchivalInvStep ==
    ArchivalInv /\ [ArchivalNext]_archivalVars => ArchivalInv'
<1> SUFFICES ASSUME ArchivalInv, [ArchivalNext]_archivalVars PROVE ArchivalInv'
  OBVIOUS
<1> USE ArchivalAssumption
<1>a. ArchivalTypeOK /\ RunInv /\ DatapointsKept
  BY DEF ArchivalInv
<1>1. ASSUME NEW d \in Datapoint, BeginAdd(d) PROVE ArchivalInv'
  BY <1>a, <1>1
  DEF BeginAdd, ArchivalInv, ArchivalTypeOK, RunInv, DatapointsKept, InBlob, Kept
<1>2. ASSUME NEW d \in Datapoint, AddDatapoint(d) PROVE ArchivalInv'
  <2>1. ArchivalTypeOK'
    BY <1>a, <1>2 DEF AddDatapoint, ArchivalTypeOK
  <2>2. RunInv'
    <3>1. /\ UNCHANGED <<blob, archive, job, restoring>>
          /\ added' = added \cup {d} /\ datapoints' = datapoints \cup {d}
      BY <1>2 DEF AddDatapoint
    <3>2. Kept' \subseteq Kept \cup {d}
      BY <1>2, <3>1 DEF AddDatapoint, Kept
    <3>3. ASSUME NEW a \in Archiver, job[a].pc \in {"put", "commit"}, archive = NoArchive
          PROVE  Kept' \subseteq Kept
      <4>1. late' = late \cup {d}
        BY <1>2, <3>3 DEF AddDatapoint
      <4> QED
        BY <3>1, <4>1 DEF Kept
    <3>4. ASSUME NEW a \in Archiver
          PROVE  /\ job[a].pc \in {"put", "commit"} => job[a].key \in Instant
                 /\ job[a].pc = "put" /\ archive = NoArchive => Kept' \subseteq job[a].rows
                 /\ job[a].pc = "put" /\ archive.key = job[a].key =>
                        Kept' \subseteq datapoints' \cup job[a].rows
                 /\ job[a].pc = "commit" => job[a].key \in DOMAIN blob
                 /\ job[a].pc = "commit" /\ archive = NoArchive =>
                        Kept' \subseteq blob[job[a].key]
      <4> HIDE DEF Kept
      <4> QED BY <1>a, <3>1, <3>2, <3>3 DEF RunInv
    <3> QED
      BY <1>a, <3>1, <3>4 DEF RunInv
  <2>3. DatapointsKept'
    BY <1>a, <1>2 DEF AddDatapoint, DatapointsKept, InBlob
  <2> QED
    BY <2>1, <2>2, <2>3 DEF ArchivalInv
<1>3. CASE SubmitOpenPeriod
  BY <1>a, <1>3
  DEF SubmitOpenPeriod, ArchivalInv, ArchivalTypeOK, RunInv, DatapointsKept, InBlob, Kept
<1>4. ASSUME NEW a \in Archiver, BeginArchive(a) PROVE ArchivalInv'
  <2>1. ArchivalTypeOK'
    BY <1>a, <1>4 DEF BeginArchive, JobGoes, ArchivalTypeOK
  <2>2. RunInv'
    BY <1>a, <1>4 DEF BeginArchive, JobGoes, RunInv, Kept, ArchivalTypeOK
  <2>3. DatapointsKept'
    BY <1>a, <1>4 DEF BeginArchive, DatapointsKept, InBlob
  <2> QED
    BY <2>1, <2>2, <2>3 DEF ArchivalInv
<1>5. ASSUME NEW a \in Archiver, ReadDatapoints(a) PROVE ArchivalInv'
  <2>1. ArchivalTypeOK'
    BY <1>a, <1>5 DEF ReadDatapoints, ArchivalTypeOK
  <2>2. RunInv'
    BY <1>a, <1>5 DEF ReadDatapoints, RunInv, DatapointsKept, InBlob, Kept, ArchivalTypeOK
  <2>3. DatapointsKept'
    BY <1>a, <1>5 DEF ReadDatapoints, DatapointsKept, InBlob
  <2> QED
    BY <2>1, <2>2, <2>3 DEF ArchivalInv
<1>6. ASSUME NEW a \in Archiver, PutBlob(a) PROVE ArchivalInv'
  <2>1. ArchivalTypeOK'
    BY <1>a, <1>6 DEF PutBlob, JobGoes, ArchivalTypeOK, RunInv
  <2>2. /\ blob'[job[a].key] = job[a].rows /\ job[a].key # "none"
        /\ \A k \in DOMAIN blob : k # job[a].key => blob'[k] = blob[k]
        /\ DOMAIN blob \subseteq DOMAIN blob' /\ job[a].key \in DOMAIN blob'
        /\ UNCHANGED <<added, datapoints, archive, late, restoring>>
    BY <1>a, <1>6 DEF PutBlob, RunInv
  <2>3. job[a].pc = "put" /\ job' = [job EXCEPT ![a].pc = "commit"]
    BY <1>6 DEF PutBlob, JobGoes
  <2>4. RunInv'
    BY <1>a, <2>2, <2>3 DEF RunInv, Kept, ArchivalTypeOK
  <2>5. archive # NoArchive => archive.key \in DOMAIN blob
    BY <1>a DEF ArchivalTypeOK, RunInv
  <2>6. DatapointsKept'
    BY <1>a, <2>2, <2>3, <2>5 DEF DatapointsKept, InBlob, RunInv, Kept, NoArchive
  <2> QED
    BY <2>1, <2>4, <2>6 DEF ArchivalInv
<1>7. ASSUME NEW a \in Archiver, CommitArchive(a) PROVE ArchivalInv'
  <2>1. ArchivalTypeOK'
    BY <1>a, <1>7 DEF CommitArchive, ArchivalTypeOK, RunInv, IdleJob
  <2>2. RunInv'
    BY <1>a, <1>7 DEF CommitArchive, MayRecord, RunInv, Kept, ArchivalTypeOK, IdleJob, NoArchive
  <2>3. DatapointsKept'
    BY <1>a, <1>7 DEF CommitArchive, MayRecord, DatapointsKept, InBlob, RunInv, Kept, NoArchive
  <2> QED
    BY <2>1, <2>2, <2>3 DEF ArchivalInv
<1>8. ASSUME NEW a \in Archiver, DropArchive(a) PROVE ArchivalInv'
  <2>1. ArchivalTypeOK'
    BY <1>a, <1>8 DEF DropArchive, ArchivalTypeOK, IdleJob
  <2>2. RunInv'
    BY <1>a, <1>8 DEF DropArchive, RunInv, Kept, ArchivalTypeOK, IdleJob
  <2>3. DatapointsKept'
    BY <1>a, <1>8 DEF DropArchive, DatapointsKept, InBlob
  <2> QED
    BY <2>1, <2>2, <2>3 DEF ArchivalInv
<1>9. CASE BeginRestore
  BY <1>a, <1>9
  DEF BeginRestore, ArchivalInv, ArchivalTypeOK, RunInv, DatapointsKept, InBlob, Kept
<1>10. CASE RestoreRows
  <2>1. archive.rows \subseteq added
    BY <1>a DEF ArchivalTypeOK
  <2>2. ArchivalTypeOK'
    BY <1>a, <1>10, <2>1 DEF RestoreRows, ArchivalTypeOK
  <2>3. RunInv' /\ DatapointsKept'
    BY <1>a, <1>10 DEF RestoreRows, RunInv, DatapointsKept, InBlob, Kept
  <2> QED
    BY <2>2, <2>3 DEF ArchivalInv
<1>11. CASE DropRestore
  BY <1>a, <1>11
  DEF DropRestore, ArchivalInv, ArchivalTypeOK, RunInv, DatapointsKept, InBlob, Kept
<1>12. CASE UNCHANGED archivalVars
  BY <1>a, <1>12
  DEF archivalVars, ArchivalInv, ArchivalTypeOK, RunInv, DatapointsKept, InBlob, Kept
<1> QED
  BY <1>1, <1>2, <1>3, <1>4, <1>5, <1>6, <1>7, <1>8, <1>9, <1>10, <1>11, <1>12
  DEF ArchivalNext

(* archivePeriod, restorePeriod: with any number of overlapping runs,       *)
(* crashes and restores, no datapoint but a late one is lost.               *)
THEOREM DatapointsAlwaysKept ==
    ArchivalSpec => []DatapointsKept
<1>1. ArchivalInv => DatapointsKept
  BY DEF ArchivalInv
<1> QED
  BY <1>1, ArchivalInvInit, ArchivalInvStep, PTL DEF ArchivalSpec
-----------------------------------------------------------------------------
(***************************************************************************)
(* Sessions.  A session that rests on an older password exists only while  *)
(* a change of password is between its writes, or is marked.               *)
(***************************************************************************)
VisitorInv ==
    \A v \in Visitor :
        /\ visitor[v].pc = "createSession" => visitor[v].pw \in 1..MaxPasswords
        /\ visitor[v].pc = "rotate" => visitor[v].id \in SessionId
        /\ visitor[v].pc = "commitReset" => visitor[v].id \in Reset

SessionInv == SessionTypeOK /\ VisitorInv /\ OldSessionsEnd

LEMMA SessionInvInit ==
    SessionInit => SessionInv
<1> SUFFICES ASSUME SessionInit PROVE SessionInv
  OBVIOUS
<1>1. DOMAIN session = {}
  BY DEF SessionInit
<1>2. SessionTypeOK
  <2>1. password \in 1..MaxPasswords /\ nextSession \in 1..(MaxSessions + 1)
    BY SessionAssumption DEF SessionInit
  <2>2. /\ reset \in [Reset -> {"none", "open", "void", "used"}]
        /\ interrupted \in BOOLEAN
    BY DEF SessionInit
  <2>3. Gone \in [pc : {"idle", "createSession", "rotate", "createReset",
                       "commitReset", "writePassword", "deleteSessions"},
                 id : SessionId \cup Reset \cup {0}, pw : 0..MaxPasswords]
    BY SessionAssumption DEF Gone
  <2>4. visitor = [v \in Visitor |-> Gone]
    BY DEF SessionInit
  <2> QED
    BY <1>1, <2>1, <2>2, <2>3, <2>4 DEF SessionTypeOK
<1>3. VisitorInv /\ OldSessionsEnd
  BY <1>1 DEF SessionInit, VisitorInv, OldSessionsEnd, Gone
<1> QED
  BY <1>2, <1>3 DEF SessionInv

(* A call that touches no session, no password and no half-done change      *)
(* leaves OldSessionsEnd as it is.                                          *)
LEMMA OldSessionsStay ==
    ASSUME OldSessionsEnd, UNCHANGED <<password, session, interrupted>>,
           \A v \in Visitor :
               visitor[v].pc = "deleteSessions" => visitor'[v].pc = "deleteSessions"
    PROVE  OldSessionsEnd'
BY DEF OldSessionsEnd

LEMMA SessionInvStep ==
    SessionInv /\ [SessionNext]_sessionVars => SessionInv'
<1> SUFFICES ASSUME SessionInv, [SessionNext]_sessionVars PROVE SessionInv'
  OBVIOUS
<1> USE SessionAssumption
<1>a. SessionTypeOK /\ VisitorInv /\ OldSessionsEnd
  BY DEF SessionInv
<1>1. ASSUME NEW v \in Visitor, BeginLogin(v) PROVE SessionInv'
  <2>1. SessionTypeOK'
    BY <1>a, <1>1 DEF BeginLogin, Visit, SessionTypeOK, Gone
  <2>2. VisitorInv'
    BY <1>a, <1>1 DEF BeginLogin, Visit, VisitorInv, SessionTypeOK
  <2>3. OldSessionsEnd'
    BY <1>a, <1>1, OldSessionsStay DEF BeginLogin, Visit, SessionTypeOK, Gone
  <2> QED
    BY <2>1, <2>2, <2>3 DEF SessionInv
<1>2. ASSUME NEW v \in Visitor, CreateSession(v) PROVE SessionInv'
  <2>1. visitor[v].pw \in 1..MaxPasswords /\ nextSession \in SessionId
    BY <1>a, <1>2 DEF CreateSession, VisitorInv, SessionTypeOK, SessionId
  <2>2. SessionTypeOK'
    BY <1>a, <1>2, <2>1 DEF CreateSession, Finish, SessionTypeOK, Gone, SessionId
  <2>3. VisitorInv'
    BY <1>a, <1>2 DEF CreateSession, Finish, VisitorInv, SessionTypeOK, Gone
  <2>4. OldSessionsEnd'
    <3>1. ASSUME NEW w \in Visitor, visitor[w].pc = "deleteSessions"
          PROVE  visitor'[w].pc = "deleteSessions"
      BY <1>a, <1>2, <3>1 DEF CreateSession, Finish, SessionTypeOK
    <3> QED
      BY <1>a, <1>2, <3>1 DEF CreateSession, OldSessionsEnd, SessionTypeOK
  <2> QED
    BY <2>2, <2>3, <2>4 DEF SessionInv
<1>3. ASSUME NEW v \in Visitor, NEW s \in DOMAIN session, BeginRefresh(v, s)
      PROVE  SessionInv'
  <2>1. SessionTypeOK'
    BY <1>a, <1>3 DEF BeginRefresh, Visit, SessionTypeOK, Gone
  <2>2. VisitorInv'
    BY <1>a, <1>3 DEF BeginRefresh, Visit, VisitorInv, SessionTypeOK
  <2>3. OldSessionsEnd'
    BY <1>a, <1>3, OldSessionsStay DEF BeginRefresh, Visit, SessionTypeOK, Gone
  <2> QED
    BY <2>1, <2>2, <2>3 DEF SessionInv
<1>4. ASSUME NEW v \in Visitor, Refresh(v) PROVE SessionInv'
  <2>1. /\ DOMAIN session' = DOMAIN session
        /\ \A s \in DOMAIN session :
            /\ session'[s] \in [pw : 1..MaxPasswords, token : 0..MaxRotations, late : BOOLEAN]
            /\ session'[s].pw = session[s].pw
            /\ session'[s].late = session[s].late
    <3>1. CASE visitor[v].id \in DOMAIN session
      BY <1>a, <1>4, <3>1 DEF Refresh, RotateToken, Rotated, SessionTypeOK
    <3>2. CASE visitor[v].id \notin DOMAIN session
      BY <1>a, <1>4, <3>2 DEF Refresh, RotateToken, SessionTypeOK
    <3> QED
      BY <3>1, <3>2
  <2>2. SessionTypeOK'
    BY <1>a, <1>4, <2>1 DEF Refresh, Finish, SessionTypeOK, Gone
  <2>3. VisitorInv'
    BY <1>a, <1>4 DEF Refresh, Finish, VisitorInv, SessionTypeOK, Gone
  <2>4. OldSessionsEnd'
    <3>1. ASSUME NEW w \in Visitor, visitor[w].pc = "deleteSessions"
          PROVE  visitor'[w].pc = "deleteSessions"
      BY <1>a, <1>4, <3>1 DEF Refresh, Finish, SessionTypeOK
    <3> QED
      BY <1>a, <1>4, <2>1, <3>1 DEF Refresh, OldSessionsEnd
  <2> QED
    BY <2>2, <2>3, <2>4 DEF SessionInv
<1>5. ASSUME NEW v \in Visitor, RequestReset(v) PROVE SessionInv'
  <2>1. SessionTypeOK'
    BY <1>a, <1>5 DEF RequestReset, Visit, SessionTypeOK, Gone
  <2>2. VisitorInv'
    BY <1>a, <1>5 DEF RequestReset, Visit, VisitorInv, SessionTypeOK
  <2>3. OldSessionsEnd'
    BY <1>a, <1>5, OldSessionsStay DEF RequestReset, Visit, SessionTypeOK, Gone
  <2> QED
    BY <2>1, <2>2, <2>3 DEF SessionInv
<1>6. ASSUME NEW v \in Visitor, CreateReset(v) PROVE SessionInv'
  <2>1. SessionTypeOK'
    BY <1>a, <1>6 DEF CreateReset, Finish, SessionTypeOK, Gone
  <2>2. VisitorInv'
    BY <1>a, <1>6 DEF CreateReset, Finish, VisitorInv, SessionTypeOK, Gone
  <2>3. OldSessionsEnd'
    BY <1>a, <1>6, OldSessionsStay DEF CreateReset, Finish, SessionTypeOK
  <2> QED
    BY <2>1, <2>2, <2>3 DEF SessionInv
<1>7. ASSUME NEW v \in Visitor, NEW r \in Reset, BeginReset(v, r) PROVE SessionInv'
  <2>1. SessionTypeOK'
    BY <1>a, <1>7 DEF BeginReset, Visit, SessionTypeOK, Gone
  <2>2. VisitorInv'
    BY <1>a, <1>7 DEF BeginReset, Visit, VisitorInv, SessionTypeOK
  <2>3. OldSessionsEnd'
    BY <1>a, <1>7, OldSessionsStay DEF BeginReset, Visit, SessionTypeOK, Gone
  <2> QED
    BY <2>1, <2>2, <2>3 DEF SessionInv
<1>8. ASSUME NEW v \in Visitor, CommitReset(v) PROVE SessionInv'
  <2>1. DOMAIN session' = {} /\ password + 1 \in 1..MaxPasswords
    BY <1>a, <1>8 DEF CommitReset, SessionTypeOK
  <2>2. SessionTypeOK'
    BY <1>a, <1>8, <2>1 DEF CommitReset, SessionTypeOK, VisitorInv
  <2>3. VisitorInv'
    BY <1>a, <1>8, <2>1 DEF CommitReset, VisitorInv, SessionTypeOK
  <2>4. OldSessionsEnd'
    BY <2>1 DEF OldSessionsEnd
  <2> QED
    BY <2>2, <2>3, <2>4 DEF SessionInv
<1>9. ASSUME NEW v \in Visitor, BeginChange(v) PROVE SessionInv'
  <2>1. SessionTypeOK'
    BY <1>a, <1>9 DEF BeginChange, Visit, SessionTypeOK, Gone
  <2>2. VisitorInv'
    BY <1>a, <1>9 DEF BeginChange, Visit, VisitorInv, SessionTypeOK
  <2>3. OldSessionsEnd'
    BY <1>a, <1>9, OldSessionsStay DEF BeginChange, Visit, SessionTypeOK, Gone
  <2> QED
    BY <2>1, <2>2, <2>3 DEF SessionInv
<1>10. ASSUME NEW v \in Visitor, WritePassword(v) PROVE SessionInv'
  <2>1. SessionTypeOK'
    BY <1>a, <1>10 DEF WritePassword, SessionTypeOK
  <2>2. VisitorInv'
    BY <1>a, <1>10 DEF WritePassword, VisitorInv, SessionTypeOK
  <2>3. visitor'[v].pc = "deleteSessions"
    BY <1>a, <1>10 DEF WritePassword, SessionTypeOK
  <2>4. OldSessionsEnd'
    BY <2>3 DEF OldSessionsEnd
  <2> QED
    BY <2>1, <2>2, <2>4 DEF SessionInv
<1>11. ASSUME NEW v \in Visitor, DeleteSessions(v) PROVE SessionInv'
  <2>1. DOMAIN session' = {}
    BY <1>11 DEF DeleteSessions
  <2>2. SessionTypeOK'
    BY <1>a, <1>11, <2>1 DEF DeleteSessions, Finish, SessionTypeOK, Gone
  <2>3. VisitorInv'
    BY <1>a, <1>11 DEF DeleteSessions, Finish, VisitorInv, SessionTypeOK, Gone
  <2>4. OldSessionsEnd'
    BY <2>1 DEF OldSessionsEnd
  <2> QED
    BY <2>2, <2>3, <2>4 DEF SessionInv
<1>12. ASSUME NEW v \in Visitor, DropVisitor(v) PROVE SessionInv'
  <2>1. SessionTypeOK'
    <3>1. interrupted' \in BOOLEAN
      BY <1>12, Zenon DEF DropVisitor
    <3> QED
      BY <1>a, <1>12, <3>1 DEF DropVisitor, Finish, SessionTypeOK, Gone
  <2>2. VisitorInv'
    BY <1>a, <1>12 DEF DropVisitor, Finish, VisitorInv, SessionTypeOK, Gone
  <2>3. OldSessionsEnd'
    <3>1. CASE visitor[v].pc = "deleteSessions"
      BY <1>12, <3>1 DEF DropVisitor, OldSessionsEnd
    <3>2. CASE visitor[v].pc # "deleteSessions"
      <4>1. interrupted => interrupted'
        BY <1>12 DEF DropVisitor
      <4>2. ASSUME NEW w \in Visitor, visitor[w].pc = "deleteSessions"
            PROVE  visitor'[w].pc = "deleteSessions"
        BY <1>a, <1>12, <3>2, <4>2 DEF DropVisitor, Finish, SessionTypeOK
      <4> QED
        BY <1>a, <1>12, <4>1, <4>2 DEF DropVisitor, OldSessionsEnd
    <3> QED
      BY <3>1, <3>2
  <2> QED
    BY <2>1, <2>2, <2>3 DEF SessionInv
<1>13. ASSUME NEW s \in DOMAIN session, EndSession(s) PROVE SessionInv'
  <2>1. SessionTypeOK'
    BY <1>a, <1>13 DEF EndSession, Without, SessionTypeOK
  <2>2. VisitorInv'
    BY <1>a, <1>13 DEF EndSession, VisitorInv
  <2>3. OldSessionsEnd'
    BY <1>a, <1>13 DEF EndSession, Without, OldSessionsEnd
  <2> QED
    BY <2>1, <2>2, <2>3 DEF SessionInv
<1>14. CASE RevokeAllSessions
  <2>1. DOMAIN session' = {}
    BY <1>14 DEF RevokeAllSessions
  <2>2. SessionTypeOK'
    BY <1>a, <1>14, <2>1 DEF RevokeAllSessions, SessionTypeOK
  <2>3. VisitorInv' /\ OldSessionsEnd'
    BY <1>a, <1>14, <2>1 DEF RevokeAllSessions, VisitorInv, OldSessionsEnd
  <2> QED
    BY <2>2, <2>3 DEF SessionInv
<1>15. CASE UNCHANGED sessionVars
  BY <1>a, <1>15 DEF sessionVars, SessionInv, SessionTypeOK, VisitorInv, OldSessionsEnd
<1> QED
  BY <1>1, <1>2, <1>3, <1>4, <1>5, <1>6, <1>7, <1>8, <1>9, <1>10, <1>11, <1>12,
     <1>13, <1>14, <1>15
  DEF SessionNext

(* password-reset.service.ts, security.service.ts: with any number of       *)
(* logins, refreshes, resets and changes in flight, no unmarked session     *)
(* outlives its password.                                                   *)
THEOREM OldSessionsAlwaysEnd ==
    SessionSpec => []OldSessionsEnd
<1>1. SessionInv => OldSessionsEnd
  BY DEF SessionInv
<1> QED
  BY <1>1, SessionInvInit, SessionInvStep, PTL DEF SessionSpec
-----------------------------------------------------------------------------
(***************************************************************************)
(* AWD2 handoffs.  The create of the row admits one import per nonce; the  *)
(* emitter hands a credit over again only under a nonce whose predecessors *)
(* it was told have failed, and it is told so only when their import has   *)
(* ended: so of the nonces of a credit one at most is ever imported.       *)
(***************************************************************************)
Importing(d) ==
    delivery[d].pc \in {"check", "find", "attach", "issue", "refuse", "break"}

HandoffTypes ==
    /\ handoff \in [Nonce -> {"none", "RECEIVED", "FAILED", "IMPORTED"}]
    /\ imported \in Seq(Nonce)
    /\ delivery \in [Delivery -> [pc : {"idle", "store", "check", "find", "attach",
                                        "issue", "refuse", "break"},
                                  nonce : Nonce \cup {"none"}]]
    /\ manifest \in [Nonce -> Serial \cup {NoSerial}]
    /\ told \subseteq Nonce

(* One import of a nonce at a time, of one whose row is RECEIVED.           *)
ImportInv ==
    \A d \in Delivery :
        /\ delivery[d].pc # "idle" =>
            /\ delivery[d].nonce \in Nonce
            /\ manifest[delivery[d].nonce] # NoSerial
        /\ Importing(d) =>
            /\ handoff[delivery[d].nonce] = "RECEIVED"
            /\ delivery[d].nonce \notin told
            /\ \A e \in Delivery : Importing(e) /\ delivery[e].nonce = delivery[d].nonce => e = d

(* What the emitter knows: it was told of failures only, and of two nonces  *)
(* of one credit it was told that one has failed.                           *)
EmitterInv ==
    /\ \A n \in told : handoff[n] \in {"RECEIVED", "FAILED"}
    /\ \A n \in Nonce : handoff[n] # "none" => manifest[n] # NoSerial
    /\ \A n, m \in Nonce :
        manifest[n] # NoSerial /\ manifest[m] = manifest[n] /\ n # m =>
            n \in told \/ m \in told

ImportedInv ==
    /\ \A n \in Nonce :
        handoff[n] = "IMPORTED" <=> \E k \in DOMAIN imported : imported[k] = n
    /\ \A j, k \in DOMAIN imported : imported[j] = imported[k] => j = k

HandoffInv == HandoffTypes /\ ImportInv /\ EmitterInv /\ ImportedInv

LEMMA HandoffInvInit ==
    HandoffInit => HandoffInv
<1> SUFFICES ASSUME HandoffInit PROVE HandoffInv
  OBVIOUS
<1>1. DOMAIN imported = {} /\ imported \in Seq(Nonce)
  BY DEF HandoffInit
<1>2. HandoffTypes
  BY <1>1 DEF HandoffInit, HandoffTypes, NoDelivery
<1>3. ImportInv
  BY DEF HandoffInit, ImportInv, Importing, NoDelivery
<1>4. EmitterInv /\ ImportedInv
  BY <1>1 DEF HandoffInit, EmitterInv, ImportedInv
<1> QED
  BY <1>2, <1>3, <1>4 DEF HandoffInv

(* Steps of an import before its end: only delivery changes, and no import  *)
(* begins.                                                                  *)
LEMMA StageStep ==
    ASSUME HandoffInv, NEW d \in Delivery,
           UNCHANGED <<handoff, imported, manifest, told>>,
           \/ Answer(d)
           \/ Importing(d) /\ \E pc \in {"find", "attach", "issue", "refuse", "break"} :
                                  Proceed(d, pc)
    PROVE  HandoffInv'
<1>a. HandoffTypes /\ ImportInv /\ EmitterInv /\ ImportedInv
  BY DEF HandoffInv
<1>1. HandoffTypes'
  BY <1>a DEF HandoffTypes, Answer, Proceed, NoDelivery
<1>2. ImportInv'
  <2>1. CASE Answer(d)
    BY <1>a, <2>1 DEF ImportInv, Importing, HandoffTypes, Answer, NoDelivery
  <2>2. CASE /\ Importing(d)
             /\ \E pc \in {"find", "attach", "issue", "refuse", "break"} : Proceed(d, pc)
    <3>1. \A e \in Delivery : /\ delivery'[e].nonce = delivery[e].nonce
                              /\ Importing(e)' <=> Importing(e)
                              /\ delivery'[e].pc = "idle" <=> delivery[e].pc = "idle"
      BY <1>a, <2>2 DEF Importing, HandoffTypes, Proceed
    <3> QED
      BY <1>a, <3>1 DEF ImportInv
  <2> QED
    BY <2>1, <2>2
<1>3. EmitterInv' /\ ImportedInv'
  BY <1>a DEF EmitterInv, ImportedInv
<1> QED
  BY <1>1, <1>2, <1>3 DEF HandoffInv

LEMMA HandoffInvStep ==
    HandoffInv /\ [HandoffNext]_handoffVars => HandoffInv'
<1> SUFFICES ASSUME HandoffInv, [HandoffNext]_handoffVars PROVE HandoffInv'
  OBVIOUS
<1> USE HandoffAssumption
<1>a. HandoffTypes /\ ImportInv /\ EmitterInv /\ ImportedInv
  BY DEF HandoffInv
<1>1. ASSUME NEW n \in Nonce, NEW c \in Serial, Emit(n, c) PROVE HandoffInv'
  <2>1. HandoffTypes'
    BY <1>a, <1>1 DEF Emit, HandoffTypes
  <2>2. ImportInv'
    BY <1>a, <1>1 DEF Emit, ImportInv, Importing, HandoffTypes
  <2>3. EmitterInv'
    BY <1>a, <1>1 DEF Emit, EmitterInv, HandoffTypes
  <2>4. ImportedInv'
    BY <1>a, <1>1 DEF Emit, ImportedInv
  <2> QED
    BY <2>1, <2>2, <2>3, <2>4 DEF HandoffInv
<1>2. CASE Toggle
  BY <1>a, <1>2
  DEF Toggle, HandoffInv, HandoffTypes, ImportInv, Importing, EmitterInv, ImportedInv
<1>3. ASSUME NEW d \in Delivery, NEW n \in Nonce, Post(d, n) PROVE HandoffInv'
  <2>1. HandoffTypes'
    BY <1>a, <1>3 DEF Post, HandoffTypes
  <2>2. ImportInv'
    <3>1. CASE Known(n)
      BY <1>a, <1>3, <3>1 DEF Post, ImportInv, Importing
    <3>2. CASE ~Known(n)
      BY <1>a, <1>3, <3>2 DEF Post, ImportInv, Importing, HandoffTypes
    <3> QED
      BY <3>1, <3>2
  <2>3. EmitterInv'
    BY <1>a, <1>3 DEF Post, EmitterInv
  <2>4. ImportedInv'
    BY <1>a, <1>3 DEF Post, ImportedInv
  <2> QED
    BY <2>1, <2>2, <2>3, <2>4 DEF HandoffInv
<1>4. ASSUME NEW d \in Delivery, Store(d) PROVE HandoffInv'
  <2> DEFINE n == delivery[d].nonce
  <2>1. n \in Nonce /\ manifest[n] # NoSerial /\ ~Importing(d)
    BY <1>a, <1>4 DEF Store, Stage, ImportInv, Importing
  <2>2. CASE Known(n)
    BY <1>4, <2>2, StageStep DEF Store
  <2>3. CASE ~Known(n)
    <3>1. /\ handoff[n] = "none"
          /\ handoff' = [handoff EXCEPT ![n] = "RECEIVED"]
          /\ delivery' = [delivery EXCEPT ![d].pc = "check"]
          /\ UNCHANGED <<imported, manifest, told>>
      BY <1>4, <2>3 DEF Store, Proceed, Known
    <3>2. n \notin told
      BY <1>a, <3>1 DEF EmitterInv
    <3>3. HandoffTypes'
      BY <1>a, <2>1, <3>1 DEF HandoffTypes
    <3>4. \A e \in Delivery : Importing(e) => delivery[e].nonce # n
      BY <1>a, <3>1 DEF ImportInv
    <3>5. /\ \A e \in Delivery : delivery'[e].nonce = delivery[e].nonce
          /\ \A e \in Delivery \ {d} : delivery'[e].pc = delivery[e].pc
          /\ delivery'[d].pc = "check"
      BY <1>a, <3>1 DEF HandoffTypes
    <3>6. ImportInv'
      BY <1>a, <2>1, <3>1, <3>2, <3>4, <3>5 DEF ImportInv, Importing, HandoffTypes
    <3>7. EmitterInv'
      BY <1>a, <2>1, <3>1 DEF EmitterInv, HandoffTypes
    <3>8. ImportedInv'
      BY <1>a, <2>1, <3>1 DEF ImportedInv, HandoffTypes
    <3> QED
      BY <3>3, <3>6, <3>7, <3>8 DEF HandoffInv
  <2> QED
    BY <2>2, <2>3
<1>5. ASSUME NEW d \in Delivery, Check(d) \/ FindActivity(d) \/ CreateActivity(d)
                                          \/ ImportBreaks(d) \/ DropDelivery(d)
      PROVE  HandoffInv'
  <2>1. UNCHANGED <<handoff, imported, manifest, told>>
    BY <1>5 DEF Check, FindActivity, CreateActivity, ImportBreaks, DropDelivery
  <2>2. \/ Answer(d)
        \/ Importing(d) /\ \E pc \in {"find", "attach", "issue", "refuse", "break"} :
                               Proceed(d, pc)
    BY <1>5
    DEF Check, FindActivity, CreateActivity, ImportBreaks, DropDelivery, Importing, Stage
  <2> QED
    BY <2>1, <2>2, StageStep
<1>6. ASSUME NEW d \in Delivery, Import(d) PROVE HandoffInv'
  <2> DEFINE n == delivery[d].nonce
  <2>1. /\ n \in Nonce /\ handoff[n] = "RECEIVED" /\ n \notin told
        /\ manifest[n] # NoSerial
        /\ \A e \in Delivery : Importing(e) /\ delivery[e].nonce = n => e = d
    BY <1>a, <1>6 DEF Import, Stage, ImportInv, Importing
  <2>2. /\ imported' = Append(imported, n)
        /\ handoff' = [handoff EXCEPT ![n] = "IMPORTED"]
        /\ delivery' = [delivery EXCEPT ![d] = NoDelivery]
        /\ UNCHANGED <<manifest, told>>
    BY <1>6 DEF Import, Answer
  <2>3. HandoffTypes'
    BY <1>a, <2>1, <2>2 DEF HandoffTypes, NoDelivery
  <2>4. ImportInv'
    BY <1>a, <2>1, <2>2 DEF ImportInv, Importing, HandoffTypes, NoDelivery
  <2>5. EmitterInv'
    BY <1>a, <2>1, <2>2 DEF EmitterInv, HandoffTypes
  <2>6. /\ DOMAIN imported' = DOMAIN imported \cup {Len(imported) + 1}
        /\ Len(imported) + 1 \notin DOMAIN imported
        /\ imported'[Len(imported) + 1] = n
        /\ \A k \in DOMAIN imported : imported'[k] = imported[k]
    <3> HIDE DEF n
    <3> QED BY <1>a, <2>1, <2>2 DEF HandoffTypes
  <2>7. \A k \in DOMAIN imported : imported[k] # n
    BY <1>a, <2>1 DEF ImportedInv
  <2>8. ImportedInv'
    BY <1>a, <2>1, <2>2, <2>6, <2>7 DEF ImportedInv, HandoffTypes
  <2> QED
    BY <2>3, <2>4, <2>5, <2>8 DEF HandoffInv
<1>7. ASSUME NEW d \in Delivery, Fail(d) PROVE HandoffInv'
  <2> DEFINE n == delivery[d].nonce
  <2>1. /\ n \in Nonce /\ handoff[n] = "RECEIVED"
        /\ \A e \in Delivery : Importing(e) /\ delivery[e].nonce = n => e = d
    BY <1>a, <1>7 DEF Fail, ImportInv, Importing
  <2>2. /\ handoff' = [handoff EXCEPT ![n] = "FAILED"] \/ handoff' = handoff
        /\ told' = told \cup {n} \/ told' = told
        /\ delivery' = [delivery EXCEPT ![d] = NoDelivery]
        /\ UNCHANGED <<imported, manifest>>
    BY <1>7 DEF Fail, Answer
  <2>3. HandoffTypes'
    BY <1>a, <2>1, <2>2 DEF HandoffTypes, NoDelivery
  <2>4. ImportInv'
    BY <1>a, <2>1, <2>2 DEF ImportInv, Importing, HandoffTypes, NoDelivery
  <2>5. EmitterInv'
    BY <1>a, <2>1, <2>2 DEF EmitterInv, HandoffTypes
  <2>6. ImportedInv'
    BY <1>a, <2>1, <2>2 DEF ImportedInv, HandoffTypes
  <2> QED
    BY <2>3, <2>4, <2>5, <2>6 DEF HandoffInv
<1>8. CASE UNCHANGED handoffVars
  BY <1>a, <1>8
  DEF handoffVars, HandoffInv, HandoffTypes, ImportInv, Importing, EmitterInv, ImportedInv
<1> QED
  BY <1>1, <1>2, <1>3, <1>4, <1>5, <1>6, <1>7, <1>8 DEF HandoffNext

(* A set whose elements are all the same has at most one.                   *)
LEMMA AtMostOne ==
    ASSUME NEW S, \A x, y \in S : x = y
    PROVE  Cardinality(S) <= 1
<1>1. CASE S = {}
  BY <1>1, FS_EmptySet
<1>2. CASE S # {}
  <2>1. PICK x \in S : S = {x}
    BY <1>2
  <2> QED
    BY <2>1, FS_Singleton
<1> QED
  BY <1>1, <1>2

(* awd2-import.service.ts: with any number of credits, nonces and           *)
(* deliveries that overlap, repeat and stop halfway, a credit is imported   *)
(* at most once, and never one the emitter was told has failed.             *)
THEOREM CreditAlwaysImportedOnce ==
    HandoffSpec => []CreditImportedOnce
<1>1. HandoffInv => CreditImportedOnce
  <2> SUFFICES ASSUME HandoffInv PROVE CreditImportedOnce
    OBVIOUS
  <2>a. HandoffTypes /\ EmitterInv /\ ImportedInv
    BY DEF HandoffInv
  <2>1. ASSUME NEW c \in Serial
        PROVE  Cardinality({k \in DOMAIN imported : manifest[imported[k]] = c}) <= 1
    <3>1. \A k \in DOMAIN imported : imported[k] \in Nonce
      BY <2>a DEF HandoffTypes
    <3>2. \A k \in DOMAIN imported : imported[k] \notin told
      BY <2>a, <3>1 DEF EmitterInv, ImportedInv
    <3>3. \A j, k \in {i \in DOMAIN imported : manifest[imported[i]] = c} : j = k
      BY <2>a, <3>1, <3>2, HandoffAssumption DEF EmitterInv, ImportedInv
    <3> QED
      BY <3>3, AtMostOne
  <2>2. \A n \in Nonce : handoff[n] = "IMPORTED" <=> ImportedFrom(n) # {}
    BY <2>a DEF ImportedInv, ImportedFrom
  <2>3. \A n \in told : ImportedFrom(n) = {}
    BY <2>a DEF HandoffTypes, EmitterInv, ImportedInv, ImportedFrom
  <2> QED
    BY <2>1, <2>2, <2>3 DEF CreditImportedOnce
<1> QED
  BY <1>1, HandoffInvInit, HandoffInvStep, PTL DEF HandoffSpec
-----------------------------------------------------------------------------
(***************************************************************************)
(* Activities of one project.  The imports that have found none may each   *)
(* create one, for awd2ProjectRef is not unique; once there is one no      *)
(* further import sets out to.  So there are never more than deliveries    *)
(* that overlapped.                                                        *)
(***************************************************************************)
Attaching == {d \in Delivery : Stage(d, "attach")}

CreatedInv ==
    /\ projectActivities \in Nat
    /\ eligible \in BOOLEAN
    /\ projectActivities # 0 =>
           projectActivities + Cardinality(Attaching) <= Cardinality(Delivery)

LEMMA AttachingCount ==
    /\ IsFiniteSet(Attaching)
    /\ Cardinality(Attaching) \in Nat /\ Cardinality(Delivery) \in Nat
    /\ Cardinality(Attaching) <= Cardinality(Delivery)
<1>1. Attaching \subseteq Delivery
  BY DEF Attaching
<1> QED
  BY <1>1, HandoffAssumption, FS_Subset, FS_CardinalityType

(* Fewer set out, or none was there when one more did.                      *)
LEMMA FewerAttach ==
    ASSUME CreatedInv, UNCHANGED projectActivities, eligible' \in BOOLEAN,
           Attaching' \subseteq Attaching \/ projectActivities = 0
    PROVE  CreatedInv'
<1>1. CASE projectActivities = 0
  BY <1>1 DEF CreatedInv
<1>2. CASE projectActivities # 0
  <2> DEFINE now == Attaching'
  <2>1. Cardinality(now) \in Nat /\ Cardinality(now) <= Cardinality(Attaching)
    BY <1>2, AttachingCount, FS_Subset, FS_CardinalityType
  <2>2. Cardinality(Attaching)' = Cardinality(now)
    OBVIOUS
  <2>3. projectActivities \in Nat /\ Cardinality(Attaching) \in Nat /\ Cardinality(Delivery) \in Nat
        /\ projectActivities + Cardinality(Attaching) <= Cardinality(Delivery)
    BY <1>2, AttachingCount DEF CreatedInv
  <2> HIDE DEF now
  <2>4. projectActivities + Cardinality(now) <= Cardinality(Delivery)
    BY <2>1, <2>3
  <2> QED
    BY <2>2, <2>3, <2>4 DEF CreatedInv
<1> QED
  BY <1>1, <1>2

LEMMA CreatedInvStep ==
    ASSUME HandoffInv, CreatedInv, [HandoffNext]_handoffVars
    PROVE  CreatedInv'
<1>0. HandoffTypes /\ eligible \in BOOLEAN
  BY DEF HandoffInv, CreatedInv
<1>1. ASSUME UNCHANGED <<projectActivities, delivery>>, eligible' \in BOOLEAN
      PROVE  CreatedInv'
  BY <1>1, FewerAttach DEF Attaching, Stage
<1>2. ASSUME NEW d \in Delivery, \A e \in Delivery : e # d => delivery'[e] = delivery[e],
             delivery'[d].pc # "attach", UNCHANGED <<projectActivities, eligible>>
      PROVE  CreatedInv'
  <2>1. Attaching' \subseteq Attaching
    BY <1>2 DEF Attaching, Stage
  <2> QED
    BY <1>0, <1>2, <2>1, FewerAttach
<1>3. ASSUME NEW d \in Delivery, Answer(d), UNCHANGED <<projectActivities, eligible>>
      PROVE  CreatedInv'
  <2>1. /\ \A e \in Delivery : e # d => delivery'[e] = delivery[e]
        /\ delivery'[d].pc # "attach"
    BY <1>0, <1>3 DEF Answer, NoDelivery, HandoffTypes
  <2> QED
    BY <1>2, <1>3, <2>1
<1>4. ASSUME NEW d \in Delivery, UNCHANGED <<projectActivities, eligible>>,
             \E pc \in {"check", "find", "issue", "refuse", "break"} : Proceed(d, pc)
      PROVE  CreatedInv'
  <2>1. /\ \A e \in Delivery : e # d => delivery'[e] = delivery[e]
        /\ delivery'[d].pc # "attach"
    BY <1>0, <1>4 DEF Proceed, HandoffTypes
  <2> QED
    BY <1>2, <1>4, <2>1
<1>5. ASSUME NEW d \in Delivery, CreateActivity(d),
             projectActivities' = projectActivities + 1, Proceed(d, "issue")
      PROVE  CreatedInv'
  <2>1. Attaching' = Attaching \ {d} /\ d \in Attaching
    BY <1>0, <1>5 DEF CreateActivity, Attaching, Stage, HandoffTypes, Proceed
  <2>2. Cardinality(Attaching \ {d}) = Cardinality(Attaching) - 1
    BY <2>1, AttachingCount, FS_RemoveElement
  <2>3. Cardinality(Attaching)' = Cardinality(Attaching) - 1
    BY <2>1, <2>2
  <2>4. projectActivities \in Nat /\ projectActivities + Cardinality(Attaching) <= Cardinality(Delivery)
    BY AttachingCount DEF CreatedInv
  <2>5. eligible' = eligible
    BY <1>5 DEF CreateActivity
  <2> QED
    BY <1>0, <1>5, <2>3, <2>4, <2>5, AttachingCount DEF CreatedInv
<1>6. CASE Toggle \/ (\E n \in Nonce, s \in Serial : Emit(n, s)) \/ UNCHANGED handoffVars
  BY <1>0, <1>1, <1>6 DEF Toggle, Emit, handoffVars
<1>7. ASSUME NEW d \in Delivery, NEW n \in Nonce, Post(d, n)
      PROVE  CreatedInv'
  <2>1. CASE Known(n)
    BY <1>0, <1>1, <1>7, <2>1 DEF Post
  <2>2. CASE ~Known(n)
    <3>1. /\ \A e \in Delivery : e # d => delivery'[e] = delivery[e]
          /\ delivery'[d].pc # "attach"
      BY <1>0, <1>7, <2>2 DEF Post, HandoffTypes
    <3> QED
      BY <1>2, <1>7, <3>1 DEF Post
  <2> QED
    BY <2>1, <2>2
<1>8. ASSUME NEW d \in Delivery, FindActivity(d)
      PROVE  CreatedInv'
  <2>1. CASE projectActivities = 0
    BY <1>0, <1>8, <2>1, FewerAttach DEF FindActivity
  <2>2. CASE projectActivities # 0
    BY <1>4, <1>8, <2>2 DEF FindActivity
  <2> QED
    BY <2>1, <2>2
<1>9. ASSUME NEW d \in Delivery, Check(d)
      PROVE  CreatedInv'
  <2>1. Answer(d) \/ Proceed(d, "find") \/ Proceed(d, "refuse")
    BY <1>9 DEF Check
  <2> QED
    BY <1>3, <1>4, <1>9, <2>1 DEF Check
<1>10. ASSUME NEW d \in Delivery, Store(d) \/ ImportBreaks(d) \/ Import(d) \/ Fail(d) \/ DropDelivery(d)
       PROVE  CreatedInv'
  BY <1>3, <1>4, <1>10 DEF Store, ImportBreaks, Import, Fail, DropDelivery
<1>11. ASSUME NEW d \in Delivery, CreateActivity(d)
       PROVE  CreatedInv'
  BY <1>4, <1>5, <1>11 DEF CreateActivity
<1> QED
  BY <1>6, <1>7, <1>8, <1>9, <1>10, <1>11 DEF HandoffNext

(* Rows, imports and deliveries keep their types, and a project has at most *)
(* one activity for each of the deliveries that overlap.                    *)
THEOREM HandoffTypeCorrect ==
    HandoffSpec => []HandoffTypeOK
<1>1. HandoffInit => CreatedInv
  BY DEF HandoffInit, CreatedInv
<1>2. HandoffInv /\ CreatedInv /\ [HandoffNext]_handoffVars => CreatedInv'
  BY CreatedInvStep
<1>3. ASSUME HandoffInv, CreatedInv PROVE HandoffTypeOK
  BY <1>3, AttachingCount DEF HandoffInv, HandoffTypes, CreatedInv, HandoffTypeOK
<1>4. HandoffInv /\ CreatedInv => HandoffTypeOK
  BY <1>3
<1> QED
  BY <1>1, <1>2, <1>4, HandoffInvInit, HandoffInvStep, PTL DEF HandoffSpec
=============================================================================
