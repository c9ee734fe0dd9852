------------------------------- MODULE Approvals -------------------------------
(***************************************************************************)
(* One approval request: its quorum, frozen when it is submitted           *)
(* (workflow-recipe.service.ts), and the votes on it (approval.service.ts).*)
(* A vote reads the request, creates its ApprovalVote row and updates the  *)
(* request from what it had read; one action is the code between two       *)
(* awaits.                                                                 *)
(***************************************************************************)
EXTENDS Naturals, FiniteSets

CONSTANTS
    Approver,            \* users who may vote
    Ballot,              \* concurrent calls of decideApproval
    Quorum               \* requiredApprovers of the recipes

ASSUME ApprovalAssumption ==
    /\ IsFiniteSet(Approver) /\ IsFiniteSet(Ballot)
    /\ Quorum \subseteq Nat \ {0}

VARIABLES
    recipe,              \* requiredApprovers of the enabled recipe, 1 without one
    request,             \* status, requiredApprovers, approvalsReceived
    vote,                \* ApprovalVote.decision of each user
    ballot,              \* what a call has read and will do
    overlapped,          \* history: a call began while another was running
    untallied          \* history: a call ended between its vote and its tally

approvalVars == <<recipe, request, vote, ballot, overlapped, untallied>>

NoBallot == [pc |-> "idle", user |-> "none", decision |-> "none", seen |-> 0]

ApprovalTypeOK ==
    /\ recipe \in Quorum \cup {1}
    /\ request \in [status : {"none", "PENDING", "APPROVED", "REJECTED"},
                    required : Nat, received : Nat]
    /\ vote \in [Approver -> {"none", "APPROVED", "REJECTED"}]
    /\ ballot \in [Ballot -> [pc : {"idle", "cast", "tally"},
                              user : Approver \cup {"none"},
                              decision : {"none", "APPROVED", "REJECTED"}, seen : Nat]]
    /\ overlapped \in BOOLEAN
    /\ untallied \in BOOLEAN

ApprovalInit ==
    /\ recipe = 1
    /\ request = [status |-> "none", required |-> 0, received |-> 0]
    /\ vote = [u \in Approver |-> "none"]
    /\ ballot = [b \in Ballot |-> NoBallot]
    /\ overlapped = FALSE
    /\ untallied = FALSE

(* enableRecipe, disableRecipe                                              *)
EnableRecipe(quorum) ==
    /\ recipe' = quorum
    /\ UNCHANGED <<request, vote, ballot, overlapped, untallied>>

(* submitApproval with the quorum of resolveRequiredApprovers               *)
SubmitApproval ==
    /\ request.status = "none"
    /\ request' = [status |-> "PENDING", required |-> recipe, received |-> 0]
    /\ UNCHANGED <<recipe, vote, ballot, overlapped, untallied>>

(* The check for a prior vote, and the unique (requestId, userId).          *)
MayVoteAgain(u) == TRUE
MayVote(u) == vote[u] = "none"

BeginVote(b, u, decision) ==
    /\ ballot[b] = NoBallot
    /\ request.status = "PENDING"
    /\ MayVote(u)
    /\ ballot' = [ballot EXCEPT ![b] = [pc |-> "cast", user |-> u, decision |-> decision,
                                        seen |-> request.received]]
    /\ overlapped' = (overlapped \/ \E c \in Ballot : ballot[c] # NoBallot)
    /\ UNCHANGED <<recipe, request, vote, untallied>>

CastVote(b) ==
    /\ ballot[b].pc = "cast"
    /\ IF MayVote(ballot[b].user)
       THEN /\ vote' = [vote EXCEPT ![ballot[b].user] = ballot[b].decision]
            /\ ballot' = [ballot EXCEPT ![b].pc = "tally"]
       ELSE /\ ballot' = [ballot EXCEPT ![b] = NoBallot]
            /\ UNCHANGED vote
    /\ UNCHANGED <<recipe, request, overlapped, untallied>>

UpdateRequest(b) ==
    /\ ballot[b].pc = "tally"
    /\ LET count == ballot[b].seen + 1
       IN request' = IF ballot[b].decision = "REJECTED"
                     THEN [request EXCEPT !.status = "REJECTED"]
                     ELSE [request EXCEPT !.received = count,
                             !.status = IF count >= request.required THEN "APPROVED"
                                                                     ELSE @]
    /\ ballot' = [ballot EXCEPT ![b] = NoBallot]
    /\ UNCHANGED <<recipe, vote, overlapped, untallied>>

(* An await throws, or the process dies.                                    *)
DropBallot(b) ==
    /\ ballot[b] # NoBallot
    /\ ballot' = [ballot EXCEPT ![b] = NoBallot]
    /\ untallied' = (untallied \/ ballot[b].pc = "tally")
    /\ UNCHANGED <<recipe, request, vote, overlapped>>

ApprovalNext ==
    \/ \E quorum \in Quorum \cup {1} : EnableRecipe(quorum)
    \/ SubmitApproval
    \/ \E b \in Ballot :
        \/ \E u \in Approver, decision \in {"APPROVED", "REJECTED"} :
            BeginVote(b, u, decision)
        \/ CastVote(b)
        \/ UpdateRequest(b)
        \/ DropBallot(b)

ApprovalSpec == ApprovalInit /\ [][ApprovalNext]_approvalVars
-----------------------------------------------------------------------------
VotesFor == {u \in Approver : vote[u] = "APPROVED"}
SomeReject == \E u \in Approver : vote[u] = "REJECTED"

Tallied ==
    request.status # "none" /\ ~untallied /\ \A b \in Ballot : ballot[b].pc # "tally"

(* "Any single rejection fails the whole quorum", a decision is one-way,    *)
(* and once approvalsReceived "reaches requiredApprovers the request flips  *)
(* to APPROVED" (the header of approval.service.ts): as soon as all votes   *)
(* are tallied the votes alone decide.  The code keeps it for calls that do *)
(* not overlap; otherwise a stale update overwrites a decision or a tally.  *)
VotesDecide ==
    Tallied =>
        /\ SomeReject => request.status = "REJECTED"
        /\ ~SomeReject =>
            (request.status = "APPROVED" <=> Cardinality(VotesFor) >= request.required)

(* A request is APPROVED only with the quorum it was submitted under, of    *)
(* distinct users, and REJECTED only by a vote: tallies that overwrite one  *)
(* another lose votes but never invent one (approval.service.ts:222).  When *)
(* no two calls overlapped the tally is exact and the votes decide,         *)
(* whatever became of the recipe meanwhile.                                 *)
QuorumIsReal ==
    /\ request.received <= Cardinality(VotesFor)
    /\ request.status = "APPROVED" => Cardinality(VotesFor) >= request.required
    /\ request.status = "REJECTED" => SomeReject
    /\ ~overlapped =>
        /\ VotesDecide
        /\ Tallied => request.received = Cardinality(VotesFor)
=============================================================================
