SPECIFICATION ApprovalSpec
CHECK_DEADLOCK FALSE
CONSTANTS
    Approver = {"u1", "u2"}
    Ballot = {"b1", "b2"}
    Quorum = {1, 2}
INVARIANTS
    VotesDecide
