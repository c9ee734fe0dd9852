SPECIFICATION Spec
CHECK_DEADLOCK FALSE
CONSTANTS
    c1 = c1
    c2 = c2
    p1 = p1
    k1 = k1
    u1 = u1
    u2 = u2
    e1 = e1
    e2 = e2
    e3 = e3
    d1 = d1
    d2 = d2
    v1 = v1
    v2 = v2
    s1 = s1
    s2 = s2
    n1 = n1
    n2 = n2
    n3 = n3
    t1 = t1
    t2 = t2
    NoKey = NoKey
    NoSerial = NoSerial
    NoCap = NoCap
    Clerk <- MCPair
    MonPeriod <- MCMonPeriod
    Opinion <- MCOpinion
    Assessor <- MCPair
    MaxVersion = 3
    Key <- MCKey
    MaxSize = 2
    MaxOps = 3
    MaxRestarts = 1
    Approver <- MCApprover
    Ballot <- MCPair
    Quorum <- MCQuorum
    Redeemer <- MCPair
    Email <- MCEmail
    CapValue <- MCCapValue
    Datapoint <- MCDatapoint
    Archiver <- MCPair
    Instant <- MCInstant
    Visitor <- MCPair
    MaxSessions = 2
    MaxRotations = 1
    MaxPasswords = 2
    MaxResets = 2
    Verification <- MCVerification
    KycCall <- MCPair
    Serial <- MCSerial
    Nonce <- MCNonce
    Delivery <- MCPair
INVARIANTS
    ServicesTypeOK
    StatusHasEvidence
    OneBaseline
    PendingIsStored
    QuorumIsReal
    CapHolds
    DatapointsKept
    OldSessionsEnd
    RevocationSticks
    CreditImportedOnce
PROPERTIES
    QueueDrains
    ImplementsOutbox
    FreeRideEnds
