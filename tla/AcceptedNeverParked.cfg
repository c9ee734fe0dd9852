SPECIFICATION SafetySpec
CONSTANTS
    i1 = i1
    s1 = s1
    l1 = l1
    NoSerial = NoSerial
    NoIssuance = NoIssuance
    NoLock = NoLock
    Serial <- MCSerial
    Lock <- MCLock
    Issuance <- MCIssuance
    LedgerEntry <- MCLedgerEntry
    UnlocksTokenized = TRUE
    MaxRetries = 1
    MaxLedger = 2
    MaxForgotten = 1
    MaxFaults = 1
INVARIANT
    AcceptedNeverParked
