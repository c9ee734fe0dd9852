SPECIFICATION BridgeSpec
SYMMETRY MCSymmetry
CONSTANTS
    r1 = r1
    r2 = r2
    r3 = r3
    i1 = i1
    k1 = k1
    NoSerial = NoSerial
    NoIssuance = NoIssuance
    NoLock = NoLock
    NoKyc = NoKyc
    Request <- MCRequest
    Serial <- MCRequest
    Lock <- MCRequest
    Issuance <- MCIssuance
    Kyc <- MCKyc
    LedgerEntry <- MCLedgerEntry
    UnlocksTokenized = TRUE
    MaxRetries = 0
    MaxLedger = 2
    MaxForgotten = 0
    MaxFaults = 0
    MaxAttempts = 2
    MaxLost = 0
    MaxThrows = 0
INVARIANT
    DelistReconciled
