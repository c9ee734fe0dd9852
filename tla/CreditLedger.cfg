SPECIFICATION Spec
SYMMETRY MCSymmetry
CONSTANTS
    c1 = c1
    c2 = c2
    i1 = i1
    Null = Null
    Call <- MCCall
    Issuance <- MCIssuance
    Gross <- MCGross
    Scope <- MCScope
    OrgAccount <- MCOrgAccount
    Purpose <- MCPurpose
    Draw <- MCDraw
    BufferPct = 20
    Target <- MCTarget
    MaxRows = 2
INVARIANTS
    LedgerTypeOK
    MintIsSplit
    MintedOnce
    HolderIsLastRow
    UseIsReported
    ExportedWasListed
PROPERTIES
    RetiredIsFinal
