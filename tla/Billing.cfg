SPECIFICATION Spec
CONSTANTS
    Sub = {s1}
    NoSub = NoSub
    h1 = h1
    h2 = h2
    Handler <- MCHandler
    Period = 2
    Lookahead = 2
    Grace = 0
    MaxOrders = 2
    MaxNow = 3
    MaxTroubles = 1
SYMMETRY MCSymmetry
INVARIANTS
    BillingTypeOK
    PeriodsArePaid
    ActiveHasInvoice
    NoEarlyLapse
PROPERTIES
    CancelledStays
