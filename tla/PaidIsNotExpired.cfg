SPECIFICATION Spec
CONSTANTS
    Sub = {s1}
    NoSub = NoSub
    Handler = {h1, h2}
    Period = 2
    Lookahead = 2
    Grace = 0
    MaxOrders = 2
    MaxNow = 3
    MaxTroubles = 1
INVARIANTS
    PaidIsNotExpired
