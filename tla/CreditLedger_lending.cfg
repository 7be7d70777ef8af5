SPECIFICATION Spec
CONSTANTS
    p1 = p1
    p2 = p2
    p3 = p3
    e1 = e1
    e2 = e2
    NoPack = NoPack
    NoEntry = NoEntry
    Pack <- LendPack
    Entry <- LendEntry
    Purchased <- LendPurchased
    Paid <- LendPaid
    OrderTotal <- LendPaid
    Razorpay = {p1, p2, p3}
    Charges = {1, 2}
    Bonus = {1}
    MaxCredited = 0
    MaxOwed = 1
    MaxTime = 0
    Expiries = {1}
    ClockMovesInTxn = FALSE
SYMMETRY LendSymmetry
INVARIANTS
    NeverRaises
    SourcePaysFirst
    Provenance
    BalanceBacked
    EntitlementSettled
