SPECIFICATION Spec
CONSTANTS
    p1 = p1
    p2 = p2
    p3 = p3
    e1 = e1
    e2 = e2
    NoPack = NoPack
    NoEntry = NoEntry
    Pack <- ExpiryPack
    Entry <- ExpiryEntry
    Purchased <- ExpiryPurchased
    Paid <- ExpiryPaid
    OrderTotal <- ExpiryOrderTotal
    Razorpay = {p1}
    Charges = {2}
    Bonus = {1}
    MaxCredited = 1
    MaxOwed = 1
    MaxTime = 1
    Expiries = {1, 2}
    ClockMovesInTxn = TRUE
INVARIANTS
    ExpiredNeverReclaimed
    FullReversalKeepsNothing
PROPERTIES
    LapsedNeverUsable
