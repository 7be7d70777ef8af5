SPECIFICATION Spec
\* Once the bounded runs and edits are used up and settled, nothing is left to do.
CHECK_DEADLOCK FALSE
CONSTANTS
    Run = {r1, r2, r3}
    NoRun = NoRun
    Part = {a, b}
    CacheHits = FALSE
    Heartbeats = FALSE
    MaxStops = 1
    MaxFaults = 0
    MaxEdits = 1
SYMMETRY Symmetry
INVARIANTS
    ChargeBuysOnce
    KeptChargeRedeemable
