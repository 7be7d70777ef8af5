SPECIFICATION Spec
\* Once the bounded runs and edits are used up and settled, nothing is left to do.
CHECK_DEADLOCK FALSE
CONSTANTS
    Run = {r1, r2}
    NoRun = NoRun
    Part = {a, b}
    CacheHits = TRUE
    Heartbeats = TRUE
    MaxStops = 2
    MaxFaults = 1
    MaxEdits = 1
SYMMETRY Symmetry
INVARIANTS
    InProgressHasRun
    CancelWins
    CountsMatch
PROPERTIES
    SettledOnce
