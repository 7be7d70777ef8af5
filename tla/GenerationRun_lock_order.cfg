SPECIFICATION Spec
\* Once the bounded runs and edits are used up and settled, nothing is left to do.
CHECK_DEADLOCK FALSE
CONSTANTS
    Run = {r1}
    NoRun = NoRun
    Part = {a, b}
    CacheHits = FALSE
    Heartbeats = TRUE
    MaxStops = 1
    MaxFaults = 0
    MaxEdits = 0
INVARIANT
    NoLockCycle
