SPECIFICATION MCSpec
CONSTANTS
    GateUnlocks = 1
    Scenarios = {"gate"}
    NoSource = NoSource
    Refine = {r1, r2}
    Regenerate = {p1}
    MaxVersion = 3
    MaxFails = 3
    MaxCrashes = 1
INVARIANTS
    GateHonoured
CHECK_DEADLOCK FALSE
