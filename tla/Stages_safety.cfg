SPECIFICATION MCSpec
CONSTANTS
    GateUnlocks = 0
    Scenarios = {"drift", "gate", "sweep", "edits", "chunks", "client", "artifacts", "package"}
    NoSource = NoSource
    Refine = {r1, r2}
    Regenerate = {p1}
    MaxVersion = 3
    MaxFails = 3
    MaxCrashes = 1
INVARIANTS
    FinalisedMatchesUpstream
    GateHonoured
    FinalisedIsReady
    NoLostEdit
    PaidIffServed
    PartsBanked
    PageSound
    CoverageKept
    TasksChecked
    ReportMatches
CHECK_DEADLOCK FALSE
