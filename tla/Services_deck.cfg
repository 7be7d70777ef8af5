SPECIFICATION Spec
CONSTANTS
    Scenarios = {"boards"}
    Requests = {"r1", "r2"}
    Owner <- OwnerOf
    ProcessLimit = 2
    UserLimit = 1
    ProviderLimit = 1
    RpmLimit = 2
    MaxFaults = 2
    MaxCancels = 1
    MaxSlices = 1
    Click = {"c1", "c2"}
    Rounds = 2
    Escalates = TRUE
    Slow = TRUE
    MaxSources = 2
    MaxDeckFaults = 2
    MaxSlugs = 2
    Inc = {"i", "j"}
    IdeaOf <- Promoted
    TaskOf <- Answers
    Baseline = {"a"}
    Edited = {"b"}
    MaxVersion = 3
    MaxIncFaults = 1
    Space = {"u", "v", "w"}
    Quota = 1
    TrashDays = 0
    LegacyDays = 1
    BatchSize = 1
    Cap = 2
    MaxClock = 3
    MaxRestores = 1
    Unit = {"p", "w", "g"}
    NameOf <- JobNames
    FreshIds = {"f"}
    MaxTries = 2
    LaneSlots = 1
    TTL = 1
    MaxKills = 1
    MaxOutages = 1
    MaxSweeps = 1
    MaxHarness = 2
    MaxRevalidate = 2
    MaxEvalFaults = 2
INVARIANT ChargedIffServed
CHECK_DEADLOCK FALSE
