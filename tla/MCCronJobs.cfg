\* Two worker processes, one killed once, one user's write.
SPECIFICATION FairSpec
CONSTANTS
    once = once
    many = many
    r1 = r1
    r2 = r2
    None = None
    Job = {many, once}
    Runner = {r1, r2}
    Prefork = TRUE
    MaxTime = 2
    MaxCrash = 1
    MaxEdit = 1
    Priority <- MCPriority
    Interval <- MCInterval
    FirstCall <- MCFirstCall
    Budget <- MCBudget
    DoAll <- MCDoAll
INVARIANTS
    OneRunnerPerJob
    NoOccurrenceSkipped
    NoCallLost
PROPERTIES
    RowKeptWhileBusy
    ScheduleNeverRewinds
    DueServed
