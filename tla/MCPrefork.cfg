\* The server ends: a terminated or killed master stays so.
SPECIFICATION FairSpec
CONSTANTS
    Pid = {1, 2}
    Kind = {"http", "cron"}
    Population <- MCPopulation
    Timeout = 2
    QueueLimit = 1
INVARIANT NoForgottenWorker
PROPERTY DeadAreReaped
PROPERTY StuckAreKilled
PROPERTY StopEnds
PROPERTY OrphansLeave
CHECK_DEADLOCK FALSE
