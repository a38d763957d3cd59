\* Administrators may make a sequence standard, change increments and delete.
SPECIFICATION FairSpec
CONSTANTS
    Request = {"a", "b", "admin"}
    Admin = {"admin"}
    Sequence = {"invoice", "order"}
    NewImplementation = {"standard"}
    NewNext = {}
    None = "none"
    MaxTries = 1
    Initial <- MCInitial
    NewIncrement <- MCNewIncrement
    MaxDraws <- MCMaxDraws
INVARIANT UniqueNumbers
PROPERTY IsNumbering
PROPERTY Answered
CHECK_DEADLOCK FALSE
