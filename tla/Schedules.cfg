\* Two controllers, a head that moves between versions that share schedules, and an outage.
SPECIFICATION Spec
CONSTANTS
    Commits = {"a", "b", "l", "u"}
    NoCommit = "none"
    Declares <- MCDeclares
    Libraries = {"l"}
    Unarmable = {"u"}
    Controllers = {c1, c2}
    NoOne = NoOne
    Missed = 1
    CatchUpBatch = 2
    Lasts = 1
    Horizon = 4
    MaxPushes = 1
    MaxUpsets = 1
INVARIANTS
    FiredOnceInOrder
    EveryOccurrenceAnswered
PROPERTIES
    ArmedInTheEnd
\* At the last instant, with the changes used up, nothing is left to do.
CHECK_DEADLOCK FALSE
