\* Two hosts compete for one key and its requeue, two passes decide, and one fault of any kind happens.
SPECIFICATION Spec
CONSTANTS
    MaxAttempts = 1
    MaxRequeues = 1
    RetryOn = {"lost"}
    Idempotent = TRUE
    Backoff = FALSE
    HasDeadline = FALSE
    Siblings = FALSE
    Runners = {r1, r2}
    NoRunner = NoRunner
    Threads = {t1, t2}
    Outcomes = {"succeeded"}
    Progresses = {}
    MayCancel = FALSE
    MaxFaults = 1
SYMMETRY Symmetry
INVARIANTS
    TypeOK
    AnotherHostOnlyAfterLoss
    EndingFromItsHost
    OneLiveDispatch
    LossNotForgotten
PROPERTIES
    RowsOnlyMoveForwards
    EndedKeyNotRerun
\* A run that has ended and drained takes no more steps.
CHECK_DEADLOCK FALSE
