\* Two attempts with a requeue each; the run is cancelled, reaches its deadline, or a merge: first supersedes the step.
SPECIFICATION Spec
CONSTANTS
    MaxAttempts = 2
    MaxRequeues = 1
    RetryOn = {"lost", "failed"}
    Idempotent = TRUE
    Backoff = TRUE
    HasDeadline = TRUE
    Siblings = TRUE
    Runners = {r1}
    NoRunner = NoRunner
    Threads = {t1}
    Outcomes = {"succeeded", "failed"}
    Progresses = {"running", "publishing"}
    MayCancel = TRUE
    MaxFaults = 1
INVARIANTS
    RowsFollowDocument
    EndedRunHoldsNothing
PROPERTIES
    RowsOnlyMoveForwards
\* A run that has ended and drained takes no more steps.
CHECK_DEADLOCK FALSE
