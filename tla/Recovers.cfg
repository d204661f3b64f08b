\* Liveness: two hosts, a request to cancel, and no root timeout to end the run.
SPECIFICATION FairSpec
CONSTANTS
    MaxAttempts = 1
    MaxRequeues = 1
    RetryOn = {"lost"}
    Idempotent = TRUE
    Backoff = FALSE
    HasDeadline = FALSE
    Siblings = FALSE
    Runners = {r1, r2}
    NoRunner = NoRunner
    Threads = {t1}
    Outcomes = {"succeeded"}
    Progresses = {}
    MayCancel = TRUE
    MaxFaults = 1
PROPERTIES
    RunEnds
    Drains
\* A run that has ended and drained takes no more steps.
CHECK_DEADLOCK FALSE
