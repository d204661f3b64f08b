\* A caller cancelled while it calls.
SPECIFICATION Spec
CONSTANTS
    Workflows = {"wide", "eager", "caller"}
    NoWorkflow = "none"
    TasksOf <- MCTasks
    GroupOf <- MCGroup
    CalleeOf <- MCCallee
    CancelInProgress = {"eager"}
    Ceiling = 1
    MaxRuns = 3
    MaxCallDepth = 1
    MaxStarts = 2
    MaxUpsets = 1
\* Runs that have ended, and bounds used up, leave nothing to do.
CHECK_DEADLOCK FALSE
INVARIANTS CalledFollowTheirCaller
