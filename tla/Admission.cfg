\* Two workflows of one group, one of which a third calls; a ceiling of one task, one upset.
SPECIFICATION Spec
CONSTANTS
    Workflows = {"wide", "eager", "caller"}
    NoWorkflow = "none"
    TasksOf <- MCTasks
    GroupOf <- MCGroup
    CalleeOf <- MCCallee
    CancelInProgress = {"eager"}
    Ceiling = 1
    MaxRuns = 3
    MaxCallDepth = 1
    MaxStarts = 2
    MaxUpsets = 1
INVARIANTS OneHolder OverrunBounded CalledOnce NeverStranded
PROPERTIES OldestFirst
\* Runs that have ended, and bounds used up, leave nothing to do.
CHECK_DEADLOCK FALSE
