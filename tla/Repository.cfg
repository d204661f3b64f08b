\* Two pushes and a fetch at a time, against repacks, collections, moves, a rename and a deletion.
SPECIFICATION Spec
CONSTANTS
    Keys = {k1}
    Namespaces = {"a", "b"}
    Names = {"w", "x"}
    Birthplaces <- MCBirthplaces
    Storage <- MCStorage
    c1 = c1
    c2 = c2
    c3 = c3
    Commits = {c1, c2, c3}
    Sendable <- MCSendable
    Parents <- MCParents
    Refs = {"main"}
    DefaultBranch = "main"
    Pushes = {q1, q2}
    Fetches = {f1}
    RepackAbove = 1
    Grace = 1
    Lasts = 0
    Most <- MCMost
    None = None
SYMMETRY Symmetry
INVARIANTS
    ObjectsHeld
    LivePacksHaveFiles
    FetchServed
PROPERTIES
    UnforcedGoesForward
\* Every change asked for and every workflow deleted, nothing is left to do.
CHECK_DEADLOCK FALSE
