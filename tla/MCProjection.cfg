CONSTANTS
    Workspaces = {w1}
    Ids = {1}
    InSet = {1}
    Queries <- One
    Flushers = {f1, f2}
    Searches = {s1}
    MaxWrites = 2
    Failures = TRUE
    None = None
SPECIFICATION FairSpec
INVARIANTS Inv LevelWhenQuiet
PROPERTIES AppliedInOrder EveryWriteTried
