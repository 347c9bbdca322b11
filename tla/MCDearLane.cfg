CONSTANTS
    Conns = {c1, c2, c3}
    Workers = {t1, t2}
    Slots = 2
    Room = 1
    Sizes = {0}
    BodyCap = 2
    Descriptors = 3
    None = None
    MaxArgs = 3
    BUSY_RETRIES = 2
    MAX_HEAD = 3
    MAX_BODY = 2
    Code <- MCCode
    Plain = {"a", "b"}
    NameLen = 3
    PatternLen = 4
    Depth = 2
    Trees <- MCTrees
    Ignores <- MCIgnores
    MAP_LIST_CAP = 2
    MAP_TOO_LARGE = 3
SPECIFICATION MCSpec
INVARIANTS SurfaceInv CheckoutInv
PROPERTY EveryConnectionEnds
CHECK_DEADLOCK FALSE
