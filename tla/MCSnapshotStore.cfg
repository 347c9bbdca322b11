CONSTANTS
    Workspaces = {w1, w2}
    Ids = {1}
    Texts = {x}
    Hidden = Hidden
    Workers = {t1, t2}
    Cap = 1
    MaxWrites = 1
    None = None
SPECIFICATION Spec
SYMMETRY WorkerSymmetry
INVARIANT CapHolds
PROPERTY ImplementsPackStore
