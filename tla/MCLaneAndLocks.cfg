CONSTANTS
    Conns = {c1, c2, c3}
    Workers = {t1, t2}
    Slots = 2
    Room = 3
    Sizes = {1}
    BodyCap = 1
    Descriptors = 3
    None = None
    Names = {n1, n2}
    Threads = {h1, h2}
    Nobody = Nobody
    CacheCap = 1
    MaxCommits = 1
SPECIFICATION MCSpec
SYMMETRY Symmetry
INVARIANTS
    Inv
    LocksInv
