CONSTANTS
    Seat = {s1, s2}
    Writer = {1, 2}
    Dirs = {d0, d1, d2}
    Migrates = TRUE
SPECIFICATION Spec
INVARIANTS Inv MemoriesAreFound
PROPERTY HerdComesUp
CHECK_DEADLOCK FALSE
