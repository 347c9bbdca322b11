CONSTANTS
    Workspaces = {w1}
    Ids = {i1, i2}
    Texts = {x}
    Hidden = Hidden
    Workers = {t1, t2}
    Cap = 1
    MaxWrites = 2
    None = None
SPECIFICATION Spec
SYMMETRY Symmetry
INVARIANTS
    ReadsAreFresh
    WritersReadCommitted
    CurrentEntriesAreCommitted
    IInv
