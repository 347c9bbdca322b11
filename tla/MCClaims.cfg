CONSTANTS
    i1 = i1
    i2 = i2
    Ids = {i1, i2}
    Posts <- MCPosts
    Edits <- MCEdits
    Proposals = {1, 2}
    Mined <- MCMined
    Names <- MCNames
    Flagged <- MCFlagged
    LiveCap = 1
    Holds = {TRUE, FALSE}
    MaxCalls = 3
    Absent = Absent
    Claims = {1, 2, 3, 4}
    Abouts <- MCAbouts
    Sets = {s}
    LinkMax = 2
    Tie <- MCTie
    Reposts = FALSE
    Mineable = {m1, m2}
    Unfit = {m2}
    Alike = {}
    Gap = gap
    Transcripts = {gap, m1}
    Clerks = {k1, k2}
    DayLen = 2
    MaxIds = 2
    MaxLog = 5
    MaxStops = 1
SPECIFICATION MCSpec
SYMMETRY Symmetry
INVARIANTS
    Inv
    FloorHolds
    DuplicatesComeFromEdits
    LinksInv
    LogInv
PROPERTIES
    RetiredForever
    NeglectIsEarned
CHECK_DEADLOCK FALSE
