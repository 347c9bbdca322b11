CONSTANTS
    s1 = s1
    s2 = s2
    Seat = {s1, s2}
    Workspace <- MCWorkspace
    Text <- MCText
    Tails = {"'"}
    Cap = 2
    Roomy <- MCRoomy
    Slots = 1
    FireCap = 1
    Window = 1
    Request <- MCRequest
    BusyRetries = 1
    MaxAsks = 3
    MaxTicks = 1
    Failures = TRUE
SPECIFICATION Spec
INVARIANTS Inv OverflowIsKept HeldForTheHour
PROPERTY EveryAskEnds
CHECK_DEADLOCK FALSE
