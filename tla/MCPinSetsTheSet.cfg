CONSTANTS
    s1 = s1
    s2 = s2
    Seat = {s1, s2}
    Workspace <- MCWorkspace
    Text <- MCText
    Tails = {"'"}
    Cap = 2
    Roomy <- MCRoomy
    Slots = 1
    FireCap = 1
    Window = 1
    Request <- MCPins
    BusyRetries = 1
    MaxAsks = 2
    MaxTicks = 1
    Failures = TRUE
SPECIFICATION Spec
PROPERTY PinSetsTheSet
CHECK_DEADLOCK FALSE
