CONSTANTS
    Mineable = {m1, m2}
    Unfit = {}
    Alike = {}
    Gap = gap
    Transcripts = {gap, m1}
    Clerks = {k1, k2}
    DayLen = 3
    MaxIds = 2
    MaxLog = 5
    MaxStops = 1
SPECIFICATION LogSpec
INVARIANT HistoryStaysReadable
CHECK_DEADLOCK FALSE
