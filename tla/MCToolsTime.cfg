SPECIFICATION Spec
CONSTANTS
    HoursPerDay = 3
    MinsPerHour = 3
    SecsPerMin = 3
    MsPerSec = 2
    LastDay = 2
    KEYS = 2
    PARAMS = 2
    nsamples = 2
    MaxRows = 3
    number = 2
    MaxRead = 4
    MaxStatLines = 4
    Code <- MCCode
    UIntRange = 65536
    TimeText <- MCTimeText
    Symbols <- MCSymbols
    Rows <- MCRows
    Leftovers = {0, 7}
    StatLines <- MCStatLines
    CommandLines <- Timed
INVARIANT TimedSumsAccepted
CHECK_DEADLOCK FALSE
