SPECIFICATION FairSpec
CONSTANTS
    MaxName = 3
    Scripts <- MCScripts
    Refusable <- MCRefusable
    Positions <- MCPositions
INVARIANTS
    LogTypeOK
    LogIsWhole
    TailComplete
    CutsAtFlushes
    PlotterSurvives
PROPERTIES
    LinesAreRead
