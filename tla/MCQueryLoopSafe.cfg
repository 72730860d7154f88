\* Safety of the main loop over seven configurations.
SPECIFICATION Spec
CONSTANTS
    NRecords <- MCNRecords
    Device <- MCDevice
    Kind <- MCKind
    Confs <- SafeConfs
    MaxTime = 5
    MaxCount = 3
    PollMayFail = TRUE
INVARIANTS
    TypeOK
    BudgetKept
    OnGrid
    NeverEarly
    InsideWindow
    SrqAgree
    CompleteAtQuit
    ReportAddsUp
PROPERTIES
    ReplyIsOwn
    ImplementsSchedule
