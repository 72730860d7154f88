\* Liveness of the main loop.
SPECIFICATION FairSpec
CONSTANTS
    NRecords <- MCNRecords
    Device <- MCDevice
    Kind <- MCKind
    Confs <- LiveConfs
    MaxTime = 4
    MaxCount = 2
    PollMayFail = FALSE
PROPERTIES
    SignalStops
    DueIsServed
    RequestIsServed
    SpentStops
