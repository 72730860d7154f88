\* A Ctrl-C before the loop begins is forgotten.
SPECIFICATION FairSpec
CONSTANTS
    NRecords <- MCNRecords
    Device <- MCDevice
    Kind <- MCKind
    Confs <- ForeverConfs
    MaxTime = 3
    MaxCount = 1
    PollMayFail = FALSE
PROPERTIES SignalHonoured
