SPECIFICATION FairSpec
CONSTANTS
    NRecords <- MCNRecords
    Device <- MCDevice
    Kind <- MCKind
    Confs <- SocketConfs
    MaxText = 3
    RxSize = 2
PROPERTIES
    TimeoutHonoured
CHECK_DEADLOCK FALSE
