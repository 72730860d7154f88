\* Every assignment of three records to six devices.
SPECIFICATION Spec
CONSTANTS
    NRecords <- MCNRecords
    Device <- MCDevice
    Kind <- MCKind
    Closed = Closed
    Confs <- AllConfs
INVARIANTS
    PortTypeOK
    OwnHandle
    OpenedOnce
    ClosedOnce
    AllClosed
