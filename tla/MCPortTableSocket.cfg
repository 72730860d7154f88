\* Two records of one connection.
SPECIFICATION Spec
CONSTANTS
    NRecords <- MCNRecords
    Device <- MCDevice
    Kind <- MCKind
    Closed = Closed
    Confs <- SharedSocket
INVARIANTS
    SocketsHaveHandles
