SPECIFICATION FairSpec
CONSTANTS
    NRecords <- MCNRecords
    Device <- MCDevice
    Kind <- MCKind
    Confs <- MCConfs
    MaxText = 3
    RxSize = 2
INVARIANTS
    DataTypeOK
    Conserved
    NothingLost
    OneReply
    FreshReply
    NothingHeldBack
    SampleWaits
PROPERTIES
    ReadEnds
\* A read from a silent socket waits for ever.
CHECK_DEADLOCK FALSE
