\* A record that only reads uses up its count without a message.
SPECIFICATION Spec
CONSTANTS
    NRecords <- MCNRecords
    Device <- MCDevice
    Kind <- MCKind
    Confs <- CountedListenerConfs
    MaxTime = 4
    MaxCount = 2
    PollMayFail = FALSE
INVARIANTS NumberCountsMessages
