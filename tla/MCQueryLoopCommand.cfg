\* A record on the command port logs the reply of another record.
SPECIFICATION Spec
CONSTANTS
    NRecords <- MCNRecords
    Device <- MCDevice
    Kind <- MCKind
    Confs <- CommandConfs
    MaxTime = 4
    MaxCount = 2
    PollMayFail = FALSE
PROPERTIES ReplyIsOwn
