SPECIFICATION MCSpec
CONSTANTS
    RootCap = 1
    SlotCap = 2
    Payload = 2
    CountWrap = 65536
    MaxFileSize = 16
    ChainRoot = 1
    ChainRest = 2
    r1 = r1
    Receiver = {r1}
INVARIANT NothingIsMislaid
INVARIANT PickupsAreWhole
PROPERTY OperationsEnd
CHECK_DEADLOCK FALSE
