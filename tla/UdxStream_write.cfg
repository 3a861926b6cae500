SPECIFICATION Spec
CONSTANTS
    Endpoint = {a, b}
    Listener = {b}
    Adapter = {a}
    Writer = {a}
    Lengths = {0, 2}
    MtuBase = 1
    MtuMax = 2
    MaxMtuProbes = 2
    MaxRtoTimeouts = 2
    MaxSackRanges = 50
    MaxSeq = 3
    MaxLoss = 0
    Keep = {TRUE}
INVARIANT AckedIsDelivered
INVARIANT NoHole
INVARIANT IInv
PROPERTY ImplementsReliableStream
CHECK_DEADLOCK FALSE
