SPECIFICATION Spec
CONSTANTS
    Endpoint = {a, b}
    Listener = {}
    Adapter = {}
    Writer = {a}
    Lengths = {1, 2}
    MtuBase = 1
    MtuMax = 2
    MaxMtuProbes = 2
    MaxRtoTimeouts = 2
    MaxSackRanges = 50
    MaxSeq = 3
    MaxLoss = 0
    Keep = {TRUE}
INVARIANT NoHole
CHECK_DEADLOCK FALSE
