SPECIFICATION FairSpec
CONSTANTS
    Endpoint = {a, b}
    Listener = {b}
    Adapter = {a}
    Writer = {a}
    Lengths = {1}
    MtuBase = 1
    MtuMax = 1
    MaxMtuProbes = 2
    MaxRtoTimeouts = 2
    MaxSackRanges = 50
    MaxSeq = 1
    MaxLoss = 1
    Keep = {FALSE}
PROPERTY WritesResolve
CHECK_DEADLOCK FALSE
