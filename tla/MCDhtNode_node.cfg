CONSTANTS
    Bits = 3
    K = 1
    MaxWindow = 1
    DefaultRetries = 0
    RotateAfter = 1
    Unparsable = {9}
    Addr = {1, 2, 3}
    IdOf <- MCIdOf
    HostOf <- MCHostOf
    Bootstrap <- MCBootstrap
    Concurrency = 2
    FirstId = 6
    NeedsIdUpdate = TRUE
    Firewalled = TRUE
    REFRESH_TICKS = 2
    RECENT_NODE = 1
    OLD_NODE = 1
    MAX_REPINGING = 1
    DOWN_HINTS_RATE_LIMIT = 1
    PingEvery = 1
    Knows <- MCKnows
    Identified = {1, 2, 3}
    Reflexive = {3}
    Target = {2}
    Dest = {1, 9}
    Asker = {2}
    Refuser = {3}
    MaxQueries = 2
    MaxRotations = 2
    MaxStimuli = 2
    MaxTid = 6
SPECIFICATION Spec
 
 
INVARIANT TokenLifetime
INVARIANT AnsweredIsKept
CHECK_DEADLOCK FALSE
