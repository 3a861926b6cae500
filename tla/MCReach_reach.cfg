SPECIFICATION FairSpec
CONSTANTS
    c = c
    s = s
    r1 = r1
    r2 = r2
    k = k
    Client = c
    Server = s
    Node = {r1, r2}
    Key = k
    ForwardTtl = 1
    HostOf <- MCHostOf
    Setups <- MCSetups
    Tids = {1}
    MaxProbeRounds = 1
    Conn = {1, 2, 3, 4}
    Asks <- MCAsks
    MaxSessions = 2
    MaxPairings = 2
    PairingTimeout = 0
    IdleTimeout = 0
    MaxAge = 1
CHECK_DEADLOCK FALSE
INVARIANT SidesAgree
INVARIANT EveryNodeOnce
INVARIANT RelayIsSound
 
