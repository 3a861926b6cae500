SPECIFICATION Spec
CONSTANTS
    DedupCap = 3
    PerSecond = 2
    EvictTrigger = 2
    EvictCount = 1
    PutAttempts = 2
    MaxFeeds = 3
    MaxDepth = 3
    MaxEpoch = 2
    MaxOpens = 2
    QueueCap = 1
    Key = {a, b}
    Alias = {none, al}
    UsersCap = 2
    Writer = {reader, other}
    MaxVersion = 2
    MaxCommands = 2
    MaxSightings = 3
    Setups <- MCSetups
INVARIANT ShownInOrder
INVARIANT RecordCoversFeed
INVARIANT CountsAreRight
 
INVARIANT RecordsReadBack
 
CHECK_DEADLOCK FALSE
