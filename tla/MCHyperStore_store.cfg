SPECIFICATION Spec
CONSTANTS
    p1 = p1
    t1 = t1
    p2 = p2
    k1 = k1
    v1 = v1
    r1 = r1
    Node <- MCNode
    Client <- MCClient
    Workloads <- MCWorkloads
    Foreign <- MCForeign
    Kept <- MCKept
    MaxRecords = 2
    MaxPerKey = 1
    MaxRecordAge = 1
    MaxLruSize = 1
    MaxLruAge = 2
    ForwardTtl = 1
    MaxCalls = 3
    MaxTicks = 1
    MaxCopies = 1
INVARIANT StoreIsBounded
INVARIANT ReadsDoNotGoBack
 
PROPERTY RecordsLeaveForAReason
CHECK_DEADLOCK FALSE
