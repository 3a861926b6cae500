SPECIFICATION FairSpec
CONSTANTS
    MinRto = 2
    MaxRto = 5
    MaxRtt = 6
    MaxRtoTimeouts = 3
    Interval = 2
    MaxSeq = 2
    MaxLoss = 1
    MayCrash = TRUE
INVARIANT TimersInv
INVARIANT GivesUpInTime
PROPERTY SilenceIsNoticed
CHECK_DEADLOCK FALSE
