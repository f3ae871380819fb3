CONSTANTS
    NTrack = 2
    QueueMax = 2
    Lead = 1
    PrimeLen = 1
    MaxTask = 2
    MaxAsk = 3
    MaxTsf = 4
SPECIFICATION FairSpec
INVARIANTS TypeOK HoldsWhatItUses NoGhostChase
PROPERTY StopIsFinal
CHECK_DEADLOCK FALSE
