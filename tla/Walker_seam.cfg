SPECIFICATION WalkerSpec
CONSTANTS
    N = 2
    Width = 4
    Band = 1
    World <- Worlds
    Win = 10
    RingMax = 4
    Lookahead = 5
    Past = 2
    Future = 6
    LiveLag = 1
    Grace = 5
    Silence = 6
    Delay = 3
    MaxFault = 2
    MaxLeave = 1
INVARIANTS WalkerTypeOK TwoOwnersBrief OwnWindow
PROPERTIES PromisesKept
CHECK_DEADLOCK FALSE
