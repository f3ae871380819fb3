SPECIFICATION WalkerSpec
CONSTANTS
    N = 2
    Width = 4
    Band = 1
    World <- Worlds
    Win = 10
    RingMax = 4
    Lookahead = 5
    Past = 2
    Future = 6
    LiveLag = 1
    Grace = 60
    Silence = 106
    Delay = 3
    MaxFault = 3
    MaxLeave = 0
INVARIANTS SomeoneTalks
CHECK_DEADLOCK FALSE
