CONSTANTS
    Unit <- Pair
    Console = {k1, k2}
    Home <- AllOfOne
    Guest = 9
    Target = {2}
    Burst = 1
    Echo = FALSE
    MaxCmd = 3
    Lead = 1
    Window = 2
    QueueMax = 2
    SeenMax = 2
    PeerMax = 4
    LastSend = 2
    Fragile = {2}
    Troubles = {"drop", "pins", "reset"}
    MaxDisturb = 1
SPECIFICATION Spec
INVARIANTS TypeOK OrderKept QueuedIsKept
SYMMETRY ConsoleSymmetry
CHECK_DEADLOCK FALSE
