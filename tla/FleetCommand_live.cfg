CONSTANTS
    Unit <- Pair
    Console = {1}
    Home <- AllOfOne
    Guest = 9
    Target = {0, 2}
    Burst = 2
    Echo = TRUE
    MaxCmd = 2
    Lead = 1
    Window = 8
    QueueMax = 4
    SeenMax = 2
    PeerMax = 4
    LastSend = 1
    Fragile = {1}
    Troubles = {"inject"}
    MaxDisturb = 2
SPECIFICATION Spec
INVARIANT RunsOnce
PROPERTY RunsOnEveryNode
CHECK_DEADLOCK FALSE
