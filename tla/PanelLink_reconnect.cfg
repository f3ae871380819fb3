CONSTANTS
    FuseMax = 2
    WindowLen = 1
    QueueMax = 2
    MaxKey = 1
    MaxCmd = 1
    MaxBoot = 2
SPECIFICATION Spec
INVARIANT NoNullCall
