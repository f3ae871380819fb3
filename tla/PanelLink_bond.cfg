CONSTANTS
    FuseMax = 2
    WindowLen = 1
    QueueMax = 2
    MaxKey = 2
    MaxCmd = 3
    MaxBoot = 3
SPECIFICATION Spec
INVARIANTS TypeOK FuseStops OneBond CommandOnce
