CONSTANTS
    End <- Ends
    Starter <- Watch
    Notifier <- Panel
    Margin = 3
    Stride = 2
    Window = 2
    CtrMax = 20
    FragMax = 2
    MaxFresh = 2
    MaxSealed = 3
    MaxCuts = 2
SPECIFICATION Spec
INVARIANTS TypeOK CounterOnce WindowExact WholeMessages
CHECK_DEADLOCK FALSE
