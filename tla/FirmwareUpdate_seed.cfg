CONSTANTS
    Unit <- ThreeUnits
    Version = {1, 2}
    First <- NewOnFirst
    Source = 1
    Task = {1, 2, 3}
    Home <- TaskHome
    FleetTask = {1, 3}
    Size = 2
    MaxAsk = 2
    MaxFault = 1
SPECIFICATION FairSpec
INVARIANTS TypeOK RunsWhole LeftAloneBoots
PROPERTY FleetSeeded
CHECK_DEADLOCK FALSE
