CONSTANTS
    Node = {1, 2}
    Pulls <- OneWay
    Version = {1, 2, 3}
    Size <- TwoThree
    Held <- OldAndNew
    Troubles = {"cut", "power", "edit"}
    MaxTrouble = 2
SPECIFICATION FairSpec
INVARIANTS TypeOK NeverTruncated
PROPERTY CleanSyncConverges
