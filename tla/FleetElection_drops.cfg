CONSTANTS
    Node <- TwoNodes
    Prio = {0, 2}
    AnchorPrio = 2
    Fresh = 1
    Jitter <- SameJitter
    Key = {1, 2}
    Troubles <- AllTroubles
    Drops = TRUE
    MaxDisturb = 2
SPECIFICATION FairSpec
INVARIANTS TypeOK ElectedHasWeight ElectedFollowsNobody
PROPERTIES KeyringSpec KeyConverges
CHECK_DEADLOCK FALSE
