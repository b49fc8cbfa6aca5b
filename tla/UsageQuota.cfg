SPECIFICATION FairSpec
CONSTANTS
    Txns = {t1, t2}
    NoItem = NoItem
    Items <- SomeItems
    Needs <- SomeNeeds
    Eve <- TheEve
    Limit <- OneEach
    GlobalLimit = 1
    TurnLimit = 1
    MaxDay = 3
    MaxCalls = 3
INVARIANTS
    WithinQuota
    PaidIsDone
PROPERTIES
    PauseHolds
    EveryCallEnds
CHECK_DEADLOCK FALSE
