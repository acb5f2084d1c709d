SPECIFICATION StartSpec
CONSTANTS
    Limit = 30
    Pairings <- Pairs
INVARIANTS TypeOK NoOverrun StoresThroughBar
PROPERTIES Exchanges StartsExchange StartedFinish
CHECK_DEADLOCK FALSE
