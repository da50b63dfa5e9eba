CONSTANTS
    u1 = u1
    u2 = u2
    s1 = s1
    A = A
    B = B
    Updaters <- MCUpdaters
    Selectors <- MCSelectors
    Names <- MCNames
    Lists <- MCLists
    VNodes <- MCVNodes
    Keys <- MCKeys
    None = None
    MaxReplacements = 2
SPECIFICATION FairSpec
INVARIANTS TypeOK RingFresh
PROPERTIES QuiescentPickSound EveryoneFinishes
CHECK_DEADLOCK FALSE
