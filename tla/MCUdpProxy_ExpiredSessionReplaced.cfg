CONSTANTS
    a = a
    p1 = p1
    p2 = p2
    Clients <- MCClients
    Tasks <- MCOneTask
    Shards = 1
    ShardOf <- MCFirstShard
    Workers = 2
    Expiry = TRUE
    MaxSessions = 1
SPECIFICATION FairSpec
PROPERTY ExpiredSessionReplaced
CHECK_DEADLOCK FALSE
