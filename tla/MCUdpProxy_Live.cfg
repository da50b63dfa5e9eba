CONSTANTS
    a = a
    p1 = p1
    p2 = p2
    Clients <- MCClients
    Tasks <- MCOneTask
    Shards = 1
    ShardOf <- MCFirstShard
    Workers = 2
    Expiry = TRUE
    MaxSessions = 2
SPECIFICATION FairSpec
PROPERTIES PacketsFinish ExpiredIsCleaned ShutdownEnds
CHECK_DEADLOCK FALSE
