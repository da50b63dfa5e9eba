CONSTANTS
    a = a
    p1 = p1
    p2 = p2
    Clients <- MCClients
    Tasks <- MCTasks
    Shards = 2
    ShardOf <- MCSecondShard
    Workers = 2
    Expiry = TRUE
    MaxSessions = 2
SPECIFICATION Spec
SYMMETRY Symmetry
INVARIANTS TypeOK GaugeLedger
CHECK_DEADLOCK FALSE
