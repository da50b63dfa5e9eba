CONSTANTS
    c1 = c1
    c2 = c2
    A = A
    B = B
    Conns <- MCConns
    Upstreams <- MCUpstreams
    connection_pooling = TRUE
    HealthUpdates = TRUE
SPECIFICATION FairSpec
INVARIANTS TypeOK GaugesExact OutcomesRecordedOnce
PROPERTIES SteadyChoiceIsLeast TasksFinish
CHECK_DEADLOCK FALSE
