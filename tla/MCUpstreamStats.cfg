CONSTANTS
    t1 = t1
    t2 = t2
    r1 = r1
    Tasks <- MCTasks
    Readers <- MCReaders
    Samples <- MCSamples
    MaxRequests = 4
SYMMETRY Symmetry
SPECIFICATION Spec
INVARIANTS TypeOK Conservation AverageWithinSamples UnderstatedByInFlight
PROPERTY TallyImplemented
CHECK_DEADLOCK FALSE
