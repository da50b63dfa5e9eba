CONSTANTS
    s1 = s1
    s2 = s2
    Tasks <- MCTasks
    weight <- MCWeight
    MaxWeight = 2
    CounterValues = 4
    MaxPicks = 7
    MaxChanges = 3
SYMMETRY Symmetry
SPECIFICATION SelectionSpec
INVARIANTS SelectionTypeOK ChoiceWasAvailable TurnsAreFair
CHECK_DEADLOCK FALSE
