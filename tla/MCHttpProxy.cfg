CONSTANTS
    r1 = r1
    r2 = r2
    r3 = r3
    Requests <- MCRequests
    Weights <- MCTwo
SPECIFICATION FairSpec
INVARIANTS TypeOK GaugeLedger BadGatewaysExplained
PROPERTIES LockoutIsPermanent RequestsAnswered
CHECK_DEADLOCK FALSE
