CONSTANTS
    MaxBytes = 3
    BufSize = 2
    Window = 2
SPECIFICATION FairSpec
INVARIANTS TypeOK TransferLedger
PROPERTIES RelayImplemented ClosedEnds
CHECK_DEADLOCK FALSE
