CONSTANTS
    w1 = w1
    w2 = w2
    e1 = e1
    c1 = c1
    A = A
    B = B
    Names <- MCNames
    Writers <- MCWriters
    Exporters <- MCExporters
    Checkers <- MCCheckers
    Totals = 4
    MaxObjects = 2
SYMMETRY Symmetry
SPECIFICATION Spec
INVARIANTS TypeOK TotalLedger VerdictExplained
CHECK_DEADLOCK FALSE
