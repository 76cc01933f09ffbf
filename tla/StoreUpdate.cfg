CONSTANTS
    Run = {r1, r2}
    Incoming <- MCIncoming
    NoFile = NoFile
    Hole = Hole
    Overlapping = FALSE
    CrashInMove = FALSE
SPECIFICATION Spec
INVARIANTS StoreInv ReportedRowsStay
PROPERTY ImplementsStore
CHECK_DEADLOCK FALSE
