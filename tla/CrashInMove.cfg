CONSTANTS
    Run = {r1, r2}
    Incoming <- MCIncoming
    NoFile = NoFile
    Hole = Hole
    Overlapping = FALSE
    CrashInMove = TRUE
SPECIFICATION Spec
PROPERTY ReplacedOnlyWhenWritten
CHECK_DEADLOCK FALSE
