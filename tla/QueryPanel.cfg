CONSTANTS
    Queries = {q}
    Suggested = s
    Empty = e
    NoResult = none
    MaxEdits = 2
    MaxTurns = 5
    MaxOpens = 1
    MaxInserts = 1
SPECIFICATION Spec
INVARIANTS QueryTypeOK ResultsSeeEveryEdit ChartsSeeTheFile
PROPERTY NoteShowsTheResult
CHECK_DEADLOCK FALSE
