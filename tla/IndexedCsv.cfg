CONSTANTS
    Cell = {"", "A", "B", "x"}
    Empty = ""
    Label <- MCLabel
    Path = {p1, p2}
    NoFile = NoFile
    NewKey = "_new"
    NoEdit = NoEdit
    d1 = d1
    d2 = d2
    Dialect = {d1, d2}
    Unquoted = {d2}
    NeedsQuoting <- MCNeedsQuoting
    Content <- MCContent
    MaxStamp = 2
    Typed = {"A"}
    Named = {"A","x"}
    MaxSteps = 2
    MaxWidth = 2
    MidSaveChanges = FALSE
    FailingReads = TRUE
    DistinctHeaders = TRUE
SYMMETRY MCSymmetry
SPECIFICATION Spec
INVARIANTS EngineIsConsistent PagesShowTheTable
CHECK_DEADLOCK FALSE
PROPERTY ImplementsDocument
