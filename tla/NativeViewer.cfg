CONSTANTS
    First = First
    Total = Total
    Note = Note
    Columns <- TwoColumns
    NewColumns <- OneName
    Rows = 2
    NoPage = NoPage
    MaxSteps = 2
    MaxReads = 2
    MaxResets = 1
SPECIFICATION Spec
INVARIANTS NativeTypeOK ViewIsTheTable EditsHitTheirRows CleanMeansSaved
PROPERTY SavedMeansClean
CHECK_DEADLOCK FALSE
