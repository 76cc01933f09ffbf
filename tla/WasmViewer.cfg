CONSTANTS
    File = {f1, f2}
    NoFile = NoFile
    MaxEdits = 1
    MaxReads = 1
SPECIFICATION Spec
INVARIANTS ViewerTypeOK NothingOfAnotherFile CleanMeansStored
PROPERTIES SaveClearsItsRevision GivesThePageBack
CHECK_DEADLOCK FALSE
