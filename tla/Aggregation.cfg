CONSTANTS
    Jobs <- SomeJobs
    RowsOf <- SomeRows
    MaxRows = 3
    Today <- LeapDay
SPECIFICATION Spec
INVARIANTS AnswersAreRight DatesReadInOneOrder
CHECK_DEADLOCK FALSE
