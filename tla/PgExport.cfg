CONSTANTS
    Worker = {w1, w2}
    Batches = 3
    Depth = 1
    OtherClients = TRUE
SPECIFICATION Spec
INVARIANTS ExportTypeOK EachBatchInOnePlace CommitIsUnanimous OutcomeIsTrue NoPartialTable
PROPERTY ExportReturns
