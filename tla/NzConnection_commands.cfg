SPECIFICATION Spec
CONSTANTS
    MaxCommands = 2
    MaxSessions = 2
    CommandTimeout = TRUE
    Refusals = FALSE
    ExecuteTexts = {"begin", "batch", "end"}
    ReaderTexts = {"query"}
    LocalFailures = FALSE
    BadFrames = TRUE
INVARIANT ExclusiveExecution
INVARIANT LockOwned
INVARIANT OwnResponse
INVARIANT HonestResult
INVARIANT StreamKept
INVARIANT TransactionTracked
CHECK_DEADLOCK FALSE
