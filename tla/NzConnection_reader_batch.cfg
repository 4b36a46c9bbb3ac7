SPECIFICATION Spec
CONSTANTS
    MaxCommands = 1
    MaxSessions = 1
    CommandTimeout = TRUE
    Refusals = FALSE
    ExecuteTexts = {}
    ReaderTexts = {"batch"}
    LocalFailures = FALSE
    BadFrames = FALSE
INVARIANT TransactionTracked
CHECK_DEADLOCK FALSE
