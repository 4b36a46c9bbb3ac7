SPECIFICATION Spec
CONSTANTS
    MaxCommands = 2
    MaxSessions = 1
    CommandTimeout = TRUE
    Refusals = FALSE
    ExecuteTexts = {"query"}
    ReaderTexts = {}
    LocalFailures = TRUE
    BadFrames = FALSE
INVARIANT OwnResponse
CHECK_DEADLOCK FALSE
