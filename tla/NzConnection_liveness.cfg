SPECIFICATION FairSpec
CONSTANTS
    MaxCommands = 2
    MaxSessions = 1
    CommandTimeout = TRUE
    Refusals = TRUE
    ExecuteTexts = {}
    ReaderTexts = {"query"}
    LocalFailures = TRUE
    BadFrames = FALSE
PROPERTY CallsSettle
CHECK_DEADLOCK FALSE
