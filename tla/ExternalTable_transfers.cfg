SPECIFICATION FairSpec
CONSTANTS
    MaxExchanges = 2
    MaxBlocks = 2
    LateErrors = FALSE
INVARIANT ImportComplete
INVARIANT FilesReleased
PROPERTY ExportComplete
PROPERTY CommandEnds
CHECK_DEADLOCK FALSE
