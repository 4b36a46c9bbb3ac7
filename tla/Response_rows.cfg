SPECIFICATION FairSpec
CONSTANTS
    InitialSize = 16
    ShrinkThreshold = 32
    Garbage = 170
    Responses <- MCResponses
    Known <- MCKnown
    ChunkSizes = {7}
    HighWater = 30
    MaxPayload = 200
INVARIANT FrameAligned
INVARIANT RowsExact
INVARIANT BufferBounded
PROPERTY ImplementsByteQueue
PROPERTY ResponseEnds
CHECK_DEADLOCK FALSE
