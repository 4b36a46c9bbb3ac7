SPECIFICATION Spec
CONSTANTS
    Words <- MCWords
    Queries <- MCQueries
    Numerics <- MCNumerics
    Counts <- MCCounts
    Months <- MCMonths
    Zones <- MCZones
    Timestamps <- MCTimestamps
    Dates <- MCDates
    Times <- MCTimes
    IntegerTexts <- MCIntegerTexts
    Refusals <- MCRefusals
    Limb = 4
    ChunkDigits = 2
    NumberDigits = 2
    SmallDigits = 2
    SafeHigh = 4
    Milli = 10
    TickQ = 1
    TickR = 6
    Second = 7
    Sixty = 3
    Dozen = 3
    MaxLegacyErrorTextBytes = 12
    MinLegacyErrorTextChars = 4
    MaxPayload = 10000000
INVARIANT QueriesTracked
INVARIANT InstantFloored
INVARIANT ValuesExact
INVARIANT ShortcutsAgree
INVARIANT RefusalsTold
