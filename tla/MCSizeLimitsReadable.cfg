SPECIFICATION Spec
CONSTANTS
    IdSizes <- MCIdSizes
    ValueSizes <- MCValueSizes
    Counts <- MCCounts
INVARIANT StoredIsReadable
CHECK_DEADLOCK FALSE
