SPECIFICATION Spec
CONSTANTS
    IdSizes <- MCIdSizes
    ValueSizes <- MCValueSizes
    Counts <- MCCounts
INVARIANTS SentIsStored StoredReloads ListFits LongIdReadable
CHECK_DEADLOCK FALSE
