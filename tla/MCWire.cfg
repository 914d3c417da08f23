SPECIFICATION FairSpec
CONSTANTS
    HeaderSize = 3
    RequestSizes = {0, 1, 4}
    ResponseSizes = {1, 4}
    Buffer = 3
    MaxCalls = 5
INVARIANTS Framed
PROPERTIES ImplementsExchange CallEnds
CHECK_DEADLOCK FALSE
