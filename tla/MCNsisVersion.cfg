CONSTANTS
    MaxPathSize = 3
    MaxLen = 3
    MaxCalls = 3
    BufferFn = "version"

SPECIFICATION Spec
CHECK_DEADLOCK FALSE
INVARIANT InsufficientReportsRequiredSize
