CONSTANTS
    MaxPathSize = 3
    MaxLen = 3
    MaxCalls = 3
    BufferFn = "appdata"

SPECIFICATION Spec
CHECK_DEADLOCK FALSE
INVARIANT TypeOK
INVARIANT PathScanMatchesReference
INVARIANT CopyWithinBuffer
INVARIANT InsufficientReportsRequiredSize
