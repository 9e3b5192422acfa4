CONSTANTS
    NSEC_PER_SEC = 3
    MaxSec = 3
    NoDuration = NoDuration

SPECIFICATION Spec
INVARIANT TypeOK
INVARIANT DurationMatchesReference
