CONSTANTS
    Ids = {a, b}
    NoCfg = NoCfg
    CallerMayCancel = TRUE

SPECIFICATION Spec
CHECK_DEADLOCK FALSE
INVARIANT NoDevicesUnwrapPanic
