CONSTANTS
    Handles = {t1, t2}
    None = None
    Free = Free
    C0 = c0
    FutureCfgs = {c1, c2}
SPECIFICATION TunnelSpec
INVARIANT NoLogToCleanedContext
INVARIANT DeviceRunsStoredConfig
PROPERTY AdapterLifetime
CHECK_DEADLOCK FALSE
