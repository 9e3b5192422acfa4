\* Two interfaces and OS calls that may fail: both ways of leaving our
\* servers on an interface current_guid no longer names are reachable
\* (a set on another interface, and a reset whose transaction fails).
CONSTANTS
    Ifaces = {i1, i2}
    NoGuid = NoGuid
    Unset = Unset
    OsCallsMayFail = TRUE

SPECIFICATION Spec
INVARIANT OurServersTracked
