\* Three interfaces and OS calls that may fail: sets on several interfaces,
\* failed transactions and resets of an interface no longer current.
CONSTANTS
    Ifaces = {i1, i2, i3}
    NoGuid = NoGuid
    Unset = Unset
    OsCallsMayFail = TRUE

SPECIFICATION Spec
INVARIANT RegistryConsistent
INVARIANT AppliedWhenOk
