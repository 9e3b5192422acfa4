CONSTANTS
    Listeners = {l1, l2, l3, l4}
    MaxEvents = 3

SPECIFICATION Spec
CHECK_DEADLOCK FALSE
PROPERTY CloseReturns
