CONSTANTS
    Initial = 1
    Maximum = 2
    WireCap = 2
SPECIFICATION Spec
CHECK_DEADLOCK FALSE
INVARIANT HelloFirst
