CONSTANTS
    a = a
    b = b
    c = c
    d4 = d
    Daemons = {a, b}
    Clips = {x}
    NoClip = none
    Nobody = nobody
    Topologies <- Mutual
    WindowsExpire = FALSE
    MaxFaults = 0
SPECIFICATION Spec
CHECK_DEADLOCK FALSE
INVARIANT OwnEchoIgnored
