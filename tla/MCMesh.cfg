CONSTANTS
    a = a
    b = b
    c = c
    d4 = d
    Daemons = {a, b, c, d}
    Clips = {x, y}
    NoClip = none
    Nobody = nobody
    Topologies <- Acyclic
    WindowsExpire = TRUE
    MaxFaults = 2
SPECIFICATION FairSpec
CHECK_DEADLOCK FALSE
INVARIANTS NoEcho BroadcastOnce Converges
PROPERTIES Settles
