CONSTANTS
    a = a
    b = b
    EmptyBody = none
    Bodies = {a, b}
    ImageMimes <- MCMimes
    Backend = "wayland"
    Copies <- MCCopies
    Remote <- MCRemote
    Notifiers = {"on", "off"}
    ToolsFail = TRUE
    MaxCopies = 3
    MaxWrites = 2
SPECIFICATION FairSpec
CHECK_DEADLOCK FALSE
INVARIANTS NoSelfReport NoLostChange NoDoubleReport
PROPERTIES ChangeReported
