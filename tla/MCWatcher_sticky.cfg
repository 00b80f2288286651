CONSTANTS
    a = a
    b = b
    EmptyBody = none
    Bodies = {a, b}
    ImageMimes <- MCMimes
    Backend = "xclip"
    Copies <- TextCopies
    Remote <- TextRemote
    Notifiers = {"on", "off"}
    ToolsFail = FALSE
    MaxCopies = 4
    MaxWrites = 1
SPECIFICATION Spec
CHECK_DEADLOCK FALSE
PROPERTY GenuineChangeReported
