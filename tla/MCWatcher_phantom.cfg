CONSTANTS
    a = a
    b = b
    EmptyBody = none
    Bodies = {a, b}
    ImageMimes <- MCMimes
    Backend = "wayland"
    Copies <- TextCopies
    Remote <- PictureRemote
    Notifiers = {"on", "off"}
    ToolsFail = TRUE
    MaxCopies = 2
    MaxWrites = 1
SPECIFICATION Spec
CHECK_DEADLOCK FALSE
INVARIANT NoPhantomReport
