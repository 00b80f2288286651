CONSTANTS
    a = a
    b = b
    d = d
    e = e
    c1 = c1
    c2 = c2
    q = q
    EmptyBody = none
    Bodies = {a, b, d, e}
    ImageMimes <- Mimes
    Backend = "wayland"
    Copies <- CopiesAB
    ToolsFail = TRUE
    None = None
    Watch = watch
    Api = api
    Conns = {c1, c2}
    Peers = {q}
    MaxClients = 0
    Stalled = {}
    Messages <- MessagesPic
    ApiClips <- ApiE
    Oversize = {}
    MaxInputs = 2
    MaxClips = 2
SPECIFICATION Spec
CHECK_DEADLOCK FALSE
INVARIANTS ClientsAgree DesktopAgrees NothingUnsent
PROPERTIES WatcherSpec HubSpec
VIEW Compared
SYMMETRY Symmetric
CONSTRAINT Bounded
