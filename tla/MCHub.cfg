CONSTANTS
    a = a
    b = b
    c1 = c1
    c2 = c2
    q = q
    EmptyBody = none
    Bodies = {a, b}
    ImageMimes <- Mimes
    None = None
    Watch = watch
    Api = api
    Conns = {c1, c2}
    Peers = {q}
    MaxClients = 0
    Stalled = {c2}
    Messages <- MessagesMixed
    LocalClips <- TextA
    ApiClips = {}
    Oversize <- PictureB
    MaxClips = 2
SPECIFICATION FairSpec
CHECK_DEADLOCK FALSE
INVARIANTS TypeOK RelayReachesAll RegistryExact
PROPERTIES FanoutSpec ClipHandled BrokenLeaves
