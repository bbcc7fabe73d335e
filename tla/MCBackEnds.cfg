SPECIFICATION MCSpec
CONSTANTS
    Request = {r1, r2}
    Mac = {m1, m2}
    Ip = {i1, i2}
    MaxLeaseEdits = 4
    d1 = d1
    d2 = d2
    Domain = {d1}
    MaxDnsEdits = 3
    MaxDnsOverlap = 2
    Port = {"eth0", "usb0"}
    Tunnel = {ta, tb}
    WithDns = {ta}
    Full = {ta}
    MaxOps = 3
    Adapter = {a1}
    Window = 3
    Ban = 5
    MaxRequests = 2
    MaxAttempts = 3
    W = 4
    H = 2
    Bits = 2
    MaxLines = 5
    Posted <- MCPosted
    Downloads <- MCDownloads
    Frames <- MCFrames
INVARIANTS
    LeasesUnique
    SettingsAsAsked
    RecordsUnique
    DomainsOnce
    WanInForce
    TrafficInTunnel
    NothingLeft
    AutostartNamesTunnel
    ScanOnlyWhenOn
    SpansBounded
    BanHolds
    FrameShown
    PeersInPlace
PROPERTIES
    ImplementsLeaseStore
    LoneWritesKeepRest
CONSTRAINT NotVoid
SYMMETRY Symmetry
CHECK_DEADLOCK FALSE
