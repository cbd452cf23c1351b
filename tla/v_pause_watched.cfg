SPECIFICATION Spec
CONSTANTS
    Channels = {c1}
    Types = {"hls", "hls_concat"}
    Instances = {s1, s2}
    Clients = {a, b, ffmpeg}
    InternalClients = {ffmpeg}
    NoSession = NoSession
    GracePeriod = TRUE
    MaxQueue = 1
    MaxWorkers = 1
    MaxLate = 0
    RunRejects = FALSE
    Limit = 0
    MaxCalls = 1
    OnDemand = {c1}
    Admins = {}
    Watchers = {}
    Asks <- ByRole
    Identities <- AnyInstance
SYMMETRY InstanceSymmetry
PROPERTIES
    PausedOnlyUnwatched
