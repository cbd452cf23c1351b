SPECIFICATION Spec
CONSTANTS
    Channels = {c1}
    Types = {"hls_slower", "hls_slower_concat"}
    Instances = {s1, s2, s3}
    Clients = {a, b}
    InternalClients = {}
    NoSession = NoSession
    GracePeriod = TRUE
    MaxQueue = 2
    MaxWorkers = 1
    MaxLate = 3
    RunRejects = FALSE
    Limit = 0
    MaxCalls = 1
    OnDemand = {c1}
    Admins = {b}
    Watchers = {}
    Asks <- EveryKey
    Identities <- AnyInstance
SYMMETRY InstanceSymmetry
INVARIANTS
    NoOrphanStream
PROPERTIES
    RemovalHasCause
