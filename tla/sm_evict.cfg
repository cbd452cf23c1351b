SPECIFICATION Spec
CONSTANTS
    Channels = {c1, c2}
    Types = {"hls"}
    Instances = {s1, s2, s3}
    Clients = {a, b}
    InternalClients = {}
    NoSession = NoSession
    GracePeriod = FALSE
    MaxQueue = 1
    MaxWorkers = 1
    MaxLate = 0
    RunRejects = TRUE
    Limit = 1
    MaxCalls = 1
    OnDemand = {}
    Admins = {}
    Watchers = {}
    Asks <- EveryKey
    Identities <- AnyInstance
SYMMETRY FullSymmetry
PROPERTIES
    RegistrySafe
INVARIANTS
    TypeOK
    NoOrphanStream
    OneStarterPerSession
    StartedHasStream
