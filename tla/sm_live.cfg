SPECIFICATION FairSpec
CONSTANTS
    Channels = {c1}
    Types = {"hls", "hls_concat"}
    Instances = {s1, s2}
    Clients = {a}
    InternalClients = {}
    NoSession = NoSession
    GracePeriod = TRUE
    MaxQueue = 1
    MaxWorkers = 1
    MaxLate = 0
    RunRejects = TRUE
    Limit = 0
    MaxCalls = 1
    OnDemand = {}
    Admins = {}
    Watchers = {a}
    Asks <- EveryKey
    Identities <- AnyInstance
PROPERTIES
    IdleSessionsEnd
    FailedSessionsRecover
    DepartedEnd
