SPECIFICATION ServiceSpec
CONSTANTS
    Channels = {c1, c2}
    Types = {"hls_slower", "hls_direct_v2_concat"}
    Instances = {s1, s2, s3, s4}
    Clients = {a, b}
    InternalClients = {}
    NoSession = NoSession
    GracePeriod = FALSE
    MaxQueue = 0
    MaxWorkers = 1
    MaxLate = 0
    RunRejects = FALSE
    Limit = 1
    MaxCalls = 1
    OnDemand = {}
    Admins = {}
    Watchers = {}
    Asks <- OwnChannel
    Identities <- OneInstance
PROPERTIES
    CallsReturn
