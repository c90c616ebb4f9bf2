SPECIFICATION PartsSpec
CONSTANTS
    c1 = c1
    Client = {c1}
    Subscriber = {c1}
    Fetch = {}
    Notifier = {n1, n2}
    Owner <- NoOwner
    Table = {t1, t2}
    EmptyTable = t1
    NoTable = NoTable
    DbConfig = {k1}
    NoDbConfig = NoConfig
    DbModulus = 4
    MaxVersion = 2
    MaxWire = 1
    Shard = {1}
    Bucket = {b1, b2}
    NoBucket = NoBucket
    Config = {k1}
    NoConfig = NoConfig
    PatchTargets = {"draining", "sealed", "cleaning"}
    VersionModulus = 1
INVARIANTS AgentTypeOK ClientTypeOK NoLostWakeup BucketMatchesState NoLeftoverDrain
    OnlyOwnRows DrainReadyIsTrue
PROPERTIES WatchMovesForward WatchConverges CleaningEnds DrainReported
