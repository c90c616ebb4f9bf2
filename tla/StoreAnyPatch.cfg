SPECIFICATION PartsSpec
CONSTANTS
    Shard = {s1, s2}
    Bucket = {b1, b2}
    NoBucket = NoBucket
    Config = {k1}
    NoConfig = NoConfig
    PatchTargets = {"standby", "active", "draining", "sealed", "cleaning"}
    VersionModulus = 2
    Tx = {x1, x2}
    c1 = c1
    f1 = f1
    Client = {c1}
    Subscriber = {c1}
    Fetch = {f1}
    Notifier = {}
    Owner <- MCOwner
    Table = {t1, t2}
    EmptyTable = t1
    NoTable = NoTable
    DbConfig = {k1}
    NoDbConfig = NoConfig
    DbModulus = 4
    MaxVersion = 2
    MaxWire = 1
    IntBits = 30
    MantissaBits = 27
    unixSecondsYear3000 = 100000000
    Lower <- MCLower
    Sum64 <- MCSum64
    Request <- MCRequest
    Flags <- MCFlags
    Hours <- MCHours
    Key <- MCKey
    NoValue = NoValue
SYMMETRY Symmetry
INVARIANTS StoreTypeOK OneActivePerBucket ErrorShardAlwaysWritable LocalAgreesWithServer
    OnlyRowScansDeadlock 
    AcceptedIsUsable LocalMatchesServer NumericIsFloor TimeKeysAgree HashIdsAligned WindowFitsMinShards
PROPERTIES LifecycleRespected NoRebalance RoutingVersioned PublishesRoutes ImplementsStore IndexCountsBuckets
