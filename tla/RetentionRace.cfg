SPECIFICATION CoordSpec
CONSTANTS
    Shard = {s1, s2, s3}
    Bucket = {0, 1}
    NoBucket = NoBucket
    Config = {c1}
    NoConfig = NoConfig
    PatchTargets = {}
    VersionModulus = 1
    Axis = "time"
    RetentionDepth = 1
    MaxFuture = 0
    MaxNow = 1
    Resolver = {r1}
    ResolveOps = {"write"}
    Health = {}
    Sealer = {}
    Retainer = {t1}
    Preregistered = {s1, s2, s3}
    RotatedBuckets = {0}
    Silent = {}
PROPERTIES RetentionSkipsBusy
