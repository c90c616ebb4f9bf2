SPECIFICATION FairCoordSpec
CONSTANTS
    Shard = {s1, s2}
    Bucket = {0, 1}
    NoBucket = NoBucket
    Config = {c1}
    NoConfig = NoConfig
    PatchTargets = {"sealed"}
    VersionModulus = 1
    Axis = "time"
    RetentionDepth = 1
    MaxFuture = 0
    MaxNow = 2
    Resolver = {r1}
    ResolveOps = {"write", "read"}
    Health = {}
    Sealer = {}
    Retainer = {t1}
    Preregistered = {}
    RotatedBuckets = {0}
    Silent = {}
PROPERTIES RetentionKeepsWindow EvictedIsCleaned
