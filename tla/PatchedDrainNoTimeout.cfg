SPECIFICATION FairCoordSpec
CONSTANTS
    Shard = {s1, s2}
    Bucket = {0}
    NoBucket = NoBucket
    Config = {c1}
    NoConfig = NoConfig
    PatchTargets = {"draining"}
    VersionModulus = 1
    Axis = "hash"
    RetentionDepth = 1
    MaxFuture = 0
    MaxNow = 0
    Resolver = {r1}
    ResolveOps = {"write"}
    Health = {}
    Sealer = {w1}
    Retainer = {}
    Preregistered = {s1, s2}
    RotatedBuckets = {}
    Silent = {s1, s2}
PROPERTIES DrainCompletes
