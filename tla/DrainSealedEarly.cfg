SPECIFICATION CoordSpec
CONSTANTS
    Shard = {s1, s2}
    Bucket = {0}
    NoBucket = NoBucket
    Config = {c1}
    NoConfig = NoConfig
    PatchTargets = {}
    VersionModulus = 1
    Axis = "hash"
    RetentionDepth = 1
    MaxFuture = 0
    MaxNow = 0
    Resolver = {r1, r2}
    ResolveOps = {"write"}
    Health = {}
    Sealer = {w1}
    Retainer = {}
    Preregistered = {s1, s2}
    RotatedBuckets = {}
    Silent = {}
SYMMETRY Symmetry
PROPERTIES SealsOnlyFinishedDrains
