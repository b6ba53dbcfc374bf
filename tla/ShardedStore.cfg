CONSTANTS
    Threads = {t1, t2}
    Keys = {k1, k2}
    k1 = k1
    k2 = k2
    k3 = k3
    Deadlines = {}
    Shards = 2
    Hashers <- MCHashers
    StoreKinds = {"Unbound", "Ttl", "Expiring", "Lru", "LruTtl", "ExpiringLru"}
    Absent = Absent
    Ttls = {0, 1}
    Never = Never
    MinPerShard = 1
    MaxSize = 3
    MaxTime = 1
    MaxOps = 3
SPECIFICATION Spec
SYMMETRY Symmetry
VIEW View
INVARIANTS
    Accounted
    ReportedOnce
    ShardWithinCapacity
    CapacityPublished
PROPERTIES
    LiveStays
