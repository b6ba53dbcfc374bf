CONSTANTS
    Threads = {t1, t2}
    Keys = {k1, k2, k3}
    k1 = k1
    k2 = k2
    k3 = k3
    Shards = 2
    Hashers <- CopyHashers
    StoreKinds = {"Unbound", "Ttl", "Expiring", "Lru", "LruTtl", "ExpiringLru"}
    Absent = Absent
    Ttls = {1}
    Never = Never
    Deadlines = {1, Never}
    MinPerShard = 1
    MaxSize = 3
    MaxTime = 1
    MaxOps = 5
SPECIFICATION CopySpec
SYMMETRY Symmetry
VIEW CopyView
PROPERTIES
    CopyKeepsRecent
