CONSTANTS
    k3 = k3
    b1 = b1
    b2 = b2
    Threads = {t1, t2}
    NoThread = NoThread
    Keys = {k1, k3}
    Buckets = {b1, b2}
    bucket_for <- MCbucket_for
    Empty = Empty
    Err = Err
    Ttl = 2
    MaxTime = 3
    MaxCalls = 3
    MaxParts = 3
SPECIFICATION FairSpec
INVARIANT FlagTyped
