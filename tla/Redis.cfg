CONSTANTS
    Conns = {c1, c2}
    AsyncConns = {c2}
    Settings <- MCSettings
    Caches <- MCCaches
    Keys <- MCKeys
    Ttls = {0, 1}
    PerMilli = 2
    MaxMillis = 1
    MaxTime = 1
    MaxOps = 2
    MaxForeign = 1
    Nothing = Nothing
    Never = Never
SPECIFICATION Spec
PROPERTIES
    HealKeepsValid
    CachesApart
    ClearedGone
