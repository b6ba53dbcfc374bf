SPECIFICATION Spec
CONSTANTS
    Keys = {k1, k2}
    Absent = Absent
    Never = Never
    Ttls = {0, 1, 3}
    EndOfTime = 4
    MaxTime = 2
    MaxOps = 4
INVARIANTS Accounted ReportedOnce
PROPERTIES FullLifetime
