SPECIFICATION Spec
CONSTANTS
    Keys = {k1, k2}
    Absent = Absent
    Never = Never
    Ttls = {0, 1}
    EndOfTime = 4
    MaxTime = 1
    MaxOps = 3
INVARIANT NotifiedGone
