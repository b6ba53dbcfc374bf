SPECIFICATION Spec
CONSTANTS
  Keys = {k1, k2, k3}
  Absent = Absent
  Never = Never
  Ttls = {0, 1, 3}
  EndOfTime = 3
  MaxSize = 3
  MaxTime = 2
  MaxOps = 4
INVARIANTS CountedOnce WithinReported
PROPERTIES DeadlineKept
