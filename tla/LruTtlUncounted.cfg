SPECIFICATION Spec
CONSTANTS
  Keys = {k1, k2, k3}
  Absent = Absent
  Never = Never
  Ttls = {1}
  EndOfTime = 3
  MaxSize = 3
  MaxTime = 1
  MaxOps = 5
INVARIANT NeverUncounted
