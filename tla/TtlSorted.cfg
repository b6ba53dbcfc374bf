SPECIFICATION Spec
CONSTANTS
  Keys = {1, 2, 3}
  Absent = Absent
  Never = Never
  NoLimit = NoLimit
  NoStamp = NoStamp
  Ttls = {0, 1, 2}
  MaxSize = 2
  MaxTime = 2
  MaxOps = 4
INVARIANTS Lockstep EvictionsExact ProtectedStays WithinLimit
PROPERTIES DropsSoonest
