SPECIFICATION Spec
CONSTANTS
  Threads = {t1, t2}
  Keys = {k}
  Absent = Absent
  Corrupt = Corrupt
  Ttls = {0, 1}
  MaxTime = 2
  MaxOps = 3
  MaxBoots = 1
INVARIANTS RestartKeepsPromise
PROPERTIES LiveNotDeleted CleaningKeepsValues GetReturnsLive
