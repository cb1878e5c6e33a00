SPECIFICATION Spec
CONSTANTS
  c1 = c1
  f1 = f1
  f2 = f2
  j1 = j1
  j2 = j2
  Calls = {c1}
  Flushes = {f1, f2}
  Jobs = {j1, j2}
  MaxFaults = 3
INVARIANTS TypeOK NothingRunsUnrecorded ErasedForGood
PROPERTIES ActivityTellsAll ErasureEnds
CHECK_DEADLOCK FALSE
