SPECIFICATION Spec
CONSTANTS
  t1 = t1
  t2 = t2
  r1 = r1
  r2 = r2
  p1 = p1
  p2 = p2
  Tabs = {t1, t2}
  Requests = {r1, r2}
  Polls = {p1, p2}
  MaxFaults = 1
INVARIANTS TypeOK OneCode PagesTellTruth
PROPERTIES SignInEnds
CHECK_DEADLOCK FALSE
