SPECIFICATION SafetySpec
CONSTANTS
  c1 = c1
  None = None
  Callers = {c1}
  ToolCalls = {c1}
  p1 = p1
  p2 = p2
  Processes = {p1, p2}
  MaxSockets = 2
  ListOrder <- OldestFirst
  Cloud = FALSE
  Fragile = {c1}
  Outdated = {2}
  Broken = {1}
SYMMETRY ProcessSymmetry
INVARIANTS TypeOK OneRoutableExecutor LogShowsWhatRuns CancelReachesMachine
CHECK_DEADLOCK FALSE
