SPECIFICATION Spec
CONSTANTS
  c1 = c1
  None = None
  Callers = {c1}
  ToolCalls = {c1}
  p1 = p1
  Processes = {p1}
  MaxSockets = 2
  ListOrder <- OldestFirst
  Cloud = FALSE
  Fragile = {c1}
  Outdated = {2}
  Broken = {}
PROPERTIES EveryCallLeaves CancelledCallStops
CHECK_DEADLOCK FALSE
