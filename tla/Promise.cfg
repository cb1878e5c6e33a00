SPECIFICATION SafetySpec
CONSTANTS
  c1 = c1
  c2 = c2
  None = None
  Callers = {c1, c2}
  ToolCalls = {c1}
  p1 = p1
  Processes = {p1}
  MaxSockets = 1
  ListOrder <- OldestFirst
  Cloud = TRUE
  Fragile = {c2}
  Outdated = {}
  Broken = {}
PROPERTIES ImplementsPromise WaitingOutlivesReconnect
CHECK_DEADLOCK FALSE
