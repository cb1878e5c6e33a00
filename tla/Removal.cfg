SPECIFICATION Spec
CONSTANTS
  r = r
  w = w
  p = p
  Root = r
  Workspaces = {w}
  Requests = {p}
  Scopes = {"project", "location"}
  MaxDeaths = 1
  MaxFaults = 2
INVARIANTS TypeOK
PROPERTIES NoStandingRowTaken RemovalOfMachinesEnds
CHECK_DEADLOCK FALSE
