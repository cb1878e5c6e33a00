SPECIFICATION Spec
CONSTANTS
  r = r
  w = w
  p = p
  Root = r
  Workspaces = {w}
  Requests = {p}
  Scopes = {"project", "location"}
  MaxDeaths = 1
  MaxFaults = 0
PROPERTIES EveryRemovalEnds
CHECK_DEADLOCK FALSE
