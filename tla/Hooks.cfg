SPECIFICATION Spec
CONSTANTS
  c1 = c1
  Commands = {c1}
  MaxEvents = 2
INVARIANTS TypeOK OneRunPerCause
PROPERTIES GateHolds HooksCatchUp
CHECK_DEADLOCK FALSE
