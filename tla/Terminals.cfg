SPECIFICATION Spec
CONSTANTS
  v1 = v1
  v2 = v2
  Viewers = {v1, v2}
  MaxOut = 3
  MaxShells = 2
  MaxConns = 2
  MaxReplay = 2
  MaxEvents = 1
INVARIANTS TypeOK OutputUnbroken ListedIsAlive
SYMMETRY Symmetry
CHECK_DEADLOCK FALSE
