SPECIFICATION Spec
CONSTANTS
  None = None
  q1 = q1
  Questions = {q1}
  MaxSockets = 2
  Terminals <- FirstOnly
  Cloud = TRUE
  Broken <- FirstOnly
  Fragile = {q1}
INVARIANTS TypeOK AskedIsVisible
PROPERTIES ImplementsOneAnswer UnaskedOutlivesReconnect EveryQuestionLeaves
CHECK_DEADLOCK FALSE
