SPECIFICATION Spec
CONSTANTS
  MaxTokens = 2
  MaxAttempts = 2
  MaxFaults = 1
INVARIANTS TypeOK RowToldFirst
PROPERTIES DestructionWins OnlyUnclaimedSpritesGo EveryCreationSettles NothingIsLeft
CHECK_DEADLOCK FALSE
