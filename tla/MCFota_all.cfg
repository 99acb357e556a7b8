SPECIFICATION FairSpec
CONSTANTS
  SizeOf <- Changing
  Space = 2
  Attempts = 10
  MaxCalls = 2
  MaxBoots = 2
INVARIANTS TypeOK ChunksInPlace FlashGivenBack
PROPERTIES UpdateEnds
CHECK_DEADLOCK FALSE
