SPECIFICATION FairSpec
CONSTANTS
  NUM_DMA_DESC = 3
  Num = 2
  MaxCalls = 2
INVARIANTS PrintedInOrder
PROPERTIES Progress
CHECK_DEADLOCK FALSE
