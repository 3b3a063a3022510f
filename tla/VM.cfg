SPECIFICATION Spec
CONSTANTS
  MaxPid = 3
  MaxLive = 2
  AsidMod = 4
  NumDir = 2
  NumPair = 1
  TlbSize = 2
  MaxFree = 4
INVARIANTS  MemoryExclusive TlbCoherent TlbUnique
PROPERTIES LostOnlyWhenFull
CHECK_DEADLOCK FALSE
