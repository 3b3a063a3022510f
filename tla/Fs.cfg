SPECIFICATION Spec
CONSTANTS
  NumInode = 4
  INODES_PER_BLOCK = 3
  NumBlock = 4
  NumAddr = 2
  MaxEntry = 4
  Name = {a, b}
  Value = {v1, v2}
  File = {f1, f2}
  OldInode <- OldInodes
SYMMETRY Symmetric
INVARIANTS FsConsistent WritesKept
CHECK_DEADLOCK FALSE
