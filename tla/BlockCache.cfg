SPECIFICATION Spec
CONSTANTS
  NumBuff = 3
  InodeBlock = {I1}
  DataBlock = {D1, D2}
  InodeBitmap = IB
  BlockBitmap = BB
  Ops = {"init", "ls", "close", "read", "write", "indirect"}
INVARIANTS CacheCoherent UnmountDurable HeldBlockLoaded
