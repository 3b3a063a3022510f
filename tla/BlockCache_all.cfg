SPECIFICATION Spec
CONSTANTS
  NumBuff = 3
  InodeBlock = {I1}
  DataBlock = {D1, D2}
  InodeBitmap = IB
  BlockBitmap = BB
  Ops = {"init", "ls", "mkdir", "touch", "find", "cd", "open", "rmdir", "close", "read", "write", "indirect", "stale", "double"}
INVARIANTS HeldBlockLoaded
CHECK_DEADLOCK FALSE
