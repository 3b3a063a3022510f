SPECIFICATION Spec
CONSTANTS
  NumMaxTask = 4
  MaxLock = 1
  Lock = {l1}
  NULL = NULL
  Syscalls = {"spawn", "exit", "kill", "yield", "waitpid", "lock_init", "lock_acquire", "lock_release"}
  MaxPid = 4
  MaxSleep = 0
  TimeMod = 1
  TicksPerUnit = 1
INVARIANTS
  QueuesConsistent
  OneRunner
  StackPerProcess
  PidsUnique
  WaitersHaveTarget
  ShellKeepsReady
  NoWaiterOnFreeLock
  ExclusionUntilTainted
PROPERTIES
  NoBarging
CHECK_DEADLOCK FALSE
