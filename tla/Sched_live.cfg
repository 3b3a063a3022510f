SPECIFICATION FairSpec
CONSTANTS
  NumMaxTask = 4
  MaxLock = 0
  Lock = {}
  NULL = NULL
  Syscalls = {"spawn", "exit", "kill", "sleep"}
  MaxPid = 3
  MaxSleep = 1
  TimeMod = 3
  TicksPerUnit = 2
INVARIANTS
  QueuesConsistent
PROPERTIES
  ReadyRuns
  ExitedReaped
  SleepersWake
CHECK_DEADLOCK FALSE
