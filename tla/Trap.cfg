SPECIFICATION Spec
CONSTANTS
  Task = {1, 2}
  Reg = {0, 1}
  MaxPc = 3
  Calls = {"sys_getpid", "sys_yield", "mbox_recv", "sys_spawn", "sys_exit", "sys_kill"}
  CountMod = 4
  MaxInterval = 3
  MaxCycles = 6
INVARIANTS ContextIntact SavedContextIntact TimeLag
PROPERTIES TimeMonotonic
CHECK_DEADLOCK FALSE
