SPECIFICATION BarrierSpec
CONSTANTS
  Task = {t1, t2, t3}
  NumTask = 3
  MaxKilled = 2
  MaxRound = 4
INVARIANTS NoEarlyPass
PROPERTIES Passes
CHECK_DEADLOCK FALSE
