SPECIFICATION Spec
CONSTANTS
  Proc = {p1, p2, p3}
  Name = {A}
  NumBox = 1
  NamesHaveHash = 0
  Hash <- MCHash
  MaxLength = 3
  Byte = {0, 1}
  Lengths = {1, 2}
  MaxKills = 1
  NoName = NoName
SYMMETRY ProcSymmetry
INVARIANTS NoLostWakeup NoStandoff OpenMailboxIsCounted
PROPERTIES StreamsSpec
CHECK_DEADLOCK FALSE
