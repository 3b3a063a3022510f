SPECIFICATION PcbSpec
CONSTANTS
  Item = {p1, p2, p3, p4}
  Queue = {ready, sleep}
  NULL = NULL
INVARIANTS
  Representation
  ScanMovesSelected
PROPERTIES
  FifoSpec
