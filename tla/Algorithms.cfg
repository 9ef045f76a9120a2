\* Incoming entries of one PHI: up to five entries over three predecessor
\* blocks (multi-edges included), sorted from three entries on.
CONSTANTS
  Blocks = {1, 2, 3}
  Vals = {10, 11}
  MaxIncoming = 5
  PHINodeSortThreshold = 3
  W = 4
  NarrowW = 2
  IntW = 4
SPECIFICATION AlgSpec
INVARIANT SortMatchesReference
INVARIANT LookupCorrect
INVARIANT WideShiftsMatch
INVARIANT FunnelShiftsMatch
INVARIANT SaturatingMatch
PROPERTY SortTerminates
\* switch_func moves on once the PHI is sorted: the final state has no successor.
CHECK_DEADLOCK FALSE
