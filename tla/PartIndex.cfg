\* complex_part_for_index over every index list of every type of MCPartIndex.
CONSTANTS
  Types <- MCTypes
  StoreCap = 4
SPECIFICATION Spec
INVARIANT PartForIndexExact
\* The walk stops when it returns.
CHECK_DEADLOCK FALSE
