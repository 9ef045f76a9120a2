\* switch_func on a function whose instruction uses a ConstantStruct whose
\* only fixed-up operand is a ConstantVector of data and undef.
CONSTANTS
  Funcs <- MCFuncsBad
  NumGlobals = 2
  NumArgs = 1
  MaxStale = 1
  PHINodeSortThreshold = 3
  MaxIds = 24
SPECIFICATION Spec
INVARIANT NumberingExact
\* switch_func returns: the final state has no successor.
CHECK_DEADLOCK FALSE
