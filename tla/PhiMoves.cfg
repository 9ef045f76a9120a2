\* PHI resolution on one edge: up to five PHIs of the target block and one
\* incoming value from outside it, every assignment of incoming values.
CONSTANTS
  MaxPhi = 5
  NOther = 1
SPECIFICATION Spec
INVARIANT PhiMovesCorrect
INVARIANT CycleBreakSafe
INVARIANT OneTempPerCycle
PROPERTY Terminates
\* The procedure returns: its final state has no successor.
CHECK_DEADLOCK FALSE
