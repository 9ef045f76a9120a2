\* Register allocation over the functions of MCRegAlloc: four registers,
\* two of them candidates for a fixed assignment, one fixed assignment
\* allowed (three registers are left for two operands and a result).
CONSTANTS
  Vals = {1, 2, 3, 4, 5, 6, 7}
  Regs = {1, 2, 3, 4}
  FixedCand = {3, 4}
  NUM_FIXED = 1
  Slots = {1, 2, 3, 4, 5, 6, 7}
  Programs <- MCPrograms

SPECIFICATION Spec

INVARIANT RegFileConsistent
INVARIANT ValuesInPlace
INVARIANT OperandsIntact
INVARIANT ValueNotLost
INVARIANT BackEdgesSafe
INVARIANT FixedCountBalanced
INVARIANT AllFreedAtEnd

PROPERTY CompileTerminates

\* compile_func returns after the last block: the final state is a real stop.
CHECK_DEADLOCK FALSE
