\* Three labels of one function and a text section of 16 bytes: up to four
\* references, so chains of several entries, entries recycled by a second
\* and a third label, and labels placed at the same offset.
CONSTANTS
  Labels = {l1, l2, l3}
  MaxOff = 16

SPECIFICATION Spec
SYMMETRY LabelSymmetry

INVARIANT FixupsResolved
INVARIANT ChainsExact

\* Compilation of the function stops once the text is full.
CHECK_DEADLOCK FALSE
