\* Two non-fixed GP registers for up to three wrappers and two GP values:
\* every wrapper may have to borrow, and a bank switch resets the scratch.
CONSTANTS
  RegBank <- MCRegBank
  ValBank <- MCValBank
  FixedVals = {1}
  MaxOps = 5
SPECIFICATION Spec
INVARIANT RegistersHoldValues
INVARIANT MovesReadValues
INVARIANT RestoredAtEnd
\* The procedure returns after the destructors.
CHECK_DEADLOCK FALSE
