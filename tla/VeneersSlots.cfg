\* The same bounds: a branch right after an exhausted island.
CONSTANTS
  Labels = {a, b}
  TestBits = 5
  CondBits = 6
  Expected = 16
  Start = 0
  Slack = 0
  MaxGrowth = 48
  MaxText = 120
  Chunks = {12}
  MaxFixups = 2
SPECIFICATION Spec

INVARIANT FixupAssertsHold
CHECK_DEADLOCK FALSE
