\* Branch ranges scaled to 64 (test) and 128 (cond) bytes.  The first
\* reservation (96 bytes, 8 * num_insts + 0x40 in the code) is larger than
\* the test range, as it is for any function of more than about 4000
\* instructions against TBZ's 32 KiB.
CONSTANTS
  Labels = {a, b}
  TestBits = 5
  CondBits = 6
  Expected = 96
  Start = 0
  Slack = 0
  MaxGrowth = 48
  MaxText = 120
  Chunks = {12}
  MaxFixups = 2
SPECIFICATION Spec

INVARIANT CondBranchesInRange
CHECK_DEADLOCK FALSE
