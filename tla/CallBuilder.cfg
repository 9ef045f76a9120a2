\* One bank of four registers: 1 and 2 carry arguments and return values,
\* 4 is callee-saved; three values; up to three arguments, so the third
\* argument of a call overflows to the stack.
CONSTANTS
  Vals = {1, 2, 3}
  Regs = {1, 2, 3, 4}
  CCRegs <- MCCCRegs
  RetRegs <- MCRetRegs
  CalleeSaved = {4}
  Res = 3
  MaxArgs = 3

SPECIFICATION Spec

INVARIANT ArgsInPlace
INVARIANT ValuesInPlace

\* The call (the return) is built once; its last state is the return of
\* the builder to compile_inst.
CHECK_DEADLOCK FALSE
