----------------------------- MODULE CallBuilder -----------------------------
(***************************************************************************)
(* Building a call or a return (CompilerBase.hpp 471-695): the arguments   *)
(* (return values) are moved, one add_arg (RetBuilder::add) at a time,     *)
(* into the registers the calling convention assigns, each such register   *)
(* is masked out of register_file.allocatable until call() (ret())         *)
(* restores it, and call() evicts every used caller-saved register before  *)
(* the callee clobbers it.  One register bank, single-part values.  The    *)
(* values live at the call site are in registers (modified or already     *)
(* spilled) or only in their spill slot.                                   *)
(***************************************************************************)
EXTENDS Integers, Sequences, FiniteSets

CONSTANTS
  Vals,         \* values of the caller (operands of the call, others live)
  Regs,         \* the bank's registers, all in allocatable_regs
  CCRegs,       \* argument registers in the order assign_arg hands them out
  RetRegs,      \* return registers in the order assign_ret hands them out
  CalleeSaved,  \* CCInfo::callee_saved_regs
  Res,          \* the value a call defines (dead before the call)
  MaxArgs       \* bound: arguments of one call

NONE == 0
STACK == -1        \* cca.reg invalid: the part is passed on the stack
CLOBBERED == -2    \* a register's content after the callee ran

VARIABLES
  mode,      \* "call" (CallBuilder) or "ret" (RetBuilder)
  args,      \* the CallArgs: <<[val, ext, kind]>>, kind "reg" or "stack"
  res,       \* the call's result value (NONE for none)
  va,        \* value assignments: [live, rv, reg, sv, refs]
  rf,        \* register file: [used, owner]
  alloc,     \* register_file.allocatable
  argRegs,   \* CallBuilderBase::arg_regs / RetBuilder::ret_regs
  nreg,      \* registers the assigner has handed out
  k,         \* next argument to add
  argLoc,    \* where each added argument went: a register or STACK
  mreg,      \* what the generated code holds in each register
  pc         \* "args", "called", "done", "fatal"

vars == <<mode, args, res, va, rf, alloc, argRegs, nreg, k, argLoc,
          mreg, pc>>

Dead == [live |-> FALSE, rv |-> FALSE, reg |-> NONE, sv |-> FALSE, refs |-> 0]
FreeReg == [used |-> FALSE, owner |-> NONE]
Uses(A, v) == Cardinality({i \in DOMAIN A : A[i].val = v})

\* The registers the assigner gives this builder, in order.
Order == IF mode = "call" THEN CCRegs ELSE RetRegs

-----------------------------------------------------------------------------
(* Register file and value helpers *)

\* evict_reg(r): spill the owner (a no-op when stack-valid), drop the register.
EvictVa(a, r) ==
  [v \in Vals |-> IF a[v].live /\ a[v].rv /\ a[v].reg = r
                    THEN [a[v] EXCEPT !.rv = FALSE, !.reg = NONE, !.sv = TRUE]
                    ELSE a[v]]

\* The ValueRef destructor at the end of add_arg: one reference fewer, and
\* free_assignment (unmark the register) at zero.
ReleaseVa(a, v) ==
  IF a[v].refs = 1 THEN [a EXCEPT ![v] = Dead] ELSE [a EXCEPT ![v].refs = @ - 1]
ReleaseRf(f, a, v) ==
  IF a[v].refs = 1 /\ a[v].rv THEN [f EXCEPT ![a[v].reg] = FreeReg] ELSE f

\* ValuePartRef::can_salvage: the last use of a value that owns a register.
CanSalvage(a, v) == a[v].refs = 1 /\ a[v].rv

\* A mutant: the scratch register is taken from every free register.
TempFreeAnyReg == {r \in Regs : ~rf[r].used}

\* find_first_free_excluding: only allocatable registers are handed out.
TempFree == {r \in alloc : ~rf[r].used}

\* select_reg_evict: any used register but the operand's own (locked) one;
\* the score (checked in RegAlloc) picks one of them.
TempEvict(v) == {r \in Regs : rf[r].used /\ ~(va[v].rv /\ va[v].reg = r)}

-----------------------------------------------------------------------------
(* add_arg / RetBuilder::add for a part passed in register r *)

\* ValuePart::salvage: the assignment gives up its register to the part,
\* whose reset frees it; no store.
Salvaged(a, v) == [a EXCEPT ![v].rv = FALSE, ![v].reg = NONE]

\* A mutant: free_reg instead of evict_reg on the operand's own register.
EvictOwnNoSpill(a, r) ==
  [v \in Vals |-> IF a[v].live /\ a[v].rv /\ a[v].reg = r
                    THEN [a[v] EXCEPT !.rv = FALSE, !.reg = NONE] ELSE a[v]]

\* vp.is_in_reg(cca.reg) and the part cannot be salvaged: evict_reg.
EvictOwn(a, r) == EvictVa(a, r)

(***************************************************************************)
(* The register case of add_arg: if the operand is already in r, evict it  *)
(* (or salvage it); otherwise evict whatever holds r and salvage-and-move  *)
(* or reload the operand into r.  Then the part is reset, r is asserted    *)
(* free, masked out of allocatable and recorded in arg_regs, and the       *)
(* ValueRef destructor drops the operand's reference.                      *)
(***************************************************************************)
AddArgReg ==
  LET v    == args[k].val
      r    == Order[nreg + 1]
      salv == CanSalvage(va, v)
      a1   == CASE salv                          -> EvictVa(Salvaged(va, v), r)
                [] va[v].rv /\ va[v].reg = r     -> EvictOwn(va, r)
                [] OTHER                         -> EvictVa(va, r)
      f1   == [rf EXCEPT ![r] = FreeReg,
                         ![IF salv THEN va[v].reg ELSE r] = FreeReg]
  IN
  /\ pc = "args" /\ k <= Len(args) /\ nreg < Len(Order)
  /\ args[k].kind = "reg"
  /\ mreg' = [mreg EXCEPT ![r] = v]
  /\ va' = ReleaseVa(a1, v)
  /\ rf' = ReleaseRf(f1, a1, v)
  /\ alloc' = alloc \ {r}
  /\ argRegs' = argRegs \cup {r}
  /\ nreg' = nreg + 1
  /\ argLoc' = [argLoc EXCEPT ![k] = r]
  /\ k' = k + 1
  /\ UNCHANGED <<mode, args, res, pc>>

(***************************************************************************)
(* The stack case of add_arg (no register left, or a byval or consecutive  *)
(* part the assigner puts on the stack): an extended part, or one not in a *)
(* register, goes through a scratch register from select_reg, which may    *)
(* evict; the store to the argument area; the resets; the reference drop.  *)
(***************************************************************************)
AddArgStack ==
  LET v     == args[k].val
      temp  == args[k].ext \/ ~va[v].rv
      Temps == IF TempFree # {}
                 THEN {CHOOSE t \in TempFree : \A q \in TempFree : t <= q}
                 ELSE TempEvict(v)
  IN
  /\ pc = "args" /\ k <= Len(args) /\ mode = "call"
  /\ args[k].kind = "stack" \/ nreg = Len(Order)
  /\ \/ /\ ~temp
        /\ va' = ReleaseVa(va, v)
        /\ rf' = ReleaseRf(rf, va, v)
        /\ UNCHANGED <<mreg, pc>>
     \/ /\ temp /\ Temps # {}
        /\ \E t \in Temps :
             LET a1 == EvictVa(va, t) IN
             /\ mreg' = [mreg EXCEPT ![t] = v]
             /\ va' = ReleaseVa(a1, v)
             /\ rf' = ReleaseRf([rf EXCEPT ![t] = FreeReg], a1, v)
        /\ UNCHANGED pc
     \/ /\ temp /\ Temps = {}
        /\ pc' = "fatal"   \* TPDE_FATAL: out of registers
        /\ UNCHANGED <<va, rf, mreg>>
  /\ argLoc' = [argLoc EXCEPT ![k] = STACK]
  /\ k' = k + 1
  /\ UNCHANGED <<mode, args, res, alloc, argRegs, nreg>>

-----------------------------------------------------------------------------
(* call, add_ret, RetBuilder::ret *)

\* used & clobbered & ~skip_evict, with skip_evict = arg_regs.
CallEvict == {r \in Regs : rf[r].used /\ r \notin CalleeSaved /\ r \notin argRegs}

EvictAllVa(a, E) ==
  [v \in Vals |-> IF a[v].live /\ a[v].rv /\ a[v].reg \in E
                    THEN [a[v] EXCEPT !.rv = FALSE, !.reg = NONE, !.sv = TRUE]
                    ELSE a[v]]

\* allocatable |= arg_regs.
Restore(A) == alloc \cup A

(***************************************************************************)
(* call(target): evict the used caller-saved registers, call_impl (the     *)
(* callee clobbers every caller-saved register and leaves its result in    *)
(* the first return register), then restore allocatable.                   *)
(***************************************************************************)
Call ==
  LET E == CallEvict IN
  /\ pc = "args" /\ k > Len(args) /\ mode = "call"
  /\ va' = EvictAllVa(va, E)
  /\ rf' = [r \in Regs |-> IF r \in E THEN FreeReg ELSE rf[r]]
  /\ mreg' = [r \in Regs |-> CASE r \in CalleeSaved -> mreg[r]
                               [] r = RetRegs[1] /\ res # NONE -> res
                               [] OTHER -> CLOBBERED]
  /\ alloc' = Restore(argRegs)
  /\ pc' = IF res = NONE THEN "done" ELSE "called"
  /\ UNCHANGED <<mode, args, res, argRegs, nreg, k, argLoc>>

\* add_ret(vr): set_value_reg binds the result to the return register.
AddRet ==
  LET r == RetRegs[1] IN
  /\ pc = "called"
  /\ va' = [va EXCEPT ![res] = [live |-> TRUE, rv |-> TRUE, reg |-> r,
                                sv |-> FALSE, refs |-> 1]]
  /\ rf' = [rf EXCEPT ![r] = [used |-> TRUE, owner |-> res]]
  /\ pc' = "done"
  /\ UNCHANGED <<mode, args, res, alloc, argRegs, nreg, k, argLoc, mreg>>

(***************************************************************************)
(* RetBuilder::ret: restore allocatable, the epilogue, and                 *)
(* release_regs_after_return, which free_regs every used register.         *)
(***************************************************************************)
Ret ==
  /\ pc = "args" /\ k > Len(args) /\ mode = "ret"
  /\ alloc' = Restore(argRegs)
  /\ va' = [v \in Vals |-> IF va[v].rv THEN [va[v] EXCEPT !.rv = FALSE, !.reg = NONE]
                                       ELSE va[v]]
  /\ rf' = [r \in Regs |-> FreeReg]
  /\ pc' = "done"
  /\ UNCHANGED <<mode, args, res, argRegs, nreg, k, argLoc, mreg>>

-----------------------------------------------------------------------------
(* The call site *)

\* A CallArg of one part: a value, integer extension, and whether the
\* assigner puts it on the stack even while registers are left (byval, or a
\* consecutive group that does not fit).
ArgVals == Vals \ {Res}
ArgChoice == {[val |-> v, ext |-> e, kind |-> "stack"] : v \in ArgVals, e \in BOOLEAN}
             \cup {[val |-> v, ext |-> FALSE, kind |-> "reg"] : v \in ArgVals}

\* What compile_inst can hold at a call: each value in at most one register
\* (modified or already spilled) or only in its slot; references are the
\* uses by this call plus possibly a later one.  A return is the last use
\* in its block, and a value live on elsewhere was spilled at its
\* definition's block end, so it is stack-valid.
Placement(A, m) ==
  { a \in
      { [v \in Vals |-> IF v = Res \/ Uses(A, v) + extra[v] = 0 THEN Dead
                        ELSE [live |-> TRUE, rv |-> loc[v] # NONE, reg |-> loc[v],
                              sv |-> sv[v], refs |-> Uses(A, v) + extra[v]]] :
          loc \in [ArgVals -> Regs \cup {NONE}], sv \in [ArgVals -> BOOLEAN],
          extra \in [ArgVals -> {0, 1}] } :
      \A v \in Vals :
        /\ a[v].live => a[v].rv \/ a[v].sv
        /\ m = "ret" /\ a[v].refs > Uses(A, v) => a[v].sv
        /\ \A w \in Vals : w # v /\ a[v].rv /\ a[w].rv => a[v].reg # a[w].reg }

Init ==
  /\ mode \in {"call", "ret"}
  /\ args \in UNION {[1 .. n -> ArgChoice] : n \in 1 .. MaxArgs}
  /\ mode = "ret" => Len(args) <= Len(RetRegs) /\ \A i \in DOMAIN args : args[i].kind = "reg"
  /\ va \in Placement(args, mode)
  /\ res \in IF mode = "call" THEN {NONE, Res} ELSE {NONE}
  /\ rf = [r \in Regs |-> IF \E v \in Vals : va[v].rv /\ va[v].reg = r
                            THEN [used |-> TRUE, owner |-> CHOOSE v \in Vals : va[v].rv /\ va[v].reg = r]
                            ELSE FreeReg]
  /\ alloc = Regs
  /\ argRegs = {}
  /\ nreg = 0
  /\ k = 1
  /\ argLoc = [i \in DOMAIN args |-> NONE]
  /\ mreg = [r \in Regs |-> rf[r].owner]
  /\ pc = "args"

Next == AddArgReg \/ AddArgStack \/ Call \/ AddRet \/ Ret

Spec == Init /\ [][Next]_vars /\ WF_vars(Next)

-----------------------------------------------------------------------------
(* Properties *)

TypeOK ==
  /\ pc \in {"args", "called", "done", "fatal"}
  /\ alloc \subseteq Regs /\ argRegs \subseteq Regs
  /\ k \in 1 .. Len(args) + 1 /\ nreg \in 0 .. Len(Order)
  /\ mreg \in [Regs -> Vals \cup {NONE, CLOBBERED}]

(***************************************************************************)
(* When the call (the epilogue) is reached, every argument added so far is *)
(* still where add_arg put it: an argument register holds the argument,    *)
(* whatever the scratch registers and evictions of the later arguments     *)
(* did; this is what masking arg_regs out of allocatable is for.           *)
(***************************************************************************)
ArgsInPlace ==
  pc = "args" =>
    \A i \in 1 .. k - 1 :
      argLoc[i] = STACK \/ mreg[argLoc[i]] = args[i].val

(***************************************************************************)
(* Every live value is where the compiler believes it: a register-valid    *)
(* value is in its register (across the callee's clobbers, so call()       *)
(* evicted every caller-saved register) and a value not in a register has  *)
(* been spilled (no evict or free_reg dropped its only copy).              *)
(***************************************************************************)
ValuesInPlace ==
  \A v \in Vals : va[v].live =>
    /\ va[v].rv => mreg[va[v].reg] = v /\ rf[va[v].reg].owner = v
    /\ va[v].rv \/ va[v].sv
=============================================================================
