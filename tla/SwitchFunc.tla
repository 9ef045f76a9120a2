----------------------------- MODULE SwitchFunc -----------------------------
(***************************************************************************)
(* The prepass of the LLVM adaptor, LLVMAdaptor::switch_func               *)
(* (tpde-llvm/src/LLVMAdaptor.cpp 69-412).  It numbers the values of a     *)
(* function (globals once per module, then the arguments, then the         *)
(* instructions in block order) and removes constant expressions and       *)
(* constant aggregates from operands: fixup_constant turns each into       *)
(* instructions inserted before the user (for a PHI: before the            *)
(* predecessor's terminator, or before a compare right ahead of it), and   *)
(* the instruction loop restarts at the first inserted instruction so that *)
(* the new instructions are numbered and fixed up in turn.                 *)
(*                                                                         *)
(* A constant is a record [k, ops, id]: k is "data" (ConstantData other    *)
(* than undef), "undef", "global", "expr" (ConstantExpr), "vec"            *)
(* (ConstantVector) or "agg" (other ConstantAggregate); ops are its        *)
(* operands.  An operand that is an instruction is [k |-> "ref", id].      *)
(* An instruction is [id, kind, ops, from]; from lists a PHI's incoming    *)
(* blocks; ty is its type, which the loop lowers (TypeLayout) when it     *)
(* numbers the instruction.  Names and the thread-local rewrite of a       *)
(* global's uses are left out; a global whose uses cannot be rewritten is  *)
(* BadTLS.  The types of the instructions fixup_constant inserts are left  *)
(* out: they get a basic type, which lower_type does not cache.            *)
(***************************************************************************)
EXTENDS Integers, Sequences, SequencesExt, TypeLayout

CONSTANTS
  Funcs,                \* the functions switch_func may be given (block sequences)
  NumGlobals,           \* globals, aliases and functions of the module
  NumArgs,              \* arguments of the function
  MaxStale,             \* bound: values left from the previous function
  PHINodeSortThreshold, \* LLVMAdaptor::PHINodeSortThreshold, scaled down
  MaxIds                \* bound: instructions, inserted ones included

NONE == -1
Ref(i) == [k |-> "ref", ops |-> <<>>, id |-> i]
Zero == [k |-> "data", ops |-> <<>>, id |-> NONE]
Poison == [k |-> "undef", ops |-> <<>>, id |-> NONE]
Fixable == {"expr", "vec", "agg"}
NoVal == [k |-> "none", ops |-> <<>>, id |-> NONE]  \* a null llvm::Value *

VARIABLES
  code,        \* the blocks of the function, each a sequence of instructions
  code0,       \* the blocks as given (history, for the properties)
  nid,         \* the id the next inserted instruction gets
  valIdx,      \* val_idx_for_inst: the index numbered in this call, or NONE
  nvals,       \* values.size()
  globalsInit, \* globals_init
  globalEnd,   \* global_idx_end
  unsupported, \* func_unsupported
  dynAlloca,   \* func_has_dynamic_alloca
  slots,       \* initial_stack_slot_indices
  phiLast,     \* BlockAux::phi_end after the PHI loop: the last PHI, or NONE
  phiEnd,      \* BlockAux::phi_end at the end: the instruction after the PHIs
  badTLS,      \* the module has a thread-local global whose uses are not rewritten
  phase,       \* "start", "phis", "insts" or "done"
  b, it,       \* the current block and the position of the iterator in it
  sig,         \* the function's type: [args |-> argument types, ret |-> return type]
  cparts,      \* complex_part_types
  ctmap        \* complex_type_map: type -> [ty, idx]

tyVars == <<sig, cparts, ctmap>>
vars == <<code, code0, nid, valIdx, nvals, globalsInit, globalEnd, unsupported,
          dynAlloca, slots, phiLast, phiEnd, badTLS, phase, b, it, tyVars>>

Blocks == 1 .. Len(code)
PosOf(bl, id) == CHOOSE i \in 1 .. Len(bl) : bl[i].id = id
\* The id after every instruction of the function f.
NextId(f) == 1 + Max(UNION {{f[x][i].id : i \in 1 .. Len(f[x])} : x \in 1 .. Len(f)})
Splice(s, i, t) == SubSeq(s, 1, i - 1) \o t \o SubSeq(s, i, Len(s))
First(begin, x) == IF begin = NONE THEN x ELSE begin  \* if (!ins_begin) ...

-----------------------------------------------------------------------------
(* fixup_constant(cst, ins_before): [repl, begin, ins, nid], with ins the   *)
(* instructions inserted before ins_before, in order, and begin the one    *)
(* returned as the first of them.                                          *)

Res(repl, begin, ins, n) == [repl |-> repl, begin |-> begin, ins |-> ins, nid |-> n]
NewInst(n, ops) == [id |-> n, kind |-> "op", ops |-> ops, from |-> <<>>, ty |-> IntTy(64)]

RECURSIVE FixupConstant(_, _), FixElems(_, _, _), FixAggOps(_, _, _),
          InsertElems(_, _, _, _), InsertValues(_, _, _, _)

\* ConstantVector: undef becomes zero, other data stays, a global or an
\* expression becomes zero in the base and is inserted with insertelement.
FixElems(c, i, a) ==
  IF i > Len(c.ops) THEN a
  ELSE LET e == c.ops[i] IN
       IF e.k \in {"undef", "data"} THEN FixElems(c, i + 1, a)
       ELSE LET r == FixupConstant(e, a.nid) IN
            FixElems(c, i + 1,
              [a EXCEPT !.used = TRUE,
                        !.repls[i] = IF r.repl # NoVal THEN r.repl ELSE e,
                        !.begin = IF r.repl # NoVal THEN First(a.begin, r.begin) ELSE a.begin,
                        !.ins = a.ins \o r.ins, !.nid = r.nid])

\* One insertelement per element, each starting the range if none has.
InsertElems(c, i, a, repl) ==
  IF i > Len(c.ops) THEN Res(repl, a.begin, a.ins, a.nid)
  ELSE LET el == IF a.repls[i] # NoVal THEN a.repls[i] ELSE c.ops[i] IN
       InsertElems(c, i + 1,
         [a EXCEPT !.begin = First(a.begin, a.nid),
                   !.ins = Append(a.ins, NewInst(a.nid, <<repl, el, Zero>>)),
                   !.nid = a.nid + 1], Ref(a.nid))

\* ConstantAggregate: every operand that fixup_constant replaces.
FixAggOps(c, i, a) ==
  IF i > Len(c.ops) THEN a
  ELSE LET r == FixupConstant(c.ops[i], a.nid) IN
       FixAggOps(c, i + 1,
         IF r.repl = NoVal THEN a
         ELSE [a EXCEPT !.used = TRUE, !.repls[i] = r.repl,
                        !.begin = First(a.begin, r.begin),
                        !.ins = a.ins \o r.ins, !.nid = r.nid])

\* One insertvalue per operand; ins_begin is left as it is.
InsertValues(c, i, a, repl) ==
  IF i > Len(c.ops) THEN Res(repl, a.begin, a.ins, a.nid)
  ELSE LET el == IF a.repls[i] # NoVal THEN a.repls[i] ELSE c.ops[i] IN
       InsertValues(c, i + 1,
         [a EXCEPT !.ins = Append(a.ins, NewInst(a.nid, <<repl, el>>)),
                   !.nid = a.nid + 1], Ref(a.nid))

FixupConstant(c, n) ==
  LET a0 == [used |-> FALSE, repls |-> [i \in 1 .. Len(c.ops) |-> NoVal],
             begin |-> NONE, ins |-> <<>>, nid |-> n]
  IN
  CASE c.k = "expr" -> Res(Ref(n), n, <<NewInst(n, c.ops)>>, n + 1)
    [] c.k = "vec" ->
         LET a == FixElems(c, 1, a0) IN
         IF ~a.used THEN Res(Zero, NONE, <<>>, n) ELSE InsertElems(c, 1, a, Zero)
    [] c.k = "agg" ->
         LET a == FixAggOps(c, 1, a0) IN
         IF ~a.used THEN Res(NoVal, NONE, <<>>, n) ELSE InsertValues(c, 1, a, Poison)
    [] OTHER -> Res(NoVal, NONE, <<>>, n)

-----------------------------------------------------------------------------
(* switch_func: the values before the instructions *)

\* A mutant: the values of the previous function are kept.
ArgStartNoResize == nvals

\* values.resize(global_idx_end) once the globals are numbered.
ArgStart == globalEnd

\* A lowering l checked by check_type_compatibility after the lowerings a:
\* [P, M, report], report once a type is reported.  An invalid type would
\* reach TPDE_UNREACHABLE; the signatures modelled have none.
Checked(a, l) == [P |-> l.P, M |-> l.M, report |-> a.report \/ Incompatible(l)]

LowerArg(a, t) == Checked(a, LowerType(t, a.P, a.M))

\* The argument types in order, then the return type.
LowerSig ==
  LowerArg(FoldLeft(LowerArg, [P |-> cparts, M |-> ctmap, report |-> FALSE], sig.args),
           sig.ret)

\* The type caches after the lowering l, and func_unsupported set when l
\* reports or was already set.
SetTypes(l, unsup) ==
  /\ cparts' = l.P
  /\ ctmap' = l.M
  /\ unsupported' = (unsup \/ l.report)

Start ==
  /\ phase = "start"
  /\ IF ~globalsInit
       THEN /\ globalsInit' = TRUE
            /\ globalEnd' = NumGlobals
            /\ nvals' = NumGlobals + NumArgs
       ELSE /\ nvals' = ArgStart + NumArgs
            /\ UNCHANGED <<globalsInit, globalEnd>>
  /\ SetTypes(LowerSig, ~globalsInit /\ badTLS)
  /\ dynAlloca' = FALSE
  /\ slots' = <<>>
  /\ phase' = "phis"
  /\ UNCHANGED <<code, code0, nid, valIdx, phiLast, phiEnd, badTLS, b, it, sig>>

-----------------------------------------------------------------------------
(* The first loop: the PHIs of each block *)

\* The terminator, or a compare right ahead of it (so that it still fuses).
InsBefore(bl) ==
  LET t == Len(bl) IN
  IF t > 1 /\ bl[t - 1].kind = "cmp" THEN t - 1 ELSE t

\* The incoming entries of the PHI at code[x][pos], from the i-th on: a
\* fixed-up value replaces the value of every entry from its block.
RECURSIVE FixIncoming(_, _, _, _)
FixIncoming(s, x, pos, i) ==
  LET phi == s.code[x][pos] IN
  IF i > Len(phi.ops) THEN s
  ELSE LET v == phi.ops[i]
           p == phi.from[i]
           r == FixupConstant(v, s.nid)
       IN IF v.k \notin Fixable \/ r.repl = NoVal THEN FixIncoming(s, x, pos, i + 1)
          ELSE LET c1 == [s.code EXCEPT ![p] = Splice(@, InsBefore(@), r.ins)]
                   c2 == [c1 EXCEPT ![x][pos].ops =
                            [j \in DOMAIN phi.ops |->
                               IF phi.from[j] = p THEN r.repl ELSE phi.ops[j]]]
               IN FixIncoming([code |-> c2, nid |-> r.nid], x, pos, i + 1)

\* sort_phi_entries (heap sort, PhiSort): the entries ordered by block.
SortEntries(phi) ==
  IF Len(phi.from) < PHINodeSortThreshold THEN phi
  ELSE LET ps == [j \in DOMAIN phi.from |-> <<phi.from[j], phi.ops[j]>>]
           ss == SortSeq(ps, LAMBDA u, w : u[1] < w[1])
       IN [phi EXCEPT !.from = [j \in DOMAIN ss |-> ss[j][1]],
                      !.ops = [j \in DOMAIN ss |-> ss[j][2]]]

PhiStep ==
  /\ phase = "phis"
  /\ code[b][it].kind = "phi"
  /\ LET s == FixIncoming([code |-> code, nid |-> nid], b, it, 1) IN
     /\ s.nid <= MaxIds + 1
     /\ code' = [s.code EXCEPT ![b][it] = SortEntries(@)]
     /\ nid' = s.nid
  /\ it' = it + 1
  /\ UNCHANGED <<code0, valIdx, nvals, globalsInit, globalEnd, unsupported, badTLS,
                 dynAlloca, slots, phiLast, phiEnd, phase, b, tyVars>>

\* The last PHI (--it), or block.end() if there is none.
PhiMark(bl, i) == IF i > 1 THEN bl[i - 1].id ELSE NONE

\* blocks.push_back with phi_end, then the next block.
PhiBlockEnd ==
  /\ phase = "phis"
  /\ code[b][it].kind # "phi"
  /\ phiLast' = [phiLast EXCEPT ![b] = PhiMark(code[b], it)]
  /\ IF b < Len(code) THEN b' = b + 1 /\ UNCHANGED phase
                      ELSE b' = 1 /\ phase' = "insts"
  /\ it' = 1
  /\ UNCHANGED <<code, code0, nid, valIdx, nvals, globalsInit, globalEnd, badTLS,
                 unsupported, dynAlloca, slots, phiEnd, tyVars>>

-----------------------------------------------------------------------------
(* The second loop: handle_inst_in_block on each instruction *)

\* A mutant: the use keeps the constant although it was fixed up.
RECURSIVE FixOperandsKeep(_, _)
FixOperandsKeep(a, j) ==
  IF j > Len(a.ops) THEN a
  ELSE LET r == FixupConstant(a.ops[j], a.nid) IN
       FixOperandsKeep(
         IF a.ops[j].k \notin Fixable \/ r.repl = NoVal THEN a
         ELSE [a EXCEPT !.restart = First(a.restart, r.begin),
                        !.ins = a.ins \o r.ins, !.nid = r.nid], j + 1)

\* The operand loop: use = repl, restarting from the first ins_begin.
RECURSIVE FixOperands(_, _)
FixOperands(a, j) ==
  IF j > Len(a.ops) THEN a
  ELSE LET r == FixupConstant(a.ops[j], a.nid) IN
       FixOperands(
         IF a.ops[j].k \notin Fixable \/ r.repl = NoVal THEN a
         ELSE [a EXCEPT !.ops[j] = r.repl, !.restart = First(a.restart, r.begin),
                        !.ins = a.ins \o r.ins, !.nid = r.nid], j + 1)

\* A mutant: the handler does not return the first inserted instruction.
HandleOperandsNoRestart(inst, n) ==
  LET a0 == [ops |-> inst.ops, restart |-> NONE, ins |-> <<>>, nid |-> n] IN
  IF inst.kind = "phi" THEN a0 ELSE [FixOperands(a0, 1) EXCEPT !.restart = NONE]

HandleOperands(inst, n) ==
  LET a0 == [ops |-> inst.ops, restart |-> NONE, ins |-> <<>>, nid |-> n] IN
  IF inst.kind = "phi" THEN a0 ELSE FixOperands(a0, 1)

\* handle_inst_in_block and the loop's step: restart at the instruction it
\* returns, or number the instruction and go on after it.
InstStep ==
  /\ phase = "insts"
  /\ it <= Len(code[b])
  /\ LET inst == code[b][it]
         a    == HandleOperands(inst, nid)
         bl   == SubSeq(code[b], 1, it - 1) \o a.ins \o <<[inst EXCEPT !.ops = a.ops]>>
                   \o SubSeq(code[b], it + 1, Len(code[b]))
     IN /\ a.nid <= MaxIds + 1
        /\ code' = [code EXCEPT ![b] = bl]
        /\ nid' = a.nid
        /\ dynAlloca' = (dynAlloca \/ inst.kind \in {"invoke", "dynalloca"})
        /\ slots' = IF inst.kind = "alloca" THEN Append(slots, inst.id) ELSE slots
        /\ IF a.restart # NONE
             THEN /\ it' = PosOf(bl, a.restart)
                  /\ UNCHANGED <<valIdx, nvals, unsupported, cparts, ctmap>>
             ELSE /\ valIdx' = [valIdx EXCEPT ![inst.id] = nvals]
                  /\ nvals' = nvals + 1
                  /\ SetTypes(LowerType(inst.ty, cparts, ctmap), unsupported)
                  /\ it' = it + Len(a.ins) + 1
  /\ UNCHANGED <<code0, globalsInit, globalEnd, phiLast, phiEnd, badTLS,
                 phase, b, sig>>

\* A mutant: phi_end stays on the last PHI.
PhiEndOfNoInc(bl, last) ==
  IF last = NONE THEN bl[1].id ELSE bl[PosOf(bl, last)].id

\* phi_end moves to the instruction after the last PHI (or to begin()).
PhiEndOf(bl, last) ==
  IF last = NONE THEN bl[1].id ELSE bl[PosOf(bl, last) + 1].id

InstBlockEnd ==
  /\ phase = "insts"
  /\ it > Len(code[b])
  /\ phiEnd' = [phiEnd EXCEPT ![b] = PhiEndOf(code[b], phiLast[b])]
  /\ IF b < Len(code) THEN b' = b + 1 /\ UNCHANGED phase
                      ELSE b' = 1 /\ phase' = "done"
  /\ it' = 1
  /\ UNCHANGED <<code, code0, nid, valIdx, nvals, globalsInit, globalEnd, badTLS,
                 unsupported, dynAlloca, slots, phiLast, tyVars>>

Init ==
  /\ code \in Funcs
  /\ code0 = code
  /\ nid = NextId(code)
  /\ valIdx = [i \in 1 .. MaxIds |-> NONE]
  /\ globalsInit \in BOOLEAN
  /\ globalEnd = IF globalsInit THEN NumGlobals ELSE 0
  /\ nvals \in IF globalsInit THEN NumGlobals .. NumGlobals + MaxStale ELSE {0}
  /\ unsupported = FALSE
  /\ badTLS \in BOOLEAN
  /\ dynAlloca = FALSE
  /\ slots = <<>>
  /\ phiLast = [x \in Blocks |-> NONE]
  /\ phiEnd = [x \in Blocks |-> NONE]
  /\ phase = "start"
  /\ b = 1
  /\ it = 1
  /\ sig = [args |-> [i \in 1 .. NumArgs |-> IntTy(64)], ret |-> Void]
  /\ cparts = <<>>
  /\ ctmap = <<>>

Next == Start \/ PhiStep \/ PhiBlockEnd \/ InstStep \/ InstBlockEnd

Spec == Init /\ [][Next]_vars

-----------------------------------------------------------------------------
(* Properties *)

\* All instructions of the function in block layout order.
Insts == FlattenSeq(code)

(***************************************************************************)
(* When switch_func returns, every instruction of the function, the ones   *)
(* fixup_constant inserted included, has been numbered exactly once, and   *)
(* the numbers run consecutively in layout order right after the globals   *)
(* and the arguments (values.size() counts them all).  inst_lookup_idx     *)
(* reads the number of every instruction the compiler meets, and the       *)
(* restart after a fixup is what makes the inserted ones numbered.         *)
(***************************************************************************)
NumberingExact ==
  phase = "done" =>
    /\ nvals = globalEnd + NumArgs + Len(Insts)
    /\ \A i \in 1 .. Len(Insts) : valIdx[Insts[i].id] = globalEnd + NumArgs + i - 1

\* The constant contains a ConstantExpr or ConstantVector at some depth.
RECURSIVE HasExpr(_)
HasExpr(c) ==
  \/ c.k \in {"expr", "vec"}
  \/ c.k = "agg" /\ \E j \in 1 .. Len(c.ops) : HasExpr(c.ops[j])

(***************************************************************************)
(* No operand of any instruction, PHIs and inserted instructions included, *)
(* still holds a constant expression or a constant vector at any depth:    *)
(* the nested ones that getAsInstruction copies into a new instruction are *)
(* expanded when the loop restarts there.                                  *)
(***************************************************************************)
ConstantsExpanded ==
  phase = "done" =>
    \A i \in 1 .. Len(Insts) : \A j \in 1 .. Len(Insts[i].ops) : ~HasExpr(Insts[i].ops[j])

(***************************************************************************)
(* Each block's PHI range begin()..phi_end holds exactly its PHIs, also    *)
(* when a PHI of this or another block had instructions inserted right     *)
(* after the last PHI (a self-loop whose terminator follows the PHIs).     *)
(***************************************************************************)
PhiRangeExact ==
  phase = "done" =>
    \A x \in Blocks :
      \A i \in 1 .. Len(code[x]) :
        (i < PosOf(code[x], phiEnd[x])) <=> (code[x][i].kind = "phi")

\* The work a constant leaves to the instruction loop: more than the
\* instructions fixup_constant makes of it, with their operands' work.
RECURSIVE Work(_)
Work(c) ==
  IF ~HasExpr(c) THEN 0
  ELSE (IF c.k = "expr" THEN 2 ELSE 1 + Len(c.ops))
         + FoldSeq(LAMBDA o, acc : Work(o) + acc, 0, c.ops)

\* The instructions of the current block from the iterator on, with the
\* work of their operands.
Pending ==
  FoldSeq(LAMBDA inst, acc : 1 + FoldSeq(LAMBDA o, w : Work(o) + w, 0, inst.ops) + acc,
          0, SubSeq(code[b], it, Len(code[b])))

(***************************************************************************)
(* Every turn of the instruction loop, a restart at the first inserted     *)
(* instruction included, leaves less work in the block than before: the    *)
(* instructions fixup_constant inserts carry less work than the constants  *)
(* they replace, so the restarts of handle_inst_in_block come to an end.   *)
(***************************************************************************)
RestartsTerminate ==
  [][phase = "insts" /\ phase' = "insts" /\ b' = b => Pending' < Pending]_vars

====
