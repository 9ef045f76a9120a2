------------------------------- MODULE Driver -------------------------------
(***************************************************************************)
(* The compile driver of CompilerBase (tpde/include/tpde/CompilerBase.hpp: *)
(* compile 697-755, reset 757-768, compile_func 1905-2014, compile_block   *)
(* 2016-2066) over the LLVM adaptor's switch_func, which it instantiates.  *)
(* A module is compiled by compile(): every function that is not extern    *)
(* goes through compile_func, which runs the adaptor's prepass, then the   *)
(* prolog with the static allocas as variable references, then the blocks  *)
(* in layout order; a failing prepass or block makes compile() return      *)
(* false and the next function is compiled.  reset() makes the compiler    *)
(* ready for the next module.                                              *)
(*                                                                         *)
(* Register allocation is abstracted to the set of values that hold a      *)
(* ValueAssignment (value_ptrs): the variable references of the static     *)
(* allocas, and values live out of a block; RegAlloc shows that the last   *)
(* block leaves only the variable references.  Symbols, labels and the     *)
(* text writer are left out.  The LLVM types lowered by switch_func stay   *)
(* in complex_part_types and complex_type_map until reset().               *)
(***************************************************************************)
EXTENDS Integers, Sequences, SequencesExt

CONSTANTS
  Funcs, NumGlobals, NumArgs, MaxStale, PHINodeSortThreshold, MaxIds,
  Modules   \* the module sequences compiled one after the other

VARIABLES
  code, code0, nid, valIdx, nvals, globalsInit, globalEnd, unsupported,
  dynAlloca, slots, phiLast, phiEnd, badTLS, phase, b, it, sig, cparts, ctmap,
  todo,      \* the modules still to compile
  fns,       \* the functions of the current module still to compile
  blk,       \* compile_func: the index of the block being compiled
  valuePtrs, \* assignments.value_ptrs: the values with an assignment
  success,   \* compile(): success
  compiled,  \* the current module has compiled a function body
  results,   \* what each compile() returned
  dphase     \* "idle", "funcs", "switch", "blocks" or "compiled"

SF == INSTANCE SwitchFunc

sfVars == <<code, code0, nid, valIdx, nvals, globalsInit, globalEnd, unsupported,
            dynAlloca, slots, phiLast, phiEnd, badTLS, phase, b, it, sig, cparts, ctmap>>
dVars == <<todo, fns, blk, valuePtrs, success, compiled, results, dphase>>
vars == <<sfVars, dVars>>

\* A value that is live out of a block and so keeps its assignment.
Live == 0  \* instruction ids start at 1

-----------------------------------------------------------------------------
(* compile() *)

\* The function symbols are created (abstracted), then the function loop.
CompileStart ==
  /\ dphase = "idle"
  /\ todo # <<>>
  /\ fns' = Head(todo).funcs
  /\ badTLS' = Head(todo).tls
  /\ todo' = Tail(todo)
  /\ success' = TRUE
  /\ compiled' = FALSE
  /\ dphase' = "funcs"
  /\ UNCHANGED <<code, code0, nid, valIdx, nvals, globalsInit, globalEnd,
                 unsupported, dynAlloca, slots, phiLast, phiEnd, phase, b, it,
                 sig, cparts, ctmap, blk, valuePtrs, results>>

\* adaptor->func_extern(func): only ++func_idx.
SkipExtern ==
  /\ dphase = "funcs"
  /\ fns # <<>>
  /\ Head(fns).extern
  /\ fns' = Tail(fns)
  /\ UNCHANGED <<sfVars, todo, blk, valuePtrs, success, compiled, results, dphase>>

\* compile_func calls adaptor->switch_func(func): a new function body.  The
\* adaptor's values and globals carry over from the previous function.
CompileFunc ==
  /\ dphase = "funcs"
  /\ fns # <<>>
  /\ ~Head(fns).extern
  /\ LET f == Head(fns).code IN
     /\ code' = f
     /\ code0' = f
     /\ sig' = Head(fns).sig
     /\ nid' = SF!NextId(f)
     /\ valIdx' = [i \in 1 .. MaxIds |-> SF!NONE]
     /\ phiLast' = [x \in 1 .. Len(f) |-> SF!NONE]
     /\ phiEnd' = [x \in 1 .. Len(f) |-> SF!NONE]
  /\ phase' = "start"
  /\ b' = 1
  /\ it' = 1
  /\ fns' = Tail(fns)
  /\ compiled' = TRUE
  /\ dphase' = "switch"
  /\ UNCHANGED <<nvals, globalsInit, globalEnd, unsupported, dynAlloca, slots,
                 badTLS, cparts, ctmap, todo, blk, valuePtrs, success, results>>

\* One step of the adaptor's switch_func.
SwitchStep ==
  /\ dphase = "switch"
  /\ SF!Next
  /\ UNCHANGED dVars

\* switch_func returned false: compile_func returns false at once.
SwitchFailed ==
  /\ dphase = "switch"
  /\ phase = "done"
  /\ unsupported
  /\ success' = FALSE
  /\ dphase' = "funcs"
  /\ UNCHANGED <<sfVars, todo, fns, blk, valuePtrs, compiled, results>>

\* The per-function resets, the prolog, and init_variable_ref for every
\* static alloca (cur_static_allocas).
FuncStart ==
  /\ dphase = "switch"
  /\ phase = "done"
  /\ ~unsupported
  /\ valuePtrs' = Range(slots)
  /\ blk' = 1
  /\ dphase' = "blocks"
  /\ UNCHANGED <<sfVars, todo, fns, success, compiled, results>>

\* compile_inst refuses an instruction it does not support.
BlockFails(bl) == \E i \in 1 .. Len(bl) : bl[i].kind = "unsup"

\* compile_block succeeds: the values still live after the block keep
\* their assignments; after the last block only the variable references.
CompileBlock ==
  /\ dphase = "blocks"
  /\ blk <= Len(code)
  /\ ~BlockFails(code[blk])
  /\ valuePtrs' \in IF blk = Len(code) THEN {Range(slots)}
                    ELSE {Range(slots), Range(slots) \cup {Live}}
  /\ blk' = blk + 1
  /\ UNCHANGED <<sfVars, todo, fns, success, compiled, results, dphase>>

\* "Ensure invariant that value_ptrs only contains nullptr at the end."
FailedPtrs == {}

BlockFailed ==
  /\ dphase = "blocks"
  /\ blk <= Len(code)
  /\ BlockFails(code[blk])
  /\ valuePtrs' = FailedPtrs
  /\ success' = FALSE
  /\ dphase' = "funcs"
  /\ UNCHANGED <<sfVars, todo, fns, blk, compiled, results>>

\* The variable_ref_list walk resets the remaining pointers; finish_func.
FinishFunc ==
  /\ dphase = "blocks"
  /\ blk > Len(code)
  /\ valuePtrs' = valuePtrs \ Range(slots)
  /\ dphase' = "funcs"
  /\ UNCHANGED <<sfVars, todo, fns, blk, success, compiled, results>>

\* text_writer.flush(), assembler.finalize(), return success.
CompileEnd ==
  /\ dphase = "funcs"
  /\ fns = <<>>
  /\ results' = Append(results, [ok |-> success, tls |-> badTLS, compiled |-> compiled])
  /\ dphase' = "compiled"
  /\ UNCHANGED <<sfVars, todo, fns, blk, valuePtrs, success, compiled>>

-----------------------------------------------------------------------------
(* reset(): adaptor->reset() and the compiler's own per-module state *)

\* A mutant: the adaptor keeps the globals of the previous module.
KeepGlobalsInit == globalsInit

\* LLVMAdaptor::reset: globals_init = false.
ResetGlobalsInit == FALSE

Reset ==
  /\ dphase = "compiled"
  /\ globalsInit' = ResetGlobalsInit
  /\ globalEnd' = 0
  /\ nvals' = 0
  /\ cparts' = <<>>
  /\ ctmap' = <<>>
  /\ phase' = "idle"
  /\ dphase' = "idle"
  /\ UNCHANGED <<code, code0, nid, valIdx, unsupported, dynAlloca, slots,
                 phiLast, phiEnd, badTLS, b, it, sig, todo, fns, blk, valuePtrs,
                 success, compiled, results>>

Init ==
  /\ todo \in Modules
  /\ fns = <<>>
  /\ blk = 0
  /\ valuePtrs = {}
  /\ success = TRUE
  /\ compiled = FALSE
  /\ results = <<>>
  /\ dphase = "idle"
  /\ code = <<>>
  /\ code0 = <<>>
  /\ nid = 1
  /\ valIdx = [i \in 1 .. MaxIds |-> SF!NONE]
  /\ nvals = 0
  /\ globalsInit = FALSE
  /\ globalEnd = 0
  /\ unsupported = FALSE
  /\ dynAlloca = FALSE
  /\ slots = <<>>
  /\ phiLast = <<>>
  /\ phiEnd = <<>>
  /\ badTLS = FALSE
  /\ phase = "idle"
  /\ b = 1
  /\ it = 1
  /\ sig = [args |-> <<>>, ret |-> SF!Void]
  /\ cparts = <<>>
  /\ ctmap = <<>>

Next ==
  \/ CompileStart \/ SkipExtern \/ CompileFunc \/ SwitchStep \/ SwitchFailed
  \/ FuncStart \/ CompileBlock \/ BlockFailed \/ FinishFunc \/ CompileEnd
  \/ Reset

Spec == Init /\ [][Next]_vars

-----------------------------------------------------------------------------
(* Properties *)

(***************************************************************************)
(* A module with a thread-local global whose uses cannot be rewritten never *)
(* compiles successfully once a function body of it was compiled: the      *)
(* adaptor reports it only while numbering the globals in the first        *)
(* switch_func of the module, so every module after a reset() must number  *)
(* its globals afresh.                                                     *)
(***************************************************************************)
UnsupportedNeverSucceeds ==
  \A i \in 1 .. Len(results) : results[i].tls /\ results[i].compiled => ~results[i].ok

(***************************************************************************)
(* The properties of switch_func hold for every function of every module,  *)
(* with the values of the previous function and module carried over as    *)
(* the adaptor carries them.                                               *)
(***************************************************************************)
NumberingExact == SF!NumberingExact

\* (See SwitchFunc.) No operand keeps a constant expression or vector.
ConstantsExpanded == SF!ConstantsExpanded

\* (See SwitchFunc.) begin()..phi_end holds exactly the PHIs of each block.
PhiRangeExact == SF!PhiRangeExact

\* (See SwitchFunc.) Every turn of the instruction loop leaves less work.
RestartsTerminate == SF!RestartsTerminate

\* The type lowers to invalid, or to a layout marked incompatible, in an
\* adaptor that has lowered nothing before.
FreshInvalid(t) == SF!LowerType(t, <<>>, <<>>).ty = "invalid"
FreshIncompatible(t) == SF!Incompatible(SF!LowerType(t, <<>>, <<>>))

\* The function has an instruction of an invalid type, or an argument or
\* return type with an incompatible layout.
UsesBadType ==
  \/ \E x \in 1 .. Len(code) : \E i \in 1 .. Len(code[x]) : FreshInvalid(code[x][i].ty)
  \/ \E i \in 1 .. Len(sig.args) : FreshIncompatible(sig.args[i])
  \/ FreshIncompatible(sig.ret)

(***************************************************************************)
(* switch_func reports every function that has an instruction of a type    *)
(* TPDE cannot lower, or an argument or return type whose layout is not    *)
(* LLVM's, whatever the functions before it in the module lowered:         *)
(* complex_type_map lives for the whole module, func_unsupported is reset  *)
(* for every function, so a type found invalid must not be remembered, and *)
(* a cached layout must keep its incompatible_layout mark.                 *)
(***************************************************************************)
InvalidTypeReported ==
  dphase = "switch" /\ phase = "done" /\ UsesBadType => unsupported

(***************************************************************************)
(* Every type in complex_type_map names a descriptor in complex_part_types *)
(* whose parts are the type's parts in order (basic type, size, the end of *)
(* each value, the aggregates opened and closed), marked incompatible      *)
(* exactly when a vector in it is scalarized, and, unless so marked, with *)
(* the padding that puts every part at the offset LLVM's DataLayout gives *)
(* it and makes the parts add up to the type's allocation size.  It holds  *)
(* across the functions of a module and after reset().                   *)
(***************************************************************************)
CachedLayoutSound ==
  \A t \in DOMAIN ctmap :
    /\ ctmap[t].ty = "complex"
    /\ ctmap[t].idx \in 1 .. Len(cparts)
    /\ SF!LayoutMatches(cparts, ctmap[t].idx, t)

====
