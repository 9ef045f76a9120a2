# TLA+ models of the TPDE baseline compiler

TPDE is a single-pass baseline compiler: an IR adaptor (here `LLVMAdaptor`)
presents functions, blocks, values and PHIs; `CompilerBase` walks the blocks in
layout order and keeps a value assignment for every live value (register
and/or stack slot); instruction selection emits machine code through an
assembler that keeps sections, symbols and labels with pending fixups. This
directory holds TLA+ modules for the parts of that pipeline whose state
changes are intricate enough to be worth model checking, the TLC
configurations that check them, and `PROJECT.json`, which maps every modelled
definition to the source lines it translates.

All paths below are relative to `src/`.

## Inventory

| Part | Source | State | Operations | Status |
|---|---|---|---|---|
| Stack-slot allocator | `tpde/include/tpde/CompilerBase.hpp` 944-1009, 1915-1921 | `frame_size`, five fixed free lists, map size -> free list | `allocate_stack_slot`, `free_stack_slot`, per-function reset | modelled: `FrameLayout`, `StackFrame`, `StackFrameAbs` |
| PHI resolution | `CompilerBase.hpp` 1500-1866 | per call: nodes, ref counts, ready list, waiting set, temporary | `move_to_phi_nodes_impl`, `ScratchWrapper` | partly: `PhiMoves` (order of moves), `ScratchWrapper` (scratch registers) |
| Value assignments and registers | `CompilerBase.hpp` 771-942, 1121-1498, `ScratchReg.hpp` | value_ptrs, register file (used, fixed, allocatable), delayed-free lists, fixed counts | init/free/release_assignment, select_reg_evict, ScratchReg::alloc and alloc_specific, spill, evict, free_reg, spill_before_branch, release_spilled_regs | partly: `RegAlloc` (one bank, single-part values) |
| Call/return building | `CompilerBase.hpp` 471-695 | `allocatable` mask, argument registers | add_arg, call, RetBuilder | partly: `CallBuilder` (single-part arguments) |
| Driver | `CompilerBase.hpp` 697-769, 1905-2065, `LLVMAdaptor.cpp` 414-441 | success, value_ptrs, the functions and modules left | compile, compile_func, compile_block's failure, reset | partly: `Driver` (composes `SwitchFunc`; register allocation inside a block abstracted) |
| ELF assembler, labels | `tpde/include/tpde/AssemblerElf.hpp`, `x64/AssemblerElfX64.hpp`, `src/arm64/AssemblerElfA64.cpp` | section buffers, temp symbols, fixup chains and free list | label_create, reloc_sec, label_place, handle_fixup | partly: `Labels` (one text section; buffers, relocations and byte layout not modelled) |
| AArch64 veneers | `tpde/include/tpde/arm64/FunctionWriterA64.hpp` | unresolved branch counts, veneer offsets | begin_func, more_space, label_ref, handle_fixups | partly: `Veneers` (scaled ranges; jump-table fixups and encodings not modelled) |
| LLVM adaptor | `tpde-llvm/src/LLVMAdaptor.{hpp,cpp}` | per function value/block indices, `complex_part_types`, `complex_type_map` | switch_func, fixup_constant, handle_inst_in_block, lower_type, check_type_compatibility, complex_part_for_index, sort_phi_entries, incoming_val_for_block | partly: `SwitchFunc` (the prepass), `TypeLayout` (type lowering), `PartIndex` (part lookup), `PhiSort` (the PHI sort and lookup, run in `MCAlgorithms`) |
| Encoder templates | `tpde-llvm/src/encode_template.c` | none | instruction snippets | partly: `EncodeTemplate` (the i128 shifts, funnel shifts, rotates and saturating arithmetic, run in `MCAlgorithms`) |
| tpde-llc | `tpde-llvm/tools/tpde-llc.cpp` | none | argument parsing, file I/O | not modelled |

How they interact: `compile_func` resets the allocator and assignments, then
for each block `compile_block` selects instructions, which allocate registers
and stack slots through the value model; at the end of a block the branch code
calls `spill_before_branch` and `move_to_phi_nodes` for each successor with
PHIs, and the PHI moves allocate stack slots (spill slots of PHIs, a
temporary for a cycle of wide values) from the stack-slot allocator.

## Modules

### FrameLayout, StackFrame, StackFrameAbs, MCStackFrame

`FrameLayout` holds the pure parts of `allocate_stack_slot`: the size-class
index (`FreeListIdx`, `32 - cnt_lz(size-1)`), rounding (`RoundSize`), the
alignment exponent (`AlignBits`), `CntTz` (recursive), and the slot encoding
`SlotOf` for both values of `FRAME_INDEXING_NEGATIVE`.

`StackFrame` has the variables `frame_size`, `fixed_free_lists`,
`dynamic_free_lists` (the free lists of the code) and `live`, the slots
callers hold. `allocate_stack_slot(size)` is the disjunction of its three
exits: pop from the fixed list, pop from the dynamic list, or grow, where
growing first runs the alignment loop (`AlignFrame`, the loop at 974-984 that
pushes each hole piece) and then takes the top of the frame.
`free_stack_slot` appends to the list of the size class. `StartFunc` is the
reset in `compile_func` plus the prologue setting `frame_size`.

`StackFrameAbs` is the allocator's contract, with no free lists: a request
gets `RoundSize(size)` bytes aligned to the smaller of that size and 16,
disjoint from every held slot, and the frame grows only to the end of the new
slot. `MCStackFrame` maps `frame_size` and `live` to themselves and checks
`AbsSpec == Abs!Spec`.

Properties:
- `FrameTiled`: the free-list entries and held slots tile
  `[FrameInit, frame_size)` exactly, with no byte lost and none in two places.
- `SlotsAligned`: every held slot is aligned as the backend's loads and stores
  need.
- `AbsSpec`: refinement of the contract.

The free lists are per size class and are never split or merged, so the
frame can outgrow the peak of live bytes: after an 8-byte slot is allocated
and freed, a 24-byte request grows a 16-byte frame to 64 bytes (an 8-byte
alignment hole plus 32 bytes) with at most 32 bytes ever live. The spec
(section 8, property 2) bounds the frame by the aligned peak; the code
trades that bound for speed, and no property here states it.

### PhiMoves

`PhiMoves` models one call of `move_to_phi_nodes_impl`. The PHIs of the target
are `1..nphi` in local-index order, which is the order `nodes` is sorted into.
Other incoming values, whether non-PHIs or PHIs of other blocks, are the
negative numbers. `incoming` is chosen in `Init` from every function, so every
shape of chain, tree and cycle is checked. `mem[v]` is what v's location holds;
initially v's own value.

The actions follow the code:
- `StartSingle`: the one-node fast path.
- `StartNoDeps`: the `all_zero_ref` fast path, a left fold of `move_to_phi`
  in order.
- `StartOrdered`: ref counts, ready list and waiting set.
- `BreakCycle`: the lowest waiting node is saved into the temporary.
- `ProcessReady`: one iteration of the inner `for` over `ready_indices`. It is
  split into `ProcessSelf`, `ProcessFromTmp` (`move_from_tmp_phi` and the
  release of the temporary) and `ProcessMove`, which moves the value and
  decrements the reader count, pushing a node that reaches zero.

Properties:
- `PhiMovesCorrect`: at return the locations equal the parallel copy.
- `CycleBreakSafe`: the assertions at 1768-1771.
- `OneTempPerCycle`: exactly one temporary per dependence cycle (spec S2).
- `Terminates`: the loop ends.

The spec (section 8, property 4) says a second call on the same edge stores
nothing. `move_to_phi` stores every PHI that is not its own incoming value on
every call, whatever the slot holds, so a second call stores again, and for
a two-PHI cycle swaps the values back. No run checks a second call.

### ScratchWrapper, MCScratchWrapper

`ScratchWrapper` models the scratch registers of PHI resolution
(`CompilerBase.hpp` 1511-1599), used by `scratch` in `move_to_phi` and by
`tmp_reg1`/`tmp_reg2` for a cycle's temporary.
- `alloc_from_bank` (`AllocFromBank`) keeps the wrapper's register if it is
  of the right bank, and otherwise resets the wrapper. It then takes the
  first free register, or borrows the first non-fixed one (`Borrow`): the
  value is spilled if its slot is stale and marked not in a register. The
  register is marked used, fixed and clobbered.
- `reset` (`Reset`) reloads a borrowed value into its register unless its
  last use freed it.

State: the register file, the value assignments and what each register
holds. The actions are the calls of `move_to_phi_nodes_impl`:
- `MoveConst`, `MoveVal`: `move_to_phi` for one part;
- `BreakCycle`: the reload of a cycle's PHI into `tmp_reg1` (and `tmp_reg2`);
- `MoveFromTmp`: `move_from_tmp_phi`;
- `FreeVal`: a last use (`free_assignment`);
- `Destroy`: the destructors, in reverse order.

The order of these steps is free here; `PhiMoves` checks the order itself.

Properties:
- `RegistersHoldValues`: a value the compiler believes is in a register is
  there, at every step.
- `MovesReadValues`: every move, and every read of the temporary, gets the
  right value.
- `RestoredAtEnd`: after the destructors, the register state is as at the
  branch, apart from freed values.

### PhiSort

`PhiSort` models `sort_phi_entries` and `incoming_val_for_block`
(`tpde-llvm/src/LLVMAdaptor.cpp` 31-69 and 355-358, `LLVMAdaptor.hpp`
410-422). `switch_func` heap-sorts the entries of a PHI by block when the
PHI has at least `PHINodeSortThreshold` entries. `OuterStep` and `OuterDone`
are the outer `while (end > 1)` loop, and `SiftStep` is one turn of the
sift-down. `Init` picks every PHI of up to `MaxIncoming` entries; a block
may appear several times, always with the same value. The lookup is
`LowerBound` (recursive, the halving loop of `std::lower_bound`) at or
above the threshold, and `LinearIndex` below it.

Properties:
- `SortMatchesReference`: the sorted entries equal `SortSeq` of the
  original entries.
- `LookupCorrect`: for every predecessor the lookup returns LLVM's value,
  on both sides of the threshold.
- `SortTerminates`: the heap sort ends.

### EncodeTemplate, MCAlgorithms

`encode_template.c` holds the C functions whose compiled code the LLVM
backend copies as the snippet of an instruction. `EncodeTemplate` models
the ones that are arithmetic a mistake could break, each as an operator on
integers:
- the i128 shifts split into 64-bit halves (187-218): `shli128_lt64`,
  `shri128_lt64`, `ashri128_lt64` take the amount and its complement `iamt`,
  the `_ge64` forms shift one half by `64 + amt % 64`;
- the funnel shifts `fshl`, `fshr` and the rotates `roli`, `rori`
  (220-239), one operator per family with the width as a parameter;
- the saturating `sat_add_*`, `sat_sub_*` (344-359), unsigned and signed.

Widths are scaled down: `W` (4) stands for the 64-bit half of an i128 and
for u32/u64, `NarrowW` (2) for u8/u16, which C promotes to `int` (`IntW`,
4) before shifting. A cast to the half type is `% 2^W`, a cast to a signed
type is `Signed`. A C shift by the width of its type or more is undefined;
`CShl` and `CShr` return the set of results the build can produce there:
the amount masked, as the x86-64 and AArch64 shift instructions do, or 0.
The reference definitions (`RefShl`, `RefAShr`, `RefFshl`, `RefClamp`...)
state what the LLVM instructions compute.

The templates have no state, and TLC evaluates an invariant in every
state, so `MCAlgorithms` puts the PHI sort and the templates in one state
graph without multiplying them: its initial states are `PhiSort`'s with
no template (`app = NoApp`), and one state per operand tuple (`Apps`),
with the PHI variables holding a one-entry PHI that needs no sort.

Properties:
- `WideShiftsMatch`: for every 2W-bit value and every amount the form is
  meant for (1..W-1 with `iamt = W - amt`, W..2W-1), the three split shifts
  equal the 2W-bit `shl`, `lshr` and `ashr`.
- `FunnelShiftsMatch`: `fshl`/`fshr` equal LLVM's funnel shifts at the
  promoted width for every amount, and at the unpromoted width for every
  amount that is not a multiple of the width; the rotates equal the funnel
  shift of a value with itself for every amount, under both outcomes of
  the undefined full-width shift.
- `SaturatingMatch`: the saturating templates clamp the exact result; on a
  signed overflow the sign of `a` picks the bound, for subtraction too.

Two observations. The `(u64)` cast on `lo1` in `shri128_lt64` and
`ashri128_lt64` is not needed: without it the extra bits coincide with
those of `hi << 64` (a mutant removing it survives, so it is not used).
At the unpromoted width, `fshli32(a, b, 0)` shifts `b` by 32; with the
amount masked the template returns `a | b` where `fshl` returns `a`. The
comment above `fshli8` accepts this after reading the generated code, so
no property asserts one outcome.

### RegAlloc, MCRegAlloc

`RegAlloc` models one register bank while `compile_func` compiles a
function. The function (`prog`) is picked in `Init` from `Programs`. Its
liveness (`last`, `last_full`, reference counts) is computed by operators
that stand in for the analyzer, which is not under `src/`.

State and its counterpart in the code:
- `va[v]`: the value assignment of v (`value_ptrs`): register-valid, stack-valid,
  modified, fixed, register, slot, references left, and whether it waits on a
  delayed-free list (`pending_free`).
- `rf[r]`: the register file: used, owner (`INVALID` for a scratch register),
  lock count and fixed bit.
- `fixedCount`: `cur_fixed_assignment_count`. `delayed`: `delayed_free_lists`.
- `loaded`, `scratch`, `resInit`: the operand and scratch registers of the
  instruction in progress.
- `mreg`, `mslot`: what the generated code holds in each register and spill
  slot at that point of the program. These are not compiler state; they
  are how the properties judge the compiler's beliefs.
- `exitM`, `belief`: the machine state at each block exit, and what the
  compiler assumed at each block entry. Back edges are checked against them.

One instruction takes these steps, in the order its encoder takes them:
1. `InitResult`: `init_assignment` for the result, with the fixed-register
   grant when the value outlives the block and the quota
   `definitions_in_childs + cur_fixed < NUM_FIXED` allows.
2. `LoadOp`: an operand is locked where it is, or reloaded into
   `select_reg`'s register. When none is free, `select_reg_evict` evicts the
   unfixed register with the best `Score`; the score keeps the code's u32
   field layout.
3. `AllocScratch`: `ScratchReg::alloc`; or, for an instruction whose
   encoder needs the result in a given register (`res`, as x86-64 results
   in `rax`), `AllocScratchSpecific`: `ScratchReg::alloc_specific`, which
   asserts the register is not fixed and evicts its owner. In `LoopFn`
   the value `v5` asks for register 1, which then holds `v1` or `v2`.
4. `Emit`: the encoder writes the scratch register.
5. `set_value`: its three branches.
6. `EndInst`: the scratch reset and the destructors. These unlock the
   operands and count down references. A value at zero references is freed
   (`free_assignment`), or put on the delayed-free list of its last block
   when its range was extended over a loop (`release_assignment`).

At a block end:
- `Branch` is `spill_before_branch` followed by `release_spilled_regs`.
  This includes the next-block exception and `earliest_next_succ`.
- `release_regs_after_return` handles a return block.
- `FinishBlock` pops the delayed-free list of the block, as `compile_block`
  does. It then moves to the next block. The machine state at the next
  block is what all its forward predecessors agree on.

A `TPDE_FATAL` (no register left) is the phase `fatal`.

Properties:
- `RegFileConsistent`: registers and assignments name each other. Between
  blocks no scratch register is held, and a fixed register belongs to a fixed
  assignment.
- `ValuesInPlace`: a value the compiler believes register-valid or
  stack-valid is really there in the generated code.
- `OperandsIntact`: a loaded operand is not evicted before the instruction
  is emitted.
- `ValueNotLost`: a live value (pending ones included) always has a copy.
- `BackEdgesSafe`: every back edge reaches the loop header with the values
  where the header's code expects them.
- `FixedCountBalanced`: the fixed count equals the number of fixed
  assignments.
- `AllFreedAtEnd`: at function end no assignment, register or fixed count
  is left.
- `CompileTerminates`: every function compiles to the end without running
  out of registers.

`MCRegAlloc` supplies five function shapes, each with the operand sets
varied:
- `LoopFn`: register pressure and a loop.
- `DiamondFn`: the earliest other successor.
- `NestedFn`: two nested loops.
- `JoinFn`: a fall-through into a join.
- `LatchFn`: two long-lived values in a loop latch that both ask for a
  fixed register.

### CallBuilder, MCCallBuilder

`CallBuilder` models building one call (`CallBuilderBase`) or one return
(`RetBuilder`), `CompilerBase.hpp` 471-695. `Init` picks:
- the mode;
- the arguments: value, integer extension, and whether the assigner puts the
  part on the stack while registers are left (byval or a consecutive group);
- where each live value is: a register, modified or already spilled, or
  only its slot;
- each value's references: this call's uses, plus possibly one later use.

In a return, a value live after the block is stack-valid, as
`spill_before_branch` leaves it.

The actions follow the code:
- `AddArgReg` is `add_arg` (and `RetBuilder::add`) for a register part:
  - evict or salvage the operand if it is already in `cca.reg`;
  - otherwise evict the register's owner and move or reload the operand;
  - then mask the register out of `allocatable`, record it in `arg_regs`,
    and drop the operand's reference.
- `AddArgStack` is the stack part. An extended part, or one not in a
  register, takes a scratch register from `select_reg`, which may evict.
- `Call` is `call()`: evict `used & ~callee_saved & ~arg_regs`, then
  `call_impl` clobbers the caller-saved registers and leaves the result in
  the first return register, then `allocatable |= arg_regs`.
- `AddRet` binds the result.
- `Ret` is `RetBuilder::ret` with `release_regs_after_return`.

`mreg` is what the generated code holds in each register.

Properties:
- `ArgsInPlace`: every argument added so far is still in its register
  until the call or the epilogue. This is what the `allocatable` mask
  guarantees.
- `ValuesInPlace`: every live value is in the register the compiler
  believes, across the callee's clobbers, or else has been spilled.

`call()` restoring `allocatable` is a single assignment and is not stated as
a property. Neither is the absence of `TPDE_FATAL` in `select_reg`: only the
operand's register is locked during `add_arg`, so a bank with two registers
besides the argument registers never reaches it, and the targets' banks
have many more.

### Labels, MCLabels

`Labels` models the labels of one text section: `label_create`
(`AssemblerElf.hpp` 557-561), the push of a fixup when code references a
pending label (`reloc_sec`, whose body is not under `src/`, so it is
modelled from the spec), `label_place` (719-740) and the x86-64
`handle_fixup` (`AssemblerElfX64.hpp` 35-54). State:
- `lab`: per label, pending or placed, its offset, and the head of its
  fixup chain (`fixup_idx`);
- `fx`: the `temp_symbol_fixups` vector, entries `[site, next, kind]`;
- `freeHead`: `next_free_tsfixup`;
- `mem`: the 32-bit words at the fixup sites; `cur`: the writer's offset;
- `refs`: a history of every reference made, used only by the properties.

Actions: `reloc_sec(l)` references a pending label with a jump or a
jump-table entry (which holds the table's offset until patched), reusing
the head of the free list or appending an entry; `label_place(l)` walks the
chain as the loop does (patch, read next, link the entry into the free
list); `Emit` is code with no label reference.

Properties:
- `FixupsResolved`: every reference to a placed label sends the code
  exactly to that label. A chain cut short, or a recycled entry patched
  again by another label, breaks it.
- `ChainsExact`: a pending label's chain holds exactly its references,
  and shares no entry with the free list or another pending chain.

### Veneers

`Veneers` models the AArch64 function writer (`arm64/FunctionWriterA64.hpp`)
for one function. State: the write offset, the allocated size, the vector's
capacity and `growth_size`, the `veneers` vector, the two unresolved-branch
counters, the fixups, and the label offsets.

The actions follow the code:
- `StartFunc` is `compile_func` (`CompilerBase.hpp` 1943-1946), which sets
  `growth_size` to `8*num_insts+0x40` and reserves that much.
- `Code` writes straight-line instructions that fit.
- `NeedSpace` is a write with fewer than 4 bytes left: `ensure_space` calls
  `more_space(4)`. That reserves one slot per counted branch and writes an
  island (a `B` over zeroed slots) when a counted branch might not reach
  the end of the grown buffer.
- `label_ref` writes a branch to a pending label and counts it.
- `label_place` places a block label.
- `handle_fixups` patches every fixup in order, as the loop does. It
  redirects an out-of-range branch through the next slot of
  `lower_bound(veneers, off)`, and records every assertion that fails.

The buffer growth of the writer's base class, which is not under `src/`, is
that of `SectionWriterBase::more_space` (`AssemblerElf.hpp` 678-709), whose
members the AArch64 code uses. Branch ranges are scaled: `TestBits` and
`CondBits` are constants, 14 and 19 in the code.

Properties:
- `CondBranchesInRange`: every patched conditional or test branch encodes
  a displacement its field can hold (spec scenario S6). It fails when the
  first reservation is larger than the test range (run `VeneersNoIsland`,
  see Findings).
- `FixupAssertsHold`: no assertion of `handle_fixups` fails. These are: a
  veneer exists, its slot is still zero, and the counters are positive.

### SwitchFunc, MCSwitchFunc

`SwitchFunc` models the adaptor's prepass `LLVMAdaptor::switch_func`
(`tpde-llvm/src/LLVMAdaptor.cpp` 69-412). A constant is a record: `k` is
"data", "undef", "global", "expr" (`ConstantExpr`), "vec"
(`ConstantVector`) or "agg" (another `ConstantAggregate`), with its
operands. An instruction is `[id, kind, ops, from]`, and a function is a
sequence of blocks. `valIdx` is `val_idx_for_inst` and `nvals` is
`values.size()`.

- `FixupConstant` is `fixup_constant`, recursive with `FixElems`,
  `InsertElems`, `FixAggOps` and `InsertValues`. It returns the
  replacement, the first inserted instruction (`ins_begin`) and the
  inserted instructions in order.
- `Start` covers the per-function clears. It numbers the globals once
  per module (an unrewritable thread-local global is the flag `badTLS`)
  or cuts `values` back to `global_idx_end`, then numbers the arguments.
  It lowers each argument type with `lower_type` and checks it and the
  return type with `check_type_compatibility` (`LowerArg`, `LowerSig`),
  so `func_unsupported` is set and the caches `cparts`
  (`complex_part_types`) and `ctmap` (`complex_type_map`) grow.
- `PhiStep` is one PHI of the first loop. `FixIncoming` expands each
  incoming constant into the predecessor, before its terminator or before
  a compare right ahead of it (`InsBefore`). It replaces the value of
  every entry from that block. The PHI is then sorted when large.
- `PhiBlockEnd` stores the last PHI (`PhiMark`).
- `InstStep` is `handle_inst_in_block` plus the loop step. Either it
  restarts at the first inserted instruction, or it numbers the
  instruction, lowers its type (line 211) and moves on. An instruction
  is `[id, kind, ops, from, ty]`.
- `InstBlockEnd` moves `phi_end` one on (`PhiEndOf`).

`MCSwitchFunc` holds the function of the violation run `SwitchFuncBad`.

Properties (checked through `Driver`):
- `NumberingExact`: at return every instruction, inserted ones included, is
  numbered once, consecutively in layout order after the globals and
  arguments.
- `ConstantsExpanded`: no operand keeps an expression or vector at any
  depth.
- `PhiRangeExact`: `begin()..phi_end` is exactly each block's PHIs, also
  when a later block's PHI, or the block's own on a self-loop, expanded a
  constant right after them.
- `RestartsTerminate`: every turn of the instruction loop within a block
  strictly decreases `Pending`. `Pending` is the block's remaining
  instructions, each weighted with the `Work` of its operands. So the
  restarts end. This is a ranking function, checked per step.

### Driver, MCDriver

`Driver` models `CompilerBase::compile`, `compile_func`, the failure of
`compile_block` and `reset` (`LLVMAdaptor::reset`), and instantiates
`SwitchFunc` for the prepass, so the adaptor's values and globals carry
over from function to function and module to module as in the code.

- `CompileStart` is `compile`'s symbol loop, abstracted.
- `SkipExtern` skips an extern function.
- `CompileFunc` hands the next body to `switch_func`, and `SwitchStep`
  takes its steps.
- `SwitchFailed` is compile_func's early return.
- `FuncStart` is the per-function resets and prolog. The static allocas
  become variable references: `valuePtrs` holds the values with a
  `ValueAssignment`.
- `CompileBlock` and `BlockFailed` (an instruction of kind "unsup" that
  `compile_inst` refuses) cover the block loop. The failure path clears
  `value_ptrs`.
- `FinishFunc` walks the variable references.
- `CompileEnd` records `compile`'s result, and `Reset` clears the
  adaptor's module state, the type caches included.

`MCDriver` compiles two modules with a reset in between:
- module 1 has a function of any of the 1,024 shapes (three constant
  operands from eight trees, a failing block or not), then one that is
  extern or not;
- module 2 has one function;
- either module may have a bad thread-local global;
- besides these, a module may be one function whose signature or first
  instruction has one of the types listed under Bounds, followed in the
  same module by a second function, so the type caches carry over.

Properties:
- `UnsupportedNeverSucceeds`: a module with a bad thread-local global
  never compiles successfully once a body was compiled, also after reset.
- The four `SwitchFunc` properties, for every function of both modules.
- `InvalidTypeReported`: a function whose signature or instruction types
  include one `lower_type` reports as invalid, or one whose layout
  `check_type_compatibility` finds different from LLVM's, ends
  `switch_func` unsupported, whether or not the type was cached earlier.
- `CachedLayoutSound`: every entry of `complex_type_map` points at a
  descriptor in `complex_part_types` whose parts have the sizes, padding,
  value ends and nesting counts of the type's LLVM layout (the reference
  layout of `TypeLayout`), across functions and modules. In the reference a
  scalarized vector is one value, so only its last part ends a value, as
  `complex_types_append` marks it (`i == nelem - 1`, line 628). The
  instruction types leave out `[2 x {}]` inside a struct: its nesting
  counts are wrong (see Findings), which `PartIndex` shows.

### TypeLayout

`TypeLayout` holds the adaptor's type lowering as operators
(`LLVMAdaptor.cpp` 444-722, `LLVMAdaptor.hpp` 93-138, 584-778). A type is a
record: kind, integer width, element count, elements, packed flag.
- `LowerSimple` is `lower_simple_type`. It rounds integer widths up with
  `HighBit`, maps vectors to `v64`/`v128` or "complex", and gives
  "invalid" for what it does not handle.
- `ComplexTypesAppend` and `AppendElems` are `complex_types_append`: one
  part per scalar, with its size, the padding to the next part, the
  value-end flag and the nesting counts. The bit-field widths of the
  `LLVMComplexPart` union are kept: padding wraps at 2^7, the nesting
  counts at 2^4, the part count at 2^16. A write past the end of the parts
  is lost, as the array case's write of `nest_inc` at `len` is.
- `LowerComplex` is `lower_complex_type` with the `complex_type_map`
  lookup, the erase of an invalid result, and the report.
- `LowerType` is `lower_type`; `Incompatible` is
  `check_type_compatibility`.

The reference is a separate recursive definition of LLVM's data layout
(`RefAlign`, `RefSize`, `RefOffset`, `RefParts`): the sizes, alignments
and offsets of every scalar leaf. `LayoutMatches` compares a lowered
descriptor with it, and `RefRange` gives the parts of the element an index
path names.

### PartIndex, MCPartIndex

`PartIndex` models `complex_part_for_index` (`LLVMAdaptor.cpp` 724-759)
step by step. The index vector is its inline storage (`store`) and its
size (`ilen`), so a read past the size reads what `resize` left there.
`Enter` is the `resize` by `nest_inc`. `Match` is one turn of the while
loop. `Leave` is the shrink by `nest_dec`, the increment of the innermost
index, and the return or the `assert(0)` path. `ShrinkFails` is a shrink
below zero, where the `size_t` wraps. `ReadUnwritten` is a read of storage
never written. `MCPartIndex` gives eight struct and array types, some
with zero-sized members, and every index path into them.

Property (violation run): `PartForIndexExact` says the walk returns the
first and the last part of the named element.

## Runs

| Run | Module / cfg | Expect | What it shows |
|---|---|---|---|
| StackFrameNeg | MCStackFrame / StackFrameNeg.cfg | pass | tiling, alignment and refinement with negative indexing (x64) |
| PhiMoves | PhiMoves / PhiMoves.cfg | pass | parallel-copy correctness, cycle-break assertions, one temporary per cycle, termination |
| Algorithms | MCAlgorithms / Algorithms.cfg | pass | the heap sort yields the sorted entries; the lookup is right on both sides of the threshold; the i128 shift, funnel-shift, rotate and saturating templates compute the LLVM instruction (about 35,500 states) |
| CallBuilder | MCCallBuilder / CallBuilder.cfg | pass | arguments stay in their registers until the call, no value lost across the call (about 324,000 states) |
| Labels | MCLabels / Labels.cfg | pass | every reference patched to its own label across interleaved references and placements; fixup chains and free list disjoint (about 135,000 states) |
| VeneersNoIsland | Veneers / VeneersNoIsland.cfg | violation | a function that fits its first reservation gets no island, and a far TBZ is patched out of range |
| VeneersSlots | Veneers / VeneersSlots.cfg | violation | a branch right after an exhausted island is sent into it and overwrites itself |
| ScratchWrapper | MCScratchWrapper / ScratchWrapper.cfg | pass | the scratch wrappers of the PHI moves never clobber a value in a register, every move reads its value, the register state is restored at the end (about 670,000 states) |
| RegAlloc | MCRegAlloc / RegAlloc.cfg | pass | register file consistency, values in place across branches and back edges, operands not evicted, no lost value, fixed-count balance, everything freed, no register exhaustion (about 19,500 states) |
| Driver | MCDriver / Driver.cfg | pass | two modules with a reset between: a bad thread-local global never compiles successfully, and switch_func numbers, expands, keeps PHI ranges and ends its restarts; the type caches match LLVM's layout and every function with a bad type is rejected (about 218,000 states) |
| SwitchFuncBad | MCSwitchFunc / SwitchFuncBad.cfg | violation | the insertvalue built for a struct of a data-only vector is never numbered |
| PartIndex | MCPartIndex / PartIndex.cfg | violation | the part lookup of an index list is wrong for structs with zero-sized members |

### Findings

**An inserted insertvalue is never numbered.** `fixup_constant` never
sets `ins_begin` for the `InsertValueInst`s it builds for a
`ConstantAggregate` (`LLVMAdaptor.cpp` 144-157). `ins_begin` is taken only
from the operands' fixups. Take a struct whose only fixed-up operand is a
`ConstantVector` of undef and data, such as `{ <i32 undef, i32 1> }`. The
vector folds to a data vector and returns no instruction, so the struct
returns `{insertvalue, nullptr}`. `handle_inst_in_block` then has no
`restart_from`, and the loop steps past the user. The insertvalue before it
is never numbered. `inst_lookup_idx` (`LLVMAdaptor.hpp` 575) asserts in a
debug build and reads an unset index in a release build. TLC's trace ends
with `nvals` one short and the insertvalue's index unset.

**Cycle breaking saves the PHI, not its source.** The spec (PHI resolution, step 3) says a cycle is broken by
copying "the chosen PHI's source" into a temporary. The code, and the model,
copy the chosen PHI's own current value. Copying the source would be wrong:
`BreakCycleSavesSource`, the mutant used for `PhiMovesCorrect`, does exactly
that, and TLC finds the swap cycle resolved incorrectly.

**An exhausted veneer island captures the next branch.** `handle_fixups`
advances each island's entry in `veneers` as it uses the island's slots, and
finds a branch's island with `std::lower_bound(veneers, fixup.off)`
(`FunctionWriterA64.hpp` 103). When the island's slots are used up, its entry
equals the offset just past it. That offset is where the instruction lands
whose `ensure_space` wrote the island. If that instruction is an
out-of-range TBZ or CBZ, it is sent into the exhausted island, and the veneer
`B` is written over the branch itself. The assertion on the slot fails in a
debug build; a release build emits a wrong branch. TLC's trace: a TBZ at
20 and one at 52 both branch to a label at 128 (test range 64). The first
takes the slot at 48, the only slot of the island written at 44, and the
second is then sent to 52.

**Zero-sized members break the part lookup.** `complex_types_append`
appends no part for a zero-sized member, such as `{}` or `[0 x i8]`.
`complex_part_for_index` counts struct members by the `ends_value` flags of
the parts, so a zero-sized member shifts every later index. Take
`{[0 x i8], i32, i64}`. Index 1 returns the i64 part, not the i32 part, and
index 2 reaches `assert(0)` and returns (0, 0). For
`{i32, [2 x {}], i64}` it is worse. The array case tests `nelem > 0`, but
the element added no part, so `nest_inc` is written at `len`, past the end,
and the array's `nest_dec` is added to the i32 part. Looking up index 2
then closes the struct after the i32. The empty index vector is shrunk by
one (line 746), and the `size_t` wraps. The header (`LLVMAdaptor.hpp`,
above `complex_part_for_index`) promises the first and the last part of
the element. TLC's trace is the second case.

**No island when the function fits its first reservation.** (Run
`VeneersNoIsland`.) `compile_func`
reserves `8*num_insts+0x40` bytes before the prologue. `more_space` considers
an island only when it is called, and it returns early while no branch is
counted. A function whose code fits in that reservation never gets an
island. A TBZ more than 32 KiB before its label (or a CBZ more than 1 MiB)
then has no veneer: `lower_bound` returns `end()`, and the assertion at line
104 fails. Spec scenario S6 says a veneer is inserted. TLC shows it with
`Veneers` when the first reservation (`Expected`) is 96 bytes, more than
the test range of 64: a TBZ at 0 to a label at 100 gets no island and is
patched with a displacement of 100, so `CondBranchesInRange` fails.

**The eviction score ranks the nearest last use first.** `select_reg_evict`
(`CompilerBase.hpp` 1229-1256) adds `0x8000 - last_use_dist` in bits 16-30.
The comment above it lists "last use farthest away" among the preferred
victims, but this field gives the highest score to the nearest last use. The
fields also overlap:
- a distance of 0 sets bit 31, like `stack_valid`;
- for a pending free (`refs_left` = 0), the reference field's 0x10000 falls
  on bit 16. When the distance field is odd, that value ranks below one
  with a reference left.

The ranking has no effect on correctness. `RegAlloc` computes the score
as the code does, overlap included, and its safety properties hold.
`CallBuilder` lets any candidate be evicted. No run checks the heuristic
itself.

## Bounds and why they are enough

- Stack frame: request sizes {2, 8, 24}. These are a small class, the 8-byte
  class, and a large class whose 16-byte alignment creates holes after an
  8-byte slot. The prologue area is 8 bytes, as on x86-64. The run uses negative frame indexing (`FRAME_INDEXING_NEGATIVE`, x86-64). The positive indexing of AArch64 changes only the sign of each slot's offset in `FrameLayout`; `StackFrameNeg.cfg` with that constant set to FALSE and `FrameInit` 16 checks it, and no run does so now. `MaxFrame` is
  48, and growth stops there. At most 3 slots are held at once. With these
  values, holes of 8 bytes appear and are reused by the 8-byte class, both
  list kinds are used, and slots are reused across frees. Every exit of
  `allocate_stack_slot` is taken.
- PHIs: up to 5 PHIs and 1 outside value, with every incoming function. This
  covers:
  - two disjoint 2-cycles;
  - a 3-cycle with a tree reader;
  - a cycle plus a self loop;
  - chains that end outside.

  These are the shapes that distinguish the code paths: the fast paths,
  several cycle breaks in one call, and readers of a cycle node.
- PHI sort: up to 5 entries over 3 blocks, with threshold 3. This covers
  entry counts below, at and above the threshold, and multi-edges. It also
  covers heaps of depth 2, where the sift-down runs more than one turn.
- Templates: `W` = 4, `NarrowW` = 2, `IntW` = 4, every operand. The split
  shifts see 8-bit values with three amounts below the half and four at
  or above it, so every bit crosses the boundary in both directions and
  negative values reach `ashr`. The funnel shifts see amounts that are
  zero, nonzero multiples of the width and neither, at a promoted and an
  unpromoted width; the saturating templates reach both bounds from both
  signs. The code is width-generic (the same text at 8 to 64 bits), so the
  scaled widths exercise the same expressions.
- Register allocation: 4 registers, of which 2 are fixed-register
  candidates, and 1 fixed assignment. One value pinned in a fixed register
  leaves three registers, exactly enough for two locked operands and a
  scratch register, so eviction happens but exhaustion would be a real
  bug. 7 values and 7 slots, and functions of up to 6 blocks with up to 5
  definitions per block. Every branch of the handlers is taken, including:
  - eviction;
  - reload;
  - delayed free at a loop end;
  - the fixed grant;
  - the next-block exception;
  - the join that forces a spill.

  Which free stack slot a spill takes is fixed to the lowest. `StackFrame`
  checks the slot allocator itself.

- Call building: 4 registers, two argument registers, one callee-saved
  register, two argument values and a result value, and up to 3 arguments.
  With these, a third argument overflows to the stack, and the stack
  argument's scratch register must be found among registers that live
  values occupy while both argument registers are masked. A value is passed
  twice, or is in the argument register of another argument. The eviction
  victim is any candidate, since the score is checked in `RegAlloc`.
- Veneers: branch ranges of 64 (test) and 128 (conditional) bytes, two
  labels, two branches to pending labels, code chunks of 12 bytes or up to
  the end of the reserve, and buffers up to 120 bytes (beyond, the fatal
  size is reached). Growth steps are 16, 24, 36 and then the cap, 48. Two
  branches are enough for an island to be exhausted
  and for both counters to be mixed. `VeneersSlots` starts with a
  16-byte reservation; `VeneersNoIsland` with 96 bytes, more than the test
  range, as `8 * num_insts + 0x40` is more than 32 KiB for a function of
  about 4,000 instructions.
- Scratch registers: three general-purpose registers, one of them held by
  a value with a fixed assignment, and one floating-point register; three
  general-purpose values and one floating-point value; up to 5 steps
  before the destructors. The two non-fixed general-purpose registers are
  fewer than the three wrappers, so wrappers borrow values' registers. A
  floating-point constant makes the scratch wrapper switch bank and reset
  mid-call. Two-part cycle temporaries use both `tmp_reg1` and `tmp_reg2`.
  When a bank has no non-fixed register left, the code's `TPDE_FATAL` path
  disables the step; real banks have far more registers than fixed values
  plus three.
- Labels: 3 labels and a 16-byte section (4 reference sites), with
  symmetry over the labels (safety only). Entries are recycled when a label
  with two references is placed before another label is referenced, so a
  chain made of reused entries, in reverse order, is walked; both fixup
  kinds occur.

- Driver and switch_func: two modules and three function bodies. A body
  has two blocks: an alloca, an instruction with a constant operand, a
  compare and a branch; then a PHI with a multi-edge from block 1 and an
  edge from itself, and a terminator. The eight constant trees hold a
  global, data, undef, a nested expression, a vector with a global, a
  data-only vector, structs with an expression or a vector, and a struct
  that stays. So fixups land before a compare and right after a PHI of a
  self-looping block. The second function has three blocks; the PHI of the
  third expands a struct into the second right after that block's PHI,
  after its `phi_end` was stored. Restarts nest, multi-edges are replaced together,
  and the three-entry PHI is sorted (threshold 3). Two globals and one
  argument; `MaxIds` 24 is above every id these functions reach. The
  second function and the second module see the values the previous one
  left, which is where a missing resize or reset shows.
- Types in the driver: 13 instruction types and 4 signature types. These
  cover a rounded integer (i24), an invalid integer (i99), a v128 vector, a
  struct with padding, a packed struct (incompatible), an array whose
  element has tail padding, a vector of three elements (complex, stored
  as 16 bytes), a zero-length array member, i128 (16-byte alignment),
  nested structs, an `<2 x i1>` vector and a vector of non-default
  address-space pointers (invalid). A second function of the same module
  reuses a cached type.
- Part lookup: the eight types of `MCPartIndex` and every index path into
  each. They cover nesting, arrays of structs, vectors, and zero-sized
  members in first, middle and nested places. `StoreCap` 4 is above the
  deepest nesting any of these types reaches (16 in the code).

## Fairness

`PhiMoves` assumes weak fairness of `Next`. The procedure runs sequentially on
the compiler thread, so once called it keeps taking steps. The stack-frame
specs check safety only and assume no fairness. `PhiSort` (in `MCAlgorithms`), `RegAlloc` and
`CallBuilder` assume weak fairness of `Next` for the same reason: sorting a PHI and
compiling a function are sequential loops on one thread. `Labels` assumes no fairness and does not check deadlock: the section
is bounded, so the model stops once it is full and every label is placed.
Deadlock is not checked for
`PhiMoves`, because the final state of one call is the procedure's return.
`Driver` and `SwitchFunc` check safety only and assume no fairness, and
deadlock is not checked because the last `compile` returns. Termination
of the instruction loop's restarts is stated as a measure that decreases
on every step (`RestartsTerminate`), a safety property. The liveness form
needs TLC to evaluate the recursive fixups inside `ENABLED`, which is too
slow.

## Not modelled, and why

- Instruction encoding, ELF layout and `tpde-llc`: these are byte
  formatting or I/O, with no interleaving or protocol.
- The rest of `encode_template.c`: a template that is one C operator or
  builtin (add, mul, div, bswap, ctpop, ctlz, the `*_overflow` wrappers)
  means what the C compiler makes of it, so a model would restate it; the
  float, vector, conversion and atomic templates need IEEE arithmetic or
  lane layouts that TLC's integers do not express. Which template the
  LLVM compiler picks for an instruction (for example `_lt64` or `_ge64`
  for a shift amount) is decided outside `src/`.
- The analyzer (block layout, liveness): its source is not under `src/`. The
  models take liveness facts as inputs.
- In `switch_func`, these are not modelled:
  - the types of the instructions `fixup_constant` inserts (each gets a
    basic type, which does not touch the caches);
  - the rewriting of thread-local uses (reduced to the flag `badTLS`);
  - the successor index ranges.
- In the type lowering, these are not modelled:
  - a function argument or return of an invalid type. The source reaches
    `TPDE_UNREACHABLE` in `check_type_compatibility` (`LLVMAdaptor.hpp`
    about 746) in place of reporting. A run would need one more slot.
  - part counts above 2^16 and nesting of 16 levels or more (the `u16`
    and 4-bit fields): the operators keep the widths, but no bound reaches
    them.
  - The header `LLVMAdaptor.hpp` declares a `lower_simple_type` with
    another signature and enum than the `.cpp` defines. The model follows
    the `.cpp`.
- `arm64/AssemblerElfA64.cpp` is data (relocation tables and names), with
  no state to model.
- In the driver, these are not modelled:
  - symbols, labels, the analyzer and the text writer;
  - `CompilerBase::reset`'s clears of the stack free lists and the
    assembler (`StackFrame` resets the free lists per function).
- In register allocation, these are not modelled:
  - multi-part values, variable references and several register banks;
  - register salvaging in `set_value`;
  - `try_force_fixed_assignment`, which is false by default.

  The register file, `ValuePartRef` and the `ValueRef` destructors are not
  under `src/`; their definitions are marked spec-modelled in `PROJECT.json`.

## Plan (next steps, most important first)

1. The eviction score's field overlap in `RegAlloc`. (A free with a size
   of another class than the allocation is not a case to model: every
   caller passes the allocation's own size.)
2. Multi-part values and several register banks in `RegAlloc`.
3. A run for an argument of an invalid type, which reaches
   `TPDE_UNREACHABLE` in `check_type_compatibility`, and the types of the
   instructions `fixup_constant` inserts.
4. `val_parts` and insertvalue/extractvalue in the instruction pass,
   built on `PartIndex`.
