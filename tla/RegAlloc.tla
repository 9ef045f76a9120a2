------------------------------ MODULE RegAlloc ------------------------------
(***************************************************************************)
(* Register allocation of CompilerBase across one function: the value      *)
(* assignments (init_assignment, free_assignment, release_assignment and   *)
(* the delayed-free lists), the register file, ScratchReg, select_reg with *)
(* eviction, spill/evict_reg/free_reg, set_value, and the block-end        *)
(* protocol (spill_before_branch, release_spilled_regs,                    *)
(* release_regs_after_return, the delayed frees of compile_block).         *)
(*                                                                         *)
(* One register bank; every value has one part.  A program is a layout of  *)
(* blocks; an instruction defines at most one value, reads a set of       *)
(* values and may need its result in a given register.  Besides the       *)
(* compiler's own state, the model tracks what the                        *)
(* generated code holds at run time: `mreg` and `mslot` give the value a   *)
(* register or a stack slot holds at the current point of the code, and at *)
(* a block start they are the meet over the exits of the block's forward   *)
(* predecessors (`exitM`).  Loop back edges are checked against the        *)
(* compiler's assumptions recorded at the header (`belief`).               *)
(***************************************************************************)
EXTENDS Integers, Sequences, FiniteSets

CONSTANTS
  Vals,       \* the function's values (local indices)
  Regs,       \* registers of the bank, as numbers (ascending = bit order)
  FixedCand,  \* registers select_fixed_assignment_reg may return
  NUM_FIXED,  \* Derived::NUM_FIXED_ASSIGNMENTS of the bank
  Slots,      \* stack slots allocate_stack_slot may return (non-zero)
  Programs    \* the functions compiled: see Program below

NONE == 0            \* no register / no slot / no value
INVALID == -1       \* INVALID_VAL_LOCAL_IDX: a register owned by a ScratchReg

ASSUME NONE \notin Vals \cup Regs \cup Slots

(***************************************************************************)
(* A program: `insts[b]` is the sequence of instructions of block b (in    *)
(* layout order, b = 0 .. NB-1), each [def |-> value or NONE, uses |->     *)
(* set of values, res |-> the register the encoder needs the result in,    *)
(* or NONE]; `succ[b]` the successors of b's terminator (empty for a       *)
(* return); `loopOf[b]` the innermost loop of b, and `loops[l]` a loop's   *)
(* [begin, end) range in the layout, its parent and definitions_in_childs. *)
(* Loop 0 is the whole function.                                           *)
(***************************************************************************)
\* Analyzer (not under src/): the block of the definition and of every use.
DefBlock(P, v) ==
  CHOOSE b \in DOMAIN P.insts : \E i \in DOMAIN P.insts[b] : P.insts[b][i].def = v
UseBlocks(P, v) ==
  {b \in DOMAIN P.insts : \E i \in DOMAIN P.insts[b] : v \in P.insts[b][i].uses}
InLoop(P, b, l) == P.loops[l].begin <= b /\ b < P.loops[l].end

(***************************************************************************)
(* Liveness as the analyzer computes it: a use inside a loop that does not *)
(* contain the definition extends the range to the end of the outermost    *)
(* such loop, and then last_full is set (the free must wait for the end of *)
(* that block); otherwise the range ends at the use.                       *)
(***************************************************************************)
ExtLoops(P, v, u) ==
  {l \in DOMAIN P.loops : InLoop(P, u, l) /\ ~InLoop(P, DefBlock(P, v), l)}
UseEnd(P, v, u) ==
  IF ExtLoops(P, v, u) = {} THEN u
  ELSE LET outer == CHOOSE l \in ExtLoops(P, v, u) :
                      \A m \in ExtLoops(P, v, u) : P.loops[m].end <= P.loops[l].end
       IN P.loops[outer].end - 1
LastOf(P, v) ==
  LET ends == {UseEnd(P, v, u) : u \in UseBlocks(P, v)} \cup {DefBlock(P, v)}
  IN CHOOSE e \in ends : \A f \in ends : f <= e
LastFullOf(P, v) ==
  \E u \in UseBlocks(P, v) : ExtLoops(P, v, u) # {} /\ UseEnd(P, v, u) = LastOf(P, v)
\* Operand occurrences plus the implicit reference of the definition.
RefCountOf(P, v) ==
  1 + Cardinality(UNION {{<<b, i>> : i \in {j \in DOMAIN P.insts[b] : v \in P.insts[b][j].uses}}
                         : b \in DOMAIN P.insts})
Defined(P) ==
  UNION {{P.insts[b][i].def : i \in DOMAIN P.insts[b]} : b \in DOMAIN P.insts} \ {NONE}

\* A program together with the analyzer's liveness of its values.
Analyzed(P) ==
  [insts |-> P.insts, succ |-> P.succ, loopOf |-> P.loopOf, loops |-> P.loops,
   last  |-> [v \in Defined(P) |-> LastOf(P, v)],
   full  |-> [v \in Defined(P) |-> LastFullOf(P, v)],
   refs  |-> [v \in Defined(P) |-> RefCountOf(P, v)]]

VARIABLES prog

Blk == DOMAIN prog.insts
NB == Cardinality(Blk)
Insts(b) == prog.insts[b]
Preds(s) == {p \in Blk : s \in prog.succ[p]}
Last(v) == prog.last[v]
LastFull(v) == prog.full[v]
RefCount(v) == prog.refs[v]
DefsInChilds(b) == prog.loops[prog.loopOf[b]].dic
HasMultipleIncoming(s) == Cardinality(Preds(s)) > 1

VARIABLES
  blk, ip, pc,   \* cur_block_idx, the instruction being compiled, its phase
  va,            \* assignments: value -> record, st = "none" when value_ptrs is null
  rf,            \* register file: reg -> [used, owner, lock, fixed]
  fixedCount,    \* assignments.cur_fixed_assignment_count
  delayed,       \* assignments.delayed_free_lists: block -> set of values
  loaded,        \* value -> register of a locked ValuePartRef of this instruction
  scratch,       \* the ScratchReg of the instruction's result
  resInit,       \* the result's assignment exists (result_ref done)
  mreg, mslot,   \* run time: the value a register / a stack slot holds
  exitM,         \* run time state at the end of each compiled block
  belief         \* compiler's register/slot assumptions at each block start

vars == <<prog, blk, ip, pc, va, rf, fixedCount, delayed, loaded, scratch,
          resInit, mreg, mslot, exitM, belief>>

Cur == Insts(blk)[ip]
CurDef == Cur.def

NoAssignment == [st |-> "none", refs |-> 0, rv |-> FALSE, reg |-> NONE,
                 sv |-> FALSE, modified |-> FALSE, fixed |-> FALSE, slot |-> NONE]
FreeReg == [used |-> FALSE, owner |-> INVALID, lock |-> 0, fixed |-> FALSE]

-----------------------------------------------------------------------------
(* Register file (RegisterFile is not under src/; from its description)  *)

\* inc_lock_count: the first hold marks the register fixed.
IncLock(f, r) == [f EXCEPT ![r].lock = @ + 1, ![r].fixed = TRUE]
\* dec_lock_count: the last release unmarks it.
DecLock(f, r) == [f EXCEPT ![r].lock = @ - 1, ![r].fixed = f[r].fixed /\ f[r].lock # 1]
MarkUsed(f, r, v) == [f EXCEPT ![r].used = TRUE, ![r].owner = v]
UnmarkUsed(f, r) == [f EXCEPT ![r] = FreeReg]

\* find_first_free_excluding(bank, 0): the lowest free register.
FreeRegs == {r \in Regs : ~rf[r].used}
FirstFree == CHOOSE r \in FreeRegs : \A q \in FreeRegs : r <= q

-----------------------------------------------------------------------------
(* Eviction and spilling *)

(***************************************************************************)
(* The eviction score of select_reg_evict as the u32 the code computes,    *)
(* kept as <<bit 31, bits 0..30>> (TLC integers are 32-bit signed).  The   *)
(* fields are combined with |, so a distance of 0 sets bit 31 like         *)
(* stack_valid does, and refs_left = 0 sets bit 16, the low bit of the     *)
(* distance field (the | of that bit is written out below).                *)
(***************************************************************************)
Score(v) ==
  LET dist     == Last(v) - blk
      distPart == IF 0 <= dist /\ dist < 2^15 THEN 2^15 - dist ELSE 0
      refsLeft == IF va[v].st = "pending" THEN 0 ELSE va[v].refs
      refPart  == IF refsLeft < 2^16 - 1 THEN 2^16 - refsLeft ELSE 1
      low      == (distPart % 2^15) * 2^16
  IN <<va[v].sv \/ distPart = 2^15,
       IF refPart = 2^16 /\ distPart % 2 = 1 THEN low ELSE low + refPart>>

ScoreGreater(a, b) == (a[1] /\ ~b[1]) \/ (a[1] = b[1] /\ a[2] > b[2])

\* Candidates: used registers that are not fixed (locked or scratch).
\* A mutant: locked registers and scratch registers are candidates too.
EvictCandsAnyUsed == {r \in Regs : rf[r].used}

EvictCands == {r \in Regs : rf[r].used /\ ~rf[r].fixed}

\* The first candidate (ascending register) whose score no later one exceeds.
select_reg_evict ==
  CHOOSE r \in EvictCands :
    /\ \A q \in EvictCands : q < r => ScoreGreater(Score(rf[r].owner), Score(rf[q].owner))
    /\ \A q \in EvictCands : q > r => ~ScoreGreater(Score(rf[q].owner), Score(rf[r].owner))

(***************************************************************************)
(* The slot allocate_spill_slot gives value v: its own once it has one,    *)
(* else a slot no assignment holds (the lowest: which free slot is taken   *)
(* matters only through reuse, and StackFrame checks that a slot is never  *)
(* handed out twice).                                                      *)
(***************************************************************************)
FreeSlots == Slots \ {va[w].slot : w \in Vals}
SlotChoices(v) ==
  IF va[v].sv \/ va[v].slot # NONE THEN {va[v].slot}
  ELSE {CHOOSE s \in FreeSlots : \A q \in FreeSlots : s <= q}

\* spill(ap): a no-op when stack-valid, else store the register to the slot.
SpillVa(a, s) ==
  IF a.sv THEN a ELSE [a EXCEPT !.slot = s, !.sv = TRUE, !.modified = FALSE]
SpillMem(ms, a, s) == IF a.sv THEN ms ELSE [ms EXCEPT ![s] = mreg[a.reg]]

\* evict_reg(reg): spill the owner, then drop it from the register.
EvictVa(a, s) == [SpillVa(a, s) EXCEPT !.rv = FALSE]

\* ScratchReg::alloc for the result: select_reg, then mark used and fixed.
AllocScratch ==
  /\ pc = "prep" /\ CurDef # NONE /\ resInit /\ scratch = NONE /\ Cur.res = NONE
  /\ \A u \in Cur.uses : loaded[u] # NONE
  /\ \/ /\ FreeRegs # {}
        /\ rf' = [MarkUsed(rf, FirstFree, INVALID) EXCEPT ![FirstFree].fixed = TRUE]
        /\ scratch' = FirstFree
        /\ UNCHANGED <<va, mslot, pc>>
     \/ /\ FreeRegs = {} /\ EvictCands # {}
        /\ LET r == select_reg_evict
               w == rf[r].owner
           IN \E s \in SlotChoices(w) :
                /\ va' = [va EXCEPT ![w] = EvictVa(@, s)]
                /\ mslot' = SpillMem(mslot, va[w], s)
                /\ rf' = [MarkUsed(rf, r, INVALID) EXCEPT ![r].fixed = TRUE]
                /\ scratch' = r
                /\ UNCHANGED pc
     \/ /\ FreeRegs = {} /\ EvictCands = {}
        /\ pc' = "fatal"  \* TPDE_FATAL("ran out of registers ...")
        /\ UNCHANGED <<va, rf, mslot, scratch>>
  /\ UNCHANGED <<prog, blk, ip, fixedCount, delayed, loaded, resInit, mreg,
                 exitM, belief>>

(***************************************************************************)
(* ScratchReg::alloc_specific for the result of an instruction whose       *)
(* encoder needs it in register res: the register is asserted not fixed,   *)
(* its owner is evicted (spilled), and the scratch takes it.               *)
(***************************************************************************)
AllocScratchSpecific ==
  LET r == Cur.res IN
  /\ pc = "prep" /\ CurDef # NONE /\ resInit /\ scratch = NONE /\ r # NONE
  /\ \A u \in Cur.uses : loaded[u] # NONE
  /\ ~rf[r].fixed
  /\ IF rf[r].used
       THEN LET w == rf[r].owner IN
            \E s \in SlotChoices(w) :
              /\ va' = [va EXCEPT ![w] = EvictVa(@, s)]
              /\ mslot' = SpillMem(mslot, va[w], s)
       ELSE UNCHANGED <<va, mslot>>
  /\ rf' = [MarkUsed(rf, r, INVALID) EXCEPT ![r].fixed = TRUE]
  /\ scratch' = r
  /\ UNCHANGED <<prog, blk, ip, pc, fixedCount, delayed, loaded, resInit, mreg,
                 exitM, belief>>

\* The value a slot holds at run time (nothing for the absent slot).
SlotVal(ms, s) == IF s \in Slots THEN ms[s] ELSE NONE

-----------------------------------------------------------------------------
(* One instruction: result_ref, operand loads and the scratch register in *)
(* the order the instruction's encoder takes them, the emitted code,      *)
(* set_value, and the destructors at the end of compile_inst.             *)

\* A mutant: the quota test of the fixed grant admits one more.
TryFixedLe(d) == Last(d) > blk /\ DefsInChilds(blk) + fixedCount <= NUM_FIXED

\* try_fixed: the value outlives the block and the quota leaves room for the
\* definitions of child loops.
TryFixed(d) == Last(d) > blk /\ DefsInChilds(blk) + fixedCount < NUM_FIXED

\* init_assignment for the instruction's result, with the fixed-register grant.
InitResult ==
  LET d        == CurDef
      tryFixed == TryFixed(d)
  IN
  /\ pc = "prep" /\ d # NONE /\ ~resInit
  /\ \E reg \in IF tryFixed THEN FixedCand \cup {NONE} ELSE {NONE} :
       LET grant == reg # NONE /\ ~rf[reg].used IN
       /\ va' = [va EXCEPT ![d] = [NoAssignment EXCEPT !.st = "live",
                                     !.refs = RefCount(d), !.rv = grant,
                                     !.reg = IF grant THEN reg ELSE NONE,
                                     !.fixed = grant]]
       /\ rf' = IF grant THEN IncLock(MarkUsed(rf, reg, d), reg) ELSE rf
       /\ fixedCount' = IF grant THEN fixedCount + 1 ELSE fixedCount
  /\ resInit' = TRUE
  /\ UNCHANGED <<prog, blk, ip, pc, delayed, loaded, scratch, mreg, mslot,
                 exitM, belief>>

(***************************************************************************)
(* ValuePartRef::load_to_reg of an operand: lock the register it is in,    *)
(* or select_reg (the lowest free register, else evict the best-scoring    *)
(* unfixed one, spilling it) and reload_to_reg from the spill slot.        *)
(***************************************************************************)
LoadOp(v) ==
  /\ pc = "prep" /\ v \in Cur.uses /\ loaded[v] = NONE
  /\ CurDef # NONE => resInit
  /\ \/ /\ va[v].rv
        /\ rf' = IncLock(rf, va[v].reg)
        /\ loaded' = [loaded EXCEPT ![v] = va[v].reg]
        /\ UNCHANGED <<va, mreg, mslot, pc>>
     \/ /\ ~va[v].rv /\ FreeRegs # {}
        /\ va' = [va EXCEPT ![v].rv = TRUE, ![v].reg = FirstFree]
        /\ mreg' = [mreg EXCEPT ![FirstFree] = SlotVal(mslot, va[v].slot)]
        /\ rf' = IncLock(MarkUsed(rf, FirstFree, v), FirstFree)
        /\ loaded' = [loaded EXCEPT ![v] = FirstFree]
        /\ UNCHANGED <<mslot, pc>>
     \/ /\ ~va[v].rv /\ FreeRegs = {} /\ EvictCands # {}
        /\ LET r == select_reg_evict
               w == rf[r].owner
           IN \E s \in SlotChoices(w) :
                /\ va' = [va EXCEPT ![w] = EvictVa(@, s), ![v].rv = TRUE, ![v].reg = r]
                /\ mslot' = SpillMem(mslot, va[w], s)
                /\ mreg' = [mreg EXCEPT ![r] = SlotVal(mslot', va[v].slot)]
                /\ rf' = IncLock(MarkUsed(rf, r, v), r)
                /\ loaded' = [loaded EXCEPT ![v] = r]
                /\ UNCHANGED pc
     \/ /\ ~va[v].rv /\ FreeRegs = {} /\ EvictCands = {}
        /\ pc' = "fatal"
        /\ UNCHANGED <<va, rf, mreg, mslot, loaded>>
  /\ UNCHANGED <<prog, blk, ip, fixedCount, delayed, scratch, resInit, exitM, belief>>

\* The emitted instruction reads its operands and writes the scratch register.
Emit ==
  /\ pc = "prep"
  /\ \A u \in Cur.uses : loaded[u] # NONE
  /\ CurDef # NONE => scratch # NONE /\ resInit
  /\ mreg' = IF CurDef # NONE THEN [mreg EXCEPT ![scratch] = CurDef] ELSE mreg
  /\ pc' = IF CurDef # NONE THEN "emitted" ELSE "set"
  /\ UNCHANGED <<prog, blk, ip, va, rf, fixedCount, delayed, loaded, scratch,
                 resInit, mslot, exitM, belief>>

\* set_value(result, scratch).
set_value ==
  LET d == CurDef
      a == va[d]
  IN
  /\ pc = "emitted"
  /\ \/ /\ a.fixed
        /\ mreg' = IF a.reg # scratch THEN [mreg EXCEPT ![a.reg] = mreg[scratch]] ELSE mreg
        /\ va' = [va EXCEPT ![d].rv = TRUE, ![d].modified = TRUE]
        /\ UNCHANGED <<rf, scratch>>
     \/ /\ ~a.fixed /\ a.rv /\ a.reg = scratch
        /\ va' = [va EXCEPT ![d].modified = TRUE]
        /\ UNCHANGED <<rf, scratch, mreg>>
     \/ /\ ~a.fixed /\ ~(a.rv /\ a.reg = scratch)
        /\ LET f == IF a.rv THEN UnmarkUsed(rf, a.reg) ELSE rf IN
           rf' = [f EXCEPT ![scratch].fixed = FALSE, ![scratch].owner = d]
        /\ va' = [va EXCEPT ![d].reg = scratch, ![d].rv = TRUE, ![d].modified = TRUE]
        /\ scratch' = NONE
        /\ UNCHANGED mreg
  /\ pc' = "set"
  /\ UNCHANGED <<prog, blk, ip, fixedCount, delayed, loaded, resInit, mslot,
                 exitM, belief>>

\* free_assignment of every value of F: registers (and fixed holds) dropped.
FreedVa(a, F) == [v \in Vals |-> IF v \in F THEN NoAssignment ELSE a[v]]
FreedRf(f, a, F) ==
  [r \in Regs |-> IF \E v \in F : (a[v].fixed \/ a[v].rv) /\ a[v].reg = r
                  THEN FreeReg ELSE f[r]]
\* A mutant: freeing a fixed assignment leaves the count alone.
FreedFixedNoDec(n, a, F) == n

FreedFixed(n, a, F) == n - Cardinality({v \in F : a[v].fixed})

\* release_assignment: values with delay_free wait for the end of block Last.
\* A mutant: delay_free is ignored.
DelayedNone(F) == {}

Delayed(F) == {v \in F : LastFull(v)}

\* A mutant: the entry goes on the list of the block before liveness.last.
DelayedBlockBefore(v) == Last(v) - 1

\* The delayed-free list an entry goes on: that of liveness.last.
DelayedBlock(v) == Last(v)

(***************************************************************************)
(* The end of compile_inst: the ScratchReg is reset, the ValuePartRefs     *)
(* unlock their registers, and the ValueRefs of the operands and of the    *)
(* result drop a reference each; a value reaching zero is released.        *)
(***************************************************************************)
EndInst ==
  LET refd == Cur.uses \cup (IF CurDef # NONE THEN {CurDef} ELSE {})
      a1   == [v \in Vals |-> IF v \in refd THEN [va[v] EXCEPT !.refs = @ - 1] ELSE va[v]]
      zero == {v \in refd : a1[v].refs = 0}
      keep == Delayed(zero)
      f1   == IF scratch # NONE THEN UnmarkUsed(rf, scratch) ELSE rf
      f2   == [r \in Regs |-> IF \E u \in Cur.uses : loaded[u] = r
                              THEN DecLock(f1, r)[r] ELSE f1[r]]
  IN
  /\ pc = "set"
  /\ va' = [v \in Vals |-> IF v \in keep THEN [a1[v] EXCEPT !.st = "pending"]
                           ELSE FreedVa(a1, zero \ keep)[v]]
  /\ rf' = FreedRf(f2, a1, zero \ keep)
  /\ fixedCount' = FreedFixed(fixedCount, a1, zero \ keep)
  /\ delayed' = [b \in Blk |-> delayed[b] \cup {v \in keep : DelayedBlock(v) = b}]
  /\ ip' = ip + 1
  /\ pc' = IF ip + 1 <= Len(Insts(blk)) THEN "prep" ELSE "term"
  /\ loaded' = [v \in Vals |-> NONE]
  /\ scratch' = NONE
  /\ resInit' = FALSE
  /\ UNCHANGED <<prog, blk, mreg, mslot, exitM, belief>>

-----------------------------------------------------------------------------
(* The end of a block *)

INVALID_BLOCK_IDX == 2^30

(***************************************************************************)
(* spill_before_branch(false): which values to store before the branch and *)
(* which registers the successors cannot rely on.                          *)
(***************************************************************************)
NextIsSucc == blk + 1 \in prog.succ[blk]
MustSpill == ~NextIsSucc \/ HasMultipleIncoming(blk + 1)
EarliestNextSucc ==
  LET later == {t \in prog.succ[blk] : t > blk /\ t # blk + 1}
  IN IF later = {} THEN INVALID_BLOCK_IDX
     ELSE CHOOSE t \in later : \A q \in later : t <= q
NoSpillAtAll == Cardinality(prog.succ[blk]) = 1 /\ ~MustSpill
\* Registers held by values (not scratch) without a fixed assignment.
BranchRegs == {r \in Regs : rf[r].used /\ rf[r].owner # INVALID /\ ~va[rf[r].owner].fixed}
ReleaseRegs == IF MustSpill THEN BranchRegs ELSE {}
\* A mutant: a value last used in the earliest other successor is not stored.
SpillValsStrict ==
  IF NoSpillAtAll THEN {}
  ELSE {rf[r].owner : r \in {q \in BranchRegs :
          LET v == rf[q].owner IN
          /\ va[v].modified
          /\ Last(v) > blk
          /\ (MustSpill \/ EarliestNextSucc < Last(v))}}

\* A mutant: must_spill does not force the stores.
SpillValsNoForce ==
  IF NoSpillAtAll THEN {}
  ELSE {rf[r].owner : r \in {q \in BranchRegs :
          LET v == rf[q].owner IN
          /\ va[v].modified
          /\ Last(v) > blk
          /\ EarliestNextSucc <= Last(v)}}

SpillVals ==
  IF NoSpillAtAll THEN {}
  ELSE {rf[r].owner : r \in {q \in BranchRegs :
          LET v == rf[q].owner IN
          /\ va[v].modified
          /\ Last(v) > blk
          /\ (MustSpill \/ EarliestNextSucc <= Last(v))}}

\* The spill stores of spill_before_branch, with slots for the values lacking one.
SpillAll(V, sl) ==
  [v \in Vals |-> IF v \in V THEN SpillVa(va[v], sl[v]) ELSE va[v]]
SpillAllMem(V, sl) ==
  [s \in Slots |-> IF \E v \in V : ~va[v].sv /\ sl[v] = s
                   THEN mreg[va[CHOOSE v \in V : ~va[v].sv /\ sl[v] = s].reg]
                   ELSE mslot[s]]
\* The loop over used registers spills in ascending register order, each
\* value without a slot taking the lowest slot still free.
SlotPicks(V) ==
  LET need    == {v \in V : ~va[v].sv /\ va[v].slot = NONE}
      rank(v) == Cardinality({w \in need : va[w].reg < va[v].reg})
      kth(k)  == CHOOSE s \in FreeSlots : Cardinality({q \in FreeSlots : q < s}) = k
  IN {[v \in V |-> IF v \in need THEN kth(rank(v)) ELSE va[v].slot]}

\* free_reg on each register: the value is no longer in a register.
FreeRegsOf(a, R) == [v \in Vals |-> IF a[v].rv /\ a[v].reg \in R
                                    THEN [a[v] EXCEPT !.rv = FALSE] ELSE a[v]]
\* A mutant: free_reg leaves the register marked used.
FreeRegsRfKeep(f, R) == f

FreeRegsRf(f, R) == [r \in Regs |-> IF r \in R THEN FreeReg ELSE f[r]]

(***************************************************************************)
(* A branch terminator: spill_before_branch, the jump, then                *)
(* release_spilled_regs on the returned set (free_reg of each register     *)
(* still used and not fixed).  The code reaching the successors is the     *)
(* state after the stores.                                                 *)
(***************************************************************************)
Branch ==
  /\ pc = "term" /\ prog.succ[blk] # {}
  /\ \E sl \in SlotPicks(SpillVals) :
       LET a1  == SpillAll(SpillVals, sl)
           ms  == SpillAllMem(SpillVals, sl)
           rel == {r \in ReleaseRegs : rf[r].used /\ ~rf[r].fixed}
       IN /\ va' = FreeRegsOf(a1, rel)
          /\ rf' = FreeRegsRf(rf, rel)
          /\ mslot' = ms
          /\ exitM' = [exitM EXCEPT ![blk] = [reg |-> mreg, slot |-> ms, done |-> TRUE]]
  /\ pc' = "blockend"
  /\ UNCHANGED <<prog, blk, ip, fixedCount, delayed, loaded, scratch, resInit,
                 mreg, belief>>

\* A return: RetBuilder::ret ends with release_regs_after_return.
release_regs_after_return ==
  LET rel == {r \in Regs : rf[r].used /\ ~rf[r].fixed} IN
  /\ pc = "term" /\ prog.succ[blk] = {}
  /\ va' = FreeRegsOf(va, rel)
  /\ rf' = FreeRegsRf(rf, rel)
  /\ exitM' = [exitM EXCEPT ![blk] = [reg |-> mreg, slot |-> mslot, done |-> TRUE]]
  /\ pc' = "blockend"
  /\ UNCHANGED <<prog, blk, ip, fixedCount, delayed, loaded, scratch, resInit,
                 mreg, mslot, belief>>

\* What the compiler assumes registers and slots hold.
Beliefs(a) ==
  [reg  |-> {<<v, a[v].reg>>  : v \in {w \in Vals : a[w].st # "none" /\ a[w].rv}},
   slot |-> {<<v, a[v].slot>> : v \in {w \in Vals : a[w].st # "none" /\ a[w].sv}}]

\* Run time state on entry of s: where all forward predecessors agree.
Meet(s, field, D) ==
  LET fp == {p \in Preds(s) : p < s} IN
  [x \in D |-> IF fp # {} /\ \E y \in Vals : \A p \in fp : exitM[p][field][x] = y
               THEN exitM[CHOOSE p \in fp : TRUE][field][x] ELSE NONE]

(***************************************************************************)
(* The end of compile_block: free the assignments queued on this block's  *)
(* delayed-free list; compile_func then compiles the next block or ends.  *)
(***************************************************************************)
FinishBlock ==
  LET F  == delayed[blk]
      a1 == FreedVa(va, F)
  IN
  /\ pc = "blockend"
  /\ va' = a1
  /\ rf' = FreedRf(rf, va, F)
  /\ fixedCount' = FreedFixed(fixedCount, va, F)
  /\ delayed' = [delayed EXCEPT ![blk] = {}]
  /\ IF blk + 1 < NB
       THEN /\ blk' = blk + 1 /\ ip' = 1
            /\ pc' = IF Len(Insts(blk + 1)) > 0 THEN "prep" ELSE "term"
            /\ mreg' = Meet(blk + 1, "reg", Regs)
            /\ mslot' = Meet(blk + 1, "slot", Slots)
            /\ belief' = [belief EXCEPT ![blk + 1] = Beliefs(a1)]
       ELSE /\ pc' = "done"
            /\ UNCHANGED <<blk, ip, mreg, mslot, belief>>
  /\ UNCHANGED <<prog, loaded, scratch, resInit, exitM>>

-----------------------------------------------------------------------------

\* compile_func: fresh assignments, register file and fixed counts.
Init ==
  /\ prog \in {Analyzed(P) : P \in Programs}
  /\ blk = 0 /\ ip = 1
  /\ pc = IF Len(Insts(0)) > 0 THEN "prep" ELSE "term"
  /\ va = [v \in Vals |-> NoAssignment]
  /\ rf = [r \in Regs |-> FreeReg]
  /\ fixedCount = 0
  /\ delayed = [b \in Blk |-> {}]
  /\ loaded = [v \in Vals |-> NONE]
  /\ scratch = NONE /\ resInit = FALSE
  /\ mreg = [r \in Regs |-> NONE] /\ mslot = [s \in Slots |-> NONE]
  /\ exitM = [b \in Blk |-> [reg |-> [r \in Regs |-> NONE],
                              slot |-> [s \in Slots |-> NONE], done |-> FALSE]]
  /\ belief = [b \in Blk |-> [reg |-> {}, slot |-> {}]]

Next ==
  \/ InitResult
  \/ \E v \in Vals : LoadOp(v)
  \/ AllocScratch
  \/ AllocScratchSpecific
  \/ Emit
  \/ set_value
  \/ EndInst
  \/ Branch
  \/ release_regs_after_return
  \/ FinishBlock

\* The compiler runs sequentially: once started it keeps taking steps.
Spec == Init /\ [][Next]_vars /\ WF_vars(Next)

-----------------------------------------------------------------------------
(* Properties *)

Phases == {"prep", "emitted", "set", "term", "blockend", "done", "fatal"}
Assignment == [st : {"none", "live", "pending"}, refs : Nat, rv : BOOLEAN,
               reg : Regs \cup {NONE}, sv : BOOLEAN, modified : BOOLEAN,
               fixed : BOOLEAN, slot : Slots \cup {NONE}]

TypeOK ==
  /\ pc \in Phases
  /\ va \in [Vals -> Assignment]
  /\ rf \in [Regs -> [used : BOOLEAN, owner : Vals \cup {INVALID},
                      lock : Nat, fixed : BOOLEAN]]
  /\ fixedCount \in 0 .. NUM_FIXED
  /\ loaded \in [Vals -> Regs \cup {NONE}]
  /\ scratch \in Regs \cup {NONE}
  /\ mreg \in [Regs -> Vals \cup {NONE}] /\ mslot \in [Slots -> Vals \cup {NONE}]

\* The result of the instruction in progress, before set_value gives it a value.
Unset(v) == pc \in {"prep", "emitted"} /\ v = CurDef
Live(v) == va[v].st # "none" /\ ~Unset(v)

(***************************************************************************)
(* The register file and the assignments agree (the debug checks at the    *)
(* end of compile_block and the asserts of free_assignment): a register    *)
(* owned by a value is the register that value's assignment names, and     *)
(* back; and between blocks no scratch register is held and a fixed        *)
(* register belongs to a fixed assignment.                                 *)
(***************************************************************************)
RegFileConsistent ==
  /\ \A r \in Regs : rf[r].used /\ rf[r].owner # INVALID =>
       LET a == va[rf[r].owner] IN a.st # "none" /\ a.rv /\ a.reg = r
  /\ \A v \in Vals : va[v].st # "none" /\ va[v].rv =>
       rf[va[v].reg].used /\ rf[va[v].reg].owner = v
  /\ pc \in {"term", "blockend"} =>
       \A r \in Regs : rf[r].used =>
         rf[r].owner # INVALID /\ (rf[r].fixed => va[rf[r].owner].fixed)

(***************************************************************************)
(* Whatever the compiler assumes about a value is true of the generated    *)
(* code at that point: a value marked register-valid is in its register,   *)
(* a value marked stack-valid is in its spill slot.  At a block start the  *)
(* code's state is what all forward predecessors agree on, so this also    *)
(* says spill_before_branch stored and released what the successors rely  *)
(* on.                                                                     *)
(***************************************************************************)
ValuesInPlace ==
  \A v \in Vals : Live(v) =>
    /\ va[v].rv => mreg[va[v].reg] = v
    /\ va[v].sv => mslot[va[v].slot] = v

\* An operand loaded (and locked) for the instruction is still in its register
\* when the instruction is emitted: evicting for a later operand or the
\* scratch register never takes it.
OperandsIntact == \A v \in Vals : loaded[v] # NONE => mreg[loaded[v]] = v

(***************************************************************************)
(* A value whose assignment exists, including one waiting on a            *)
(* delayed-free list, is in a register or in its spill slot: no free_reg   *)
(* or release drops the only copy of a value (the assert of free_reg that  *)
(* the part is not modified).                                              *)
(***************************************************************************)
ValueNotLost == \A v \in Vals : Live(v) => va[v].rv \/ va[v].sv

(***************************************************************************)
(* Every loop back edge p -> h reaches h with the values where the         *)
(* compiler assumed them when it compiled h: the delayed free keeps a      *)
(* value used in the loop alive (register and slot) until the loop end.    *)
(***************************************************************************)
BackEdgesSafe ==
  \A p \in Blk : exitM[p].done =>
    \A h \in prog.succ[p] : h <= p =>
      /\ \A x \in belief[h].reg : exitM[p].reg[x[2]] = x[1]
      /\ \A x \in belief[h].slot : exitM[p].slot[x[2]] = x[1]

\* cur_fixed_assignment_count is the number of live fixed assignments.
FixedCountBalanced == fixedCount = Cardinality({v \in Vals : va[v].fixed})

\* At the end of compile_func every assignment is freed (the assert that
\* value_ptrs holds no assignment), and so is every register.
AllFreedAtEnd ==
  pc = "done" =>
    /\ \A v \in Vals : va[v].st = "none"
    /\ \A r \in Regs : ~rf[r].used
    /\ fixedCount = 0

(***************************************************************************)
(* Compiling the function ends, with every block compiled: in particular   *)
(* select_reg never runs out of registers (TPDE_FATAL), which the quota    *)
(* of fixed assignments and the locks of one instruction guarantee.        *)
(***************************************************************************)
CompileTerminates == <>(pc = "done")
=============================================================================
