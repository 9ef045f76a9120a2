--------------------------- MODULE ScratchWrapper ---------------------------
(***************************************************************************)
(* The scratch registers of PHI resolution: ScratchWrapper in              *)
(* CompilerBase::move_to_phi_nodes_impl (CompilerBase.hpp 1511-1599) and   *)
(* its three uses: `scratch` for the moves (move_to_phi, 1635-1676) and    *)
(* `tmp_reg1`/`tmp_reg2` for the temporary of a broken cycle (1730-1820).  *)
(* A wrapper takes the first free register of a bank or, if there is none, *)
(* borrows the first non-fixed one: its value is spilled if its stack slot *)
(* is stale and marked not in a register.  reset, run when the wrapper     *)
(* switches bank and by the destructors (tmp_reg2, tmp_reg1, scratch),     *)
(* reloads a borrowed value into its register unless it was freed.         *)
(* Which PHI is moved when is PhiMoves' concern; here the moves, cycle     *)
(* breaks and last uses come in any order.                                 *)
(***************************************************************************)
EXTENDS Integers, Sequences, FiniteSets

CONSTANTS
  RegBank,    \* sequence: the bank of each register (in index order)
  ValBank,    \* sequence: the bank of each incoming value
  FixedVals,  \* values with a fixed assignment (held in a fixed register)
  MaxOps      \* bound: moves, cycle breaks and frees in one call

Regs == DOMAIN RegBank
Vals == DOMAIN ValBank
Banks == {RegBank[r] : r \in Regs}
Wrappers == {"scratch", "tmp1", "tmp2"}

NONE  == 0
CONST == -1   \* a constant materialised into a register
GARB  == -2   \* anything else: a stale or unrelated word

VARIABLES
  rf,       \* register_file: [used, fixed, owner] per register
  va,       \* value assignments: [live, reg, rv (register_valid), sv
            \* (stack_valid), mod (modified)]
  mem,      \* what each register holds
  clob,     \* register_file.clobbered
  ws,       \* the wrappers: [reg, backed, mod, victim]
  tmpVal,   \* cur_tmp_val: the value saved in tmp_reg1/tmp_reg2, or NONE
  tmpParts, \* cur_tmp_part_count
  misread,  \* a move or a temporary read a word other than its value
  ops,      \* operations so far
  phase,    \* "moves" or "done"
  rf0, va0  \* the register file and assignments when the call began

vars == <<rf, va, mem, clob, ws, tmpVal, tmpParts, misread, ops, phase, rf0, va0>>

\* A mutant: the value is read from its assignment's register whether or
\* not register_valid is set.
ValWordAnyReg(s, v) ==
  IF s.va[v].reg # NONE THEN s.mem[s.va[v].reg]
  ELSE IF s.va[v].sv THEN v ELSE GARB

\* A value's current content, read from its register or its stack slot.
ValWord(s, v) ==
  IF s.va[v].rv THEN s.mem[s.va[v].reg]
  ELSE IF s.va[v].sv THEN v ELSE GARB

\* The first register of a bank (by index) satisfying P.
FirstReg(b, P(_)) ==
  LET R == {r \in Regs : RegBank[r] = b /\ P(r)} IN
  IF R = {} THEN NONE ELSE CHOOSE r \in R : \A q \in R : r <= q

-----------------------------------------------------------------------------
(* ScratchWrapper::reset *)

\* A mutant: the register is not unmarked fixed.
ReleasedKeepFixed == [used |-> FALSE, fixed |-> TRUE, owner |-> NONE]

\* unmark_fixed and unmark_used.
Released == [used |-> FALSE, fixed |-> FALSE, owner |-> NONE]

Reset(s, w) ==
  LET x == s.ws[w]
      r == x.reg
      v == x.victim
      idle == [reg |-> NONE, backed |-> FALSE, mod |-> FALSE, victim |-> NONE]
  IN
  CASE r = NONE -> s
    [] x.backed /\ s.va[v].live ->
         \* reload the borrowed value and give it its register back
         [s EXCEPT !.rf[r]  = [used |-> TRUE, fixed |-> FALSE, owner |-> v],
                   !.va[v]  = [@ EXCEPT !.reg = r, !.rv = TRUE, !.mod = x.mod],
                   !.mem[r] = IF s.va[v].sv THEN v ELSE GARB,
                   !.ws[w]  = idle]
    [] OTHER ->
         [s EXCEPT !.rf[r] = Released,
                   !.ws[w] = idle]

-----------------------------------------------------------------------------
(* ScratchWrapper::alloc_from_bank *)

\* A mutant: the borrowed value is not spilled when its slot is stale.
BorrowNoSpill(s, r) ==
  LET v == s.rf[r].owner IN
  [s EXCEPT !.va[v] = [@ EXCEPT !.rv = FALSE]]

\* Borrowing a register: spill its value if the slot is stale, then mark
\* the value as no longer in a register.
Borrow(s, r) ==
  LET v == s.rf[r].owner IN
  [s EXCEPT !.va[v] = [@ EXCEPT !.rv = FALSE, !.sv = TRUE]]

\* Take a free register, or borrow the first non-fixed one.
Take(s, w, b) ==
  LET free == FirstReg(b, LAMBDA q : ~s.rf[q].used)
      nonfixed == FirstReg(b, LAMBDA q : ~s.rf[q].fixed)
      r == IF free # NONE THEN free ELSE nonfixed
      v == s.rf[r].owner
      s1 == IF free # NONE THEN s
            ELSE [Borrow(s, r) EXCEPT !.ws[w] = [reg |-> NONE, backed |-> TRUE,
                                                 mod |-> s.va[v].mod, victim |-> v]]
  IN [s1 EXCEPT !.rf[r] = [used |-> TRUE, fixed |-> TRUE, owner |-> NONE],
                !.clob = @ \cup {r},
                !.ws[w].reg = r]

\* The bank has a non-fixed register once w is reset (else TPDE_FATAL).
CanAlloc(s, w, b) ==
  \/ s.ws[w].reg # NONE /\ RegBank[s.ws[w].reg] = b
  \/ FirstReg(b, LAMBDA q : ~Reset(s, w).rf[q].fixed) # NONE

AllocFromBank(s, w, b) ==
  IF s.ws[w].reg # NONE /\ RegBank[s.ws[w].reg] = b THEN s
  ELSE Take(Reset(s, w), w, b)

-----------------------------------------------------------------------------
(* The uses in move_to_phi_nodes_impl.  Each action takes the state as a   *)
(* record, applies the code's steps to it and writes it back.              *)

S == [rf |-> rf, va |-> va, mem |-> mem, clob |-> clob, ws |-> ws]

Commit(s) ==
  /\ rf' = s.rf
  /\ va' = s.va
  /\ mem' = s.mem
  /\ clob' = s.clob
  /\ ws' = s.ws

Step ==
  /\ phase = "moves"
  /\ ops < MaxOps
  /\ ops' = ops + 1

\* move_to_phi, constant part: scratch.alloc_from_bank, then the constant
\* is materialised into it.
MoveConst(b) ==
  /\ Step
  /\ CanAlloc(S, "scratch", b)
  /\ LET s == AllocFromBank(S, "scratch", b)
     IN Commit([s EXCEPT !.mem[s.ws["scratch"].reg] = CONST])
  /\ UNCHANGED <<tmpVal, tmpParts, misread, phase, rf0, va0>>

\* move_to_phi, value part: the value's register if it is in one (or has a
\* fixed assignment), else reload_into_specific_fixed into scratch.  The
\* word stored to the PHI is what the register holds.
MoveVal(v) ==
  /\ Step
  /\ va[v].live
  /\ IF va[v].rv \/ v \in FixedVals
       THEN /\ misread' = (misread \/ mem[va[v].reg] # v)
            /\ UNCHANGED <<rf, va, mem, clob, ws>>
       ELSE /\ CanAlloc(S, "scratch", ValBank[v])
            /\ LET s == AllocFromBank(S, "scratch", ValBank[v])
                   w == ValWord(s, v)
               IN /\ Commit([s EXCEPT !.mem[s.ws["scratch"].reg] = w])
                  /\ misread' = (misread \/ w # v)
  /\ UNCHANGED <<tmpVal, tmpParts, phase, rf0, va0>>

\* Breaking a cycle: the PHI's part 0 (and part 1 of a two-part value) is
\* reloaded into tmp_reg1 (and tmp_reg2).
BreakCycle(v, parts) ==
  /\ Step
  /\ tmpVal = NONE
  /\ va[v].live
  /\ CanAlloc(S, "tmp1", ValBank[v])
  /\ LET s1 == AllocFromBank(S, "tmp1", ValBank[v])
         s2 == [s1 EXCEPT !.mem[s1.ws["tmp1"].reg] = ValWord(s1, v)]
     IN IF parts = 1 THEN Commit(s2)
        ELSE /\ CanAlloc(s2, "tmp2", ValBank[v])
             /\ LET s3 == AllocFromBank(s2, "tmp2", ValBank[v])
                IN Commit([s3 EXCEPT !.mem[s3.ws["tmp2"].reg] = ValWord(s3, v)])
  /\ tmpVal' = v
  /\ tmpParts' = parts
  /\ UNCHANGED <<misread, phase, rf0, va0>>

\* move_from_tmp_phi: the PHI the cycle ends at is stored from the
\* temporaries, which must still hold the saved value.
MoveFromTmp ==
  /\ Step
  /\ tmpVal # NONE
  /\ misread' = (misread \/ mem[ws["tmp1"].reg] # tmpVal
                         \/ (tmpParts = 2 /\ mem[ws["tmp2"].reg] # tmpVal))
  /\ tmpVal' = NONE
  /\ UNCHANGED <<rf, va, mem, clob, ws, tmpParts, phase, rf0, va0>>

\* The last use of a value (its ValueRef released): free_assignment frees
\* its register if it is in one.
FreeVal(v) ==
  /\ Step
  /\ va[v].live
  /\ v \notin FixedVals
  /\ va' = [va EXCEPT ![v].live = FALSE]
  /\ rf' = IF va[v].rv
             THEN [rf EXCEPT ![va[v].reg] = [used |-> FALSE, fixed |-> FALSE, owner |-> NONE]]
             ELSE rf
  /\ UNCHANGED <<mem, clob, ws, tmpVal, tmpParts, misread, phase, rf0, va0>>

\* The end of move_to_phi_nodes_impl: destructors in reverse order of
\* construction.
Destroy ==
  /\ phase = "moves"
  /\ tmpVal = NONE
  /\ Commit(Reset(Reset(Reset(S, "tmp2"), "tmp1"), "scratch"))
  /\ phase' = "done"
  /\ UNCHANGED <<tmpVal, tmpParts, misread, ops, rf0, va0>>

-----------------------------------------------------------------------------
(* The state at the branch: values are in registers of their bank or only  *)
(* in their slots; a value in a register has a stale slot iff it is        *)
(* modified; a fixed value is in a fixed register.                         *)

Placements ==
  {p \in [Vals -> Regs \cup {NONE}] :
     /\ \A v \in Vals : p[v] # NONE => RegBank[p[v]] = ValBank[v]
     /\ \A v, u \in Vals : v # u /\ p[v] # NONE => p[v] # p[u]
     /\ \A v \in FixedVals : p[v] # NONE}

Init ==
  /\ \E p \in Placements, m \in [Vals -> BOOLEAN] :
       /\ \A v \in Vals : (p[v] = NONE \/ v \in FixedVals) => ~m[v]
       /\ va = [v \in Vals |-> [live |-> TRUE, reg |-> p[v], rv |-> p[v] # NONE,
                                sv |-> ~m[v], mod |-> m[v]]]
       /\ rf = [r \in Regs |->
                  IF \E v \in Vals : p[v] = r
                    THEN LET v == CHOOSE u \in Vals : p[u] = r
                         IN [used |-> TRUE, fixed |-> v \in FixedVals, owner |-> v]
                    ELSE [used |-> FALSE, fixed |-> FALSE, owner |-> NONE]]
       /\ mem = [r \in Regs |-> IF \E v \in Vals : p[v] = r
                                  THEN CHOOSE u \in Vals : p[u] = r ELSE GARB]
  /\ clob = {}
  /\ ws = [w \in Wrappers |-> [reg |-> NONE, backed |-> FALSE, mod |-> FALSE, victim |-> NONE]]
  /\ tmpVal = NONE
  /\ tmpParts = 0
  /\ misread = FALSE
  /\ ops = 0
  /\ phase = "moves"
  /\ rf0 = rf
  /\ va0 = va

Next ==
  \/ \E b \in Banks : MoveConst(b)
  \/ \E v \in Vals : MoveVal(v)
  \/ \E v \in Vals, n \in {1, 2} : BreakCycle(v, n)
  \/ MoveFromTmp
  \/ \E v \in Vals : FreeVal(v)
  \/ Destroy

Spec == Init /\ [][Next]_vars

-----------------------------------------------------------------------------
(* Properties *)

(***************************************************************************)
(* At every point of the PHI moves, a live value the compiler believes to  *)
(* be in a register is there: the register is marked used by it and holds  *)
(* its word.  A wrapper may take a value's register only by borrowing it   *)
(* (spill, mark not in a register), and reset may hand it back only after  *)
(* reloading it.                                                           *)
(***************************************************************************)
RegistersHoldValues ==
  \A v \in Vals :
    va[v].live /\ va[v].rv =>
      /\ rf[va[v].reg].used
      /\ rf[va[v].reg].owner = v
      /\ mem[va[v].reg] = v

(***************************************************************************)
(* Every move stores the incoming value's own word, and the temporary of a *)
(* broken cycle still holds the saved PHI when move_from_tmp_phi reads it, *)
(* although the scratch wrappers borrow and hand back registers between.   *)
(***************************************************************************)
MovesReadValues == ~misread

(***************************************************************************)
(* When move_to_phi_nodes_impl returns, the register state is as it was   *)
(* at the branch, except for values whose last use was a move: every live  *)
(* value is in the same register (or in none) with the same modified flag, *)
(* no register stays fixed by a wrapper, and a register is used exactly    *)
(* when a live value is in it.                                             *)
(***************************************************************************)
RestoredAtEnd ==
  phase = "done" =>
    /\ \A v \in Vals : va[v].live =>
         /\ va[v].rv = va0[v].rv
         /\ va[v].rv => va[v].reg = va0[v].reg
         /\ va[v].mod = va0[v].mod
    /\ \A r \in Regs :
         /\ rf[r].fixed = rf0[r].fixed
         /\ rf[r].used = \E v \in Vals : va[v].live /\ va[v].rv /\ va[v].reg = r

=============================================================================
