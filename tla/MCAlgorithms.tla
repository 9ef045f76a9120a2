---------------------------- MODULE MCAlgorithms ----------------------------
(***************************************************************************)
(* The pure algorithms of the LLVM backend in one state graph: the sort of *)
(* a PHI's incoming entries (PhiSort, from each of its initial states) and *)
(* the arithmetic snippet templates (EncodeTemplate, one initial state per *)
(* operand tuple).  The two parts are disjoint: while the templates are    *)
(* applied, the PHI variables hold a PHI of one entry, which needs no sort. *)
(***************************************************************************)
EXTENDS PhiSort, EncodeTemplate

VARIABLE app   \* the operands a template is applied to, or NoApp

NoApp == [kind |-> "none"]

Apps ==
  {[kind |-> "wide", a |-> a] : a \in Bits(2 * W)}
  \cup UNION {{[kind |-> "funnel", w |-> w, a |-> a, c |-> c] : a, c \in Bits(w)}
              : w \in {NarrowW, W}}
  \cup UNION {{[kind |-> "sat", w |-> w, a |-> a, b |-> b] : a, b \in Bits(w)}
              : w \in {NarrowW, W}}

\* A PHI with one entry, for which switch_func is done at once.
PhiIdle ==
  /\ n = 1
  /\ blocks = [i \in 0 .. 0 |-> CHOOSE b \in Blocks : TRUE]
  /\ values = [i \in 0 .. 0 |-> CHOOSE v \in Vals : TRUE]
  /\ orig = <<<<blocks[0], values[0]>>>>
  /\ start = 0 /\ end = 1 /\ root = 0
  /\ pc = "done"

AlgInit ==
  \/ Init /\ app = NoApp
  \/ PhiIdle /\ app \in Apps

AlgNext == app = NoApp /\ Next /\ UNCHANGED app

algVars == <<vars, app>>

AlgSpec == AlgInit /\ [][AlgNext]_algVars /\ WF_algVars(AlgNext)

(***************************************************************************)
(* The i128 shift templates split into W-bit halves (shli128_lt64 and the  *)
(* other _lt64 forms for an amount 1..W-1 with iamt = W - amt, the _ge64   *)
(* forms for W..2W-1) compute the 2W-bit shl, lshr and ashr: no bit of one *)
(* half is lost or duplicated in the other and the sign of ashr reaches    *)
(* both halves.                                                            *)
(***************************************************************************)
WideShiftsMatch == app.kind = "wide" => WideShiftsAt(app.a)

(***************************************************************************)
(* The funnel-shift templates fshl/fshr compute LLVM's fshl/fshr for every *)
(* amount on promoted types and for every amount that is not a multiple of *)
(* the width on u32/u64 (the comment above fshli8 calls that case UB); the *)
(* rotates roli/rori compute fshl/fshr(a, a, c) for every amount, under    *)
(* every result the undefined full-width shift can produce.                *)
(***************************************************************************)
FunnelShiftsMatch == app.kind = "funnel" => FunnelShiftsAt(app.w, app.a, app.c)

(***************************************************************************)
(* The saturating templates clamp the exact sum or difference to the range *)
(* of the type: on a signed overflow the sign of a alone tells which bound *)
(* was crossed, for subtraction as for addition.                           *)
(***************************************************************************)
SaturatingMatch == app.kind = "sat" => SaturatingAt(app.w, app.a, app.b)
=============================================================================
