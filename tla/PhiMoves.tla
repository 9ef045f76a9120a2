------------------------------ MODULE PhiMoves ------------------------------
(***************************************************************************)
(* PHI resolution on one edge: CompilerBase::move_to_phi_nodes_impl        *)
(* (CompilerBase.hpp 1500-1866).  For every PHI of the target block the    *)
(* value incoming from the current block is copied into the PHI's          *)
(* location (its spill slot, or its fixed register).  The copies form a   *)
(* parallel assignment: a PHI that is the incoming value of another PHI of *)
(* the same block must be read before it is overwritten, and cycles are    *)
(* broken by saving one PHI into a temporary.                              *)
(*                                                                         *)
(* Values are abstracted to their identity: the PHIs of the target are     *)
(* 1..nphi in local-index order (the order `nodes` is sorted into), other  *)
(* values (non-PHIs, PHIs of other blocks) are -NOther..-1.        mem[v] *)
(* is the content of v's location, initially v itself; tmp is the content  *)
(* of the temporary (register or stack slot, by part count: abstracted).   *)
(* Multi-part values move part by part in lock step and are not split.     *)
(***************************************************************************)
EXTENDS Integers, Sequences, SequencesExt, FiniteSets

CONSTANTS
  MaxPhi,  \* bound: PHIs of the target block
  NOther   \* incoming values that are not PHIs of the target block

ASSUME MaxPhi \in Nat \ {0} /\ NOther \in Nat

Others == -NOther .. -1
NONE   == 0

VARIABLES
  nphi,      \* nodes.size(): PHIs of the target block
  incoming,  \* val_as_phi(phi).incoming_val_for_block(cur): fixed per call
  mem,       \* content of each value's location
  ref,       \* nodes[i].ref_count
  ready,     \* ready_indices, consumed front to back
  waiting,   \* waiting_nodes
  handled,   \* handled_count
  tmp_val,   \* cur_tmp_val: the PHI saved in the temporary, or NONE
  tmp,       \* content of the temporary
  emitted,   \* stores (spill_reg / mov into a PHI location) emitted so far
  temps,     \* temporaries materialised (cycle breaks)
  pc         \* "start", "loop", "done"

vars == <<nphi, incoming, mem, ref, ready, waiting, handled, tmp_val, tmp, emitted,
          temps, pc>>

\* nodes[i].incoming_phi_local_idx: a same-block PHI other than itself.
Phis == 1 .. nphi
Vals == Phis \cup Others

IncomingPhi(p) == incoming[p] \in Phis /\ incoming[p] # p

\* move_to_phi(phi, incoming_val): one store, elided for a self-reference.
MoveToPhi(m, p) == IF incoming[p] = p THEN m ELSE [m EXCEPT ![p] = m[incoming[p]]]
MoveCost(p) == IF incoming[p] = p THEN 0 ELSE 1

\* Ascending sequence of a set of node indices.
Ascending(S) == SetToSortSeq(S, <)

(***************************************************************************)
(* Collecting the nodes and the two fast paths: a single PHI is moved      *)
(* directly; if no PHI reads another PHI of the block they are moved in   *)
(* order.  Otherwise the ref counts are filled in and the nodes with none  *)
(* become ready.                                                           *)
(***************************************************************************)
StartSingle ==
  /\ pc = "start" /\ nphi = 1
  /\ mem' = MoveToPhi(mem, 1)
  /\ emitted' = emitted + MoveCost(1)
  /\ pc' = "done"
  /\ UNCHANGED <<nphi, incoming, ref, ready, waiting, handled, tmp_val, tmp, temps>>

StartNoDeps ==
  /\ pc = "start" /\ nphi > 1
  /\ \A p \in Phis : ~IncomingPhi(p)
  /\ mem' = FoldLeft(MoveToPhi, mem, Ascending(Phis))
  /\ emitted' = emitted + FoldLeft(LAMBDA acc, p : acc + MoveCost(p), 0, Ascending(Phis))
  /\ pc' = "done"
  /\ UNCHANGED <<nphi, incoming, ref, ready, waiting, handled, tmp_val, tmp, temps>>

\* A mutant: every node is pushed onto ready_indices, waiting or not.
StartOrderedAllReady ==
  LET rc == [q \in Phis |-> Cardinality({p \in Phis : IncomingPhi(p) /\ incoming[p] = q})]
  IN
  /\ pc = "start" /\ nphi > 1 /\ \E p \in Phis : IncomingPhi(p)
  /\ ref' = rc /\ ready' = Ascending(Phis) /\ waiting' = {q \in Phis : rc[q] # 0}
  /\ pc' = "loop"
  /\ UNCHANGED <<nphi, incoming, mem, handled, tmp_val, tmp, emitted, temps>>

StartOrdered ==
  LET rc == [q \in Phis |-> Cardinality({p \in Phis : IncomingPhi(p) /\ incoming[p] = q})]
  IN
  /\ pc = "start" /\ nphi > 1
  /\ \E p \in Phis : IncomingPhi(p)
  /\ ref' = rc
  /\ ready' = Ascending({q \in Phis : rc[q] = 0})
  /\ waiting' = {q \in Phis : rc[q] # 0}
  /\ pc' = "loop"
  /\ UNCHANGED <<nphi, incoming, mem, handled, tmp_val, tmp, emitted, temps>>

\* A mutant: the chosen PHI's incoming value is saved instead of the PHI.
BreakCycleSavesSource ==
  LET cur == CHOOSE q \in waiting : \A r \in waiting : q <= r IN
  /\ pc = "loop" /\ handled # nphi /\ ready = <<>> /\ waiting # {}
  /\ tmp_val' = cur /\ tmp' = mem[incoming[cur]] /\ temps' = temps + 1
  /\ ref' = [ref EXCEPT ![cur] = 0] /\ ready' = <<cur>> /\ waiting' = waiting \ {cur}
  /\ UNCHANGED <<nphi, incoming, mem, handled, emitted, pc>>

\* A mutant: the chosen node is not pushed onto ready_indices.
BreakCycleNoPush ==
  LET cur == CHOOSE q \in waiting : \A r \in waiting : q <= r IN
  /\ pc = "loop" /\ handled # nphi /\ ready = <<>> /\ waiting # {}
  /\ tmp_val' = cur /\ tmp' = mem[cur] /\ temps' = temps + 1
  /\ ref' = [ref EXCEPT ![cur] = 0] /\ ready' = <<>> /\ waiting' = waiting \ {cur}
  /\ UNCHANGED <<nphi, incoming, mem, handled, emitted, pc>>

(***************************************************************************)
(* No node is ready: break a cycle at the lowest waiting node by copying   *)
(* that PHI's current value into the temporary (a register for up to two   *)
(* parts, a fresh stack slot otherwise); it becomes ready.                 *)
(***************************************************************************)
BreakCycle ==
  LET cur == CHOOSE q \in waiting : \A r \in waiting : q <= r IN
  /\ pc = "loop" /\ handled # nphi /\ ready = <<>>
  /\ waiting # {}
  /\ tmp_val' = cur
  /\ tmp' = mem[cur]
  /\ temps' = temps + 1
  /\ ref' = [ref EXCEPT ![cur] = 0]
  /\ ready' = <<cur>>
  /\ waiting' = waiting \ {cur}
  /\ UNCHANGED <<nphi, incoming, mem, handled, emitted, pc>>

\* A self-referencing PHI needs no move.
ProcessSelf(cur) ==
  /\ incoming[cur] = cur
  /\ ready' = Tail(ready)
  /\ UNCHANGED <<mem, ref, waiting, tmp_val, tmp, emitted>>

\* move_from_tmp_phi: the PHI's location receives the temporary.
MoveFromTmpPhi(m, p) == [m EXCEPT ![p] = tmp]

\* A mutant: cur_tmp_val is not reset once the temporary is consumed.
ProcessFromTmpKeep(cur) ==
  /\ incoming[cur] # cur /\ incoming[cur] = tmp_val
  /\ mem' = MoveFromTmpPhi(mem, cur) /\ emitted' = emitted + 1
  /\ ready' = Tail(ready)
  /\ UNCHANGED <<ref, waiting, tmp_val, tmp>>

\* The PHI reads the saved PHI: move_from_tmp_phi, then the temporary (and
\* its stack slot, for more than two parts) is released.
ProcessFromTmp(cur) ==
  /\ incoming[cur] # cur /\ incoming[cur] = tmp_val
  /\ mem' = MoveFromTmpPhi(mem, cur)
  /\ emitted' = emitted + 1
  /\ tmp_val' = NONE
  /\ ready' = Tail(ready)
  /\ UNCHANGED <<ref, waiting, tmp>>

\* A mutant: the reader count is tested before it is decremented.
ProcessMoveLate(cur) ==
  LET inc == incoming[cur] IN
  /\ inc # cur /\ inc # tmp_val
  /\ mem' = MoveToPhi(mem, cur) /\ emitted' = emitted + 1
  /\ IF IncomingPhi(cur)
       THEN /\ ref' = [ref EXCEPT ![inc] = @ - 1]
            /\ IF ref[inc] = 0
                 THEN ready' = Append(Tail(ready), inc) /\ waiting' = waiting \ {inc}
                 ELSE ready' = Tail(ready) /\ UNCHANGED waiting
       ELSE ready' = Tail(ready) /\ UNCHANGED <<ref, waiting>>
  /\ UNCHANGED <<tmp_val, tmp>>

\* move_to_phi; the same-block PHI it read loses a reader and is ready
\* once it has none left.
ProcessMove(cur) ==
  LET inc == incoming[cur] IN
  /\ inc # cur /\ inc # tmp_val
  /\ mem' = MoveToPhi(mem, cur)
  /\ emitted' = emitted + 1
  /\ IF IncomingPhi(cur)
       THEN /\ ref' = [ref EXCEPT ![inc] = @ - 1]
            /\ IF ref[inc] = 1
                 THEN /\ ready' = Append(Tail(ready), inc)
                      /\ waiting' = waiting \ {inc}
                 ELSE /\ ready' = Tail(ready)
                      /\ UNCHANGED waiting
       ELSE /\ ready' = Tail(ready)
            /\ UNCHANGED <<ref, waiting>>
  /\ UNCHANGED <<tmp_val, tmp>>

(***************************************************************************)
(* One iteration of the inner loop over ready_indices; the while loop ends *)
(* when the iteration that handles the last node empties the list.        *)
(***************************************************************************)
ProcessReady ==
  LET cur == Head(ready) IN
  /\ pc = "loop" /\ ready # <<>>
  /\ handled' = handled + 1
  /\ pc' = IF handled + 1 = nphi /\ Len(ready) = 1 THEN "done" ELSE "loop"
  /\ \/ ProcessSelf(cur)
     \/ ProcessFromTmp(cur)
     \/ ProcessMove(cur)
  /\ UNCHANGED <<nphi, incoming, temps>>

Init ==
  /\ nphi \in 1 .. MaxPhi
  /\ incoming \in [Phis -> Vals]
  /\ mem = [v \in Vals |-> v]
  /\ ref = [q \in Phis |-> 0]
  /\ ready = <<>>
  /\ waiting = {}
  /\ handled = 0
  /\ tmp_val = NONE
  /\ tmp = NONE
  /\ emitted = 0
  /\ temps = 0
  /\ pc = "start"

Next ==
  \/ StartSingle
  \/ StartNoDeps
  \/ StartOrdered
  \/ BreakCycle
  \/ ProcessReady

\* The procedure runs to completion on the compiler thread.
Spec == Init /\ [][Next]_vars /\ WF_vars(Next)

-----------------------------------------------------------------------------
(* Reference definitions and properties *)

\* Parallel-copy semantics of the PHIs: every PHI receives the value its
\* incoming value had before the edge; nothing else changes.
ParallelCopy == [v \in Vals |-> IF v \in Phis THEN incoming[v] ELSE v]

\* PHIs reached from p by following incoming values within the block.
RECURSIVE Chain(_, _)
Chain(p, k) == IF k = 0 THEN {} ELSE
  IF incoming[p] \in Phis THEN {incoming[p]} \cup Chain(incoming[p], k - 1) ELSE {}

OnCycle(p) == incoming[p] # p /\ p \in Chain(p, nphi)

\* Number of dependence cycles of length >= 2 among the PHIs.
NumCycles == Cardinality({Chain(p, nphi) : p \in {q \in Phis : OnCycle(q)}})

TypeOK ==
  /\ nphi \in 1 .. MaxPhi
  /\ incoming \in [Phis -> Vals]
  /\ mem \in [Vals -> Vals]
  /\ ref \in [Phis -> 0 .. nphi]
  /\ ready \in Seq(Phis)
  /\ waiting \subseteq Phis
  /\ handled \in 0 .. nphi
  /\ tmp_val \in Phis \cup {NONE}
  /\ tmp \in Vals \cup {NONE}
  /\ emitted \in 0 .. 2 * nphi
  /\ temps \in 0 .. nphi
  /\ pc \in {"start", "loop", "done"}

(***************************************************************************)
(* When move_to_phi_nodes returns, every PHI of the target holds the value *)
(* its incoming value had before the edge (no PHI read after it was        *)
(* overwritten, cycles included) and no other location was written.        *)
(***************************************************************************)
PhiMovesCorrect == pc = "done" => mem = ParallelCopy

(***************************************************************************)
(* The assertions at a cycle break (1768-1771): when no node is ready and  *)
(* not all are handled, some node is waiting, the lowest one is read by    *)
(* exactly one other PHI, and the temporary is free.                       *)
(***************************************************************************)
CycleBreakSafe ==
  (pc = "loop" /\ ready = <<>> /\ handled # nphi) =>
    /\ waiting # {}
    /\ ref[CHOOSE q \in waiting : \A r \in waiting : q <= r] = 1
    /\ tmp_val = NONE

(***************************************************************************)
(* One temporary per dependence cycle and no more (spec scenario S2: a     *)
(* two-PHI cycle materialises exactly one temporary); chains need none.    *)
(***************************************************************************)
OneTempPerCycle == pc = "done" => temps = NumCycles

\* The loop terminates: every call of move_to_phi_nodes returns.
Terminates == <>(pc = "done")
=============================================================================
