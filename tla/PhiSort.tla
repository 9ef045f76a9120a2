------------------------------- MODULE PhiSort -------------------------------
(***************************************************************************)
(* Sorting of the incoming entries of a large PHI and the lookup of the    *)
(* incoming value for a block (tpde-llvm/src/LLVMAdaptor.cpp 31-69,        *)
(* 355-358; LLVMAdaptor.hpp 410-422).  switch_func sorts a PHI's entries   *)
(* by block with an in-place heap sort when it has at least                *)
(* PHINodeSortThreshold incoming values; incoming_val_for_block then uses  *)
(* a binary search at or above the threshold and LLVM's linear search      *)
(* below it.  Blocks are ordered by address; a block may occur several     *)
(* times (multi-edges), always with the same value, as LLVM IR requires.   *)
(* The threshold (1024 in the code) is a constant of the model.            *)
(***************************************************************************)
EXTENDS Integers, Sequences, SequencesExt

CONSTANTS
  Blocks,                \* predecessor blocks, ordered by address
  Vals,                  \* incoming values
  MaxIncoming,           \* bound: incoming entries of the PHI
  PHINodeSortThreshold   \* LLVMAdaptor::PHINodeSortThreshold, scaled down

ASSUME Blocks \subseteq Int /\ MaxIncoming \in Nat \ {0}

VARIABLES
  n,       \* phi->getNumIncomingValues()
  blocks,  \* phi->block_begin()[0 .. n-1]
  values,  \* phi->op_begin()[0 .. n-1]
  orig,    \* the entries before sorting, as <<block, value>> pairs
  start,   \* heap sort: start
  end,     \* heap sort: end
  root,    \* heap sort: root of the sift-down
  pc       \* "outer", "sift", "done"

vars == <<n, blocks, values, orig, start, end, root, pc>>

Idx == 0 .. n - 1

\* The swap lambda: exchanges the value operands and the incoming blocks.
Swap(f, a, b) == [f EXCEPT ![a] = f[b], ![b] = f[a]]

\* A mutant: the incoming entries are sorted only above the threshold.
SortNeededAbove(k) == k > PHINodeSortThreshold

\* switch_func: `num_incoming >= PHINodeSortThreshold`.
SortNeeded(k) == k >= PHINodeSortThreshold

\* incoming_val_for_block: binary search unless below the threshold.
UseBinarySearch(k) == ~(k < PHINodeSortThreshold)

Init ==
  /\ n \in 1 .. MaxIncoming
  /\ blocks \in [0 .. n - 1 -> Blocks]
  /\ \E valOf \in [Blocks -> Vals] : values = [i \in 0 .. n - 1 |-> valOf[blocks[i]]]
  /\ orig = [i \in 1 .. n |-> <<blocks[i - 1], values[i - 1]>>]
  /\ start = n \div 2
  /\ end = n
  /\ root = 0
  /\ pc = IF SortNeeded(n) THEN "outer" ELSE "done"

\* A mutant: the heap is built without decrementing start.
OuterStepNoDecrement ==
  /\ pc = "outer" /\ end > 1
  /\ IF start > 0
       THEN /\ root' = start - 1 /\ UNCHANGED <<start, end, blocks, values>>
       ELSE /\ end' = end - 1 /\ root' = start
            /\ blocks' = Swap(blocks, 0, end - 1) /\ values' = Swap(values, 0, end - 1)
            /\ UNCHANGED start
  /\ pc' = "sift"
  /\ UNCHANGED <<n, orig>>

(***************************************************************************)
(* One turn of `while (end > 1)`: first the heap is built from the middle  *)
(* down (--start), then the maximum is swapped behind the heap (--end).    *)
(***************************************************************************)
OuterStep ==
  /\ pc = "outer" /\ end > 1
  /\ IF start > 0
       THEN /\ start' = start - 1 /\ root' = start - 1
            /\ UNCHANGED <<end, blocks, values>>
       ELSE /\ end' = end - 1 /\ root' = start
            /\ blocks' = Swap(blocks, 0, end - 1)
            /\ values' = Swap(values, 0, end - 1)
            /\ UNCHANGED start
  /\ pc' = "sift"
  /\ UNCHANGED <<n, orig>>

OuterDone ==
  /\ pc = "outer" /\ end <= 1
  /\ pc' = "done"
  /\ UNCHANGED <<n, blocks, values, orig, start, end, root>>

\* A mutant: the right child is considered up to the entry count, not end.
SiftStepCountBound ==
  LET l     == 2 * root + 1
      child == IF l + 1 < n /\ blocks[l] < blocks[l + 1] THEN l + 1 ELSE l
  IN
  /\ pc = "sift"
  /\ IF l < end /\ blocks[root] < blocks[child]
       THEN /\ blocks' = Swap(blocks, root, child) /\ values' = Swap(values, root, child)
            /\ root' = child /\ UNCHANGED pc
       ELSE /\ pc' = "outer" /\ UNCHANGED <<blocks, values, root>>
  /\ UNCHANGED <<n, orig, start, end>>

\* One turn of the sift-down loop: move root below its larger child.
SiftStep ==
  LET l     == 2 * root + 1
      child == IF l + 1 < end /\ blocks[l] < blocks[l + 1] THEN l + 1 ELSE l
  IN
  /\ pc = "sift"
  /\ IF l < end /\ blocks[root] < blocks[child]
       THEN /\ blocks' = Swap(blocks, root, child)
            /\ values' = Swap(values, root, child)
            /\ root' = child
            /\ UNCHANGED pc
       ELSE /\ pc' = "outer"
            /\ UNCHANGED <<blocks, values, root>>
  /\ UNCHANGED <<n, orig, start, end>>

Next == OuterStep \/ OuterDone \/ SiftStep

Spec == Init /\ [][Next]_vars /\ WF_vars(Next)

-----------------------------------------------------------------------------
(* The lookups of incoming_val_for_block *)

\* phi->getBasicBlockIndex(bb): index of the first entry of the block.
LinearIndex(b) == CHOOSE i \in Idx : blocks[i] = b /\ \A j \in 0 .. i - 1 : blocks[j] # b

\* llvm::lower_bound(phi->blocks(), bb), the halving loop of std::lower_bound.
RECURSIVE LowerBound(_, _, _)
LowerBound(b, first, count) ==
  IF count = 0 THEN first
  ELSE LET step == count \div 2
           it   == first + step
       IN IF blocks[it] < b THEN LowerBound(b, it + 1, count - step - 1)
          ELSE LowerBound(b, first, step)

IncomingValForBlock(b) ==
  IF UseBinarySearch(n) THEN values[LowerBound(b, 0, n)] ELSE values[LinearIndex(b)]

-----------------------------------------------------------------------------
(* Properties *)

Preds == {orig[i][1] : i \in 1 .. n}

\* The value LLVM's getIncomingValueForBlock gives on the unsorted PHI.
RefValue(b) == orig[CHOOSE i \in 1 .. n : orig[i][1] = b][2]

(***************************************************************************)
(* After sort_phi_entries a large PHI's entries are its original entries   *)
(* sorted by block: no entry lost or duplicated and no value separated     *)
(* from its block (the equal-block entries carry the same value, so the    *)
(* sorted sequence is unique).                                             *)
(***************************************************************************)
SortMatchesReference ==
  (pc = "done" /\ SortNeeded(n)) =>
    [i \in 1 .. n |-> <<blocks[i - 1], values[i - 1]>>]
      = SortSeq(orig, LAMBDA x, y : x[1] < y[1])

(***************************************************************************)
(* Once switch_func is done with the PHI, incoming_val_for_block returns,  *)
(* for every predecessor, the value LLVM associates with it, whichever     *)
(* search the entry count selects; in particular at exactly the threshold. *)
(***************************************************************************)
LookupCorrect ==
  pc = "done" => \A b \in Preds : IncomingValForBlock(b) = RefValue(b)

\* The heap sort terminates.
SortTerminates == <>(pc = "done")
=============================================================================
