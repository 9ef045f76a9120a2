----------------------------- MODULE PartIndex ------------------------------
(***************************************************************************)
(* LLVMAdaptor::complex_part_for_index (tpde-llvm/src/LLVMAdaptor.cpp      *)
(* 724-758): the parts that an insertvalue/extractvalue index list names  *)
(* in a value of complex type.  The walk goes over the parts once, keeping *)
(* the current index at each nesting depth in a SmallVector (indices):     *)
(* nest_inc opens levels before a part, nest_dec closes them after it, and *)
(* a part that ends a value advances the innermost index.  The first part  *)
(* whose indices match the whole search path starts the range; the range  *)
(* ends at the part after which the indices leave the path.                *)
(*                                                                         *)
(* indices is its inline storage (store) and its size (ilen): resize()    *)
(* zeroes what it adds and leaves the storage it drops as it was, so an    *)
(* element read past the size reads what was there.  A read of storage    *)
(* never written ends the walk as undefined ("ub").                        *)
(***************************************************************************)
EXTENDS TypeLayout

CONSTANTS
  Types,     \* the complex types of the values looked into
  StoreCap   \* bound: the inline capacity of indices used (16 in the code)

Unwritten == -1

VARIABLES
  ty,      \* the value's type
  parts,   \* complex_part_types after lowering it; the descriptor is at 1
  search,  \* the index list (0-based indices)
  i,       \* the loop's part index
  depth,   \* how much of search is matched
  store,   \* indices' storage, positions 0 .. StoreCap - 1
  ilen,    \* indices.size()
  first,   \* first_part, or NONE for -1u
  pc,      \* "enter", "match", or the end: "done", "fail", "crash", "ub"
  result   \* the pair returned

vars == <<ty, parts, search, i, depth, store, ilen, first, pc, result>>

NONE == -1

\* parts.complex[i + 1]: the i-th part after the descriptor.
PartAt(k) == parts[2 + k]
\* parts.count()
PartCount == parts[1].np

Init ==
  /\ ty \in {t \in Types : ~IsSimple(t)}
  /\ parts = LowerComplex(ty, <<>>, <<>>).P
  /\ ~parts[1].invalid
  /\ search \in Paths(ty)
  /\ i = 0
  /\ depth = 0
  /\ store = [x \in 0 .. StoreCap - 1 |-> Unwritten]
  /\ ilen = 0
  /\ first = NONE
  /\ pc = "enter"
  /\ result = <<>>

\* indices.resize(indices.size() + nest_inc)
Enter ==
  /\ pc = "enter"
  /\ ilen + PartAt(i).inc <= StoreCap
  /\ store' = [x \in DOMAIN store |->
                 IF ilen <= x /\ x < ilen + PartAt(i).inc THEN 0 ELSE store[x]]
  /\ ilen' = ilen + PartAt(i).inc
  /\ pc' = "match"
  /\ UNCHANGED <<ty, parts, search, i, depth, first, result>>

\* The while loop: indices[depth] == search[depth] while no first part.
Matches == first = NONE /\ store[depth] = search[depth + 1]

\* One turn of the while loop: go one level deeper, or take the part.
Match ==
  /\ pc = "match"
  /\ depth < StoreCap
  /\ store[depth] # Unwritten
  /\ Matches
  /\ IF depth + 1 < Len(search)
       THEN depth' = depth + 1 /\ UNCHANGED first
       ELSE first' = i /\ UNCHANGED depth
  /\ UNCHANGED <<ty, parts, search, i, store, ilen, pc, result>>

\* A read of indices[depth] that was never written.
ReadUnwritten ==
  /\ pc = "match"
  /\ first = NONE
  /\ store[depth] = Unwritten
  /\ pc' = "ub"
  /\ UNCHANGED <<ty, parts, search, i, depth, store, ilen, first, result>>

\* indices.resize(size - nest_dec) with nest_dec > size: the size_t
\* wraps and the resize fails.
ShrinkFails ==
  /\ pc = "match"
  /\ first # NONE \/ (store[depth] # Unwritten /\ ~Matches)
  /\ PartAt(i).dec > ilen
  /\ pc' = "crash"
  /\ UNCHANGED <<ty, parts, search, i, depth, store, ilen, first, result>>

\* The rest of the turn: close levels, advance the innermost index, and
\* return once the indices have left the searched element.
Leave ==
  /\ pc = "match"
  /\ first # NONE \/ (store[depth] # Unwritten /\ ~Matches)
  /\ PartAt(i).dec <= ilen
  /\ LET n  == ilen - PartAt(i).dec
         st == IF PartAt(i).ends /\ n > 0 THEN [store EXCEPT ![n - 1] = @ + 1]
               ELSE store
     IN /\ store' = st
        /\ ilen' = n
        /\ IF first # NONE /\ (n <= depth \/ st[depth] > search[depth + 1])
             THEN pc' = "done" /\ result' = <<first, i>> /\ UNCHANGED i
           ELSE IF i + 1 < PartCount
             THEN pc' = "enter" /\ i' = i + 1 /\ UNCHANGED result
           \* assert(0 && "out-of-range part index?"); return (0, 0)
           ELSE pc' = "fail" /\ result' = <<0, 0>> /\ UNCHANGED i
  /\ UNCHANGED <<ty, parts, search, depth, first>>

Next == Enter \/ Match \/ ReadUnwritten \/ ShrinkFails \/ Leave

Spec == Init /\ [][Next]_vars

-----------------------------------------------------------------------------
(***************************************************************************)
(* complex_part_for_index returns the first and the last part of the      *)
(* element the index list names (the header: "Returns (first part, last   *)
(* part (inclusive))"), which insertvalue and extractvalue then read or    *)
(* write: the walk ends normally with the range of that element in the     *)
(* type's layout.                                                         *)
(***************************************************************************)
PartForIndexExact ==
  pc \in {"done", "fail", "crash", "ub"} =>
    pc = "done" /\ result = RefRange(ty, search)

====
