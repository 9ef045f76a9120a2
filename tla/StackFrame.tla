----------------------------- MODULE StackFrame -----------------------------
(***************************************************************************)
(* The stack-frame slot allocator of CompilerBase:                          *)
(*   allocate_stack_slot  (CompilerBase.hpp 944-994)                       *)
(*   free_stack_slot      (CompilerBase.hpp 996-1009)                      *)
(*   the per-function reset in compile_func (1918-1921) together with the  *)
(*   target prologue that sets frame_size.                                 *)
(* Small requests (<= 16 bytes) are rounded to a power of two and served   *)
(* from five LIFO free lists; larger ones are aligned up to 16 and served  *)
(* from a map size -> LIFO list.  When the frame grows, the sub-aligned    *)
(* hole below the new slot is cut into power-of-two pieces that go to the  *)
(* small free lists.  `live` is the set of slots the callers hold (spill   *)
(* slots, PHI temporaries, alloca slots); a caller frees a slot with the   *)
(* size it requested.                                                      *)
(***************************************************************************)
EXTENDS Integers, Sequences, SequencesExt, FiniteSets, FrameLayout

CONSTANTS
  FrameInit,  \* frame_size after the prologue has reserved its area
  Sizes,      \* request sizes callers pass to allocate_stack_slot
  MaxFrame,   \* bound: the frame is not grown once it reaches this size
  MaxLive     \* bound: callers hold at most this many slots at once

ASSUME FrameInit \in Nat \ {0} /\ Sizes \subseteq Nat \ {0} /\ MaxFrame \in Nat

VARIABLES
  frame_size,          \* stack.frame_size
  fixed_free_lists,    \* stack.fixed_free_lists[0..4]
  dynamic_free_lists,  \* stack.dynamic_free_lists (absent key = empty list)
  live                 \* slots held by callers: [slot, size]

vars == <<frame_size, fixed_free_lists, dynamic_free_lists, live>>

ListIdx == 0 .. 4
DynSizes == {RoundSize(s) : s \in {x \in Sizes : x > 16}}

NoFreeLists == [i \in ListIdx |-> <<>>]
NoDynLists  == [d \in DynSizes |-> <<>>]

\* A mutant: frame_size is aligned up and the hole below it is dropped.
AlignFrameDropHole(fs, lists, bits) == <<AlignUp(fs, 2^bits), lists>>

\* A mutant: the frame is not aligned before a fresh slot is cut.
AlignFrameNone(fs, lists, bits) == <<fs, lists>>

(***************************************************************************)
(* The loop of allocate_stack_slot that aligns frame_size to `bits`: every *)
(* step pushes the piece [fs, fs + 2^tz) onto fixed list tz.               *)
(***************************************************************************)
RECURSIVE AlignFrame(_, _, _)
AlignFrame(fs, lists, bits) ==
  IF CntTz(fs) >= bits THEN <<fs, lists>>
  ELSE LET k == CntTz(fs)
       IN  AlignFrame(fs + 2^k,
                      [lists EXCEPT ![k] = Append(@, SlotOf(fs, 2^k))],
                      bits)

\* Request of a small size served by popping the back of its free list.
AllocFromFixedList(size) ==
  LET idx == FreeListIdx(size) IN
  /\ size <= 16
  /\ fixed_free_lists[idx] # <<>>
  /\ live' = live \cup {[slot |-> Last(fixed_free_lists[idx]), size |-> size]}
  /\ fixed_free_lists' = [fixed_free_lists EXCEPT ![idx] = Front(@)]
  /\ UNCHANGED <<frame_size, dynamic_free_lists>>

\* Request of a large size served by popping the back of its map entry.
AllocFromDynamicList(size) ==
  LET d == RoundSize(size) IN
  /\ size > 16
  /\ dynamic_free_lists[d] # <<>>
  /\ live' = live \cup {[slot |-> Last(dynamic_free_lists[d]), size |-> size]}
  /\ dynamic_free_lists' = [dynamic_free_lists EXCEPT ![d] = Front(@)]
  /\ UNCHANGED <<frame_size, fixed_free_lists>>

\* No free slot of the class: align the frame, then take the top.
AllocGrow(size) ==
  LET empty   == IF size <= 16 THEN fixed_free_lists[FreeListIdx(size)] = <<>>
                 ELSE dynamic_free_lists[RoundSize(size)] = <<>>
      aligned == AlignFrame(frame_size, fixed_free_lists, AlignBits(size))
      off     == aligned[1]
  IN
  /\ empty
  /\ frame_size < MaxFrame
  /\ fixed_free_lists' = aligned[2]
  /\ frame_size' = off + RoundSize(size)
  /\ live' = live \cup {[slot |-> SlotOf(off, RoundSize(size)), size |-> size]}
  /\ UNCHANGED dynamic_free_lists

allocate_stack_slot(size) ==
  \/ AllocFromFixedList(size)
  \/ AllocFromDynamicList(size)
  \/ AllocGrow(size)

\* free_stack_slot(slot, size), called with the size that was requested.
free_stack_slot(a) ==
  /\ live' = live \ {a}
  /\ IF a.size <= 16
       THEN /\ fixed_free_lists' =
                 [fixed_free_lists EXCEPT ![FreeListIdx(a.size)] = Append(@, a.slot)]
            /\ UNCHANGED dynamic_free_lists
       ELSE /\ dynamic_free_lists' =
                 [dynamic_free_lists EXCEPT ![RoundSize(a.size)] = Append(@, a.slot)]
            /\ UNCHANGED fixed_free_lists
  /\ UNCHANGED frame_size

(***************************************************************************)
(* A new function: compile_func clears both free-list kinds and the        *)
(* prologue re-initialises frame_size.  Slots still held (alloca slots,    *)
(* which are never freed) are dropped with the old frame.                  *)
(***************************************************************************)
StartFunc ==
  /\ frame_size' = FrameInit
  /\ fixed_free_lists' = NoFreeLists
  /\ dynamic_free_lists' = NoDynLists
  /\ live' = {}

Init ==
  /\ frame_size = FrameInit
  /\ fixed_free_lists = NoFreeLists
  /\ dynamic_free_lists = NoDynLists
  /\ live = {}

Next ==
  \/ \E size \in Sizes : Cardinality(live) < MaxLive /\ allocate_stack_slot(size)
  \/ \E a \in live : free_stack_slot(a)
  \/ StartFunc

Spec == Init /\ [][Next]_vars

-----------------------------------------------------------------------------
(* Properties *)

\* Every free-list entry and held slot, as [slot, len] with its byte length.
FreeEntries ==
  UNION {{[slot |-> fixed_free_lists[i][j], len |-> 2^i] :
             j \in 1 .. Len(fixed_free_lists[i])} : i \in ListIdx}
  \cup UNION {{[slot |-> dynamic_free_lists[d][j], len |-> d] :
                 j \in 1 .. Len(dynamic_free_lists[d])} : d \in DynSizes}

Bytes(e) == OffsetOf(e.slot, e.len) .. OffsetOf(e.slot, e.len) + e.len - 1

\* A slot value is a valid slot for the target's indexing direction.
SlotValue == IF FRAME_INDEXING_NEGATIVE THEN -(MaxFrame + 64) .. -1
             ELSE 1 .. MaxFrame + 64

TypeOK ==
  /\ frame_size \in FrameInit .. MaxFrame + 64
  /\ fixed_free_lists \in [ListIdx -> Seq(SlotValue)]
  /\ dynamic_free_lists \in [DynSizes -> Seq(SlotValue)]
  /\ live \subseteq [slot : SlotValue, size : Sizes]

(***************************************************************************)
(* The free lists and the held slots tile the frame above the prologue     *)
(* area exactly: no byte of [FrameInit, frame_size) is lost (the alignment *)
(* holes of allocate_stack_slot go back to the small lists) and no byte is *)
(* in two places (a slot is never handed out twice, a hole is never a     *)
(* piece of a held slot).  Counting each entry once per list occurrence,   *)
(* the byte counts add up and every byte is covered.                       *)
(***************************************************************************)
HeldEntries == {[slot |-> a.slot, len |-> RoundSize(a.size)] : a \in live}

EntryCount ==
  Cardinality(live)
  + Len(fixed_free_lists[0]) + Len(fixed_free_lists[1]) + Len(fixed_free_lists[2])
  + Len(fixed_free_lists[3]) + Len(fixed_free_lists[4])
  + FoldFunction(LAMBDA l, acc : Len(l) + acc, 0, dynamic_free_lists)

FrameTiled ==
  LET entries == FreeEntries \cup HeldEntries IN
  /\ EntryCount = Cardinality(entries)
  /\ \A e, f \in entries : e # f => Bytes(e) \cap Bytes(f) = {}
  /\ UNION {Bytes(e) : e \in entries} = FrameInit .. frame_size - 1

(***************************************************************************)
(* Every slot handed out starts at a multiple of its size class (16 for    *)
(* large requests), as the backend's spill and load instructions assume.   *)
(***************************************************************************)
RequiredAlign(size) == IF size <= 16 THEN RoundSize(size) ELSE 16

SlotsAligned ==
  \A a \in live :
    OffsetOf(a.slot, RoundSize(a.size)) % RequiredAlign(a.size) = 0
=============================================================================
