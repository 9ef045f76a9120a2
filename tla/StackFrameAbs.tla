--------------------------- MODULE StackFrameAbs ---------------------------
(***************************************************************************)
(* What the stack-slot allocator of CompilerBase promises its callers      *)
(* (spill slots, PHI temporaries, alloca slots), independent of free       *)
(* lists: a request of `size` bytes gets RoundSize(size) bytes aligned to  *)
(* their size class, disjoint from every slot still held, inside the       *)
(* frame; the frame only grows, and only as far as the new slot needs.     *)
(* A new function starts with the prologue's frame and nothing held.       *)
(***************************************************************************)
EXTENDS Integers, FrameLayout

CONSTANTS FrameInit, Sizes, MaxFrame

VARIABLES frame_size, live

HeldBytes == UNION {Region(a.slot, a.size) : a \in live}

\* Offsets a slot may start at in the bounded model.
Offsets == FrameInit .. MaxFrame + 64

Alloc(size) ==
  \E off \in Offsets :
    LET len == RoundSize(size) IN
    /\ off % (IF len < 16 THEN len ELSE 16) = 0
    /\ (off .. off + len - 1) \cap HeldBytes = {}
    /\ frame_size' = IF off + len > frame_size THEN off + len ELSE frame_size
    /\ live' = live \cup {[slot |-> SlotOf(off, len), size |-> size]}

Free(a) ==
  /\ live' = live \ {a}
  /\ UNCHANGED frame_size

NewFrame ==
  /\ frame_size' = FrameInit
  /\ live' = {}

Init == frame_size = FrameInit /\ live = {}

Next ==
  \/ \E size \in Sizes : Alloc(size)
  \/ \E a \in live : Free(a)
  \/ NewFrame

Spec == Init /\ [][Next]_<<frame_size, live>>
=============================================================================
