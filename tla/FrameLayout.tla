---------------------------- MODULE FrameLayout ----------------------------
(***************************************************************************)
(* Size classes and slot encoding of the stack-frame allocator of          *)
(* CompilerBase (allocate_stack_slot / free_stack_slot).  A slot is the    *)
(* value handed to the caller; with FRAME_INDEXING_NEGATIVE the slot of    *)
(* the bytes [off, off+len) is -(off+len), otherwise it is off.            *)
(***************************************************************************)
EXTENDS Integers

CONSTANT FRAME_INDEXING_NEGATIVE

\* Number of trailing zero bits of a u32 (cnt_tz); 32 for zero.
RECURSIVE CntTz(_)
CntTz(n) ==
  IF n = 0 THEN 32
  ELSE IF n % 2 = 1 THEN 0 ELSE 1 + CntTz(n \div 2)

\* Index of the fixed free list of a small size: size 1 -> 0, otherwise
\* 32 - cnt_lz(size - 1), i.e. the exponent of the next power of two.
FreeListIdx(size) ==
  IF size = 1 THEN 0
  ELSE CHOOSE i \in 1 .. 4 : 2^(i-1) < size /\ size <= 2^i

AlignUp(n, a) == ((n + a - 1) \div a) * a

\* Bytes a request of `size` occupies: next power of two up to 16,
\* otherwise aligned up to 16.
RoundSize(size) ==
  IF size <= 16 THEN 2^FreeListIdx(size) ELSE AlignUp(size, 16)

\* A mutant: large slots aligned to 8 bytes only.
AlignBitsLarge8(size) == IF size <= 16 THEN FreeListIdx(size) ELSE 3

\* Required alignment (log2) of the start of a fresh slot.
AlignBits(size) == IF size <= 16 THEN FreeListIdx(size) ELSE 4

\* A mutant: the frame offset is returned whatever the indexing direction.
SlotOfOffset(off, len) == off

\* A mutant: the negative encoding is used whatever the indexing direction.
SlotOfNegated(off, len) == -(off + len)

\* The slot value returned for the bytes [off, off+len).
SlotOf(off, len) == IF FRAME_INDEXING_NEGATIVE THEN -(off + len) ELSE off

\* Inverse: the first byte of a slot of `len` bytes.
OffsetOf(slot, len) == IF FRAME_INDEXING_NEGATIVE THEN -slot - len ELSE slot

\* The bytes a slot of a request of `size` covers.
Region(slot, size) ==
  OffsetOf(slot, RoundSize(size)) .. OffsetOf(slot, RoundSize(size)) + RoundSize(size) - 1
=============================================================================
