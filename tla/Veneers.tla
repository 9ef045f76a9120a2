------------------------------ MODULE Veneers ------------------------------
(***************************************************************************)
(* Veneer islands of the AArch64 function writer (FunctionWriterA64.hpp).  *)
(* Conditional (CBZ/CBNZ/B.cond, 19-bit) and test (TBZ/TBNZ, 14-bit)       *)
(* branches to pending labels are counted; whenever the text buffer must   *)
(* grow, more_space reserves room for one 4-byte slot per counted branch   *)
(* and, if a counted branch could no longer reach the end of the buffer,   *)
(* writes an island: a B over it followed by zeroed slots.  At the end of  *)
(* the function handle_fixups patches every branch, redirecting one whose  *)
(* label is out of its range through the next slot of the first island    *)
(* after it.  The buffer growth is SectionWriterBase::more_space            *)
(* (AssemblerElf.hpp); compile_func sets growth_size to its estimate of    *)
(* the function's size and reserves that much before the prologue.        *)
(***************************************************************************)
EXTENDS Integers, Sequences, FiniteSets

CONSTANTS
  Labels,      \* block labels of the function
  TestBits,    \* 14: immediate bits of TBZ/TBNZ
  CondBits,    \* 19: immediate bits of CBZ/CBNZ and B.cond
  Expected,    \* 0x8 * num_insts + 0x40 (compile_func)
  Start,       \* offset of the function in the text section
  Slack,       \* capacity of the section's vector beyond Start
  MaxGrowth,   \* 0x1000000: cap of growth_size
  MaxText,     \* 128 MiB: more_space is fatal from this size on
  Chunks,      \* sizes of straight-line code between branches and labels
  MaxFixups    \* bound: branches to pending labels per function

NONE == -1
Kinds == {"BR", "COND_BR", "TEST_BR"}

\* 4 << (nbits - 1): the first byte distance the immediate cannot encode.
Range(bits) == 4 * 2^(bits - 1)
Bits(kind) == IF kind = "TEST_BR" THEN TestBits ELSE CondBits

VARIABLES
  off,       \* offset(): the write position
  alloc,     \* allocated_size() = section->data.size()
  cap,       \* section->data.capacity()
  growth,    \* growth_size
  veneers,   \* FunctionWriterA64::veneers (next free slot of each island)
  islands,   \* the islands written: [start, size] (history, for properties)
  ucond,     \* unresolved_cond_brs
  utest,     \* unresolved_test_brs
  fixups,    \* label_fixups: [label, off, kind] in label_ref order
  labOff,    \* offset of each placed label, NONE while pending
  out,       \* what handle_fixups wrote: [label, off, kind, diff, slot]
  failed,    \* an assertion of handle_fixups failed
  phase      \* "start", "body", "done" or "fatal"

vars == <<off, alloc, cap, growth, veneers, islands, ucond, utest, fixups,
          labOff, out, failed, phase>>

-----------------------------------------------------------------------------
(* SectionWriterBase::more_space(size) with the current growth_size g. The  *)
(* vector's capacity grows to exactly the size asked for.                  *)

Grow(size, g) ==
  IF alloc + size <= cap
    THEN /\ alloc' = cap
         /\ growth' = g
         /\ cap' = cap
    ELSE /\ alloc' = alloc + (IF size <= g THEN g ELSE size)
         /\ growth' = IF g + g \div 2 < MaxGrowth THEN g + g \div 2 ELSE MaxGrowth
         /\ cap' = alloc'

-----------------------------------------------------------------------------
(* FunctionWriterA64::more_space(size) *)

VeneerSize == 4 * (utest + ucond)

\* TBZ has 14 bits, CBZ 19; the last slot must still be reachable.
MaxDist(ut) ==
  (IF ut > 0 THEN Range(TestBits) ELSE Range(CondBits)) - VeneerSize

FirstCondBr == IF veneers = <<>> THEN 0 ELSE veneers[Len(veneers)]

\* Either no island is needed (no counted branch, or every counted branch
\* reaches the end of the grown buffer), or one is written at off.
Island ==
  IF VeneerSize = 0 \/ FirstCondBr + MaxDist(utest) > alloc'
    THEN UNCHANGED <<off, veneers, islands, ucond, utest>>
    ELSE /\ veneers' = Append(veneers, off + 4)
         /\ islands' = Append(islands, [start |-> off + 4, size |-> VeneerSize])
         /\ ucond' = 0
         /\ utest' = 0
         /\ off' = off + VeneerSize + 4

more_space(size, g) ==
  \/ /\ alloc >= MaxText
     /\ phase' = "fatal"
     /\ UNCHANGED <<off, alloc, cap, growth, veneers, islands, ucond, utest>>
  \/ /\ alloc < MaxText
     /\ Grow(size + VeneerSize + 4, g)
     /\ Island
     /\ phase' = "body"

-----------------------------------------------------------------------------
(* CompilerBase::compile_func: growth_size = expected size, then            *)
(* ensure_space(expected size); the flushed section has no room left.      *)

StartFunc ==
  /\ phase = "start"
  /\ more_space(Expected, Expected)
  /\ UNCHANGED <<fixups, labOff, out, failed>>

\* Straight-line code that fits in the reserved space (write_inst).
Code ==
  /\ phase = "body"
  /\ \E d \in Chunks \cup {(alloc - off) - ((alloc - off) % 4)} :
       /\ d > 0
       /\ off + d <= alloc
       /\ off' = off + d
  /\ UNCHANGED <<alloc, cap, growth, veneers, islands, ucond, utest, fixups,
                 labOff, out, failed, phase>>

\* write(inst) with fewer than 4 bytes left: ensure_space calls more_space.
NeedSpace ==
  /\ phase = "body"
  /\ off + 4 > alloc
  /\ more_space(4, growth)
  /\ UNCHANGED <<fixups, labOff, out, failed>>

\* A branch to a pending label: the instruction is written, then
\* label_ref(label, its offset, kind) records the fixup and counts it.
label_ref(l, kind) ==
  /\ phase = "body"
  /\ labOff[l] = NONE
  /\ off + 4 <= alloc
  /\ Len(fixups) < MaxFixups
  /\ fixups' = Append(fixups, [label |-> l, off |-> off, kind |-> kind])
  /\ off' = off + 4
  /\ ucond' = IF kind = "COND_BR" THEN ucond + 1 ELSE ucond
  /\ utest' = IF kind = "TEST_BR" THEN utest + 1 ELSE utest
  /\ UNCHANGED <<alloc, cap, growth, veneers, islands, labOff, out, failed, phase>>

\* compile_block places the block's label at the current offset.
label_place(l) ==
  /\ phase = "body"
  /\ labOff[l] = NONE
  /\ labOff' = [labOff EXCEPT ![l] = off]
  /\ UNCHANGED <<off, alloc, cap, growth, veneers, islands, ucond, utest,
                 fixups, out, failed, phase>>

-----------------------------------------------------------------------------
(* FunctionWriterA64::handle_fixups, one fixup at a time.  s holds the     *)
(* veneers vector v, the counters, the words written so far and whether   *)
(* an assertion failed.                                                    *)

\* The island a slot address lies in, if any.
InIsland(a) == \E i \in 1 .. Len(islands) :
                 islands[i].start <= a /\ a < islands[i].start + islands[i].size

\* std::lower_bound(veneers, off): the first island at or after off.
LowerBound(v, o) ==
  LET js == {j \in 1 .. Len(v) : v[j] >= o} IN
  IF js = {} THEN 0 ELSE CHOOSE j \in js : \A k \in js : j <= k

NextSlot(a) == a + 4

\* fix_condbr(nbits): direct if the label is in range, else via a slot.
FixCondBr(s, f, lo) ==
  LET diff == lo - f.off
      j    == LowerBound(s.v, f.off)
      slot == IF j = 0 THEN NONE ELSE s.v[j]
      far  == diff >= Range(Bits(f.kind))
  IN [s EXCEPT
       !.v   = IF far /\ j # 0 THEN [s.v EXCEPT ![j] = NextSlot(s.v[j])] ELSE s.v,
       !.wr  = IF far /\ j # 0 THEN s.wr \cup {slot} ELSE s.wr,
       !.bad = s.bad \/ diff < 0
                     \/ (far /\ j = 0)
                     \/ (far /\ j # 0 /\ (slot \in s.wr \/ ~InIsland(slot))),
       !.out = Append(s.out, [label |-> f.label, off |-> f.off, kind |-> f.kind,
                              slot |-> IF far THEN slot ELSE NONE,
                              diff |-> IF far /\ j # 0 THEN slot - f.off ELSE diff])]

\* A COND_BR or TEST_BR after the last island is still counted.
Uncount(s, f) ==
  LET counted == s.v = <<>> \/ s.v[Len(s.v)] < f.off IN
  CASE f.kind = "COND_BR" /\ counted ->
         [s EXCEPT !.uc = s.uc - 1, !.bad = s.bad \/ s.uc = 0]
    [] f.kind = "TEST_BR" /\ counted ->
         [s EXCEPT !.ut = s.ut - 1, !.bad = s.bad \/ s.ut = 0]
    [] OTHER -> s

FixOne(s, f) ==
  LET lo == labOff[f.label] IN
  IF f.kind = "BR"
    THEN [s EXCEPT !.bad = s.bad \/ lo - f.off < 0,
                   !.out = Append(s.out, [label |-> f.label, off |-> f.off,
                             kind |-> f.kind, slot |-> NONE, diff |-> lo - f.off])]
    ELSE FixCondBr(Uncount(s, f), f, lo)

RECURSIVE FixFrom(_, _)
FixFrom(s, i) == IF i > Len(fixups) THEN s ELSE FixFrom(FixOne(s, fixups[i]), i + 1)

\* The end of the function: every referenced label has been placed.
handle_fixups ==
  LET r == FixFrom([v |-> veneers, uc |-> ucond, ut |-> utest, wr |-> {},
                    out |-> <<>>, bad |-> FALSE], 1)
  IN
  /\ phase = "body"
  /\ \A i \in 1 .. Len(fixups) : labOff[fixups[i].label] # NONE
  /\ veneers' = r.v
  /\ ucond' = r.uc
  /\ utest' = r.ut
  /\ out' = r.out
  /\ failed' = r.bad
  /\ phase' = "done"
  /\ UNCHANGED <<off, alloc, cap, growth, islands, fixups, labOff>>

Init ==
  /\ off = Start
  /\ alloc = Start
  /\ cap = Start + Slack
  /\ growth = Expected
  /\ veneers = <<>>
  /\ islands = <<>>
  /\ ucond = 0
  /\ utest = 0
  /\ fixups = <<>>
  /\ labOff = [l \in Labels |-> NONE]
  /\ out = <<>>
  /\ failed = FALSE
  /\ phase = "start"

Next ==
  \/ StartFunc
  \/ Code
  \/ NeedSpace
  \/ \E l \in Labels, k \in Kinds : label_ref(l, k)
  \/ \E l \in Labels : label_place(l)
  \/ handle_fixups

Spec == Init /\ [][Next]_vars

-----------------------------------------------------------------------------
(* Properties *)

(***************************************************************************)
(* None of handle_fixups' assertions fails: every branch is forward, an    *)
(* out-of-range conditional branch finds an island after it               *)
(* (veneer != veneers.end()), the slot it takes is a zeroed slot of that   *)
(* island that no other branch took (the assertion that the word at the   *)
(* slot is still 0), and each counted branch was counted by label_ref     *)
(* (unresolved_*_brs > 0).                                                 *)
(***************************************************************************)
FixupAssertsHold == phase = "done" => ~failed

(***************************************************************************)
(* Every conditional and test branch patched by handle_fixups reaches its  *)
(* target: the displacement written into its 19- or 14-bit field, to the   *)
(* label or to its veneer slot, is one the field can encode (spec scenario *)
(* S6: a branch too far from its label goes through a veneer).  more_space *)
(* must have written the island early enough for this.                     *)
(***************************************************************************)
CondBranchesInRange ==
  phase = "done" =>
    \A i \in 1 .. Len(out) :
      out[i].kind # "BR" => 0 <= out[i].diff /\ out[i].diff < Range(Bits(out[i].kind))

=============================================================================
