------------------------------- MODULE Labels -------------------------------
(***************************************************************************)
(* Labels of the ELF assembler (AssemblerElf.hpp 295-315, 557-573,         *)
(* 719-740) with the x86-64 fixup patching (AssemblerElfX64.hpp 17-54).    *)
(* A label is pending, with the head of a singly linked chain of fixups    *)
(* in temp_symbol_fixups, or placed at an offset.  A reference to a        *)
(* pending label pushes a fixup, reusing an entry of the free list         *)
(* next_free_tsfixup when there is one; label_place walks the chain,       *)
(* patches every site through handle_fixup and pushes each entry onto the  *)
(* free list.  One text section; offsets are bytes of it.                  *)
(***************************************************************************)
EXTENDS Integers, Sequences, FiniteSets

CONSTANTS
  Labels,   \* the labels of one function (label_create'd per block)
  MaxOff    \* bound: size of the text section

NIL == -1          \* ~0u: end of a chain, empty free list
Kinds == {"JMP_OR_MEM_DISP", "JUMP_TABLE"}

VARIABLES
  lab,       \* temp_symbols: [pending, off, head] per label
  fx,        \* temp_symbol_fixups: index -> [site, next, kind]
  freeHead,  \* next_free_tsfixup
  mem,       \* the 32-bit words of the text section at the fixup sites
  cur,       \* the text writer's offset
  refs       \* every reference made: <<label, site, kind, table offset>>

vars == <<lab, fx, freeHead, mem, cur, refs>>

Sites == {s \in 0 .. MaxOff : s % 4 = 0}

-----------------------------------------------------------------------------
(* AssemblerElfX64::handle_fixup *)

\* JMP_OR_MEM_DISP: the rel32 of an instruction ending at the site + 4;
\* JUMP_TABLE: the entry held the table offset and gets the difference.
\* A pending label is placed after all its sites, so neither the u32 nor
\* the i32 difference wraps: the words are the plain differences.
Patch(m, e, off) ==
  [m EXCEPT ![e.site] = IF e.kind = "JMP_OR_MEM_DISP"
                          THEN (off - e.site) - 4
                          ELSE off - m[e.site]]

-----------------------------------------------------------------------------
(* AssemblerElf::label_place *)

\* A mutant: the entry is pushed on the free list before its successor in
\* the chain is read.
RECURSIVE WalkSwapped(_, _, _, _, _)
WalkSwapped(i, F, m, free, off) ==
  IF i = NIL THEN <<F, m, free>>
  ELSE LET F2 == [F EXCEPT ![i].next = free]
       IN WalkSwapped(F2[i].next, F2, Patch(m, F[i], off), i, off)

\* The while loop: patch, remember next, link the entry into the free list.
RECURSIVE Walk(_, _, _, _, _)
Walk(i, F, m, free, off) ==
  IF i = NIL THEN <<F, m, free>>
  ELSE LET next == F[i].next
       IN Walk(next, [F EXCEPT ![i].next = free], Patch(m, F[i], off), i, off)

label_place(l) ==
  LET w == Walk(lab[l].head, fx, mem, freeHead, cur) IN
  /\ lab[l].pending
  /\ lab' = [lab EXCEPT ![l] = [pending |-> FALSE, off |-> cur, head |-> NIL]]
  /\ fx' = w[1]
  /\ mem' = w[2]
  /\ freeHead' = w[3]
  /\ UNCHANGED <<cur, refs>>

-----------------------------------------------------------------------------
(* AssemblerElfBase::reloc_sec(sec, label, kind, off): a reference to a     *)
(* pending label; the instruction's 32-bit field is at cur.                 *)

\* A mutant: an entry is taken from the free list, which is left as it was.
NextFreeKept(F, h) == h

\* The free list loses its head when the head is reused.
NextFree(F, h) == IF h = NIL THEN NIL ELSE F[h].next

reloc_sec(l) ==
  /\ lab[l].pending
  /\ cur + 4 <= MaxOff
  /\ \E kind \in Kinds, t \in {s \in Sites : s <= cur} :
       LET idx   == IF freeHead = NIL THEN Cardinality(DOMAIN fx) ELSE freeHead
           entry == [site |-> cur, next |-> lab[l].head, kind |-> kind]
       IN
       /\ kind = "JMP_OR_MEM_DISP" => t = cur
       /\ fx' = [i \in DOMAIN fx \cup {idx} |-> IF i = idx THEN entry ELSE fx[i]]
       /\ freeHead' = NextFree(fx, freeHead)
       /\ lab' = [lab EXCEPT ![l].head = idx]
       /\ mem' = [mem EXCEPT ![cur] = IF kind = "JUMP_TABLE" THEN t ELSE 0]
       /\ refs' = refs \cup {<<l, cur, kind, t>>}
  /\ cur' = cur + 4

\* Code that references no pending label.
Emit ==
  /\ cur + 4 <= MaxOff
  /\ cur' = cur + 4
  /\ UNCHANGED <<lab, fx, freeHead, mem, refs>>

Init ==
  /\ lab = [l \in Labels |-> [pending |-> TRUE, off |-> 0, head |-> NIL]]
  /\ fx = [i \in {} |-> 0]
  /\ freeHead = NIL
  /\ mem = [s \in Sites |-> 0]
  /\ cur = 0
  /\ refs = {}

Next == (\E l \in Labels : reloc_sec(l) \/ label_place(l)) \/ Emit

Spec == Init /\ [][Next]_vars

-----------------------------------------------------------------------------
(* Properties *)

\* The entries reachable from index i along next (at most n steps).
RECURSIVE ChainFrom(_, _, _)
ChainFrom(i, F, n) ==
  IF i = NIL \/ n = 0 \/ i \notin DOMAIN F THEN {}
  ELSE {i} \cup ChainFrom(F[i].next, F, n - 1)

Chain(i) == ChainFrom(i, fx, Cardinality(DOMAIN fx) + 1)

\* The offset the patched word at site s sends the code to.
Target(s, kind, t) ==
  IF kind = "JMP_OR_MEM_DISP" THEN mem[s] + s + 4 ELSE mem[s] + t

(***************************************************************************)
(* Every reference to a placed label has been patched to reach exactly     *)
(* that label's offset: no site was left unpatched by label_place, and no  *)
(* later label_place patched it again through a reused fixup entry.        *)
(***************************************************************************)
FixupsResolved ==
  \A x \in refs : ~lab[x[1]].pending => Target(x[2], x[3], x[4]) = lab[x[1]].off

(***************************************************************************)
(* The fixup table is partitioned: the chain of a pending label holds      *)
(* exactly the sites that referenced it, and no entry of a pending chain   *)
(* is also on the free list or on another label's chain, so the free list *)
(* recycles only entries whose label has been placed.                      *)
(***************************************************************************)
ChainsExact ==
  /\ \A l \in Labels : lab[l].pending =>
       {fx[i].site : i \in Chain(lab[l].head)} = {x[2] : x \in {y \in refs : y[1] = l}}
  /\ \A l \in Labels : lab[l].pending => Chain(lab[l].head) \cap Chain(freeHead) = {}
  /\ \A l, m \in Labels : l # m /\ lab[l].pending /\ lab[m].pending =>
       Chain(lab[l].head) \cap Chain(lab[m].head) = {}
=============================================================================
