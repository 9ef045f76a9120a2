----------------------------- MODULE MCRegAlloc -----------------------------
(***************************************************************************)
(* Functions for model checking RegAlloc.  Each is a block layout as the   *)
(* analyzer produces it (reverse post-order, loops contiguous).            *)
(*                                                                         *)
(* LoopFn:  b0: v1 = .; v2 = f(v1); v5 = . in r1; v6 = .; v7 = f(v1, v2) *)
(*          b1 (loop header, preds b0 and b2): v3 = f(v1, v5)              *)
(*          b2 (loop latch): v4 = f(v3, v2); branch to b1 or b3            *)
(*          b3: use v2, v6; return                                         *)
(*   v1 and v5 are used only in the header, so their ranges extend to the  *)
(*   loop end (last_full); b0 has five values for four registers, and v5's *)
(*   encoder takes register 1 (alloc_specific), evicting v1 or v2.         *)
(*                                                                         *)
(* DiamondFn: b0: v1 = .; v2 = f(v1); branch to b1 or b2                   *)
(*          b1: v3 = f(v1); jump to b3                                     *)
(*          b2: v4 = f(v2); jump to b3                                     *)
(*          b3: use v1; return                                             *)
(*   b0 falls through to b1 and also branches to b2, the earliest other    *)
(*   successor; b3 has two predecessors.                                   *)
(*                                                                         *)
(* NestedFn: b0: v1 = .   b1 (outer header): v2 = f(v1)                    *)
(*          b2 (inner header): use v2   b3 (inner latch): use u, to b2/b4  *)
(*          b4 (outer latch): v4 = f(w), to b1/b5   b5: use x; return       *)
(*   ranges extended over two nested loops, delayed frees at two depths.   *)
(*                                                                         *)
(* JoinFn:  b0: v1 = .; v2 = f(v1); to b1 or b2   b1: v3 = f(y), to b2     *)
(*          b2: use x; return                                              *)
(*   the fall-through successor b1 has one predecessor, b2 has two.        *)
(*                                                                         *)
(* LatchFn: b0: v1 = .   b1 (header): use v1                               *)
(*          b2 (latch): v4, v5, v2, v3 = .; v6 = f(v2, v3), to b1 or b3    *)
(*          b3: use v4, v5; return                                         *)
(*   v4 and v5 outlive the latch, so both may ask for a fixed register;    *)
(*   the quota (children definitions 5) decides how many get one.          *)
(***************************************************************************)
EXTENDS RegAlloc, TLC

I(d, u) == [def |-> d, uses |-> u, res |-> NONE]
\* An instruction whose encoder asks for its result in register r.
IR(d, u, r) == [def |-> d, uses |-> u, res |-> r]

\* Operand sets of one or two values drawn from S.
Operands(S) == {U \in SUBSET S : U # {} /\ Cardinality(U) <= 2}

LoopFn(h, x) ==
  [insts  |-> (0 :> <<I(1, {}), I(2, {1}), IR(5, {}, 1), I(6, {}), I(7, {1, 2})>>)
              @@ (1 :> <<I(3, h)>>)
              @@ (2 :> <<I(4, {3, 2})>>)
              @@ (3 :> <<I(NONE, x)>>),
   succ   |-> (0 :> {1}) @@ (1 :> {2}) @@ (2 :> {1, 3}) @@ (3 :> {}),
   loopOf |-> (0 :> 0) @@ (1 :> 1) @@ (2 :> 1) @@ (3 :> 0),
   loops  |-> (0 :> [begin |-> 0, end |-> 4, parent |-> 0, dic |-> 2])
              @@ (1 :> [begin |-> 1, end |-> 3, parent |-> 0, dic |-> 0])]

DiamondFn(y, x) ==
  [insts  |-> (0 :> <<I(1, {}), I(2, {1})>>)
              @@ (1 :> <<I(3, y)>>)
              @@ (2 :> <<I(4, {2})>>)
              @@ (3 :> <<I(NONE, x)>>),
   succ   |-> (0 :> {1, 2}) @@ (1 :> {3}) @@ (2 :> {3}) @@ (3 :> {}),
   loopOf |-> [b \in 0 .. 3 |-> 0],
   loops  |-> (0 :> [begin |-> 0, end |-> 4, parent |-> 0, dic |-> 0])]

NestedFn(u, w, x) ==
  [insts  |-> (0 :> <<I(1, {})>>)
              @@ (1 :> <<I(2, {1})>>)
              @@ (2 :> <<I(NONE, {2})>>)
              @@ (3 :> <<I(NONE, u)>>)
              @@ (4 :> <<I(4, w)>>)
              @@ (5 :> <<I(NONE, x)>>),
   succ   |-> (0 :> {1}) @@ (1 :> {2}) @@ (2 :> {3}) @@ (3 :> {2, 4})
              @@ (4 :> {1, 5}) @@ (5 :> {}),
   loopOf |-> (0 :> 0) @@ (1 :> 1) @@ (2 :> 2) @@ (3 :> 2) @@ (4 :> 1) @@ (5 :> 0),
   loops  |-> (0 :> [begin |-> 0, end |-> 6, parent |-> 0, dic |-> 2])
              @@ (1 :> [begin |-> 1, end |-> 5, parent |-> 0, dic |-> 0])
              @@ (2 :> [begin |-> 2, end |-> 4, parent |-> 1, dic |-> 0])]

JoinFn(y, x) ==
  [insts  |-> (0 :> <<I(1, {}), I(2, {1})>>)
              @@ (1 :> <<I(3, y)>>)
              @@ (2 :> <<I(NONE, x)>>),
   succ   |-> (0 :> {1, 2}) @@ (1 :> {2}) @@ (2 :> {}),
   loopOf |-> [b \in 0 .. 2 |-> 0],
   loops  |-> (0 :> [begin |-> 0, end |-> 3, parent |-> 0, dic |-> 0])]

LatchFn ==
  [insts  |-> (0 :> <<I(1, {})>>)
              @@ (1 :> <<I(NONE, {1})>>)
              @@ (2 :> <<I(4, {}), I(5, {}), I(2, {}), I(3, {}), I(6, {2, 3})>>)
              @@ (3 :> <<I(NONE, {4, 5})>>),
   succ   |-> (0 :> {1}) @@ (1 :> {2}) @@ (2 :> {1, 3}) @@ (3 :> {}),
   loopOf |-> (0 :> 0) @@ (1 :> 1) @@ (2 :> 1) @@ (3 :> 0),
   loops  |-> (0 :> [begin |-> 0, end |-> 4, parent |-> 0, dic |-> 5])
              @@ (1 :> [begin |-> 1, end |-> 3, parent |-> 0, dic |-> 0])]

MCPrograms ==
  {LoopFn(h, x) : h \in Operands({1, 2, 5, 6, 7}), x \in Operands({2, 3, 6})}
  \cup {DiamondFn(y, x) : y \in Operands({1, 2}), x \in Operands({1, 2})}
  \cup {NestedFn(u, w, x) : u \in Operands({1, 2}), w \in Operands({1, 2}),
                            x \in Operands({1, 2})}
  \cup {JoinFn(y, x) : y \in Operands({1, 2}), x \in Operands({1, 2})}
  \cup {LatchFn}
=============================================================================
