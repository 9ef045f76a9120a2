---------------------------- MODULE MCSwitchFunc ----------------------------
(***************************************************************************)
(* A function for SwitchFunc whose second instruction uses a struct that  *)
(* holds only a ConstantVector of undef and data.  Block 1 holds an        *)
(* alloca, that instruction, a compare and the branch; block 2 a PHI with  *)
(* a multi-edge from block 1 and an edge from itself, then its branch.     *)
(* The other shapes of constants are checked through Driver (MCDriver).    *)
(***************************************************************************)
EXTENDS SwitchFunc

C(k, ops) == [k |-> k, ops |-> ops, id |-> NONE]
D  == C("data", <<>>)
U  == C("undef", <<>>)
\* { <i32 undef, i32 1> }: the vector folds to data, the struct is rebuilt
V2 == C("vec", <<U, D>>)        \* <i32 undef, i32 1>
ABad == C("agg", <<V2>>)

I(id, kind, ops) == [id |-> id, kind |-> kind, ops |-> ops, from |-> <<>>, ty |-> IntTy(64)]
Phi(id, from, ops) == [id |-> id, kind |-> "phi", ops |-> ops, from |-> from, ty |-> IntTy(64)]

Fn(k, c1, c2, c3) ==
  << << I(1, k, <<>>), I(2, "op", <<c1>>), I(3, "cmp", <<>>), I(4, "br", <<>>) >>,
     << Phi(5, <<1, 2, 1>>, <<c2, c3, c2>>), I(6, "br", <<>>) >> >>

MCFuncsBad == {Fn("alloca", ABad, D, D)}
====
