------------------------------ MODULE MCDriver ------------------------------
(***************************************************************************)
(* Two modules compiled one after the other with a reset() in between.     *)
(* The first has a function with any of the constants of MCSwitchFunc,     *)
(* whose second block may hold an instruction compile_inst refuses, and a  *)
(* second function that is extern or has a body; the second module has     *)
(* one function.  Either module may have a thread-local global whose uses  *)
(* cannot be rewritten.  Their values have the type i64.                  *)
(*                                                                         *)
(* Besides, the modules of TypeModules check the type lowering: a module   *)
(* of two functions, each with one instruction of a type of InstTypes and  *)
(* an argument and return type of SigTypes (the same in both), then a     *)
(* module with one function.  The types cover every case of               *)
(* lower_simple_type and complex_types_append: padding, i128's alignment,  *)
(* packed structs, arrays of structs, nested structs, scalarized vectors, *)
(* a zero-length array member, and the invalid cases.                     *)
(***************************************************************************)
EXTENDS Driver

C(k, ops) == [k |-> k, ops |-> ops, id |-> SF!NONE]
D  == C("data", <<>>)
U  == C("undef", <<>>)
G  == C("global", <<>>)
E1 == C("expr", <<G, D>>)
E2 == C("expr", <<E1>>)
V1 == C("vec", <<G, U>>)
V2 == C("vec", <<U, D>>)
A1 == C("agg", <<D, E1>>)
A2 == C("agg", <<V1, D>>)
A3 == C("agg", <<G, D>>)

Trees == {D, E1, E2, V1, V2, A1, A2, A3}

I64 == SF!IntTy(64)
I32 == SF!IntTy(32)
I8 == SF!IntTy(8)

TI(id, kind, ops, ty) == [id |-> id, kind |-> kind, ops |-> ops, from |-> <<>>, ty |-> ty]
I(id, kind, ops) == TI(id, kind, ops, I64)
Phi(id, from, ops) == [id |-> id, kind |-> "phi", ops |-> ops, from |-> from, ty |-> I64]

\* t is the kind of the last instruction of block 2: "br", or "unsup".
Fn(c1, c2, c3, t) ==
  << << I(1, "alloca", <<>>), I(2, "op", <<c1>>), I(3, "cmp", <<>>), I(4, "br", <<>>) >>,
     << Phi(5, <<1, 2, 1>>, <<c2, c3, c2>>), I(6, t, <<>>) >> >>

Sig(t) == [args |-> <<t>>, ret |-> t]
Body(f) == [code |-> f, extern |-> FALSE, sig |-> Sig(I64)]

First == {Body(Fn(c1, c2, c3, t)) : c1 \in Trees, c2 \in Trees, c3 \in Trees,
                                    t \in {"br", "unsup"}}
\* Three blocks: the PHI of block 3 expands its constant into block 2 right
\* after block 2's PHI, once block 2's phi_end was stored.
Chain(c1, c2) ==
  << << I(1, "op", <<c1>>), I(2, "br", <<>>) >>,
     << Phi(3, <<1, 3>>, <<D, D>>), I(4, "br", <<>>) >>,
     << Phi(5, <<2, 2>>, <<c2, c2>>), I(6, "br", <<>>) >> >>

Second == {[code |-> Chain(E2, A2), extern |-> e, sig |-> Sig(I64)] : e \in BOOLEAN}

SPad == SF!Struct(<<I8, I32>>)
ArrPad == SF!Arr(SF!Struct(<<I32, I8>>), 2)
V3 == SF!Vec(I32, 3)

InstTypes ==
  { I64, SF!IntTy(24), SF!IntTy(99), SF!Vec(SF!Float, 4), SPad, SF!Packed(<<I8, I32>>),
    ArrPad, V3, SF!Struct(<<I32, SF!Arr(I8, 0), I64>>), SF!Struct(<<I8, SF!IntTy(128)>>),
    SF!Struct(<<I64, SF!Struct(<<SF!Float, SF!Double>>)>>),
    SF!Struct(<<SF!Vec(SF!IntTy(1), 2)>>), SF!Vec(SF!Ptr(1), 2) }

SigTypes == {I64, SPad, V3, ArrPad}

\* A function of one instruction of type t and the branch.
TBody(t, a) ==
  [code |-> << << TI(1, "op", <<>>, t), I(2, "br", <<>>) >> >>, extern |-> FALSE,
   sig |-> Sig(a)]

TypeModules ==
  {<< [tls |-> FALSE, funcs |-> <<TBody(t1, a), TBody(t2, a)>>],
      [tls |-> FALSE, funcs |-> <<TBody(SPad, I64)>>] >> :
     t1 \in InstTypes, t2 \in InstTypes, a \in SigTypes}

MCModules ==
  {<< [tls |-> t1, funcs |-> <<f1, f2>>],
      [tls |-> t2, funcs |-> <<Body(Fn(A1, V1, D, "br"))>>] >> :
     f1 \in First, f2 \in Second, t1 \in BOOLEAN, t2 \in BOOLEAN}
  \cup TypeModules
====
