---------------------------- MODULE MCPartIndex -----------------------------
(***************************************************************************)
(* Values of struct and array types as LLVM front ends emit them, among    *)
(* them structs with zero-sized members (a flexible array member [0 x T],  *)
(* an empty struct, an array of empty structs).                            *)
(***************************************************************************)
EXTENDS PartIndex

I8 == IntTy(8)
I32 == IntTy(32)
I64 == IntTy(64)
Empty == Struct(<<>>)

MCTypes ==
  { Struct(<<I32, I64>>),
    Struct(<<I8, Struct(<<I32, Double>>), I64>>),
    Arr(Struct(<<I32, I8>>), 2),
    Struct(<<IntTy(128), Vec(I32, 3)>>),
    Struct(<<Arr(I8, 0), I32, I64>>),
    Struct(<<I32, Empty, I64>>),
    Struct(<<Empty, Struct(<<I32, I32>>), I32>>),
    Struct(<<I32, Arr(Empty, 2), I64>>) }
====
