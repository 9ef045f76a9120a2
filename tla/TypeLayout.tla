----------------------------- MODULE TypeLayout -----------------------------
(***************************************************************************)
(* How the LLVM adaptor lowers an LLVM type to the parts TPDE compiles     *)
(* (tpde-llvm/src/LLVMAdaptor.cpp 459-722, LLVMAdaptor.hpp 93-138 and     *)
(* 584-786).  A type that is not a single basic type is "complex": its     *)
(* parts are appended to complex_part_types after a descriptor, and        *)
(* complex_type_map remembers where a type's descriptor is.  Each part     *)
(* has a basic type, a size, the padding after it, whether it ends an LLVM *)
(* value, and nest_inc/nest_dec, the aggregates opened before it and       *)
(* closed after it.                                                        *)
(*                                                                         *)
(* A type is a record [k, w, n, els, packed]: k is the TypeID, w the bit   *)
(* width of an integer or the address space of a pointer, n the elements  *)
(* of a vector or array, els the element types (one for a vector or       *)
(* array).  Positions in complex_part_types are 1-based here: the code's  *)
(* index x is position x + 1.  The bit-fields keep their widths.           *)
(*                                                                         *)
(* The reference is LLVM's DataLayout for x86-64 and AArch64 (both agree   *)
(* on the types used here) and the parts TPDE means to produce for it.     *)
(***************************************************************************)
EXTENDS Integers, Sequences, SequencesExt, Bitwise

\* LLVMComplexPart::MaxLength
MaxLength == 2^16 - 1

\* The widths of the bit-fields pad_after, nest_inc, nest_dec and num_parts.
FieldMod == [pad |-> 2^7, inc |-> 2^4, dec |-> 2^4, np |-> 2^16]

Ty(k) == [k |-> k, w |-> 0, n |-> 0, els |-> <<>>, packed |-> FALSE]
IntTy(w) == [Ty("int") EXCEPT !.w = w]
Ptr(as) == [Ty("ptr") EXCEPT !.w = as]
Float == Ty("float")
Double == Ty("double")
FP128 == Ty("fp128")
Void == Ty("void")
Vec(el, n) == [Ty("vec") EXCEPT !.n = n, !.els = <<el>>]
Arr(el, n) == [Ty("arr") EXCEPT !.n = n, !.els = <<el>>]
Struct(els) == [Ty("struct") EXCEPT !.els = els]
Packed(els) == [Struct(els) EXCEPT !.packed = TRUE]

AlignUp(x, a) == ((x + a - 1) \div a) * a
Larger(x, y) == IF x >= y THEN x ELSE y

-----------------------------------------------------------------------------
(* lower_simple_type and the basic types' sizes *)

\* 31 - cnt_lz(x) for 0 < x < 2^30 (the argument here is below 2^30).
HighBit(x) == CHOOSE e \in 0 .. 29 : 2^e <= x /\ x < 2^(e + 1)

\* An integer of up to 64 bits rounded up: base + off.
RoundedInt(w) == <<"i8", "i16", "i32", "i64">>[1 + HighBit(shiftR(w - 1, 2) | 1)]

\* el_width < 8 || el_width > 64 || (el_width & (el_width - 1))
BadElemWidth(w) == w < 8 \/ w > 64 \/ (w & (w - 1)) # 0

NotSimple == <<"invalid", 0>>

\* A vector of more than one element that is directly legal on both targets.
LowerVector(el, n) ==
  CASE el.k = "int" /\ ~BadElemWidth(el.w) /\ el.w * n = 64  -> <<"v64", 1>>
    [] el.k = "int" /\ ~BadElemWidth(el.w) /\ el.w * n = 128 -> <<"v128", 1>>
    [] el.k = "float" /\ n = 2  -> <<"v64", 1>>
    [] el.k = "float" /\ n = 4  -> <<"v128", 1>>
    [] el.k = "double" /\ n = 2 -> <<"v128", 1>>
    [] OTHER -> NotSimple

\* lower_simple_type: the basic type and the number of parts, or invalid.
LowerSimple(t) ==
  CASE t.k = "float"  -> <<"f32", 1>>
    [] t.k = "double" -> <<"f64", 1>>
    [] t.k = "fp128"  -> <<"f128", 1>>
    [] t.k = "void"   -> <<"none", 1>>
    [] t.k = "int" /\ t.w <= 64 -> <<RoundedInt(t.w), 1>>
    [] t.k = "int" /\ t.w = 128 -> <<"i128", 2>>
    [] t.k = "ptr"    -> <<"ptr", 1>>
    [] t.k = "vec" /\ t.n # 1 -> LowerVector(t.els[1], t.n)
    [] OTHER -> NotSimple

IsSimple(t) == LowerSimple(t)[1] # "invalid"

\* basic_ty_part_size and basic_ty_part_align (the cpp's v64/v128 are the
\* 64- and 128-bit vector types of the header).
PartSize == ("i8" :> 1) @@ ("i16" :> 2) @@ ("i32" :> 4) @@ ("i64" :> 8)
            @@ ("ptr" :> 8) @@ ("i128" :> 8) @@ ("f32" :> 4) @@ ("f64" :> 8)
            @@ ("f128" :> 16) @@ ("v64" :> 8) @@ ("v128" :> 16)
PartAlign == [PartSize EXCEPT !["i128"] = 16]

\* The scalar type of a vector element complex_types_append can scalarize.
ScalarTy(el) ==
  CASE el.k = "int" /\ ~BadElemWidth(el.w) -> RoundedInt(el.w)
    [] el.k = "ptr" /\ el.w = 0 -> "ptr"
    [] el.k = "float"  -> "f32"
    [] el.k = "double" -> "f64"
    [] OTHER -> "invalid"

-----------------------------------------------------------------------------
(* LLVMComplexPart: a part, or the descriptor in front of a type's parts *)

Part(ty, ends) ==
  [ty |-> ty, size |-> PartSize[ty], pad |-> 0, ends |-> ends, inc |-> 0,
   dec |-> 0, np |-> 0, incompat |-> FALSE, invalid |-> FALSE]

Desc == [Part("i8", FALSE) EXCEPT !.ty = "desc", !.size = 0]

\* part.f += by at position i.  A write past the end of the vector is lost:
\* the next emplace_back constructs its part over it.
Bump(P, i, f, by) ==
  IF i \in 1 .. Len(P) THEN [P EXCEPT ![i][f] = (@ + by) % FieldMod[f]] ELSE P

SetFlag(P, d, f) == [P EXCEPT ![d][f] = TRUE]

-----------------------------------------------------------------------------
(* complex_types_append(type, desc_idx): [P, size, align], P the parts     *)
(* with the type's appended and size/align its allocation size and        *)
(* alignment.  d is the descriptor's position.                             *)

RECURSIVE ComplexTypesAppend(_, _, _), AppendElems(_, _, _, _)

\* A mutant: prev is taken after the element is appended, so the padding
\* goes after the element's last part instead of before its first.
AppendElemsLatePrev(t, i, A, d) ==
  IF i > Len(t.els) THEN A
  ELSE LET E    == ComplexTypesAppend(t.els[i], A.P, d)
           prev == Len(E.P)
           algn == IF t.packed THEN 1 ELSE E.align
           size == AlignUp(A.size, algn)
       IN AppendElems(t, i + 1,
            [P |-> IF size # A.size THEN Bump(E.P, prev, "pad", size - A.size) ELSE E.P,
             size |-> size + E.size, align |-> Larger(A.align, algn)], d)

\* The struct's element loop: each element aligned (to 1 if packed), the
\* alignment gap added to pad_after of the part before it.
AppendElems(t, i, A, d) ==
  IF i > Len(t.els) THEN A
  ELSE LET prev == Len(A.P)   \* complex_part_types.size() - 1
           E    == ComplexTypesAppend(t.els[i], A.P, d)
           algn == IF t.packed THEN 1 ELSE E.align
           size == AlignUp(A.size, algn)
       IN AppendElems(t, i + 1,
            [P |-> IF size # A.size THEN Bump(E.P, prev, "pad", size - A.size) ELSE E.P,
             size |-> size + E.size, align |-> Larger(A.align, algn)], d)

ComplexTypesAppend(t, P, d) ==
  LET s     == LowerSimple(t)
      start == Len(P) + 1     \* complex_part_types.size()
  IN
  CASE s[1] # "invalid" ->
         [P |-> P \o [i \in 1 .. s[2] |-> Part(s[1], i = s[2])],
          size |-> s[2] * PartSize[s[1]], align |-> PartAlign[s[1]]]
    [] t.k = "vec" /\ ScalarTy(t.els[1]) # "invalid" ->
         \* Scalarized: one part per element, the layout marked incompatible;
         \* the vector is one value, so only its last part ends it.
         LET st == ScalarTy(t.els[1])
             Q  == SetFlag(P, d, "incompat") \o [i \in 1 .. t.n |-> Part(st, i = t.n)]
         IN [P |-> Bump(Bump(Q, start, "inc", 1), start + t.n - 1, "dec", 1),
             size |-> t.n * PartSize[st], align |-> PartAlign[st]]
    [] t.k = "arr" ->
         \* The element once, then resize and memcpy it to the other slots.
         LET E   == ComplexTypesAppend(t.els[1], P, d)
             len == Len(E.P) - Len(P)
             Q   == SubSeq(E.P, 1, Len(P))
                      \o FlattenSeq([i \in 1 .. t.n |-> SubSeq(E.P, start, Len(E.P))])
             R   == IF t.n * len > MaxLength THEN SetFlag(Q, d, "invalid") ELSE Q
         IN [P |-> IF t.n > 0
                   THEN Bump(Bump(R, start, "inc", 1), start + t.n * len - 1, "dec", 1)
                   ELSE Q,
             size |-> t.n * E.size, align |-> E.align]
    [] t.k = "struct" ->
         LET A    == AppendElems(t, 1, [P |-> P, size |-> 0, align |-> 1], d)
             end  == Len(A.P)
             size == AlignUp(A.size, A.align)
             Q    == IF end - start + 1 > MaxLength THEN SetFlag(A.P, d, "invalid") ELSE A.P
         IN [P |-> IF size > 0
                   THEN Bump(Bump(Bump(Q, start, "inc", 1), end, "dec", 1),
                             end, "pad", size - A.size)
                   ELSE A.P,
             size |-> size, align |-> A.align]
    [] OTHER -> [P |-> SetFlag(P, d, "invalid"), size |-> 0, align |-> 1]

-----------------------------------------------------------------------------
(* lower_complex_type and lower_type: [P, M, ty, idx, report], M the       *)
(* complex_type_map (a function from types to descriptor positions) and    *)
(* report whether report_unsupported_type sets func_unsupported.           *)

NoIdx == -1  \* ~0u

Lowered(P, M, ty, idx, report) ==
  [P |-> P, M |-> M, ty |-> ty, idx |-> idx, report |-> report]

\* The parts of a type appended after a fresh descriptor at position d.
WithCount(Q, d) == [Q EXCEPT ![d].np = (Len(Q) - d) % FieldMod.np]

AppendDesc(t, P) == WithCount(ComplexTypesAppend(t, Append(P, Desc), Len(P) + 1).P, Len(P) + 1)

\* A mutant: the entry of an invalid type stays in the map, holding the
\* value try_emplace gave it (LLVMBasicValType's first value, invalid).
KeepInvalid(t, M, Q, d) ==
  IF Q[d].invalid
  THEN Lowered(Q, M @@ (t :> [ty |-> "invalid", idx |-> 0]), "invalid", NoIdx, TRUE)
  ELSE Lowered(Q, M @@ (t :> [ty |-> "complex", idx |-> d]), "complex", d, FALSE)

LowerComplexKeepInvalid(t, P, M) ==
  IF t \in DOMAIN M THEN Lowered(P, M, M[t].ty, M[t].idx, FALSE)
  ELSE KeepInvalid(t, M, AppendDesc(t, P), Len(P) + 1)

\* try_emplace; a new type is appended; an invalid one is reported and its
\* entry erased, so that every function using it is reported.
\* The map after the parts Q of t were appended after the descriptor at d.
Entered(t, M, Q, d) ==
  IF Q[d].invalid
  THEN Lowered(Q, M, "invalid", NoIdx, TRUE)
  ELSE Lowered(Q, M @@ (t :> [ty |-> "complex", idx |-> d]), "complex", d, FALSE)

LowerComplex(t, P, M) ==
  IF t \in DOMAIN M THEN Lowered(P, M, M[t].ty, M[t].idx, FALSE)
  ELSE Entered(t, M, AppendDesc(t, P), Len(P) + 1)

LowerType(t, P, M) ==
  IF IsSimple(t) THEN Lowered(P, M, LowerSimple(t)[1], NoIdx, FALSE)
  ELSE LowerComplex(t, P, M)

\* check_type_compatibility: a complex type whose layout is not LLVM's is
\* reported (i1 vectors, the header's other case, are never produced by
\* this lower_simple_type).
Incompatible(l) == l.ty = "complex" /\ l.P[l.idx].incompat

-----------------------------------------------------------------------------
(* The reference: LLVM's DataLayout and the parts meant for it             *)

IntAlign(bytes) ==
  CASE bytes <= 1 -> 1 [] bytes <= 2 -> 2 [] bytes <= 4 -> 4 [] bytes <= 8 -> 8
    [] OTHER -> 16

\* The smallest power of two not below x (for 0 < x <= 4096).
Pow2Ceil(x) == CHOOSE p \in {2^e : e \in 0 .. 12} : p >= x /\ p < 2 * x

ElemBits(el) == CASE el.k = "int" -> el.w [] el.k = "float" -> 32
                  [] el.k = "double" -> 64 [] OTHER -> 64

\* A vector is stored densely; its alignment is its size rounded up.
VecStore(t) == (t.n * ElemBits(t.els[1]) + 7) \div 8

RECURSIVE RefAlign(_), RefSize(_), RefOffset(_, _), RefParts(_), RefIncompat(_)

\* The ABI alignment of a type.
RefAlign(t) ==
  CASE t.k = "int" -> IntAlign((t.w + 7) \div 8)
    [] t.k = "float" -> 4
    [] t.k \in {"double", "ptr"} -> 8
    [] t.k = "fp128" -> 16
    [] t.k = "vec" -> Pow2Ceil(VecStore(t))
    [] t.k = "arr" -> RefAlign(t.els[1])
    [] t.k = "struct" /\ ~t.packed ->
         FoldSeq(LAMBDA el, a : Larger(RefAlign(el), a), 1, t.els)
    [] OTHER -> 1

\* The offset of the i-th element of a struct.
RefOffset(t, i) ==
  IF i = 1 THEN 0
  ELSE AlignUp(RefOffset(t, i - 1) + RefSize(t.els[i - 1]),
               IF t.packed THEN 1 ELSE RefAlign(t.els[i]))

\* The allocation size of a type.
RefSize(t) ==
  CASE t.k = "int" -> AlignUp((t.w + 7) \div 8, RefAlign(t))
    [] t.k = "float" -> 4
    [] t.k \in {"double", "ptr"} -> 8
    [] t.k = "fp128" -> 16
    [] t.k = "vec" -> AlignUp(VecStore(t), RefAlign(t))
    [] t.k = "arr" -> t.n * RefSize(t.els[1])
    [] t.k = "struct" /\ t.els # <<>> ->
         AlignUp(RefOffset(t, Len(t.els)) + RefSize(t.els[Len(t.els)]), RefAlign(t))
    [] OTHER -> 0

\* The parts of a type: [ty, size, ends, inc, dec, off, path], off the
\* part's offset and path the extractvalue indices of the element it is in.
RefPart(ty, ends, off) ==
  [ty |-> ty, size |-> PartSize[ty], ends |-> ends, inc |-> 0, dec |-> 0,
   off |-> off, path |-> <<>>]

\* The parts of the idx-th element (0-based) at offset off.
Shift(S, off, idx) ==
  [j \in DOMAIN S |-> [S[j] EXCEPT !.off = @ + off, !.path = <<idx>> \o @]]

\* An aggregate opens before its first part and closes after its last.
Nest(S) == IF S = <<>> THEN S
           ELSE [[S EXCEPT ![1].inc = @ + 1] EXCEPT ![Len(S)].dec = @ + 1]

RefParts(t) ==
  LET s == LowerSimple(t) IN
  CASE s[1] # "invalid" ->
         [i \in 1 .. s[2] |-> RefPart(s[1], i = s[2], (i - 1) * PartSize[s[1]])]
    [] t.k = "vec" /\ ScalarTy(t.els[1]) # "invalid" ->
         LET st == ScalarTy(t.els[1]) IN
         \* One value: its elements are not members an index can name.
         Nest([i \in 1 .. t.n |-> RefPart(st, i = t.n, (i - 1) * PartSize[st])])
    [] t.k = "arr" ->
         Nest(FlattenSeq([i \in 1 .. t.n |->
                Shift(RefParts(t.els[1]), (i - 1) * RefSize(t.els[1]), i - 1)]))
    [] t.k = "struct" ->
         Nest(FlattenSeq([i \in DOMAIN t.els |->
                Shift(RefParts(t.els[i]), RefOffset(t, i), i - 1)]))
    [] OTHER -> <<>>

\* The type holds a vector that is scalarized.
RefIncompat(t) ==
  CASE t.k = "vec" -> ~IsSimple(t) /\ ScalarTy(t.els[1]) # "invalid"
    [] t.k \in {"arr", "struct"} -> \E i \in DOMAIN t.els : RefIncompat(t.els[i])
    [] OTHER -> FALSE

\* The offset of the k-th of the parts Q, from the sizes and paddings.
PartOffset(Q, k) == FoldSeq(LAMBDA q, o : o + q.size + q.pad, 0, SubSeq(Q, 1, k - 1))

\* The parts after the descriptor at d are the reference parts of t, and
\* unless the layout is marked incompatible, they lie at LLVM's offsets.
LayoutMatches(P, d, t) ==
  LET Q == SubSeq(P, d + 1, d + P[d].np)
      R == RefParts(t)
  IN /\ ~P[d].invalid
     /\ P[d].incompat = RefIncompat(t)
     /\ Len(Q) = Len(R)
     /\ \A k \in DOMAIN R :
          /\ Q[k].ty = R[k].ty /\ Q[k].size = R[k].size /\ Q[k].ends = R[k].ends
          /\ Q[k].inc = R[k].inc /\ Q[k].dec = R[k].dec
     /\ ~P[d].incompat =>
          /\ \A k \in DOMAIN R : PartOffset(Q, k) = R[k].off
          /\ PartOffset(Q, Len(Q) + 1) = RefSize(t)

\* The extractvalue index paths that name an element with parts.
Paths(t) == UNION {{SubSeq(r.path, 1, k) : k \in 1 .. Len(r.path)} : r \in Range(RefParts(t))}

\* The first and last part (0-based) of the element at path p.
RefRange(t, p) ==
  LET R  == RefParts(t)
      ks == {k - 1 : k \in {j \in DOMAIN R : IsPrefix(p, R[j].path)}}
  IN <<Min(ks), Max(ks)>>

====
