--------------------------- MODULE EncodeTemplate ---------------------------
(***************************************************************************)
(* The C snippet templates of encode_template.c that are bit arithmetic:   *)
(* the 128-bit shifts split into 64-bit halves, the funnel shifts and      *)
(* rotates, and saturating addition and subtraction.  The backend copies   *)
(* their compiled code for the LLVM instruction, so each must compute what *)
(* that instruction computes.  Widths are scaled down: W stands for the    *)
(* 64-bit half of an i128 and for the unpromoted types u32/u64, NarrowW    *)
(* for u8/u16, which C promotes to int, the IntW-bit type.                 *)
(*                                                                         *)
(* A C shift by the width of its (promoted) type or more is undefined.     *)
(* CShl and CShr return the set of results the built template can produce *)
(* there: the hardware shift masks the amount (x86-64 and AArch64 both do) *)
(* or the compiler folds the shift to 0.                                   *)
(***************************************************************************)
EXTENDS Integers, Bitwise

CONSTANTS
  W,        \* bits of the half of a wide integer (64 in the code)
  NarrowW,  \* bits of a type narrower than int (8 or 16 in the code)
  IntW      \* bits of int, the type a narrow operand is promoted to

Bits(w) == 0 .. 2^w - 1

\* The two's complement value of the w-bit pattern x (a cast to a signed type).
Signed(x, w) == IF x >= 2^(w-1) THEN x - 2^w ELSE x

\* x << s and x >> s on a w-bit unsigned type; defined for s < w.
CShl(x, s, w) ==
  IF s < w THEN {(x * 2^s) % 2^w} ELSE {(x * 2^(s % w)) % 2^w, 0}
CShr(x, s, w) ==
  IF s < w THEN {x \div 2^s} ELSE {x \div 2^(s % w), 0}

\* The width a w-bit operand is shifted in after the integer promotions.
Promoted(w) == IF w < IntW THEN IntW ELSE w

(***************************************************************************)
(* The wide shifts: a is the 2W-bit value, amt the shift amount, iamt the *)
(* complement W - amt the caller passes.  Every shift inside is defined    *)
(* for 1 <= amt < W; a cast to the half type keeps the low W bits.         *)
(***************************************************************************)
Lo(a) == a % 2^W
Hi(a) == a \div 2^W
DefShl(x, s, w) == CHOOSE r \in CShl(x, s, w) : TRUE
DefShr(x, s, w) == CHOOSE r \in CShr(x, s, w) : TRUE

shli128_lt64(a, amt, iamt) ==
  LET lo  == DefShl(Lo(a), amt, W)
      hi0 == DefShr(Lo(a), iamt, W)
      hi1 == DefShl(Hi(a), amt, W)
  IN DefShl(hi0 | hi1, W, 2 * W) | lo

shli128_ge64(a, amt) == DefShl(a, W + (amt % W), 2 * W)

shri128_lt64(a, amt, iamt) ==
  LET lo0 == DefShr(Lo(a), amt, W)
      lo1 == DefShl(Hi(a), iamt, W)
      hi  == DefShr(Hi(a), amt, W)
  IN (DefShl(hi, W, 2 * W) | lo0) | lo1

shri128_ge64(a, amt) == DefShr(a, W + (amt % W), 2 * W)

\* (i64)(a >> 64) >> amt shifts arithmetically; the u128 it is stored in
\* holds its sign extension.
\* A mutant: the high half shifted as a u64, as in shri128_lt64.
ashri128_lt64_unsigned(a, amt, iamt) ==
  LET lo0 == DefShr(Lo(a), amt, W)
      lo1 == DefShl(Hi(a), iamt, W)
      hi  == DefShr(Hi(a), amt, W)
  IN (DefShl(hi, W, 2 * W) | lo0) | lo1

ashri128_lt64(a, amt, iamt) ==
  LET lo0 == DefShr(Lo(a), amt, W)
      lo1 == DefShl(Hi(a), iamt, W)
      hi  == (Signed(Hi(a), W) \div 2^amt) % 2^(2 * W)
  IN (DefShl(hi, W, 2 * W) | lo0) | lo1

ashri128_ge64(a, amt) == (Signed(a, 2 * W) \div 2^(W + (amt % W))) % 2^(2 * W)

(***************************************************************************)
(* Funnel shifts and rotates on a w-bit type: the set of results of the   *)
(* template, the shifts done in the promoted width and the result          *)
(* truncated to w bits by the return.                                      *)
(***************************************************************************)
fshl(a, b, c, w) ==
  LET k == c % w IN
  {(x | y) % 2^w : x \in CShl(a, k, Promoted(w)), y \in CShr(b, w - k, Promoted(w))}

\* A mutant: the operands of fshr swapped, as in fshl.
fshr_swapped(a, b, c, w) ==
  LET k == c % w IN
  {(x | y) % 2^w : x \in CShr(a, k, Promoted(w)), y \in CShl(b, w - k, Promoted(w))}

fshr(a, b, c, w) ==
  LET k == c % w IN
  {(x | y) % 2^w : x \in CShr(b, k, Promoted(w)), y \in CShl(a, w - k, Promoted(w))}

roli(a, c, w) ==
  IF c = 0 THEN {a}
  ELSE LET k == c & (w - 1) IN
       {(x | y) % 2^w : x \in CShl(a, k, Promoted(w)), y \in CShr(a, w - k, Promoted(w))}

rori(a, c, w) ==
  IF c = 0 THEN {a}
  ELSE LET k == c & (w - 1) IN
       {(x | y) % 2^w : x \in CShr(a, k, Promoted(w)), y \in CShl(a, w - k, Promoted(w))}

(***************************************************************************)
(* Saturating arithmetic: __builtin_add_overflow / _sub_overflow compute   *)
(* the exact result and report whether it leaves the type; the signed      *)
(* templates saturate towards the sign of a.                               *)
(***************************************************************************)
SMin(w) == -(2^(w-1))
SMax(w) == 2^(w-1) - 1

sat_add_u(a, b, w) == IF a + b > 2^w - 1 THEN 2^w - 1 ELSE a + b
sat_sub_u(a, b, w) == IF a - b < 0 THEN 0 ELSE a - b
sat_add_i(a, b, w) ==
  IF a + b \notin SMin(w) .. SMax(w) THEN IF a < 0 THEN SMin(w) ELSE SMax(w)
  ELSE a + b
\* A mutant: the bound of a signed subtraction chosen by the sign of b.
sat_sub_i_signb(a, b, w) ==
  IF a - b \notin SMin(w) .. SMax(w) THEN IF b < 0 THEN SMin(w) ELSE SMax(w)
  ELSE a - b

sat_sub_i(a, b, w) ==
  IF a - b \notin SMin(w) .. SMax(w) THEN IF a < 0 THEN SMin(w) ELSE SMax(w)
  ELSE a - b

-----------------------------------------------------------------------------
(***************************************************************************)
(* What the LLVM instructions compute, on the unsigned w-bit pattern.      *)
(***************************************************************************)
RefShl(a, s, w)  == (a * 2^s) % 2^w
RefLShr(a, s, w) == a \div 2^s
RefAShr(a, s, w) == (Signed(a, w) \div 2^s) % 2^w
RefFshl(a, b, c, w) == (((a * 2^w + b) * 2^(c % w)) \div 2^w) % 2^w
RefFshr(a, b, c, w) == ((a * 2^w + b) \div 2^(c % w)) % 2^w
RefClamp(x, lo, hi) == IF x < lo THEN lo ELSE IF x > hi THEN hi ELSE x

\* The i128 shift templates on the 2W-bit value a, for every amount.
WideShiftsAt(a) ==
  /\ \A amt \in 1 .. W - 1 :
       /\ shli128_lt64(a, amt, W - amt) = RefShl(a, amt, 2 * W)
       /\ shri128_lt64(a, amt, W - amt) = RefLShr(a, amt, 2 * W)
       /\ ashri128_lt64(a, amt, W - amt) = RefAShr(a, amt, 2 * W)
  /\ \A amt \in W .. 2 * W - 1 :
       /\ shli128_ge64(a, amt) = RefShl(a, amt, 2 * W)
       /\ shri128_ge64(a, amt) = RefLShr(a, amt, 2 * W)
       /\ ashri128_ge64(a, amt) = RefAShr(a, amt, 2 * W)

\* The funnel shifts of a w-bit a by c, for every b where the template's
\* shifts are defined, and the rotates of a by c.
FunnelShiftsAt(w, a, c) ==
  /\ \A b \in Bits(w) : (w < IntW \/ c % w # 0) =>
       /\ fshl(a, b, c, w) = {RefFshl(a, b, c, w)}
       /\ fshr(a, b, c, w) = {RefFshr(a, b, c, w)}
  /\ roli(a, c, w) = {RefFshl(a, a, c, w)}
  /\ rori(a, c, w) = {RefFshr(a, a, c, w)}

\* The saturating templates on the w-bit pattern pair a, b, read unsigned
\* and signed.
SaturatingAt(w, a, b) ==
  LET sa == Signed(a, w)
      sb == Signed(b, w)
  IN /\ sat_add_u(a, b, w) = RefClamp(a + b, 0, 2^w - 1)
     /\ sat_sub_u(a, b, w) = RefClamp(a - b, 0, 2^w - 1)
     /\ sat_add_i(sa, sb, w) = RefClamp(sa + sb, SMin(w), SMax(w))
     /\ sat_sub_i(sa, sb, w) = RefClamp(sa - sb, SMin(w), SMax(w))
=============================================================================
