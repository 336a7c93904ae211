---------------------------- MODULE WasmNumbers ----------------------------
(***************************************************************************)
(* The numbers of the WebAssembly engine (wasm/wasm.cpp): the numeric      *)
(* instructions and LEB128. Sizes are scaled down: a byte has one bit, so  *)
(* an i32 has four and an i64 eight, and a group of LEB128 has two.        *)
(*                                                                         *)
(* An integer is kept as its unsigned bits; a float has a sign and a size  *)
(* in halves. Rounding, square roots and float arithmetic are left out.    *)
(***************************************************************************)
EXTENDS Integers, Sequences, FiniteSets, Bitwise

ByteBits == 1
Bytes(t) == IF t = "i32" THEN 4 ELSE 8
Bits(t) == Bytes(t) * ByteBits
Signed(n, w) == IF n >= 2^(w - 1) THEN n - 2^w ELSE n
Unsigned(n, w) == n % 2^w
Flag(b) == IF b THEN 1 ELSE 0

\* What an instruction that fails returns.
Trap == -1

\* C++ division rounds towards zero.
Quotient(a, b) == LET q == (IF a < 0 THEN -a ELSE a) \div (IF b < 0 THEN -b ELSE b) IN IF (a < 0) = (b < 0) THEN q ELSE -q
Remainder(a, b) == a - b * Quotient(a, b)

SetBits(n, w) == {i \in 0..(w - 1) : (n \div 2^i) % 2 = 1}
CountlZero(n, w) == IF n = 0 THEN w ELSE w - 1 - (CHOOSE i \in SetBits(n, w) : \A j \in SetBits(n, w) : j <= i)
CountrZero(n, w) == IF n = 0 THEN w ELSE CHOOSE i \in SetBits(n, w) : \A j \in SetBits(n, w) : i <= j
RotateLeft(n, k, w) == Unsigned(n * 2^k, w) + n \div 2^(w - k)

IntUnary == {"eqz", "clz", "ctz", "popcnt", "extend8", "extend16", "extend32"}
Unary(op, n, w) ==
  CASE op = "eqz"    -> Flag(n = 0)
    [] op = "clz"    -> CountlZero(n, w)
    [] op = "ctz"    -> CountrZero(n, w)
    [] op = "popcnt" -> Cardinality(SetBits(n, w))
    [] op = "extend8"  -> Unsigned(Signed(Unsigned(n, ByteBits), ByteBits), w)
    [] op = "extend16" -> Unsigned(Signed(Unsigned(n, 2 * ByteBits), 2 * ByteBits), w)
    [] op = "extend32" -> Unsigned(Signed(Unsigned(n, 4 * ByteBits), 4 * ByteBits), w)

Compares == {"eq", "ne", "lt_s", "lt_u", "gt_s", "gt_u", "le_s", "le_u", "ge_s", "ge_u"}
Compare(op, a, b, w) ==
  LET s == Signed(a, w)
      t == Signed(b, w)
  IN  Flag(CASE op = "eq" -> a = b   [] op = "ne" -> a # b
             [] op = "lt_s" -> s < t  [] op = "lt_u" -> a < b  [] op = "gt_s" -> s > t  [] op = "gt_u" -> a > b
             [] op = "le_s" -> s <= t [] op = "le_u" -> a <= b [] op = "ge_s" -> s >= t [] op = "ge_u" -> a >= b)

IntBinary == {"add", "sub", "mul", "div_s", "div_u", "rem_s", "rem_u", "and", "or", "xor", "shl", "shr_s", "shr_u", "rotl", "rotr"}
Binary(op, a, b, w) ==
  LET s == Signed(a, w)
      t == Signed(b, w)
      k == b % w
      U(n) == Unsigned(n, w)
  IN  CASE op = "add" -> U(a + b) [] op = "sub" -> U(a - b) [] op = "mul" -> U(a * b)
        [] op = "div_s" -> IF b = 0 \/ (s = -2^(w - 1) /\ t = -1) THEN Trap ELSE U(Quotient(s, t))
        [] op = "div_u" -> IF b = 0 THEN Trap ELSE a \div b
        [] op = "rem_s" -> IF b = 0 THEN Trap ELSE IF t = -1 THEN 0 ELSE U(Remainder(s, t))
        [] op = "rem_u" -> IF b = 0 THEN Trap ELSE a % b
        [] op = "and" -> a & b [] op = "or" -> a | b [] op = "xor" -> a ^^ b
        [] op = "shl" -> U(a * 2^k) [] op = "shr_s" -> U(s \div 2^k) [] op = "shr_u" -> a \div 2^k
        [] op = "rotl" -> RotateLeft(a, k, w) [] op = "rotr" -> RotateLeft(a, (w - k) % w, w)

\* wrap and extend_s, extend_u, between an i32 and an i64.
IntConversions == {"wrap", "extend_s", "extend_u"}
ConvertInt(op, n) ==
  CASE op = "wrap" -> Unsigned(n, Bits("i32")) [] op = "extend_s" -> Unsigned(Signed(n, Bits("i32")), Bits("i64")) [] op = "extend_u" -> n

(***************************************************************************)
(* Floats.                                                                 *)
(***************************************************************************)
Inf == 1000
NaN == 2000
Float(neg, size) == [neg |-> neg, size |-> size]
IsNan(x) == x.size = NaN
Number(x) == IF x.neg THEN -x.size ELSE x.size
Less(a, b) == ~IsNan(a) /\ ~IsNan(b) /\ Number(a) < Number(b)
Same(a, b) == ~IsNan(a) /\ ~IsNan(b) /\ Number(a) = Number(b)

FloatCompare(op, a, b) ==
  Flag(CASE op = "eq" -> Same(a, b) [] op = "ne" -> ~Same(a, b) [] op = "lt" -> Less(a, b) [] op = "gt" -> Less(b, a)
         [] op = "le" -> Less(a, b) \/ Same(a, b) [] op = "ge" -> Less(b, a) \/ Same(a, b))

Down(x) == IF x.size >= Inf THEN x ELSE [x EXCEPT !.size = 2 * (@ \div 2)]
Up(x) == IF x.size >= Inf THEN x ELSE [x EXCEPT !.size = 2 * ((@ + 1) \div 2)]
FloatUnary(op, x) ==
  CASE op = "abs" -> [x EXCEPT !.neg = FALSE] [] op = "neg" -> [x EXCEPT !.neg = ~@] [] op = "trunc" -> Down(x)
    [] op = "ceil" -> IF x.neg THEN Down(x) ELSE Up(x) [] op = "floor" -> IF x.neg THEN Up(x) ELSE Down(x)
    \* the nearest even integer of a half
    [] op = "nearest" -> IF x.size < Inf /\ x.size % 4 = 3 THEN Up(x) ELSE Down(x)

WasmMin(a, b) ==
  IF IsNan(a) \/ IsNan(b) THEN Float(FALSE, NaN)
  ELSE IF a.size = 0 /\ b.size = 0 THEN Float(a.neg \/ b.neg, 0) ELSE IF Less(b, a) THEN b ELSE a
WasmMax(a, b) ==
  IF IsNan(a) \/ IsNan(b) THEN Float(FALSE, NaN)
  ELSE IF a.size = 0 /\ b.size = 0 THEN Float(a.neg /\ b.neg, 0) ELSE IF Less(a, b) THEN b ELSE a
FloatBinary(op, a, b) ==
  CASE op = "min" -> WasmMin(a, b) [] op = "max" -> WasmMax(a, b) [] op = "copysign" -> [a EXCEPT !.neg = b.neg]

Whole(x) == LET n == x.size \div 2 IN IF x.neg THEN -n ELSE n
TruncSigned(x, w) ==
  IF x.size >= Inf \/ Whole(x) < -2^(w - 1) \/ Whole(x) > 2^(w - 1) - 1 THEN Trap ELSE Unsigned(Whole(x), w)
TruncUnsigned(x, w) == IF x.size >= Inf \/ Whole(x) < 0 \/ Whole(x) > 2^w - 1 THEN Trap ELSE Whole(x)
FromInt(n, w, signed) ==
  LET v == IF signed THEN Signed(n, w) ELSE n IN Float(v < 0, 2 * (IF v < 0 THEN -v ELSE v))

(***************************************************************************)
(* LEB128 in groups of Group bits, for numbers of Wide bits: the number    *)
(* and the place after it, or Trap.                                        *)
(***************************************************************************)
Group == 2
Wide == 7
More(byte) == byte >= 2^Group
Payload(byte) == byte % 2^Group
NumberAt(n, i) == [n |-> n, i |-> i]

RECURSIVE UlebFrom(_, _, _, _)
UlebFrom(bytes, i, shift, n) ==
  IF i > Len(bytes) THEN NumberAt(Trap, i)
  ELSE LET m == Unsigned(n + Payload(bytes[i]) * 2^shift, Wide)
       IN  IF ~More(bytes[i]) THEN NumberAt(m, i + 1)
           ELSE IF shift + Group >= Wide THEN NumberAt(Trap, i + 1) ELSE UlebFrom(bytes, i + 1, shift + Group, m)
Uleb(bytes) == UlebFrom(bytes, 1, 0, 0)

\* Groups past the width are not looked for: shifting by so much is undefined.
RECURSIVE SlebFrom(_, _, _, _)
SlebFrom(bytes, i, shift, n) ==
  IF i > Len(bytes) THEN NumberAt(Trap, i)
  ELSE LET m    == n + Payload(bytes[i]) * 2^shift
           next == shift + Group
           sign == next < Wide /\ Payload(bytes[i]) >= 2^(Group - 1)
       IN  IF More(bytes[i]) THEN SlebFrom(bytes, i + 1, next, m)
           ELSE NumberAt(Unsigned(IF sign THEN m - 2^next ELSE m, Wide), i + 1)
Sleb(bytes) == SlebFrom(bytes, 1, 0, 0)
=============================================================================
