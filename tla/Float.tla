------------------------------- MODULE Float -------------------------------
(***************************************************************************)
(* Single-precision arithmetic, as far as control() (src/src/control.c)    *)
(* uses it: sums, differences and products.                                *)
(*                                                                         *)
(* A finite float is an integer, its multiple of 1/Unit.  Which integers   *)
(* are floats is a parameter, so that a small set with the gaps of a short *)
(* significand can stand for binary32.  An operation is exact, then        *)
(* rounded; a tie goes either way.  There is one zero: no operation used   *)
(* here tells the two of binary32 apart.                                   *)
(***************************************************************************)
EXTENDS Integers

CONSTANTS
  NaN, PosInf, NegInf,
  Unit,            (* denominator of floats                                 *)
  Floats,          (* the finite floats, over Unit                          *)
  Overflow         (* over Unit, where rounding to infinity begins          *)

ASSUME FloatAssumption ==
  /\ NaN \notin Int /\ PosInf \notin Int /\ NegInf \notin Int
  /\ NaN # PosInf /\ NaN # NegInf /\ PosInf # NegInf
  /\ Unit \in Nat \ {0}
  /\ Floats \subseteq Int /\ 0 \in Floats
  /\ Overflow \in Nat
  /\ \A f \in Floats : f < Overflow /\ -f \in Floats

Infinite == {PosInf, NegInf}
Number   == Floats \cup Infinite \cup {NaN}
Within(bound) == {f \in Floats : -bound <= f /\ f <= bound}
-----------------------------------------------------------------------------
(* Before rounding results are multiples of 1 / (Unit * Unit), infinite or *)
(* NaN.                                                                    *)
Exact(x) == IF x \in Floats THEN x * Unit ELSE x

Positive(x) == x = PosInf \/ (x \in Int /\ x > 0)

Sum(x, y) ==
  IF NaN \in {x, y} \/ Infinite \subseteq {x, y} THEN NaN
  ELSE IF PosInf \in {x, y} THEN PosInf
  ELSE IF NegInf \in {x, y} THEN NegInf
  ELSE x + y

Opposite(x) ==
  IF x = PosInf THEN NegInf ELSE IF x = NegInf THEN PosInf
  ELSE IF x = NaN THEN NaN ELSE -x

(* Of two floats; the result is exact.                                     *)
Product(x, y) ==
  IF NaN \in {x, y} \/ (0 \in {x, y} /\ \E i \in Infinite : i \in {x, y}) THEN NaN
  ELSE IF \E i \in Infinite : i \in {x, y}
       THEN IF Positive(x) <=> Positive(y) THEN PosInf ELSE NegInf
       ELSE x * y

Distance(f, n) == IF f * Unit < n THEN n - f * Unit ELSE f * Unit - n

Nearest ==
  [n \in -(Overflow * Unit) .. Overflow * Unit |->
    {f \in Floats : \A g \in Floats : Distance(f, n) <= Distance(g, n)}]

Rounded(n) ==
  IF n \notin Int THEN {n}
  ELSE IF n >= Overflow * Unit THEN {PosInf}
  ELSE IF n <= -(Overflow * Unit) THEN {NegInf}
  ELSE Nearest[n]
-----------------------------------------------------------------------------
(* x - y                                                                   *)
Difference(x, y) == Rounded(Sum(Exact(x), Opposite(Exact(y))))

(* z + x * y: the compiler may round the product first or fuse the two     *)
(* operations, which rounds once.                                          *)
Accumulated(z, x, y) ==
  UNION {Rounded(Sum(Exact(z), p)) :
           p \in {Product(x, y)} \cup {Exact(r) : r \in Rounded(Product(x, y))}}

(* a * b + c * d, where at most one product is fused.                      *)
SumOfProducts(a, b, c, d) ==
  UNION ({Accumulated(r, a, b) : r \in Rounded(Product(c, d))}
         \cup {Accumulated(r, c, d) : r \in Rounded(Product(a, b))})
=============================================================================
