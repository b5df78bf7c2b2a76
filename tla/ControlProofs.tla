--------------------------- MODULE ControlProofs ---------------------------
(***************************************************************************)
(* Machine-checked facts about the control pass.  First one axis of the    *)
(* cascades, for every float format, gain, sample and limit the            *)
(* assumptions admit, binary32 among them; then the motor mix              *)
(* and the servos, for every base value, limit, PWM period and word width  *)
(* the assumption admits: 1500, 200, 20000, 2^32 and 2^16 among them.      *)
(***************************************************************************)
EXTENDS Cascade, Motors, TLAPS

(* What an operation has before it rounds.                                 *)
Unrounded == Int \cup Infinite \cup {NaN}

(* Rounding gives floats, and nothing new of what is not a number.         *)
LEMMA Rounding ==
  ASSUME NEW n \in Unrounded, NEW r \in Rounded(n)
  PROVE  r \in Number /\ (n \notin Int => r = n)
<1>1. CASE n \notin Int
  BY <1>1 DEF Rounded, Unrounded, Number
<1>2. CASE n \in Int
  <2> DEFINE edge == Overflow * Unit
  <2>1. edge \in Int
    BY FloatAssumption
  <2>2. CASE n >= edge \/ n <= -edge
    BY <1>2, <2>2 DEF Rounded, Number, Infinite
  <2>3. CASE ~(n >= edge) /\ ~(n <= -edge)
    <3>1. n \in -edge .. edge
      BY <1>2, <2>1, <2>3
    <3>2. r \in Nearest[n]
      BY <1>2, <2>3 DEF Rounded
    <3> QED BY <1>2, <3>1, <3>2 DEF Nearest, Number
  <2> QED BY <2>2, <2>3
<1> QED BY <1>1, <1>2

(* A float is not one of the three other values, and is exact.             *)
LEMMA Exactness ==
  ASSUME NEW x \in Number
  PROVE  /\ Exact(x) \in Unrounded
         /\ x \in Floats => x \in Int /\ x * Unit \in Int /\ Exact(x) = x * Unit
         /\ x \notin Floats => Exact(x) = x
         /\ Exact(x) = NaN <=> x = NaN
<1>1. CASE x \in Floats
  <2>1. x \in Int /\ x * Unit \in Int
    BY <1>1, FloatAssumption
  <2> QED BY <1>1, <2>1, FloatAssumption DEF Exact, Unrounded
<1>2. CASE x \notin Floats
  BY <1>2 DEF Exact, Unrounded, Number, Infinite
<1> QED BY <1>1, <1>2

(* Exact sums: what is not a number is never lost, and minus infinity      *)
(* becomes at most NaN.                                                    *)
LEMMA Sums ==
  ASSUME NEW x \in Unrounded, NEW y \in Unrounded
  PROVE  /\ Sum(x, y) \in Unrounded
         /\ NaN \in {x, y} => Sum(x, y) = NaN
         /\ x = NegInf => Sum(x, y) \in {NaN, NegInf}
         /\ x \in Int /\ y \in Int => Sum(x, y) = x + y
<1>1. CASE x \in Int /\ y \in Int
  <2>1. NaN \notin {x, y} /\ PosInf \notin {x, y} /\ NegInf \notin {x, y}
    BY <1>1, FloatAssumption
  <2>2. x + y \in Int
    BY <1>1
  <2> QED BY <1>1, <2>1, <2>2 DEF Sum, Unrounded, Infinite
<1>2. CASE ~(x \in Int /\ y \in Int)
  <2>1. NaN \in {x, y} \/ PosInf \in {x, y} \/ NegInf \in {x, y}
    BY <1>2 DEF Unrounded, Infinite
  <2> QED BY <1>2, <2>1, FloatAssumption DEF Sum, Unrounded, Infinite
<1> QED BY <1>1, <1>2

(* Exact products.                                                         *)
LEMMA Products ==
  ASSUME NEW x \in Number, NEW y \in Number
  PROVE  /\ Product(x, y) \in Unrounded
         /\ NaN \in {x, y} => Product(x, y) = NaN
         /\ x \in Floats /\ y \in Floats => Product(x, y) = x * y
<1>1. CASE x \in Floats /\ y \in Floats
  <2>1. x \in Int /\ y \in Int /\ x * y \in Int
    BY <1>1, FloatAssumption
  <2>2. NaN \notin {x, y} /\ PosInf \notin {x, y} /\ NegInf \notin {x, y}
    BY <2>1, FloatAssumption
  <2> QED BY <1>1, <2>1, <2>2 DEF Product, Unrounded, Infinite
<1>2. CASE ~(x \in Floats /\ y \in Floats)
  <2>1. NaN \in {x, y} \/ \E i \in Infinite : i \in {x, y}
    BY <1>2 DEF Number
  <2> QED BY <1>2, <2>1 DEF Product, Unrounded, Infinite
<1> QED BY <1>1, <1>2

(* z + x * y, rounded once or twice.                                       *)
LEMMA Accumulation ==
  ASSUME NEW z \in Number, NEW x \in Number, NEW y \in Number,
         NEW s \in Accumulated(z, x, y)
  PROVE  /\ s \in Number
         /\ NaN \in {z, x, y} => s = NaN
         /\ z = NegInf => s \in {NaN, NegInf}
<1>1. PICK p \in {Product(x, y)} \cup {Exact(r) : r \in Rounded(Product(x, y))} :
         s \in Rounded(Sum(Exact(z), p))
  BY DEF Accumulated
<1>2. p \in Unrounded /\ (NaN \in {x, y} => p = NaN)
  <2>1. CASE p = Product(x, y)
    BY <2>1, Products
  <2>2. ASSUME NEW r \in Rounded(Product(x, y)), p = Exact(r)
        PROVE  p \in Unrounded /\ (NaN \in {x, y} => p = NaN)
    <3>1. r \in Number /\ (Product(x, y) \notin Int => r = Product(x, y))
      BY Products, Rounding
    <3>2. NaN \in {x, y} => r = NaN
      BY <3>1, Products, FloatAssumption
    <3> QED BY <2>2, <3>1, <3>2, Exactness
  <2> QED BY <1>1, <2>1, <2>2
<1>3. Exact(z) \in Unrounded /\ (Exact(z) = NaN <=> z = NaN)
      /\ (z = NegInf => Exact(z) = NegInf)
  BY Exactness, FloatAssumption
<1> DEFINE n == Sum(Exact(z), p)
<1>4. /\ n \in Unrounded
      /\ NaN \in {z, x, y} => n = NaN
      /\ z = NegInf => n \in {NaN, NegInf}
  BY <1>2, <1>3, Sums
<1>5. s \in Number /\ (n \notin Int => s = n)
  BY <1>1, <1>4, Rounding
<1> HIDE DEF n
<1> QED BY <1>4, <1>5, FloatAssumption

(* The sum of two products.                                                *)
LEMMA TwoProducts ==
  ASSUME NEW a \in Number, NEW b \in Number, NEW c \in Number, NEW d \in Number
  PROVE  \A s \in SumOfProducts(a, b, c, d) :
           s \in Number /\ (NaN \in {a, b, c, d} => s = NaN)
<1> SUFFICES ASSUME NEW s \in SumOfProducts(a, b, c, d)
             PROVE  s \in Number /\ (NaN \in {a, b, c, d} => s = NaN)
  OBVIOUS
<1>1. ASSUME NEW e \in Number, NEW f \in Number, NEW g \in Number, NEW h \in Number,
             NEW r \in Rounded(Product(g, h)), s \in Accumulated(r, e, f)
      PROVE  s \in Number /\ (NaN \in {e, f, g, h} => s = NaN)
  <2>1. r \in Number /\ (NaN \in {g, h} => r = NaN)
    BY Products, Rounding, FloatAssumption
  <2> QED BY <1>1, <2>1, Accumulation
<1>2. \/ \E r \in Rounded(Product(c, d)) : s \in Accumulated(r, a, b)
      \/ \E r \in Rounded(Product(a, b)) : s \in Accumulated(r, c, d)
  BY DEF SumOfProducts
<1> QED BY <1>1, <1>2

(* A difference.                                                           *)
LEMMA Differences ==
  ASSUME NEW x \in Number, NEW y \in Number, NEW s \in Difference(x, y)
  PROVE  s \in Number /\ (NaN \in {x, y} => s = NaN)
<1> DEFINE m == Opposite(Exact(y))
           n == Sum(Exact(x), m)
<1>1. Exact(x) \in Unrounded /\ Exact(y) \in Unrounded
      /\ (Exact(x) = NaN <=> x = NaN) /\ (Exact(y) = NaN <=> y = NaN)
  BY Exactness
<1>2. m \in Unrounded /\ (y = NaN => m = NaN)
  BY <1>1, FloatAssumption DEF Opposite, Unrounded, Infinite
<1>3. n \in Unrounded /\ (NaN \in {x, y} => n = NaN)
  BY <1>1, <1>2, Sums
<1>4. s \in Number /\ (n \notin Int => s = n)
  BY <1>3, Rounding DEF Difference
<1> HIDE DEF m, n
<1> QED BY <1>3, <1>4, FloatAssumption

(* A saturator limits a float and plus infinity, and lets NaN and minus    *)
(* infinity through.                                                       *)
LEMMA Saturation ==
  ASSUME NEW x \in Number, NEW max \in Floats
  PROVE  /\ Saturate(x, max) \in Limited(max)
         /\ x \in {NaN, NegInf} => Saturate(x, max) = x
<1>1. /\ max \in Int /\ max # PosInf /\ max \in Number
      /\ NaN \notin Floats /\ NegInf \notin Floats
      /\ NaN # PosInf /\ NegInf # PosInf
  BY FloatAssumption DEF Number
<1>2. x \in Floats => x \in Int
  BY FloatAssumption
<1> QED BY <1>1, <1>2 DEF Saturate, Limited

(* Division by the unit keeps the order.                                   *)
LEMMA Quotient ==
  ASSUME NEW x \in Nat, NEW m \in Nat, NEW d \in Nat \ {0}, x <= m
  PROVE  x \div d \in 0 .. m \div d
<1> DEFINE q == x \div d
           p == m \div d
<1>1. q \in Nat /\ d * q <= x
  OBVIOUS
<1>2. p \in Nat /\ m < d * p + d
  OBVIOUS
<1> HIDE DEF q, p
<1>3. SUFFICES ASSUME q >= p + 1 PROVE FALSE
  BY <1>1, <1>2 DEF q, p
<1>4. d * q >= d * (p + 1)
  BY <1>1, <1>2, <1>3
<1>5. d * (p + 1) = d * p + d
  BY <1>2
<1> QED BY <1>1, <1>2, <1>4, <1>5

(* The conversion of a limited correction to uint32_t.                     *)
LEMMA Truncation ==
  ASSUME NEW x \in Limited(MaxCorr)
  PROVE  Truncated(x) \in 0 .. MaxCorr \div Unit
<1>1. MaxCorr \in Nat /\ Unit \in Nat \ {0} /\ UintMax \in Nat
  BY CascadeAssumption, FloatAssumption DEF Within
<1>2. MaxCorr \div Unit \in Nat
  BY <1>1
<1>3. CASE x \in Floats /\ ~(x < 0)
  <2>1. x \in Nat /\ x <= MaxCorr
    BY <1>3, FloatAssumption DEF Limited
  <2>2. x \div Unit \in 0 .. MaxCorr \div Unit
    BY <1>1, <2>1, Quotient
  <2> DEFINE q == x \div Unit
  <2>3. Truncated(x) = IF q > UintMax THEN UintMax ELSE q
    BY <1>3, <2>1, FloatAssumption DEF Truncated
  <2> HIDE DEF q
  <2>4. q \in 0 .. MaxCorr \div Unit
    BY <2>2 DEF q
  <2> QED BY <1>1, <1>2, <2>3, <2>4
<1>4. CASE ~(x \in Floats /\ ~(x < 0))
  <2>1. x \in {NaN, NegInf} \/ (x \in Floats /\ x < 0)
    BY <1>4 DEF Limited, Number, Infinite
  <2>2. Truncated(x) = 0
    BY <2>1, FloatAssumption DEF Truncated
  <2> QED BY <1>2, <2>2
<1> QED BY <1>3, <1>4
-----------------------------------------------------------------------------
(* Sizes.  A rounded result is no larger than a float its exact value is   *)
(* no larger than.                                                         *)
LEMMA RoundedWithin ==
  ASSUME NEW n \in Int, NEW c \in Floats, -(c * Unit) <= n, n <= c * Unit,
         NEW r \in Rounded(n)
  PROVE  r \in Within(c)
<1> DEFINE edge == Overflow * Unit
           u == c * Unit
<1>1. Unit \in Nat /\ Unit > 0 /\ c \in Int /\ -c \in Floats /\ c < Overflow
      /\ Overflow \in Int
  BY FloatAssumption
<1>2. u \in Int /\ edge \in Int /\ u < edge
  BY <1>1
<1>3. n \in -edge .. edge /\ r \in Nearest[n]
  BY <1>2 DEF Rounded
<1> HIDE DEF edge, u
<1>4. r \in Floats /\ \A g \in Floats : Distance(r, n) <= Distance(g, n)
  BY <1>3 DEF Nearest, edge
<1>5. r \in Int /\ r * Unit \in Int /\ (-c) * Unit = -u
  BY <1>1, <1>4, FloatAssumption DEF u
<1>6. r <= c
  <2>1. SUFFICES ASSUME r >= c + 1 PROVE FALSE
    BY <1>1, <1>5
  <2>2. r * Unit > u
    BY <1>1, <1>5, <2>1 DEF u
  <2>3. Distance(c, n) = u - n
    BY <1>2 DEF Distance, u
  <2>4. Distance(r, n) = r * Unit - n
    BY <1>2, <1>5, <2>2 DEF Distance, u
  <2> QED BY <1>2, <1>4, <1>5, <2>2, <2>3, <2>4
<1>7. -c <= r
  <2>1. SUFFICES ASSUME r <= -c - 1 PROVE FALSE
    BY <1>1, <1>5
  <2>2. r * Unit < -u
    BY <1>1, <1>5, <2>1 DEF u
  <2>3. Distance(-c, n) = n + u
    BY <1>2, <1>5 DEF Distance, u
  <2>4. Distance(r, n) = n - r * Unit
    BY <1>2, <1>5, <2>2 DEF Distance, u
  <2> QED BY <1>1, <1>2, <1>4, <1>5, <2>2, <2>3, <2>4
<1> QED BY <1>4, <1>6, <1>7 DEF Within

(* A float swallows the steps it is that much larger than.                 *)
LEMMA Swallowing ==
  ASSUME NEW n \in Int, NEW c \in Floats, NEW d \in Floats, c >= 0, d >= 0,
         Swallows(c, d), -((c + d) * Unit) <= n, n <= (c + d) * Unit,
         NEW r \in Rounded(n)
  PROVE  r \in Within(c)
<1> DEFINE edge == Overflow * Unit
           u == c * Unit
           w == d * Unit
<1>1. /\ Unit \in Nat /\ Unit > 0 /\ c \in Int /\ d \in Int /\ -c \in Floats
      /\ c + d < Overflow /\ Overflow \in Int
  BY FloatAssumption DEF Swallows
<1>2. u \in Int /\ w \in Int /\ edge \in Int /\ u >= 0 /\ w >= 0
      /\ (c + d) * Unit = u + w /\ u + w < edge
  BY <1>1
<1>n. n <= u + w /\ -(u + w) <= n
  BY <1>2
<1>3. n \in -edge .. edge /\ r \in Nearest[n]
  BY <1>2 DEF Rounded
<1> HIDE DEF edge, u, w
<1>4. r \in Floats /\ \A g \in Floats : Distance(r, n) <= Distance(g, n)
  BY <1>3 DEF Nearest, edge
<1>5. r \in Int /\ r * Unit \in Int /\ -r \in Floats /\ (-c) * Unit = -u
  BY <1>1, <1>4, FloatAssumption DEF u
<1>6. r <= c
  <2>1. SUFFICES ASSUME r > c PROVE FALSE
    BY <1>1, <1>5
  <2>2. r - c >= 2 * d + 1
    BY <1>1, <1>4, <1>5, <2>1 DEF Swallows
  <2>3. (r - c) * Unit >= (2 * d + 1) * Unit
    BY <1>1, <1>5, <2>2
  <2>4. r * Unit > u + 2 * w
    BY <1>1, <1>5, <2>3 DEF u, w
  <2>5. Distance(c, n) \in Int /\ (Distance(c, n) <= w \/ Distance(c, n) = u - n)
    BY <1>2, <1>n DEF Distance, u
  <2>6. Distance(r, n) = r * Unit - n
    BY <1>2, <1>5, <2>4 DEF Distance
  <2>7. Distance(r, n) <= Distance(c, n)
    BY <1>4
  <2>8. r * Unit - n <= w \/ r * Unit - n <= u - n
    BY <1>2, <1>5, <2>5, <2>6, <2>7
  <2> QED BY <1>2, <1>n, <1>5, <2>4, <2>8
<1>7. -c <= r
  <2>1. SUFFICES ASSUME r < -c PROVE FALSE
    BY <1>1, <1>5
  <2>2. -r - c >= 2 * d + 1
    BY <1>1, <1>5, <2>1 DEF Swallows
  <2>3. (-r - c) * Unit >= (2 * d + 1) * Unit
    BY <1>1, <1>5, <2>2
  <2>4. r * Unit < -u - 2 * w
    BY <1>1, <1>5, <2>3 DEF u, w
  <2>5. Distance(-c, n) \in Int /\ (Distance(-c, n) <= w \/ Distance(-c, n) = n + u)
    BY <1>2, <1>n, <1>5 DEF Distance
  <2>6. Distance(r, n) = n - r * Unit
    BY <1>2, <1>5, <2>4 DEF Distance
  <2>7. Distance(r, n) <= Distance(-c, n)
    BY <1>1, <1>4
  <2>8. n - r * Unit <= w \/ n - r * Unit <= n + u
    BY <1>2, <1>5, <2>5, <2>6, <2>7
  <2> QED BY <1>2, <1>n, <1>5, <2>4, <2>8
<1> QED BY <1>4, <1>6, <1>7 DEF Within

(* A product is no larger than the product of the sizes.                   *)
LEMMA ProductSize ==
  ASSUME NEW a \in Nat, NEW b \in Nat, NEW x \in Int, NEW y \in Int,
         -a <= x, x <= a, -b <= y, y <= b
  PROVE  x * y \in Int /\ -(a * b) <= x * y /\ x * y <= a * b
<1> DEFINE m == IF x < 0 THEN -x ELSE x
           k == IF y < 0 THEN -y ELSE y
<1>1. m \in Nat /\ k \in Nat /\ m <= a /\ k <= b
  OBVIOUS
<1>2. m * k <= a * b
  <2> HIDE DEF m, k
  <2>1. m * k <= m * b
    BY <1>1
  <2>2. m * b <= a * b
    BY <1>1
  <2> QED BY <1>1, <2>1, <2>2
<1>3. x * y = m * k \/ x * y = -(m * k)
  OBVIOUS
<1>4. m * k \in Nat
  BY <1>1
<1> QED BY <1>2, <1>3, <1>4

(* The product of two floats, exact or rounded.                            *)
LEMMA ProductWithin ==
  ASSUME NEW a \in Nat, NEW b \in Nat, NEW t \in Floats, a * b <= t * Unit,
         NEW x \in Within(a), NEW y \in Within(b)
  PROVE  /\ Product(x, y) \in Int
         /\ -(t * Unit) <= Product(x, y) /\ Product(x, y) <= t * Unit
         /\ Rounded(Product(x, y)) \subseteq Within(t)
<1>1. x \in Floats /\ y \in Floats /\ x \in Int /\ y \in Int
      /\ -a <= x /\ x <= a /\ -b <= y /\ y <= b
  BY FloatAssumption DEF Within
<1>2. Product(x, y) = x * y
  BY <1>1, Products DEF Number
<1>3. x * y \in Int /\ -(a * b) <= x * y /\ x * y <= a * b
  BY <1>1, ProductSize
<1>4. t * Unit \in Int /\ a * b \in Int
  BY FloatAssumption
<1>5. Product(x, y) \in Int /\ -(t * Unit) <= Product(x, y) /\ Product(x, y) <= t * Unit
  BY <1>2, <1>3, <1>4
<1>6. Rounded(Product(x, y)) \subseteq Within(t)
  BY <1>5, RoundedWithin
<1> QED BY <1>5, <1>6

(* What is rounded last in z + x * y.                                      *)
LEMMA LastSum ==
  ASSUME NEW a \in Nat, NEW b \in Nat, NEW t \in Floats, a * b <= t * Unit,
         NEW x \in Within(a), NEW y \in Within(b),
         NEW c \in Floats, NEW z \in Within(c), NEW s \in Accumulated(z, x, y)
  PROVE  \E n \in Int : /\ -((c + t) * Unit) <= n /\ n <= (c + t) * Unit
                        /\ s \in Rounded(n)
<1>1. PICK p \in {Product(x, y)} \cup {Exact(r) : r \in Rounded(Product(x, y))} :
         s \in Rounded(Sum(Exact(z), p))
  BY DEF Accumulated
<1>0. /\ Product(x, y) \in Int
      /\ -(t * Unit) <= Product(x, y) /\ Product(x, y) <= t * Unit
      /\ Rounded(Product(x, y)) \subseteq Within(t)
  BY ProductWithin
<1>u. Unit \in Nat /\ t \in Int /\ c \in Int
  BY FloatAssumption
<1>2. p \in Int /\ -(t * Unit) <= p /\ p <= t * Unit
  <2>1. ASSUME NEW r \in Within(t), p = Exact(r)
        PROVE  p \in Int /\ -(t * Unit) <= p /\ p <= t * Unit
    <3>1. r \in Floats /\ r \in Int /\ -t <= r /\ r <= t
      BY FloatAssumption DEF Within
    <3>2. p = r * Unit
      BY <2>1, <3>1 DEF Exact
    <3>3. (-t) * Unit <= r * Unit /\ r * Unit <= t * Unit /\ (-t) * Unit = -(t * Unit)
      BY <1>u, <3>1
    <3> QED BY <1>u, <3>1, <3>2, <3>3
  <2> QED BY <1>1, <1>0, <2>1
<1>3. /\ z \in Floats /\ z \in Int /\ -c <= z /\ z <= c
      /\ Exact(z) = z * Unit
  BY FloatAssumption DEF Within, Exact
<1>4. /\ z * Unit \in Int /\ c * Unit \in Int /\ t * Unit \in Int
      /\ -(c * Unit) <= z * Unit /\ z * Unit <= c * Unit
      /\ (c + t) * Unit = c * Unit + t * Unit
  <2>1. (-c) * Unit <= z * Unit /\ z * Unit <= c * Unit /\ (-c) * Unit = -(c * Unit)
    BY <1>u, <1>3
  <2> QED BY <1>u, <1>3, <2>1
<1>5. Sum(Exact(z), p) = z * Unit + p
  BY <1>2, <1>3, <1>4, Sums DEF Unrounded
<1> DEFINE n == z * Unit + p
<1>6. n \in Int /\ -((c + t) * Unit) <= n /\ n <= (c + t) * Unit
  BY <1>2, <1>4
<1>7. s \in Rounded(n)
  BY <1>1, <1>5
<1> QED BY <1>6, <1>7

(* An integral large enough swallows its steps, in whatever direction.     *)
LEMMA IntegralWithin ==
  ASSUME NEW a \in Nat, NEW b \in Nat, NEW t \in Floats, a * b <= t * Unit,
         NEW x \in Within(a), NEW y \in Within(b),
         NEW c \in Floats, c >= 0, t >= 0, Swallows(c, t), NEW z \in Within(c)
  PROVE  Accumulated(z, x, y) \subseteq Within(c)
<1> SUFFICES ASSUME NEW s \in Accumulated(z, x, y) PROVE s \in Within(c)
  OBVIOUS
<1>1. PICK n \in Int : /\ -((c + t) * Unit) <= n /\ n <= (c + t) * Unit
                       /\ s \in Rounded(n)
  BY LastSum
<1> QED BY <1>1, Swallowing

(* The product of x and y, exact or rounded, is no larger than t.          *)
Fits(x, y, t) ==
  \E a, b \in Nat : a * b <= t * Unit /\ x \in Within(a) /\ y \in Within(b)

(* The sum of two products has room in twice the size of each.             *)
LEMMA ProductsWithin ==
  ASSUME NEW t \in Floats, NEW c \in Floats, 2 * t <= c,
         NEW x, NEW y, NEW v, NEW w, Fits(x, y, t), Fits(v, w, t)
  PROVE  SumOfProducts(x, y, v, w) \subseteq Within(c)
<1> SUFFICES ASSUME NEW s \in SumOfProducts(x, y, v, w) PROVE s \in Within(c)
  OBVIOUS
<1>a. PICK a \in Nat, b \in Nat : a * b <= t * Unit /\ x \in Within(a) /\ y \in Within(b)
  BY DEF Fits
<1>b. PICK e \in Nat, f \in Nat : e * f <= t * Unit /\ v \in Within(e) /\ w \in Within(f)
  BY DEF Fits
<1>1. Rounded(Product(x, y)) \subseteq Within(t) /\ Rounded(Product(v, w)) \subseteq Within(t)
  BY <1>a, <1>b, ProductWithin
<1>2. \E n \in Int : /\ -((t + t) * Unit) <= n /\ n <= (t + t) * Unit
                     /\ s \in Rounded(n)
  <2>1. CASE \E r \in Rounded(Product(v, w)) : s \in Accumulated(r, x, y)
    BY <1>a, <1>1, <2>1, LastSum
  <2>2. CASE \E r \in Rounded(Product(x, y)) : s \in Accumulated(r, v, w)
    BY <1>b, <1>1, <2>2, LastSum
  <2> QED BY <2>1, <2>2 DEF SumOfProducts
<1>3. (t + t) * Unit <= c * Unit /\ (t + t) * Unit \in Int /\ c * Unit \in Int
  BY FloatAssumption
<1>4. PICK n \in Int : /\ -(c * Unit) <= n /\ n <= c * Unit
                       /\ s \in Rounded(n)
  BY <1>2, <1>3
<1> QED BY <1>4, RoundedWithin

(* A difference.                                                           *)
LEMMA DifferenceWithin ==
  ASSUME NEW c \in Floats, NEW x \in Floats, NEW y \in Floats, -c <= x - y, x - y <= c
  PROVE  Difference(x, y) \subseteq Within(c)
<1>1. /\ Unit \in Nat /\ x \in Int /\ y \in Int /\ c \in Int
      /\ PosInf \notin Int /\ NegInf \notin Int /\ NaN \notin Int
  BY FloatAssumption
<1>2. x * Unit \in Int /\ y * Unit \in Int /\ c * Unit \in Int
  BY <1>1
<1>3. Exact(x) = x * Unit /\ Opposite(Exact(y)) = -(y * Unit)
  BY <1>1, <1>2 DEF Exact, Opposite
<1>4. Sum(Exact(x), Opposite(Exact(y))) = x * Unit - y * Unit
  BY <1>2, <1>3, Sums DEF Unrounded
<1>5. -(c * Unit) <= x * Unit - y * Unit /\ x * Unit - y * Unit <= c * Unit
  <2>1. (-c) * Unit <= (x - y) * Unit /\ (x - y) * Unit <= c * Unit
    BY <1>1
  <2>2. (-c) * Unit = -(c * Unit) /\ (x - y) * Unit = x * Unit - y * Unit
    BY <1>1
  <2> QED BY <2>1, <2>2
<1> DEFINE n == x * Unit - y * Unit
<1>6. n \in Int /\ Difference(x, y) = Rounded(n)
  BY <1>2, <1>4 DEF Difference
<1> HIDE DEF n
<1>7. -(c * Unit) <= n /\ n <= c * Unit
  BY <1>5 DEF n
<1> QED BY <1>6, <1>7, RoundedWithin

(* A saturator stays within a size that its limit is within.               *)
LEMMA SaturatedWithin ==
  ASSUME NEW c \in Floats, NEW x \in Within(c), NEW max \in Within(c)
  PROVE  Saturate(x, max) \in Within(c)
BY FloatAssumption DEF Saturate, Within

(* A rate in radians per second is smaller than in degrees.                *)
LEMMA RadiansWithin ==
  ASSUME NEW a \in Nat, NEW c \in Floats, a * 355 <= c * (113 * 180), NEW x \in Within(a)
  PROVE  RadiansPerSecond(x) \subseteq Within(c)
<1> DEFINE y == x * Unit
           n == (y * 355) \div (113 * 180)
<1>1. x \in Floats /\ x \in Int /\ -a <= x /\ x <= a /\ Unit \in Nat /\ c \in Int
  BY FloatAssumption DEF Within
<1>2. y \in Int /\ a * Unit \in Int /\ c * Unit \in Int
  BY <1>1
<1>3. -(a * Unit) <= y /\ y <= a * Unit
  <2>1. (-a) * Unit <= x * Unit /\ x * Unit <= a * Unit /\ (-a) * Unit = -(a * Unit)
    BY <1>1
  <2> QED BY <2>1
<1>4. (a * Unit) * 355 <= (c * Unit) * 20340
  <2>1. (a * 355) * Unit <= (c * 20340) * Unit
    BY <1>1
  <2> QED BY <1>1, <2>1
<1>5. n \in Int /\ -(c * Unit) <= n /\ n <= c * Unit
  <2>1. ASSUME NEW k \in Int, NEW i \in Int, NEW j \in Int, -i <= k, k <= i,
               i * 355 <= j * 20340
        PROVE  (k * 355) \div 20340 \in Int /\ -j <= (k * 355) \div 20340
               /\ (k * 355) \div 20340 <= j
    BY <2>1
  <2> HIDE DEF y
  <2>2. 113 * 180 = 20340
    OBVIOUS
  <2> QED BY <1>2, <1>3, <1>4, <2>1, <2>2
<1>6. RadiansPerSecond(x) = Rounded(n)
  BY <1>1 DEF RadiansPerSecond
<1> HIDE DEF n
<1> QED BY <1>5, <1>6, RoundedWithin
-----------------------------------------------------------------------------
(* The sizes are floats and natural numbers.                               *)
LEMMA Sizes ==
  /\ \A name \in BoundNames : Bound[name] \in Floats /\ Bound[name] \in Nat
  /\ Bound.angle \in Floats /\ Bound.angle \in Nat
  /\ Bound.turned \in Floats /\ Bound.turned \in Nat
  /\ Bound.interval \in Floats /\ Bound.interval \in Nat
  /\ Bound.gain \in Floats /\ Bound.gain \in Nat
  /\ Bound.error \in Floats /\ Bound.error \in Nat
  /\ Bound.step \in Floats /\ Bound.step \in Nat
  /\ Bound.integral \in Floats /\ Bound.integral \in Nat
  /\ Bound.term \in Floats /\ Bound.term \in Nat
  /\ Bound.rate \in Floats /\ Bound.rate \in Nat
  /\ Bound.rate_curr \in Floats /\ Bound.rate_curr \in Nat
  /\ Bound.rate_error \in Floats /\ Bound.rate_error \in Nat
  /\ Bound.rate_step \in Floats /\ Bound.rate_step \in Nat
  /\ Bound.rate_integral \in Floats /\ Bound.rate_integral \in Nat
  /\ Bound.corr_term \in Floats /\ Bound.corr_term \in Nat
  /\ Bound.corr \in Floats /\ Bound.corr \in Nat
<1>1. ASSUME NEW name \in BoundNames PROVE Bound[name] \in Floats /\ Bound[name] \in Nat
  <2>1. Bound \in [BoundNames -> {f \in Floats : f >= 0}]
    BY BoundAssumption
  <2>2. Bound[name] \in {f \in Floats : f >= 0}
    BY <2>1
  <2>3. \A f \in Floats : f >= 0 => f \in Nat
    BY FloatAssumption
  <2> QED BY <2>2, <2>3
<1> QED BY <1>1 DEF BoundNames

(* How a NaN integral reaches the correction.                              *)
PoisonInv ==
  /\ at = "rate" /\ att_err_int = NaN => rate_des = NaN
  /\ at \in {"correction", "mix"} /\ att_err_int = NaN => rate_err_int = NaN
  /\ at = "mix" /\ rate_err_int = NaN => corr = NaN

(* What moderate inputs make of each variable.                             *)
ModerateInv ==
  moderate =>
    /\ ModerateSample(current)
    /\ \A name \in GainNames : gain[name] \in Within(Bound.gain)
    /\ rate_curr \in Within(Bound.rate_curr)
    /\ att_err \in Within(Bound.error)
    /\ att_err_int \in Within(Bound.integral)
    /\ rate_des \in Within(Bound.rate)
    /\ rate_err \in Within(Bound.rate_error)
    /\ rate_err_int \in Within(Bound.rate_integral)
    /\ corr \in Within(Bound.corr)

IInv == TypeOK /\ PoisonInv /\ ModerateInv

(* Zero is within every size and below every limit.                        *)
LEMMA Zero ==
  /\ 0 \in Number /\ 0 # NaN
  /\ 0 \in Limited(MaxAttErrInt) /\ 0 \in Limited(MaxRateDes)
  /\ 0 \in Limited(MaxRateErrInt) /\ 0 \in Limited(MaxCorr)
  /\ \A name \in BoundNames : 0 \in Within(Bound[name])
<1>1. 0 \in Floats /\ 0 \in Number /\ 0 # NaN /\ 0 # PosInf
  BY FloatAssumption DEF Number
<1>2. \A name \in BoundNames : 0 \in Within(Bound[name])
  BY <1>1, Sizes DEF Within
<1> QED BY <1>1, <1>2, CascadeAssumption DEF Limited

(* Every limit is a float, and within the size of what it limits.          *)
LEMMA Limits ==
  /\ MaxAttErrInt \in Floats /\ MaxRateDes \in Floats
  /\ MaxRateErrInt \in Floats /\ MaxCorr \in Floats
BY CascadeAssumption DEF Within

(* The invariant holds before the first pass.                              *)
LEMMA InitInv == Init => IInv
<1> SUFFICES ASSUME Init PROVE IInv
  OBVIOUS
<1>1. TypeOK
  <2>1. current \in Sample
    BY Zero, FloatAssumption DEF Init, Sample
  <2>2. moderate \in BOOLEAN
    BY DEF Init
  <2>3. gain \in [GainNames -> Number]
    BY CascadeAssumption DEF Init
  <2> QED BY <2>1, <2>2, <2>3, Zero DEF Init, TypeOK, Points
<1>2. PoisonInv
  BY Zero DEF Init, PoisonInv
<1>3. ModerateInv
  BY Zero DEF Init, ModerateInv, ModerateSample, BoundNames
<1> QED BY <1>1, <1>2, <1>3 DEF IInv

(* Every step of control(), the estimator and the shell keeps it.          *)
LEMMA StepInv == IInv /\ [Next]_vars => IInv'
<1> SUFFICES ASSUME IInv, [Next]_vars PROVE IInv'
  OBVIOUS
<1> USE DEF IInv
<1>0. /\ current.angle \in Number /\ current.turned \in Number /\ current.interval \in Number
      /\ current.interval \in Floats
      /\ gain.kpo \in Number /\ gain.kio \in Number /\ gain.kpi \in Number
      /\ gain.kii \in Number
      /\ att_err_int \in Number /\ rate_err_int \in Number
      /\ rate_des \in Number /\ corr \in Number
  BY DEF TypeOK, Sample, GainNames, Number, Limited
<1>g. ASSUME moderate
      PROVE  /\ gain.kpo \in Within(Bound.gain) /\ gain.kio \in Within(Bound.gain)
             /\ gain.kpi \in Within(Bound.gain) /\ gain.kii \in Within(Bound.gain)
  BY <1>g DEF ModerateInv, GainNames
<1>1. ASSUME NEW s \in Samples, Publish(s)
      PROVE  IInv'
  <2>1. s \in Sample
    BY CascadeAssumption
  <2>2. TypeOK'
    BY <1>1, <2>1 DEF Publish, TypeOK
  <2>3. PoisonInv'
    BY <1>1 DEF Publish, PoisonInv
  <2>4. ModerateInv'
    BY <1>1 DEF Publish, ModerateInv, ModerateSample
  <2> QED BY <2>2, <2>3, <2>4
<1>2. ASSUME NEW name \in GainNames, NEW value \in Gains, SetGain(name, value)
      PROVE  IInv'
  <2>1. value \in Number
    BY CascadeAssumption
  <2>2. TypeOK'
    BY <1>2, <2>1 DEF SetGain, TypeOK
  <2>3. PoisonInv'
    BY <1>2 DEF SetGain, PoisonInv
  <2>4. ModerateInv'
    BY <1>2 DEF SetGain, ModerateInv, ModerateSample, TypeOK
  <2> QED BY <2>2, <2>3, <2>4
<1>3. CASE ReadRates
  <2>1. rate_curr' \in RadiansPerSecond(current.turned)
    BY <1>3 DEF ReadRates
  <2>2. rate_curr' \in Number
    <3> DEFINE turned == current.turned
               n == IF turned \in Floats
                    THEN (turned * Unit * 355) \div (113 * 180) ELSE turned
    <3>1. \A f \in Floats : f * Unit * 355 \in Int
      <4>1. ASSUME NEW f \in Floats PROVE f * Unit \in Int
        BY FloatAssumption
      <4> QED BY <4>1
    <3>2. n \in Unrounded
      BY <1>0, <3>1 DEF Unrounded, Number
    <3>3. rate_curr' \in Rounded(n)
      BY <2>1 DEF RadiansPerSecond
    <3> HIDE DEF n
    <3> QED BY <3>2, <3>3, Rounding
  <2>3. moderate => rate_curr' \in Within(Bound.rate_curr)
    BY <2>1, Sizes, BoundAssumption, RadiansWithin DEF ModerateInv, ModerateSample
  <2>4. TypeOK' /\ PoisonInv'
    BY <1>3, <2>2 DEF ReadRates, Reads, TypeOK, PoisonInv, Points
  <2>5. ModerateInv'
    BY <1>3, <2>3 DEF ReadRates, Reads, ModerateInv, ModerateSample
  <2> QED BY <2>4, <2>5
<1>4. CASE AttitudeLoop
  <2>1. PICK sum \in Accumulated(att_err_int, att_err', current.interval) :
           att_err_int' = Saturate(sum, MaxAttErrInt)
    BY <1>4 DEF AttitudeLoop
  <2>2. att_err' \in Difference(Desired, current.angle)
    BY <1>4 DEF AttitudeLoop
  <2>3. att_err' \in Number
    BY <1>0, <2>2, CascadeAssumption, Differences DEF Number
  <2>4. sum \in Number
    BY <1>0, <2>3, Accumulation
  <2>5. att_err_int' \in Limited(MaxAttErrInt)
    BY <2>1, <2>4, Limits, Saturation
  <2>6. ASSUME moderate
        PROVE  att_err' \in Within(Bound.error) /\ att_err_int' \in Within(Bound.integral)
    <3>1. /\ current.angle \in Within(Bound.angle)
          /\ current.interval \in Within(Bound.interval)
          /\ att_err_int \in Within(Bound.integral)
      BY <2>6 DEF ModerateInv, ModerateSample
    <3>2. /\ current.angle \in Floats /\ Desired \in Floats
          /\ -Bound.error <= Desired - current.angle
          /\ Desired - current.angle <= Bound.error
      <4>1. current.angle \in Int /\ Desired \in Int /\ Desired \in Floats
            /\ current.angle \in Floats
            /\ -Bound.angle <= current.angle /\ current.angle <= Bound.angle
        BY <3>1, FloatAssumption, CascadeAssumption DEF Within
      <4>2. Bound.angle + Desired <= Bound.error /\ Bound.angle - Desired <= Bound.error
        BY BoundAssumption
      <4> QED BY <4>1, <4>2, Sizes
    <3>3. att_err' \in Within(Bound.error)
      BY <2>2, <3>2, Sizes, DifferenceWithin
    <3>4. sum \in Within(Bound.integral)
      <4>1. /\ Bound.error * Bound.interval <= Bound.step * Unit
            /\ Swallows(Bound.integral, Bound.step)
        BY BoundAssumption
      <4>2. /\ Bound.error \in Nat /\ Bound.interval \in Nat
            /\ Bound.step \in Floats /\ Bound.step >= 0
            /\ Bound.integral \in Floats /\ Bound.integral >= 0
        BY Sizes
      <4>3. Accumulated(att_err_int, att_err', current.interval)
              \subseteq Within(Bound.integral)
        BY <3>1, <3>3, <4>1, <4>2, IntegralWithin
      <4> QED BY <4>3
    <3>5. att_err_int' \in Within(Bound.integral)
      BY <2>1, <3>4, Sizes, CascadeAssumption, SaturatedWithin
    <3> QED BY <3>3, <3>5
  <2>7. TypeOK' /\ PoisonInv'
    BY <1>4, <2>3, <2>5 DEF AttitudeLoop, Reads, TypeOK, PoisonInv, Points
  <2>8. ModerateInv'
    BY <1>4, <2>6 DEF AttitudeLoop, Reads, ModerateInv, ModerateSample
  <2> QED BY <2>7, <2>8
<1>5. CASE DesiredLoop
  <2>1. PICK sum \in SumOfProducts(att_err, gain.kpo, att_err_int, gain.kio) :
           rate_des' = Saturate(sum, MaxRateDes)
    BY <1>5 DEF DesiredLoop
  <2>2. sum \in Number /\ (att_err_int = NaN => sum = NaN)
    <3>1. att_err \in Number
      BY DEF TypeOK
    <3>2. gain.kpo \in Number /\ att_err_int \in Number /\ gain.kio \in Number
      BY <1>0
    <3>3. \A s \in SumOfProducts(att_err, gain.kpo, att_err_int, gain.kio) :
             s \in Number /\ (NaN \in {att_err, gain.kpo, att_err_int, gain.kio} => s = NaN)
      BY <3>1, <3>2, TwoProducts
    <3> QED BY <2>1, <3>3
  <2>3. rate_des' \in Limited(MaxRateDes) /\ (att_err_int = NaN => rate_des' = NaN)
    BY <2>1, <2>2, Limits, Saturation
  <2>4. ASSUME moderate PROVE rate_des' \in Within(Bound.rate)
    <3>1. att_err \in Within(Bound.error) /\ att_err_int \in Within(Bound.integral)
      BY <2>4 DEF ModerateInv
    <3>2. /\ Bound.error * Bound.gain <= Bound.term * Unit
          /\ Bound.integral * Bound.gain <= Bound.term * Unit
          /\ 2 * Bound.term <= Bound.rate
      BY BoundAssumption
    <3>3. SumOfProducts(att_err, gain.kpo, att_err_int, gain.kio) \subseteq Within(Bound.rate)
      <4>1. /\ Bound.term \in Floats /\ Bound.rate \in Floats
            /\ Bound.error \in Nat /\ Bound.integral \in Nat /\ Bound.gain \in Nat
        BY Sizes
      <4>2. gain.kpo \in Within(Bound.gain) /\ gain.kio \in Within(Bound.gain)
        BY <1>g, <2>4
      <4>3. Fits(att_err, gain.kpo, Bound.term)
        BY <3>1, <3>2, <4>1, <4>2 DEF Fits
      <4>4. Fits(att_err_int, gain.kio, Bound.term)
        BY <3>1, <3>2, <4>1, <4>2 DEF Fits
      <4> QED BY <3>2, <4>1, <4>3, <4>4, ProductsWithin
    <3> QED BY <2>1, <3>3, Sizes, CascadeAssumption, SaturatedWithin
  <2>5. TypeOK' /\ PoisonInv'
    BY <1>5, <2>3 DEF DesiredLoop, Reads, TypeOK, PoisonInv, Points
  <2>6. ModerateInv'
    BY <1>5, <2>4 DEF DesiredLoop, Reads, ModerateInv, ModerateSample
  <2> QED BY <2>5, <2>6
<1>6. CASE RateLoop
  <2>1. PICK sum \in Accumulated(rate_err_int, rate_err', current.interval) :
           rate_err_int' = Saturate(sum, MaxRateErrInt)
    BY <1>6 DEF RateLoop
  <2>2. rate_err' \in Difference(rate_des, rate_curr)
    BY <1>6 DEF RateLoop
  <2>3. rate_err' \in Number /\ (rate_des = NaN => rate_err' = NaN)
    BY <1>0, <2>2, Differences DEF TypeOK
  <2>4. sum \in Number /\ (rate_des = NaN => sum = NaN)
    BY <1>0, <2>3, Accumulation
  <2>5. rate_err_int' \in Limited(MaxRateErrInt) /\ (rate_des = NaN => rate_err_int' = NaN)
    BY <2>1, <2>4, Limits, Saturation
  <2>6. ASSUME moderate
        PROVE  /\ rate_err' \in Within(Bound.rate_error)
               /\ rate_err_int' \in Within(Bound.rate_integral)
    <3>1. /\ rate_des \in Within(Bound.rate) /\ rate_curr \in Within(Bound.rate_curr)
          /\ current.interval \in Within(Bound.interval)
          /\ rate_err_int \in Within(Bound.rate_integral)
      BY <2>6 DEF ModerateInv, ModerateSample
    <3>2. /\ rate_des \in Floats /\ rate_curr \in Floats
          /\ -Bound.rate_error <= rate_des - rate_curr
          /\ rate_des - rate_curr <= Bound.rate_error
      <4>1. /\ rate_des \in Int /\ rate_curr \in Int
            /\ rate_des \in Floats /\ rate_curr \in Floats
            /\ -Bound.rate <= rate_des /\ rate_des <= Bound.rate
            /\ -Bound.rate_curr <= rate_curr /\ rate_curr <= Bound.rate_curr
        BY <3>1, FloatAssumption DEF Within
      <4>2. Bound.rate + Bound.rate_curr <= Bound.rate_error
        BY BoundAssumption
      <4> QED BY <4>1, <4>2, Sizes
    <3>3. rate_err' \in Within(Bound.rate_error)
      BY <2>2, <3>2, Sizes, DifferenceWithin
    <3>4. sum \in Within(Bound.rate_integral)
      <4>1. /\ Bound.rate_error * Bound.interval <= Bound.rate_step * Unit
            /\ Swallows(Bound.rate_integral, Bound.rate_step)
        BY BoundAssumption
      <4>2. /\ Bound.rate_error \in Nat /\ Bound.interval \in Nat
            /\ Bound.rate_step \in Floats /\ Bound.rate_step >= 0
            /\ Bound.rate_integral \in Floats /\ Bound.rate_integral >= 0
        BY Sizes
      <4>3. Accumulated(rate_err_int, rate_err', current.interval)
              \subseteq Within(Bound.rate_integral)
        BY <3>1, <3>3, <4>1, <4>2, IntegralWithin
      <4> QED BY <4>3
    <3>5. rate_err_int' \in Within(Bound.rate_integral)
      BY <2>1, <3>4, Sizes, CascadeAssumption, SaturatedWithin
    <3> QED BY <3>3, <3>5
  <2>7. TypeOK' /\ PoisonInv'
    BY <1>6, <2>3, <2>5 DEF RateLoop, Reads, TypeOK, PoisonInv, Points
  <2>8. ModerateInv'
    BY <1>6, <2>6 DEF RateLoop, Reads, ModerateInv, ModerateSample
  <2> QED BY <2>7, <2>8
<1>7. CASE CorrectionLoop
  <2>1. PICK sum \in SumOfProducts(rate_err, gain.kpi, rate_err_int, gain.kii) :
           corr' = Saturate(sum, MaxCorr)
    BY <1>7 DEF CorrectionLoop
  <2>2. sum \in Number /\ (rate_err_int = NaN => sum = NaN)
    <3>1. rate_err \in Number
      BY DEF TypeOK
    <3>2. gain.kpi \in Number /\ rate_err_int \in Number /\ gain.kii \in Number
      BY <1>0
    <3>3. \A s \in SumOfProducts(rate_err, gain.kpi, rate_err_int, gain.kii) :
             s \in Number /\ (NaN \in {rate_err, gain.kpi, rate_err_int, gain.kii} => s = NaN)
      BY <3>1, <3>2, TwoProducts
    <3> QED BY <2>1, <3>3
  <2>3. corr' \in Limited(MaxCorr) /\ (rate_err_int = NaN => corr' = NaN)
    BY <2>1, <2>2, Limits, Saturation
  <2>4. ASSUME moderate PROVE corr' \in Within(Bound.corr)
    <3>1. rate_err \in Within(Bound.rate_error) /\ rate_err_int \in Within(Bound.rate_integral)
      BY <2>4 DEF ModerateInv
    <3>2. /\ Bound.rate_error * Bound.gain <= Bound.corr_term * Unit
          /\ Bound.rate_integral * Bound.gain <= Bound.corr_term * Unit
          /\ 2 * Bound.corr_term <= Bound.corr
      BY BoundAssumption
    <3>3. SumOfProducts(rate_err, gain.kpi, rate_err_int, gain.kii) \subseteq Within(Bound.corr)
      <4>1. /\ Bound.corr_term \in Floats /\ Bound.corr \in Floats
            /\ Bound.rate_error \in Nat /\ Bound.rate_integral \in Nat /\ Bound.gain \in Nat
        BY Sizes
      <4>2. gain.kpi \in Within(Bound.gain) /\ gain.kii \in Within(Bound.gain)
        BY <1>g, <2>4
      <4>3. Fits(rate_err, gain.kpi, Bound.corr_term)
        BY <3>1, <3>2, <4>1, <4>2 DEF Fits
      <4>4. Fits(rate_err_int, gain.kii, Bound.corr_term)
        BY <3>1, <3>2, <4>1, <4>2 DEF Fits
      <4> QED BY <3>2, <4>1, <4>3, <4>4, ProductsWithin
    <3> QED BY <2>1, <3>3, Sizes, CascadeAssumption, SaturatedWithin
  <2>5. TypeOK' /\ PoisonInv'
    BY <1>7, <2>3 DEF CorrectionLoop, Reads, TypeOK, PoisonInv, Points
  <2>6. ModerateInv'
    BY <1>7, <2>4 DEF CorrectionLoop, Reads, ModerateInv, ModerateSample
  <2> QED BY <2>5, <2>6
<1>8. CASE EndPass
  <2>1. TypeOK' /\ PoisonInv'
    BY <1>8, Zero DEF EndPass, Reads, TypeOK, PoisonInv, Points
  <2>2. ModerateInv'
    BY <1>8, Zero DEF EndPass, Reads, ModerateInv, ModerateSample, BoundNames
  <2> QED BY <2>1, <2>2
<1>9. CASE UNCHANGED vars
  BY <1>9 DEF vars, TypeOK, PoisonInv, ModerateInv, ModerateSample
<1> QED BY <1>1, <1>2, <1>3, <1>4, <1>5, <1>6, <1>7, <1>8, <1>9 DEF Next

(* The inductive invariant of one axis.                                    *)
THEOREM Invariance == Spec => []IInv
BY InitInv, StepInv, PTL DEF Spec

(* Type correctness: in particular an integral, a rate or a correction is  *)
(* never plus infinity, and above its saturator in no way.                 *)
THEOREM TypeCorrect == Spec => []TypeOK
BY Invariance, PTL DEF IInv

(* However long an integral winds up on the side without a saturator, it   *)
(* stays within its size while the inputs are moderate.                    *)
THEOREM WindUp == Spec => []WindUpIsBounded
<1>1. IInv => WindUpIsBounded
  BY DEF IInv, ModerateInv, WindUpIsBounded
<1> QED BY Invariance, <1>1, PTL

(* The motor mix gets a correction between 0 and max_corr whatever the     *)
(* gains and the samples, infinite ones and NaN included.                  *)
THEOREM CorrectionBounded == Spec => []CorrectionInRange
<1>1. IInv => CorrectionInRange
  BY Truncation DEF IInv, TypeOK, CorrectionInRange
<1> QED BY Invariance, <1>1, PTL

(* An axis with a NaN integral has no correction.                          *)
THEOREM PoisonNeutral == Spec => []PoisonedIsNeutral
<1>1. IInv => PoisonedIsNeutral
  BY DEF IInv, PoisonInv, PoisonedIsNeutral, Truncated
<1> QED BY Invariance, <1>1, PTL

(* No step of any kind brings back an integral that is NaN or minus        *)
(* infinity.                                                               *)
THEOREM PoisonForEver == Spec => PoisonLasts
<1>1. IInv /\ [Next]_vars
      => [/\ att_err_int \in {NaN, NegInf} => att_err_int' \in {NaN, NegInf}
          /\ rate_err_int \in {NaN, NegInf} => rate_err_int' \in {NaN, NegInf}]_vars
  <2> SUFFICES ASSUME IInv, Next
               PROVE  /\ att_err_int \in {NaN, NegInf} => att_err_int' \in {NaN, NegInf}
                      /\ rate_err_int \in {NaN, NegInf} => rate_err_int' \in {NaN, NegInf}
    OBVIOUS
  <2>0. /\ att_err_int \in Number /\ rate_err_int \in Number
        /\ rate_des \in Number /\ rate_curr \in Number
        /\ current.interval \in Number /\ current.angle \in Number
    BY DEF IInv, TypeOK, Limited, Sample, Number
  <2>1. CASE AttitudeLoop
    <3>1. PICK sum \in Accumulated(att_err_int, att_err', current.interval) :
             att_err_int' = Saturate(sum, MaxAttErrInt)
      BY <2>1 DEF AttitudeLoop
    <3>2. att_err' \in Number
      BY <2>0, <2>1, CascadeAssumption, Differences DEF AttitudeLoop, Number
    <3>3. sum \in Number /\ (att_err_int \in {NaN, NegInf} => sum \in {NaN, NegInf})
      BY <2>0, <3>2, Accumulation
    <3> QED BY <2>1, <3>1, <3>3, Limits, Saturation DEF AttitudeLoop
  <2>2. CASE RateLoop
    <3>1. PICK sum \in Accumulated(rate_err_int, rate_err', current.interval) :
             rate_err_int' = Saturate(sum, MaxRateErrInt)
      BY <2>2 DEF RateLoop
    <3>2. rate_err' \in Number
      BY <2>0, <2>2, Differences DEF RateLoop
    <3>3. sum \in Number /\ (rate_err_int \in {NaN, NegInf} => sum \in {NaN, NegInf})
      BY <2>0, <3>2, Accumulation
    <3> QED BY <2>2, <3>1, <3>3, Limits, Saturation DEF RateLoop
  <2>3. CASE UNCHANGED <<att_err_int, rate_err_int>>
    BY <2>3
  <2> QED BY <2>1, <2>2, <2>3 DEF Next, Publish, SetGain, ReadRates, DesiredLoop,
                                  CorrectionLoop, EndPass
<1> QED BY Invariance, <1>1, PTL DEF Spec, PoisonLasts
-----------------------------------------------------------------------------
(* The motor mix and the servos.                                           *)


Lowest  == BaseVal - 2 * CorrMax
Highest == BaseVal + 2 * CorrMax

(* Every servo has a channel, that of its pin, which is active.            *)
LEMMA ChannelFacts ==
  ASSUME NEW s \in Servos
  PROVE  ChannelOf[s] = PinChannel[s] /\ PinChannel[s] \in Active /\ ChannelOf[s] \in Channels
BY DEF Servos, ChannelOf, PinChannel, Active, Channels

(* No two servos have the same channel.                                    *)
LEMMA ChannelsDiffer ==
  ASSUME NEW s \in Servos, NEW r \in Servos, s # r
  PROVE  ChannelOf[s] # ChannelOf[r]
BY DEF Servos, ChannelOf

(* The calls of control() are for servos.                                  *)
LEMMA MotorServosType == \A k \in 1 .. 4 : MotorServos[k] \in Servos
BY DEF MotorServos, Servos

(* The width register holds 16 bits.                                       *)
LEMMA FractionType ==
  ASSUME NEW wid \in 0 .. Word - 1
  PROVE  FractionToWidth(wid) \in 0 .. HalfWord - 1
<1>1. HalfWord \in Nat /\ HalfWord > 0 /\ Period \in Nat /\ Period > 0 /\ Word \in Nat
      /\ Word > 0
  BY MotorsAssumption
<1>2. Period * wid \in Nat
  BY <1>1
<1>3. (Period * wid) % Word \in Nat
  BY <1>1, <1>2
<1>4. ((Period * wid) % Word) \div Period \in Nat
  BY <1>1, <1>3
<1> QED BY <1>1, <1>4 DEF FractionToWidth

(* A product is divided back exactly.                                      *)
LEMMA DivideBack ==
  ASSUME NEW p \in Nat \ {0}, NEW w \in Nat
  PROVE  (p * w) \div p = w
<1> DEFINE q == (p * w) \div p
<1>0. p * w \in Nat
  OBVIOUS
<1>1. q \in Int /\ p * q <= p * w /\ p * w < p * (q + 1)
  <2> HIDE DEF q
  <2>1. \A n \in Nat : n \div p \in Int /\ p * (n \div p) <= n /\ n < p * ((n \div p) + 1)
    OBVIOUS
  <2> QED BY <1>0, <2>1 DEF q
<1> HIDE DEF q
<1>2. q <= w
  <2> SUFFICES ASSUME q >= w + 1 PROVE FALSE
    BY <1>1
  <2>1. p * q >= p * (w + 1)
    BY <1>1
  <2>2. p * (w + 1) = p * w + p
    OBVIOUS
  <2> QED BY <1>0, <1>1, <2>1, <2>2
<1>3. w <= q
  <2> SUFFICES ASSUME w >= q + 1 PROVE FALSE
    BY <1>1
  <2>1. p * w >= p * (q + 1)
    BY <1>1
  <2> QED BY <1>0, <1>1, <2>1
<1>4. q = w
  BY <1>1, <1>2, <1>3
<1> QED BY <1>4 DEF q

(* A motor value reaches the register unchanged.                           *)
LEMMA FractionExact ==
  ASSUME NEW wid \in Nat, wid <= Highest
  PROVE  FractionToWidth(wid) = wid
<1>1. Highest \in Nat /\ Period \in Nat \ {0} /\ Highest * Period < Word /\ Highest < HalfWord
      /\ Word \in Nat /\ HalfWord \in Nat
  BY MotorsAssumption DEF Highest
<1>2. Period * wid <= Highest * Period
  BY <1>1
<1>3. Period * wid \in Nat /\ Period * wid < Word
  BY <1>1, <1>2
<1>4. (Period * wid) % Word = Period * wid
  BY <1>1, <1>3
<1>5. wid % HalfWord = wid
  BY <1>1
<1> QED BY <1>1, <1>4, <1>5, DivideBack DEF FractionToWidth

(* The mix of four corrections: no wrap, within the range, the sum kept.   *)
LEMMA MixFacts ==
  ASSUME NEW u \in [Axes -> Corrections]
  PROVE  /\ MotorValues(u) \in [1 .. 4 -> Lowest .. Highest]
         /\ MotorValues(u)[1] + MotorValues(u)[2] + MotorValues(u)[3]
            + MotorValues(u)[4] = 4 * BaseVal
<1>1. PICK r \in 0 .. CorrMax, p \in 0 .. CorrMax, y \in 0 .. CorrMax :
        r = u["roll"] /\ p = u["pitch"] /\ y = u["yaw"]
  BY MotorsAssumption DEF Axes
<1>2. BaseVal \in Nat /\ CorrMax \in Nat /\ 2 * CorrMax <= BaseVal
      /\ Word \in Nat /\ HalfWord \in Nat /\ HalfWord <= Word
      /\ BaseVal + 2 * CorrMax < HalfWord
  BY MotorsAssumption
<1>3. \A x \in Lowest .. Highest : x % Word = x
  BY <1>2 DEF Lowest, Highest
<1>4. /\ BaseVal + p + y \in Lowest .. Highest /\ BaseVal + r - y \in Lowest .. Highest
      /\ BaseVal - p + y \in Lowest .. Highest /\ BaseVal - r - y \in Lowest .. Highest
  BY <1>2 DEF Lowest, Highest
<1>5. MotorValues(u) = <<BaseVal + p + y, BaseVal + r - y, BaseVal - p + y, BaseVal - r - y>>
  BY <1>1, <1>3, <1>4 DEF MotorValues
<1> QED BY <1>2, <1>4, <1>5
-----------------------------------------------------------------------------
HeldInv ==
  /\ \A k \in 1 .. 4 : MotorServos[k] \in held => asked[MotorServos[k]] = motor[k]
  /\ \A k \in 1 .. 4 : k < point => MotorServos[k] \in held \cup ShellServos

MixInv == MixTypeOK /\ PinShowsLastCommand /\ MotorsInServoRange /\ ThrustConserved /\ HeldInv

(* Driving one servo keeps the types and the pins.                         *)
LEMMA ServoStep ==
  ASSUME MixInv, NEW s \in Servos, NEW wid \in 0 .. Word - 1,
         ccr' = [ccr EXCEPT ![ChannelOf[s]] = FractionToWidth(wid)],
         asked' = [asked EXCEPT ![s] = wid]
  PROVE  /\ ccr' \in [Channels -> 0 .. HalfWord - 1]
         /\ asked' \in [Servos -> 0 .. Word - 1]
         /\ PinShowsLastCommand'
<1>1. FractionToWidth(wid) \in 0 .. HalfWord - 1
  BY FractionType
<1>2. ccr' \in [Channels -> 0 .. HalfWord - 1] /\ asked' \in [Servos -> 0 .. Word - 1]
  BY <1>1 DEF MixInv, MixTypeOK
<1>3. ASSUME NEW r \in Servos
      PROVE  Pulse(r)' = FractionToWidth(asked[r])'
  <2>1. Pulse(r)' = ccr'[ChannelOf[r]] /\ Pulse(r) = ccr[ChannelOf[r]]
    BY ChannelFacts DEF Pulse
  <2>2. CASE r = s
    <3>1. asked'[s] = wid
      BY DEF MixInv, MixTypeOK
    <3>2. ccr'[ChannelOf[s]] = FractionToWidth(wid)
      BY ChannelFacts DEF MixInv, MixTypeOK
    <3> QED BY <2>1, <2>2, <3>1, <3>2 DEF FractionToWidth
  <2>3. CASE r # s
    <3>1. asked'[r] = asked[r]
      BY <2>3 DEF MixInv, MixTypeOK
    <3>2. ccr'[ChannelOf[r]] = ccr[ChannelOf[r]]
      BY <2>3, ChannelFacts, ChannelsDiffer DEF MixInv, MixTypeOK
    <3> QED BY <2>1, <3>1, <3>2 DEF MixInv, PinShowsLastCommand, FractionToWidth
  <2> QED BY <2>2, <2>3
<1> QED BY <1>2, <1>3 DEF PinShowsLastCommand

(* The invariant holds after initPWM.                                      *)
LEMMA MixInitInv == MixInit => MixInv
<1> SUFFICES ASSUME MixInit PROVE MixInv
  OBVIOUS
<1>1. BaseVal \in 0 .. Word - 1 /\ 0 \in 0 .. Word - 1 /\ 0 \in 0 .. HalfWord - 1
      /\ BaseVal \in Nat /\ CorrMax \in Nat
  BY MotorsAssumption
<1>2. MixTypeOK
  BY <1>1 DEF MixInit, MixTypeOK
<1>3. FractionToWidth(0) = 0
  BY MotorsAssumption, FractionExact DEF Highest
<1>4. PinShowsLastCommand
  BY <1>3, ChannelFacts DEF MixInit, PinShowsLastCommand, Pulse
<1>5. MotorsInServoRange /\ ThrustConserved
  BY <1>1 DEF MixInit, MotorsInServoRange, ThrustConserved
<1>6. HeldInv
  BY DEF MixInit, HeldInv
<1> QED BY <1>2, <1>4, <1>5, <1>6 DEF MixInv

(* Every statement of control() and every pwm command keeps it.            *)
LEMMA MixStepInv == MixInv /\ [MixNext]_mixVars => MixInv'
<1> SUFFICES ASSUME MixInv, [MixNext]_mixVars PROVE MixInv'
  OBVIOUS
<1>1. ASSUME NEW u \in [Axes -> Corrections], Mix(u)
      PROVE  MixInv'
  <2>1. motor' = MotorValues(u) /\ point' = 1 /\ held' = {} /\ UNCHANGED <<ccr, asked>>
    BY <1>1 DEF Mix
  <2>2. motor' \in [1 .. 4 -> Lowest .. Highest]
        /\ motor'[1] + motor'[2] + motor'[3] + motor'[4] = 4 * BaseVal
    BY <2>1, MixFacts
  <2>3. Lowest .. Highest \subseteq 0 .. Word - 1
    BY MotorsAssumption DEF Lowest, Highest
  <2>4. MixTypeOK'
    BY <2>1, <2>2, <2>3 DEF MixInv, MixTypeOK
  <2>5. MotorsInServoRange' /\ ThrustConserved'
    BY <2>2 DEF MotorsInServoRange, ThrustConserved, Lowest, Highest
  <2>6. PinShowsLastCommand'
    BY <2>1 DEF MixInv, PinShowsLastCommand, Pulse
  <2>7. HeldInv'
    BY <2>1 DEF HeldInv
  <2> QED BY <2>4, <2>5, <2>6, <2>7 DEF MixInv
<1>2. CASE DriveMotor
  <2>1. PICK k \in 1 .. 4 : k = point
    BY <1>2 DEF DriveMotor
  <2>2. PICK s \in Servos : s = MotorServos[k]
    BY MotorServosType
  <2>3. motor[k] \in 0 .. Word - 1
    BY DEF MixInv, MixTypeOK
  <2>4. /\ ccr' = [ccr EXCEPT ![ChannelOf[s]] = FractionToWidth(motor[k])]
        /\ asked' = [asked EXCEPT ![s] = motor[k]]
        /\ point' = k + 1 /\ held' = held \cup {s} /\ motor' = motor
    BY <1>2, <2>1, <2>2 DEF DriveMotor, StartServo
  <2>5. /\ ccr' \in [Channels -> 0 .. HalfWord - 1]
        /\ asked' \in [Servos -> 0 .. Word - 1] /\ PinShowsLastCommand'
    BY <2>3, <2>4, ServoStep
  <2>6. MixTypeOK'
    BY <2>4, <2>5 DEF MixInv, MixTypeOK
  <2>7. MotorsInServoRange' /\ ThrustConserved'
    BY <2>4 DEF MixInv, MotorsInServoRange, ThrustConserved
  <2>8. \A j \in 1 .. 4 : MotorServos[j] = s => j = k
    BY <2>2 DEF MotorServos
  <2>9. HeldInv'
    <3>1. ASSUME NEW j \in 1 .. 4, MotorServos[j] \in held'
          PROVE  asked'[MotorServos[j]] = motor'[j]
      <4>1. CASE j = k
        BY <4>1, <2>2, <2>4 DEF MixInv, MixTypeOK
      <4>2. CASE j # k
        BY <4>2, <3>1, <2>4, <2>8, MotorServosType DEF MixInv, MixTypeOK, HeldInv
      <4> QED BY <4>1, <4>2
    <3>2. ASSUME NEW j \in 1 .. 4, j < point'
          PROVE  MotorServos[j] \in held' \cup ShellServos
      <4>1. CASE j = k
        BY <4>1, <2>2, <2>4
      <4>2. CASE j # k
        BY <4>2, <3>2, <2>1, <2>4 DEF MixInv, HeldInv
      <4> QED BY <4>1, <4>2
    <3> QED BY <3>1, <3>2 DEF HeldInv
  <2> QED BY <2>5, <2>6, <2>7, <2>9 DEF MixInv
<1>3. CASE EndSleep
  BY <1>3 DEF EndSleep, MixInv, MixTypeOK, PinShowsLastCommand, Pulse,
              MotorsInServoRange, ThrustConserved, HeldInv
<1>4. ASSUME NEW s \in ShellServos, NEW wid \in 0 .. Word - 1,
             ccr' = [ccr EXCEPT ![ChannelOf[s]] = FractionToWidth(wid)],
             asked' = [asked EXCEPT ![s] = wid],
             held' = held \ {s}, UNCHANGED <<point, motor>>
      PROVE  MixInv'
  <2>1. s \in Servos
    BY MotorsAssumption
  <2>2. /\ ccr' \in [Channels -> 0 .. HalfWord - 1]
        /\ asked' \in [Servos -> 0 .. Word - 1] /\ PinShowsLastCommand'
    BY <1>4, <2>1, ServoStep
  <2>3. MixTypeOK'
    BY <1>4, <2>2 DEF MixInv, MixTypeOK
  <2>4. MotorsInServoRange' /\ ThrustConserved'
    BY <1>4 DEF MixInv, MotorsInServoRange, ThrustConserved
  <2>5. HeldInv'
    BY <1>4, MotorServosType DEF MixInv, MixTypeOK, HeldInv
  <2> QED BY <2>2, <2>3, <2>4, <2>5 DEF MixInv
<1>5. ASSUME NEW s \in ShellServos, NEW wid \in ShellWidths, EnableCommand(s, wid)
      PROVE  MixInv'
  <2>1. wid \in 0 .. Word - 1
    BY MotorsAssumption
  <2> QED BY <1>5, <2>1, <1>4 DEF EnableCommand, StartServo
<1>6. ASSUME NEW s \in ShellServos, DisableCommand(s)
      PROVE  MixInv'
  <2>1. FractionToWidth(0) = 0 /\ 0 \in 0 .. Word - 1
    BY MotorsAssumption, FractionExact DEF Highest
  <2> QED BY <1>6, <2>1, <1>4 DEF DisableCommand
<1>7. CASE UNCHANGED mixVars
  BY <1>7 DEF mixVars, MixInv, MixTypeOK, PinShowsLastCommand, Pulse,
              MotorsInServoRange, ThrustConserved, HeldInv
<1> QED BY <1>1, <1>2, <1>3, <1>5, <1>6, <1>7 DEF MixNext

(* The inductive invariant of the motors.                                  *)
THEOREM MixIsSafe == MixSpec => []MixInv
BY MixInitInv, MixStepInv, PTL DEF MixSpec

(* Type correctness of the registers, for any width the shell passes.      *)
THEOREM MotorsTypeCorrect == MixSpec => []MixTypeOK
BY MixIsSafe, PTL DEF MixInv

(* Each servo's pin shows what was last asked of that servo.               *)
THEOREM ServosIndependent == MixSpec => []PinShowsLastCommand
BY MixIsSafe, PTL DEF MixInv

(* The motors stay within twice max_corr of base_val.                      *)
THEOREM MotorsBounded == MixSpec => []MotorsInServoRange
BY MixIsSafe, PTL DEF MixInv

(* The sum of the motors is that of level flight.                          *)
THEOREM Thrust == MixSpec => []ThrustConserved
BY MixIsSafe, PTL DEF MixInv

(* Between passes the pins have the last pass in full.                     *)
THEOREM PassHeld == MixSpec => []MotorsHoldThePass
<1>1. MixInv => MotorsHoldThePass
  <2> SUFFICES ASSUME MixInv PROVE MotorsHoldThePass
    OBVIOUS
  <2>1. ASSUME NEW k \in 1 .. 4, MotorServos[k] \in held
        PROVE  Pulse(MotorServos[k]) = motor[k]
    <3>1. Pulse(MotorServos[k]) = FractionToWidth(motor[k])
      BY <2>1, MotorServosType DEF MixInv, PinShowsLastCommand, HeldInv
    <3>2. motor[k] \in Nat /\ motor[k] <= Highest
      BY MotorsAssumption DEF MixInv, MotorsInServoRange, Highest
    <3> QED BY <3>1, <3>2, FractionExact
  <2>2. point = 5 => \A k \in 1 .. 4 : MotorServos[k] \in held \cup ShellServos
    BY DEF MixInv, HeldInv
  <2> QED BY <2>1, <2>2 DEF MotorsHoldThePass
<1> QED BY MixIsSafe, <1>1, PTL
=============================================================================
