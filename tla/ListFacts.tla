----------------------------- MODULE ListFacts -----------------------------
(***************************************************************************)
(* Facts about the lists of the kernel, which the models have as           *)
(* sequences: what an insertion, a removal, an addition at the end and the *)
(* loss of the head do to the places, and that no element is there twice.  *)
(* Before them, least and greatest elements of sets of naturals.           *)
(***************************************************************************)
EXTENDS Integers, SequencesExt, SequenceTheorems, FiniteSetTheorems,
        WellFoundedInduction, TLAPS

(* A set of naturals has a least element.                                  *)
LEMMA LeastNatural ==
  ASSUME NEW S, S \subseteq Nat, S # {}
  PROVE  \E n \in S : \A k \in S : n <= k
<1>1. PICK n \in S : \A k \in S : <<k, n>> \notin OpToRel(<, Nat)
  BY NatLessThanWellFounded, WFMin, Zenon
<1>2. \A k \in S : ~ (k < n)
  BY <1>1, Zenon DEF OpToRel
<1>3. QED
  BY <1>2

(* A bounded set of naturals has a maximum, and Max returns it.            *)
LEMMA MaxExists ==
  ASSUME NEW S, S \subseteq Nat, S # {}, NEW bound \in Nat, \A n \in S : n <= bound
  PROVE  Max(S) \in S /\ \A n \in S : n <= Max(S)
<1> DEFINE Gaps == {bound - n : n \in S}
<1>1. Gaps \subseteq Nat /\ Gaps # {}
  <2>1. \A n \in S : n \in Nat /\ bound - n \in Nat
    OBVIOUS
  <2>2. QED
    BY <2>1
<1>2. PICK g \in Gaps : \A k \in Gaps : g <= k
  BY <1>1, LeastNatural
<1>3. PICK x \in S : g = bound - x
  OBVIOUS
<1>4. \A y \in S : x >= y
  BY <1>2, <1>3
<1>5. QED
  BY <1>4 DEF Max

(* An element above all others is what Max returns.                        *)
LEMMA MaxIs ==
  ASSUME NEW S, S \subseteq Nat, NEW x \in S, \A y \in S : y <= x
  PROVE  Max(S) = x
<1>1. Max(S) \in S /\ \A y \in S : Max(S) >= y
  BY DEF Max
<1>2. Max(S) \in Nat /\ x \in Nat /\ Max(S) >= x /\ Max(S) <= x
  BY <1>1
<1>3. QED
  BY <1>2

(* A set within a singleton counts one or nothing.                         *)
LEMMA CountOne ==
  ASSUME NEW x, NEW S, S \subseteq {x}
  PROVE  Cardinality(S) = IF x \in S THEN 1 ELSE 0
<1>1. S = {} \/ S = {x}
  OBVIOUS
<1>2. Cardinality({}) = 0 /\ Cardinality({x}) = 1
  BY FS_EmptySet, FS_Singleton
<1> QED BY <1>1, <1>2

(* What stands where after an insertion.                                   *)
LEMMA Inserted ==
  ASSUME NEW S, NEW q \in Seq(S), NEW t \in S, NEW i \in 1 .. Len(q) + 1
  PROVE  /\ InsertAt(q, i, t) \in Seq(S)
         /\ Len(InsertAt(q, i, t)) = Len(q) + 1
         /\ \A k \in 1 .. Len(q) + 1 :
              InsertAt(q, i, t)[k] = IF k < i THEN q[k] ELSE IF k = i THEN t ELSE q[k - 1]
<1>1. Len(q) \in Nat
  BY LenProperties
<1>2. /\ SubSeq(q, 1, i - 1) \in Seq(S)
      /\ Len(SubSeq(q, 1, i - 1)) = i - 1
      /\ \A k \in 1 .. i - 1 : SubSeq(q, 1, i - 1)[k] = q[k]
  BY <1>1, ElementOfSeq, SubSeqProperties
<1>3. /\ SubSeq(q, i, Len(q)) \in Seq(S)
      /\ Len(SubSeq(q, i, Len(q))) = Len(q) - i + 1
      /\ \A k \in 1 .. Len(q) - i + 1 : SubSeq(q, i, Len(q))[k] = q[i + k - 1]
  BY <1>1, ElementOfSeq, SubSeqProperties
<1>4. <<t>> \in Seq(S) /\ Len(<<t>>) = 1 /\ <<t>>[1] = t
  OBVIOUS
<1> DEFINE a == SubSeq(q, 1, i - 1)
           b == SubSeq(q, i, Len(q))
<1> HIDE DEF a, b
<1>5. /\ a \o <<t>> \in Seq(S)
      /\ Len(a \o <<t>>) = i
      /\ \A k \in 1 .. i : (a \o <<t>>)[k] = IF k < i THEN q[k] ELSE t
  BY <1>1, <1>2, <1>4, ConcatProperties DEF a
<1> DEFINE c == a \o <<t>>
<1> HIDE DEF c
<1>. c \in Seq(S) /\ Len(c) = i /\ \A k \in 1 .. i : c[k] = IF k < i THEN q[k] ELSE t
  BY <1>5 DEF c
<1>. b \in Seq(S) /\ Len(b) = Len(q) - i + 1
     /\ \A k \in 1 .. Len(q) - i + 1 : b[k] = q[i + k - 1]
  BY <1>3 DEF b
<1>6. /\ c \o b \in Seq(S)
      /\ Len(c \o b) = Len(q) + 1
      /\ \A k \in 1 .. Len(q) + 1 :
           (c \o b)[k] = IF k < i THEN q[k] ELSE IF k = i THEN t ELSE q[k - 1]
  <2>1. /\ c \o b \in Seq(S) /\ Len(c \o b) = Len(c) + Len(b)
        /\ \A k \in 1 .. Len(c) + Len(b) :
             (c \o b)[k] = IF k <= Len(c) THEN c[k] ELSE b[k - Len(c)]
    BY ConcatProperties
  <2>2. Len(c) + Len(b) = Len(q) + 1
    BY <1>1
  <2>3. ASSUME NEW k \in 1 .. Len(q) + 1
        PROVE  (c \o b)[k] = IF k < i THEN q[k] ELSE IF k = i THEN t ELSE q[k - 1]
    <3>1. (c \o b)[k] = IF k <= i THEN c[k] ELSE b[k - i]
      BY <2>1, <2>2
    <3>2. CASE k <= i
      BY <3>1, <3>2
    <3>3. CASE k > i
      <4>1. k - i \in 1 .. Len(q) - i + 1 /\ i + (k - i) - 1 = k - 1 /\ ~ (k <= i) /\ ~ (k < i) /\ k # i
        BY <1>1, <3>3
      <4>2. b[k - i] = q[i + (k - i) - 1]
        BY <4>1
      <4> QED BY <3>1, <4>1, <4>2
    <3> QED BY <1>1, <3>2, <3>3
  <2> QED BY <2>1, <2>2, <2>3
<1>7. InsertAt(q, i, t) = c \o b
  BY DEF InsertAt, a, b, c
<1>8. QED
  BY <1>6, <1>7

(* The same with its conclusion as one formula, to be cited where k is     *)
(* not wanted yet.                                                         *)
IsInsertion(r, q, i, t, S) ==
  /\ r \in Seq(S)
  /\ Len(r) = Len(q) + 1
  /\ \A k \in 1 .. Len(q) + 1 : r[k] = IF k < i THEN q[k] ELSE IF k = i THEN t ELSE q[k - 1]

LEMMA InsertionIs ==
  ASSUME NEW S, NEW q \in Seq(S), NEW t \in S, NEW i \in 1 .. Len(q) + 1
  PROVE  IsInsertion(InsertAt(q, i, t), q, i, t, S)
<1> DEFINE r == InsertAt(q, i, t)
<1>1. /\ r \in Seq(S) /\ Len(r) = Len(q) + 1
      /\ \A k \in 1 .. Len(q) + 1 :
           r[k] = IF k < i THEN q[k] ELSE IF k = i THEN t ELSE q[k - 1]
  BY Inserted
<1> HIDE DEF r
<1> QED BY <1>1 DEF IsInsertion, r

(* What stands where after a removal.                                      *)
LEMMA Removed ==
  ASSUME NEW S, NEW q \in Seq(S), NEW i \in DOMAIN q
  PROVE  /\ RemoveAt(q, i) \in Seq(S)
         /\ Len(RemoveAt(q, i)) = Len(q) - 1
         /\ DOMAIN RemoveAt(q, i) = 1 .. Len(q) - 1
         /\ \A k \in 1 .. Len(q) - 1 :
              RemoveAt(q, i)[k] = IF k < i THEN q[k] ELSE q[k + 1]
<1> DEFINE r == RemoveAt(q, i)
<1> HIDE DEF r
<1>1. /\ Len(q) \in Nat /\ DOMAIN q = 1 .. Len(q) /\ i \in 1 .. Len(q)
      /\ \A k \in 1 .. Len(q) : q[k] \in S
  BY LenProperties, ElementOfSeq
<1> DEFINE a == SubSeq(q, 1, i - 1)
           b == SubSeq(q, i + 1, Len(q))
<1> HIDE DEF a, b
<1>2. a \in Seq(S) /\ Len(a) = i - 1 /\ \A k \in 1 .. i - 1 : a[k] = q[k]
  BY <1>1, SubSeqProperties DEF a
<1>3. b \in Seq(S) /\ Len(b) = Len(q) - i /\ \A k \in 1 .. Len(q) - i : b[k] = q[i + k]
  <2>1. CASE i < Len(q)
    BY <1>1, <2>1, SubSeqProperties DEF b
  <2>2. CASE i = Len(q)
    <3>1. b = <<>>
      <4>1. Len(q) \in Int /\ i + 1 \in Int /\ Len(q) < i + 1
        BY <1>1, <2>2
      <4> QED BY <4>1, SubSeqEmpty DEF b
    <3>2. Len(b) = 0 /\ b \in Seq(S)
      BY <3>1
    <3> QED BY <1>1, <2>2, <3>2
  <2> QED BY <1>1, <2>1, <2>2
<1>4. /\ r \in Seq(S) /\ Len(r) = Len(q) - 1 /\ DOMAIN r = 1 .. Len(q) - 1
      /\ \A k \in 1 .. Len(q) - 1 : r[k] = IF k < i THEN q[k] ELSE q[k + 1]
  <2>1. r = a \o b
    BY DEF r, a, b, RemoveAt
  <2>2. /\ r \in Seq(S) /\ Len(r) = Len(q) - 1
        /\ \A k \in 1 .. Len(q) - 1 : r[k] = IF k < i THEN q[k] ELSE q[k + 1]
    <3>1. /\ a \o b \in Seq(S) /\ Len(a \o b) = Len(a) + Len(b)
          /\ \A k \in 1 .. Len(a) + Len(b) :
               (a \o b)[k] = IF k <= Len(a) THEN a[k] ELSE b[k - Len(a)]
      BY <1>2, <1>3, ConcatProperties
    <3>2. Len(a) + Len(b) = Len(q) - 1 /\ Len(r) = Len(q) - 1 /\ r \in Seq(S)
      BY <1>1, <1>2, <1>3, <2>1, <3>1
    <3>3. ASSUME NEW k \in 1 .. Len(q) - 1
          PROVE  r[k] = IF k < i THEN q[k] ELSE q[k + 1]
      <4>1. r[k] = IF k <= i - 1 THEN a[k] ELSE b[k - (i - 1)]
        BY <1>2, <2>1, <3>1, <3>2
      <4>2. CASE k < i
        BY <1>1, <1>2, <4>1, <4>2
      <4>3. CASE k >= i
        <5>1. k - (i - 1) \in 1 .. Len(q) - i /\ i + (k - (i - 1)) = k + 1 /\ ~ (k < i) /\ ~ (k <= i - 1)
          BY <1>1, <4>3
        <5> QED BY <1>3, <4>1, <5>1
      <4> QED BY <1>1, <4>2, <4>3
    <3> QED BY <3>2, <3>3
  <2> QED BY <2>2, LenProperties
<1> QED BY <1>4 DEF r

(* To remove a thread changes neither the order of the others nor who they *)
(* are.                                                                    *)
LEMMA RemovedLine ==
  ASSUME NEW S, NEW q \in Seq(S), IsInjective(q), NEW i \in DOMAIN q
  PROVE  /\ RemoveAt(q, i) \in Seq(S)
         /\ IsInjective(RemoveAt(q, i))
         /\ ToSet(RemoveAt(q, i)) = ToSet(q) \ {q[i]}
         /\ \A j, k \in DOMAIN RemoveAt(q, i) : j < k =>
              \E a, b \in DOMAIN q : a < b /\ q[a] = RemoveAt(q, i)[j]
                                           /\ q[b] = RemoveAt(q, i)[k]
<1> DEFINE r == RemoveAt(q, i)
<1> HIDE DEF r
<1>1. /\ Len(q) \in Nat /\ DOMAIN q = 1 .. Len(q) /\ i \in 1 .. Len(q)
      /\ \A k \in 1 .. Len(q) : q[k] \in S
      /\ \A j, k \in 1 .. Len(q) : q[j] = q[k] => j = k
  BY LenProperties, ElementOfSeq DEF IsInjective
<1>4. /\ r \in Seq(S) /\ Len(r) = Len(q) - 1 /\ DOMAIN r = 1 .. Len(q) - 1
      /\ \A k \in 1 .. Len(q) - 1 : r[k] = IF k < i THEN q[k] ELSE q[k + 1]
  BY Removed DEF r
<1>5. IsInjective(r)
  <2>1. ASSUME NEW j \in 1 .. Len(q) - 1, NEW k \in 1 .. Len(q) - 1, r[j] = r[k]
        PROVE  j = k
    <3> DEFINE from(n) == IF n < i THEN n ELSE n + 1
    <3>1. \A n \in 1 .. Len(q) - 1 : from(n) \in 1 .. Len(q) /\ r[n] = q[from(n)]
      <4>1. ASSUME NEW n \in 1 .. Len(q) - 1 PROVE from(n) \in 1 .. Len(q)
        BY <1>1
      <4>2. ASSUME NEW n \in 1 .. Len(q) - 1 PROVE r[n] = q[from(n)]
        BY <1>4
      <4> QED BY <4>1, <4>2
    <3>2. from(j) = from(k)
      <4> HIDE DEF from
      <4>1. q[from(j)] = q[from(k)] /\ from(j) \in 1 .. Len(q) /\ from(k) \in 1 .. Len(q)
        BY <2>1, <3>1
      <4> QED BY <1>1, <4>1
    <3> QED BY <1>1, <3>2
  <2> QED BY <1>4, <2>1 DEF IsInjective
<1>6. ToSet(r) = ToSet(q) \ {q[i]}
  <2>1. ASSUME NEW k \in 1 .. Len(q) - 1
        PROVE  r[k] \in ToSet(q) \ {q[i]}
    <3>1. PICK j \in 1 .. Len(q) : r[k] = q[j] /\ j # i
      <4>1. CASE k < i
        BY <1>1, <1>4, <4>1
      <4>2. CASE k >= i
        <5>1. k + 1 \in 1 .. Len(q) /\ k + 1 # i /\ r[k] = q[k + 1]
          BY <1>1, <1>4, <4>2
        <5> QED BY <5>1
      <4> QED BY <1>1, <4>1, <4>2
    <3>2. q[j] \in ToSet(q) /\ q[j] # q[i]
      BY <1>1, <3>1 DEF ToSet
    <3> QED BY <3>1, <3>2
  <2>2. ASSUME NEW k \in 1 .. Len(q), k # i
        PROVE  \E n \in 1 .. Len(q) - 1 : r[n] = q[k]
    <3>1. CASE k < i
      BY <1>1, <1>4, <3>1
    <3>2. CASE k > i
      <4>1. k - 1 \in 1 .. Len(q) - 1 /\ r[k - 1] = q[k]
        BY <1>1, <1>4, <3>2
      <4> QED BY <4>1
    <3> QED BY <1>1, <2>2, <3>1, <3>2
  <2>3. ToSet(r) = {r[k] : k \in 1 .. Len(q) - 1} /\ ToSet(q) = {q[k] : k \in 1 .. Len(q)}
    BY <1>1, <1>4 DEF ToSet
  <2>4. ToSet(r) \subseteq ToSet(q) \ {q[i]}
    BY <2>1, <2>3
  <2>5. ASSUME NEW x \in ToSet(q), x # q[i] PROVE x \in ToSet(r)
    <3>1. PICK k \in 1 .. Len(q) : x = q[k]
      BY <2>3
    <3>2. k # i
      BY <2>5, <3>1
    <3> QED BY <2>2, <2>3, <3>1, <3>2
  <2> QED BY <2>4, <2>5
<1>7. ASSUME NEW j \in DOMAIN r, NEW k \in DOMAIN r, j < k
      PROVE  \E c, d \in DOMAIN q : c < d /\ q[c] = r[j] /\ q[d] = r[k]
  <2> DEFINE c == IF j < i THEN j ELSE j + 1
             d == IF k < i THEN k ELSE k + 1
  <2>1. c \in DOMAIN q /\ d \in DOMAIN q /\ c < d /\ q[c] = r[j] /\ q[d] = r[k]
    BY <1>1, <1>4, <1>7
  <2> QED BY <2>1
<1>8. QED
  BY <1>4, <1>5, <1>6, <1>7 DEF r

(* Appending a new element keeps a sequence injective.                     *)
LEMMA AppendedLine ==
  ASSUME NEW S, NEW q \in Seq(S), IsInjective(q), NEW x \in S, x \notin Range(q)
  PROVE  /\ Append(q, x) \in Seq(S) /\ IsInjective(Append(q, x))
         /\ Range(Append(q, x)) = Range(q) \cup {x}
<1> DEFINE r == Append(q, x)
<1>1. /\ r \in Seq(S) /\ Len(r) = Len(q) + 1 /\ r[Len(q) + 1] = x
      /\ \A i \in 1 .. Len(q) : r[i] = q[i]
  BY AppendProperties
<1>2. /\ Len(q) \in Nat /\ DOMAIN q = 1 .. Len(q) /\ DOMAIN r = 1 .. Len(q) + 1
  BY <1>1, LenProperties
<1> HIDE DEF r
<1>3. IsInjective(r)
  <2>1. \A i \in 1 .. Len(q) : q[i] # x
    BY <1>2 DEF Range
  <2> SUFFICES ASSUME NEW i \in DOMAIN r, NEW j \in DOMAIN r, r[i] = r[j]
               PROVE  i = j
    BY DEF IsInjective
  <2> QED BY <1>1, <1>2, <2>1 DEF IsInjective
<1>4. Range(r) = Range(q) \cup {x}
  <2>1. ASSUME NEW y \in Range(r) PROVE y \in Range(q) \cup {x}
    <3>1. PICK i \in DOMAIN r : y = r[i]
      BY DEF Range
    <3> QED BY <1>1, <1>2, <3>1 DEF Range
  <2>2. ASSUME NEW y \in Range(q) PROVE y \in Range(r)
    <3>1. PICK i \in DOMAIN q : y = q[i]
      BY DEF Range
    <3>2. i \in DOMAIN r /\ r[i] = y
      BY <1>1, <1>2, <3>1
    <3> QED BY <3>2 DEF Range
  <2>3. x \in Range(r)
    <3>1. Len(q) + 1 \in DOMAIN r
      BY <1>2
    <3> QED BY <1>1, <3>1 DEF Range
  <2> QED BY <2>1, <2>2, <2>3
<1> QED BY <1>1, <1>3, <1>4 DEF r

(* The rest of a sequence without repetitions has all but its head.        *)
LEMMA TailLine ==
  ASSUME NEW S, NEW q \in Seq(S), IsInjective(q), q # <<>>
  PROVE  /\ Tail(q) \in Seq(S) /\ IsInjective(Tail(q))
         /\ Len(Tail(q)) = Len(q) - 1 /\ Head(q) = q[1] /\ 1 \in DOMAIN q
         /\ \A k \in 1 .. Len(q) - 1 : Tail(q)[k] = q[k + 1]
         /\ ToSet(Tail(q)) = ToSet(q) \ {Head(q)}
<1>1. /\ Len(q) \in Nat /\ DOMAIN q = 1 .. Len(q) /\ Len(q) # 0
      /\ \A j, k \in 1 .. Len(q) : q[j] = q[k] => j = k
  BY LenProperties, EmptySeq DEF IsInjective
<1> DEFINE r == Tail(q)
<1>2. /\ r \in Seq(S) /\ Len(r) = Len(q) - 1 /\ DOMAIN r = 1 .. Len(q) - 1
      /\ \A k \in 1 .. Len(q) - 1 : r[k] = q[k + 1]
      /\ Head(q) = q[1]
  BY <1>1, HeadTailProperties, LenProperties
<1> HIDE DEF r
<1>3. IsInjective(r)
  BY <1>1, <1>2 DEF IsInjective
<1>4. ToSet(r) = {r[k] : k \in 1 .. Len(q) - 1} /\ ToSet(q) = {q[k] : k \in 1 .. Len(q)}
  BY <1>1, <1>2 DEF ToSet
<1>5. ASSUME NEW k \in 1 .. Len(q) - 1 PROVE r[k] \in ToSet(q) \ {q[1]}
  BY <1>1, <1>2, <1>4
<1>6. ASSUME NEW k \in 1 .. Len(q), k # 1 PROVE q[k] \in ToSet(r)
  <2>1. k - 1 \in 1 .. Len(q) - 1 /\ r[k - 1] = q[k]
    BY <1>1, <1>2, <1>6
  <2> QED BY <1>4, <2>1
<1>7. ToSet(r) = ToSet(q) \ {q[1]}
  BY <1>4, <1>5, <1>6
<1> QED BY <1>1, <1>2, <1>3, <1>7 DEF r
=============================================================================
