---------------------------- MODULE KernelProofs ----------------------------
(***************************************************************************)
(* The mutexes of the kernel are right for any number of threads and       *)
(* mutexes and any priorities: lists and stacks agree with the states of   *)
(* the threads, inheritance is exact and transitive, the highest ready     *)
(* thread runs, and Lock is implemented.  First come facts about ordered   *)
(* queues, then the chains of owners chMtxLockS boosts, then the processor *)
(* and the calls one by one.                                               *)
(*                                                                         *)
(* The second part is about the shell thread: the registry, the references *)
(* and the walks agree however often a shell comes and goes.               *)
(***************************************************************************)
EXTENDS PriorityMutex, ShellLife, ListFacts

(* q goes from the highest priority to the lowest.                         *)
SortedBy(q, p) == \A i, j \in DOMAIN q : i < j => p[q[j]] <= p[q[i]]

(* q is a queue of exactly the threads X, each once, by descending         *)
(* priority p.                                                             *)
Line(q, X, p) ==
  /\ q \in Seq(All)
  /\ IsInjective(q)
  /\ ToSet(q) = X
  /\ SortedBy(q, p)

(* The walk of prio_insert ends: there is a place behind everybody of at   *)
(* least this priority and ahead of the others.                            *)
LEMMA PlaceFound ==
  ASSUME NEW q \in Seq(All), NEW p \in [All -> Nat], NEW least \in Nat
  PROVE  LET i == Place(q, p, least)
         IN  /\ i \in 1 .. Len(q) + 1
             /\ \A j \in 1 .. i - 1 : p[q[j]] >= least
             /\ i <= Len(q) => p[q[i]] < least
<1> DEFINE S == {i \in 1 .. Len(q) + 1 : i <= Len(q) => p[q[i]] < least}
<1>1. S \subseteq Nat /\ Len(q) + 1 \in S
  BY LenProperties
<1>2. PICK i \in S : \A k \in S : i <= k
  BY <1>1, LeastNatural
<1>3. /\ i \in 1 .. Len(q) + 1
      /\ \A j \in 1 .. i - 1 : p[q[j]] >= least
      /\ i <= Len(q) => p[q[i]] < least
  <2>1. i \in 1 .. Len(q) + 1 /\ (i <= Len(q) => p[q[i]] < least)
    OBVIOUS
  <2>2. ASSUME NEW j \in 1 .. i - 1
        PROVE  p[q[j]] >= least
    <3>1. Len(q) \in Nat /\ j \in 1 .. Len(q) + 1 /\ j <= Len(q) /\ j \notin S /\ i \in Nat
      BY <1>2, <2>1, <2>2, LenProperties
    <3>2. q[j] \in All
      BY <3>1, ElementOfSeq
    <3>3. ~ (p[q[j]] < least)
      BY <3>1
    <3> QED BY <3>2, <3>3
  <2> QED BY <2>1, <2>2
<1>4. QED
  BY <1>3 DEF Place

(* What a line says of its places.                                         *)
LEMMA LineFacts ==
  ASSUME NEW q, NEW X, NEW p, Line(q, X, p)
  PROVE  /\ q \in Seq(All) /\ Len(q) \in Nat /\ DOMAIN q = 1 .. Len(q)
         /\ X = {q[k] : k \in 1 .. Len(q)} /\ X \subseteq All
         /\ \A j, k \in 1 .. Len(q) : q[j] = q[k] => j = k
         /\ \A j, k \in 1 .. Len(q) : j < k => p[q[k]] <= p[q[j]]
<1>1. q \in Seq(All) /\ Len(q) \in Nat /\ DOMAIN q = 1 .. Len(q)
  BY LenProperties DEF Line
<1>2. X = {q[k] : k \in 1 .. Len(q)}
  BY <1>1 DEF Line, ToSet
<1>3. X \subseteq All
  BY <1>1, <1>2, ElementOfSeq
<1>4. QED
  BY <1>1, <1>2, <1>3 DEF Line, IsInjective, SortedBy

(* An insertion behind or ahead of the equals keeps a queue ordered; the   *)
(* thread must not be in it.                                               *)
LEMMA EnqueuedLine ==
  ASSUME NEW q, NEW X, NEW p \in [All -> Nat], Line(q, X, p),
         NEW t \in All, t \notin X,
         NEW least \in Nat, least = p[t] \/ least = p[t] + 1
  PROVE  Line(InsertAt(q, Place(q, p, least), t), X \cup {t}, p)
<1> DEFINE i == Place(q, p, least)
           r == InsertAt(q, i, t)
<1> HIDE DEF i, r
<1>1. /\ q \in Seq(All) /\ Len(q) \in Nat /\ DOMAIN q = 1 .. Len(q)
      /\ \A k \in 1 .. Len(q) : q[k] \in All /\ q[k] \in X
      /\ \A x \in X : \E k \in 1 .. Len(q) : q[k] = x
      /\ \A j, k \in 1 .. Len(q) : q[j] = q[k] => j = k
      /\ \A j, k \in 1 .. Len(q) : j < k => p[q[k]] <= p[q[j]]
  <2>1. X = {q[k] : k \in 1 .. Len(q)} /\ X \subseteq All
    BY LineFacts
  <2>2. \A k \in 1 .. Len(q) : q[k] \in X
    BY <2>1
  <2> QED BY <2>1, <2>2, LineFacts
<1>2. /\ i \in 1 .. Len(q) + 1
      /\ \A j \in 1 .. i - 1 : p[q[j]] >= least
      /\ i <= Len(q) => p[q[i]] < least
  BY <1>1, PlaceFound DEF i
<1>3. /\ r \in Seq(All) /\ Len(r) = Len(q) + 1
      /\ \A k \in 1 .. Len(q) + 1 : r[k] = IF k < i THEN q[k] ELSE IF k = i THEN t ELSE q[k - 1]
  <2>1. q \in Seq(All) /\ i \in 1 .. Len(q) + 1
    BY <1>1, <1>2
  <2>2. IsInsertion(r, q, i, t, All)
    BY <2>1, InsertionIs, Zenon DEF r
  <2> QED BY <2>2, Zenon DEF IsInsertion
<1>4. DOMAIN r = 1 .. Len(q) + 1
  BY <1>3, LenProperties
<1>5. IsInjective(r)
  <2>1. r[i] = t /\ \A k \in 1 .. Len(q) + 1 : k # i => r[k] \in X
    <3>1. r[i] = t
      <4>1. i \in 1 .. Len(q) + 1 /\ ~ (i < i) /\ i = i
        BY <1>1, <1>2
      <4>2. r[i] = IF i < i THEN q[i] ELSE IF i = i THEN t ELSE q[i - 1]
        BY <1>3, <4>1, Zenon
      <4> QED BY <4>1, <4>2, Zenon
    <3>2. ASSUME NEW k \in 1 .. Len(q) + 1, k < i
          PROVE  r[k] \in X
      BY <1>1, <1>2, <1>3, <3>2
    <3>3. ASSUME NEW k \in 1 .. Len(q) + 1, k > i
          PROVE  r[k] \in X
      BY <1>1, <1>2, <1>3, <3>3
    <3>4. \A k \in 1 .. Len(q) + 1 : k = i \/ k < i \/ k > i
      BY <1>1, <1>2
    <3> QED BY <3>1, <3>2, <3>3, <3>4
  <2>2. ASSUME NEW j \in 1 .. Len(q) + 1, NEW k \in 1 .. Len(q) + 1, r[j] = r[k], j < k
        PROVE  FALSE
    <3>1. j # i /\ k # i
      BY <2>1, <2>2
    <3>2. CASE k < i
      BY <1>1, <1>2, <1>3, <2>2, <3>2
    <3>3. CASE j < i /\ i < k
      <4>1. j \in 1 .. Len(q) /\ k - 1 \in 1 .. Len(q) /\ q[j] = q[k - 1]
        BY <1>1, <1>2, <1>3, <2>2, <3>3
      <4> QED BY <1>1, <1>2, <4>1, <3>3
    <3>4. CASE i < j
      <4>1. j - 1 \in 1 .. Len(q) /\ k - 1 \in 1 .. Len(q) /\ q[j - 1] = q[k - 1]
        BY <1>1, <1>2, <1>3, <2>2, <3>4
      <4>2. j - 1 = k - 1
        BY <1>1, <4>1
      <4> QED BY <2>2, <4>2
    <3> QED BY <1>1, <1>2, <2>2, <3>1, <3>2, <3>3, <3>4
  <2>3. \A j, k \in 1 .. Len(q) + 1 : j < k \/ k < j \/ j = k
    BY <1>1
  <2> QED BY <1>4, <2>2, <2>3 DEF IsInjective
<1>6. ToSet(r) = X \cup {t}
  <2>1. ASSUME NEW k \in 1 .. Len(q) + 1
        PROVE  r[k] \in X \cup {t}
    <3>1. CASE k < i
      BY <1>1, <1>2, <1>3, <3>1
    <3>2. CASE k = i
      BY <1>1, <1>2, <1>3, <3>2
    <3>3. CASE k > i
      BY <1>1, <1>2, <1>3, <3>3
    <3> QED BY <1>1, <1>2, <3>1, <3>2, <3>3
  <2>2. ASSUME NEW x \in X
        PROVE  \E k \in 1 .. Len(q) + 1 : r[k] = x
    <3>1. PICK k \in 1 .. Len(q) : q[k] = x
      BY <1>1
    <3>2. CASE k < i
      <4>1. k \in 1 .. Len(q) + 1
        BY <1>1
      <4>2. r[k] = q[k]
        BY <1>3, <3>2, <4>1
      <4> QED BY <3>1, <4>1, <4>2
    <3>3. CASE k >= i
      <4>1. k + 1 \in 1 .. Len(q) + 1 /\ ~ (k + 1 < i) /\ k + 1 # i /\ (k + 1) - 1 = k
        BY <1>1, <1>2, <3>3
      <4>2. r[k + 1] = q[k]
        BY <1>3, <4>1
      <4> QED BY <3>1, <4>1, <4>2
    <3> QED BY <1>1, <1>2, <3>2, <3>3
  <2>3. r[i] = t
    BY <1>1, <1>2, <1>3
  <2> QED BY <1>2, <1>4, <2>1, <2>2, <2>3 DEF ToSet
<1>7. SortedBy(r, p)
  <2>1. ASSUME NEW j \in 1 .. Len(q) + 1, NEW k \in 1 .. Len(q) + 1, j < k
        PROVE  p[r[k]] <= p[r[j]]
    <3> DEFINE N == Len(q)
               w == [n \in 1 .. N |-> p[q[n]]]
               own == p[t]
               of(n) == IF n < i THEN w[n] ELSE IF n = i THEN own ELSE w[n - 1]
    <3>1. /\ N \in Nat /\ own \in Nat /\ i \in 1 .. N + 1
          /\ least = own \/ least = own + 1
          /\ \A n \in 1 .. N : w[n] \in Nat
      BY <1>1, <1>2
    <3>2. \A m, n \in 1 .. N : m < n => w[n] <= w[m]
      BY <1>1
    <3>3. /\ \A n \in 1 .. N : n < i => w[n] >= least
          /\ i <= N => w[i] < least
      <4>1. \A n \in 1 .. N : n < i => n \in 1 .. i - 1
        BY <3>1
      <4>2. i <= N => i \in 1 .. N
        BY <3>1
      <4> QED BY <1>2, <4>1, <4>2
    <3>4. ASSUME NEW n \in 1 .. N + 1 PROVE p[r[n]] = of(n)
      <4>1. CASE n < i
        <5>1. n \in 1 .. N
          BY <3>1, <4>1
        <5> QED BY <1>3, <4>1, <5>1
      <4>2. CASE n = i
        BY <1>3, <4>2
      <4>3. CASE n > i
        <5>1. n - 1 \in 1 .. N /\ ~ (n < i) /\ n # i
          BY <3>1, <4>3
        <5> QED BY <1>3, <5>1
      <4> QED BY <3>1, <4>1, <4>2, <4>3
    <3> HIDE DEF w, own
    <3>5. \A n \in 1 .. N : n >= i => w[n] < least
      <4> HIDE DEF N
      <4> QED BY <3>1, <3>2, <3>3
    <3>6. of(k) <= of(j)
      <4> HIDE DEF N
      <4>1. j \in 1 .. N + 1 /\ k \in 1 .. N + 1
        BY DEF N
      <4>2. CASE k < i
        BY <2>1, <3>1, <3>2, <4>1, <4>2
      <4>3. CASE k = i
        BY <2>1, <3>1, <3>3, <4>1, <4>3
      <4>4. CASE k > i /\ j < i
        BY <2>1, <3>1, <3>3, <3>5, <4>1, <4>4
      <4>5. CASE k > i /\ j = i
        BY <2>1, <3>1, <3>5, <4>1, <4>5
      <4>6. CASE k > i /\ j > i
        BY <2>1, <3>1, <3>2, <4>1, <4>6
      <4> QED BY <3>1, <4>1, <4>2, <4>3, <4>4, <4>5, <4>6
    <3> QED BY <3>4, <3>6
  <2> QED BY <1>4, <2>1 DEF SortedBy
<1>8. QED
  BY <1>3, <1>5, <1>6, <1>7 DEF Line, i, r

(* prio_insert and chSchReadyI keep a queue.                               *)
LEMMA JoinBehind ==
  ASSUME NEW q, NEW X, NEW p \in [All -> Nat], Line(q, X, p), NEW t \in All, t \notin X
  PROVE  Line(Behind(q, t, p), X \cup {t}, p)
BY EnqueuedLine DEF Behind

(* chSchDoRescheduleAhead keeps the ready list.                            *)
LEMMA JoinAhead ==
  ASSUME NEW q, NEW X, NEW p \in [All -> Nat], Line(q, X, p), NEW t \in All, t \notin X
  PROVE  Line(Ahead(q, t, p), X \cup {t}, p)
<1>1. p[t] + 1 \in Nat
  OBVIOUS
<1>2. QED
  BY <1>1, EnqueuedLine DEF Ahead

(* A queue is empty when nobody is to be in it.                            *)
LEMMA EmptyLine ==
  ASSUME NEW q, NEW X, NEW p, Line(q, X, p)
  PROVE  q = <<>> <=> X = {}
<1>1. q \in Seq(All) /\ DOMAIN q = 1 .. Len(q) /\ Len(q) \in Nat /\ X = {q[i] : i \in 1 .. Len(q)}
  BY LenProperties DEF Line, ToSet
<1>2. q = <<>> <=> Len(q) = 0
  BY <1>1, EmptySeq
<1>3. X # {} <=> Len(q) # 0
  BY <1>1
<1>4. QED
  BY <1>2, <1>3

(* A queue of threads X is a sequence over any set that has them.          *)
LEMMA LineType ==
  ASSUME NEW q, NEW X, NEW p, Line(q, X, p), NEW S, X \subseteq S
  PROVE  q \in Seq(S)
<1>1. q \in Seq(All) /\ DOMAIN q = 1 .. Len(q) /\ Len(q) \in Nat /\ X = {q[i] : i \in 1 .. Len(q)}
  BY LenProperties DEF Line, ToSet
<1>2. q \in [1 .. Len(q) -> S]
  BY <1>1, LenProperties
<1>3. QED
  BY <1>1, <1>2, SeqDef

(* A queue stays one when none in it changes priority.                     *)
LEMMA SamePriorities ==
  ASSUME NEW q, NEW X, NEW p, NEW p2, Line(q, X, p), \A t \in X : p2[t] = p[t]
  PROVE  Line(q, X, p2)
BY DEF Line, SortedBy, ToSet

(* The head of a queue is one of the highest priority, and the rest is a   *)
(* queue.                                                                  *)
LEMMA LeaveLine ==
  ASSUME NEW q, NEW X, NEW p \in [All -> Nat], Line(q, X, p), X # {}
  PROVE  /\ Head(q) \in X
         /\ \A t \in X : p[t] <= p[Head(q)]
         /\ Line(Tail(q), X \ {Head(q)}, p)
<1>1. /\ q \in Seq(All) /\ DOMAIN q = 1 .. Len(q) /\ Len(q) \in Nat
      /\ X = {q[i] : i \in 1 .. Len(q)} /\ X \subseteq All
      /\ \A j, k \in 1 .. Len(q) : q[j] = q[k] => j = k
      /\ \A j, k \in 1 .. Len(q) : j < k => p[q[k]] <= p[q[j]]
  BY LineFacts
<1>2. q # <<>> /\ Len(q) >= 1
  BY <1>1, EmptyLine
<1>3. Head(q) = q[1]
  BY <1>1, <1>2
<1>4. /\ Tail(q) \in Seq(All) /\ Len(Tail(q)) = Len(q) - 1
      /\ \A i \in 1 .. Len(q) - 1 : Tail(q)[i] = q[i + 1]
  BY <1>1, <1>2, HeadTailProperties
<1>5. DOMAIN Tail(q) = 1 .. Len(q) - 1
  BY <1>4, LenProperties
<1>6. Head(q) \in X
  BY <1>1, <1>2, <1>3
<1>7. ASSUME NEW t \in X
      PROVE  p[t] <= p[Head(q)]
  <2>1. PICK i \in 1 .. Len(q) : t = q[i]
    BY <1>1
  <2>2. CASE i = 1
    BY <1>1, <1>3, <2>1, <2>2
  <2>3. CASE i > 1
    BY <1>1, <1>2, <1>3, <2>1, <2>3
  <2> QED BY <2>1, <2>2, <2>3
<1>8. ToSet(Tail(q)) = X \ {Head(q)}
  <2>1. ASSUME NEW i \in 1 .. Len(q) - 1
        PROVE  Tail(q)[i] \in X \ {Head(q)}
    <3>1. i + 1 \in 1 .. Len(q) /\ i + 1 # 1 /\ 1 \in 1 .. Len(q) /\ Tail(q)[i] = q[i + 1]
      BY <1>1, <1>4
    <3> QED BY <1>1, <1>3, <3>1
  <2>2. ASSUME NEW t \in X, t # Head(q)
        PROVE  \E i \in 1 .. Len(q) - 1 : Tail(q)[i] = t
    <3>1. PICK i \in 1 .. Len(q) : t = q[i]
      BY <1>1
    <3>2. i # 1 /\ i - 1 \in 1 .. Len(q) - 1 /\ Tail(q)[i - 1] = t
      BY <1>1, <1>3, <1>4, <2>2, <3>1
    <3> QED BY <3>2
  <2>3. ToSet(Tail(q)) = {Tail(q)[i] : i \in 1 .. Len(q) - 1}
    BY <1>5 DEF ToSet
  <2> QED BY <2>1, <2>2, <2>3
<1>9. IsInjective(Tail(q)) /\ SortedBy(Tail(q), p)
  <2>1. \A k \in 1 .. Len(q) - 1 : k + 1 \in 1 .. Len(q) /\ Tail(q)[k] = q[k + 1]
    BY <1>1, <1>4
  <2>2. \A j, k \in 1 .. Len(q) - 1 : (j < k <=> j + 1 < k + 1) /\ (j = k <=> j + 1 = k + 1)
    BY <1>1
  <2>3. IsInjective(Tail(q))
    <3>1. ASSUME NEW j \in 1 .. Len(q) - 1, NEW k \in 1 .. Len(q) - 1, Tail(q)[j] = Tail(q)[k]
          PROVE  j = k
      <4>1. q[j + 1] = q[k + 1] /\ j + 1 \in 1 .. Len(q) /\ k + 1 \in 1 .. Len(q)
        BY <2>1, <3>1
      <4>2. j + 1 = k + 1
        BY <1>1, <4>1
      <4> QED BY <2>2, <4>2
    <3>2. \A j, k \in 1 .. Len(q) - 1 : Tail(q)[j] = Tail(q)[k] => j = k
      BY <3>1, Zenon
    <3> DEFINE r == Tail(q)
    <3>3. DOMAIN r = 1 .. Len(q) - 1 /\ \A j, k \in 1 .. Len(q) - 1 : r[j] = r[k] => j = k
      BY <1>5, <3>2
    <3> HIDE DEF r
    <3>4. IsInjective(r)
      BY <3>3 DEF IsInjective
    <3> QED BY <3>4 DEF r
  <2>4. SortedBy(Tail(q), p)
    <3>1. ASSUME NEW j \in 1 .. Len(q) - 1, NEW k \in 1 .. Len(q) - 1, j < k
          PROVE  p[Tail(q)[k]] <= p[Tail(q)[j]]
      <4>1. j + 1 < k + 1 /\ j + 1 \in 1 .. Len(q) /\ k + 1 \in 1 .. Len(q)
        BY <2>1, <2>2, <3>1
      <4>2. p[q[k + 1]] <= p[q[j + 1]]
        BY <1>1, <4>1
      <4> QED BY <2>1, <4>2
    <3> DEFINE r == Tail(q)
    <3>2. DOMAIN r = 1 .. Len(q) - 1
      BY <1>5
    <3>3. \A j, k \in 1 .. Len(q) - 1 : j < k => p[r[k]] <= p[r[j]]
      BY <3>1
    <3> HIDE DEF r
    <3>4. SortedBy(r, p)
      BY <3>2, <3>3 DEF SortedBy
    <3> QED BY <3>4 DEF r
  <2> QED BY <2>3, <2>4
<1>10. QED
  BY <1>4, <1>6, <1>7, <1>8, <1>9 DEF Line

(* To re-enqueue the one boosted thread of a queue keeps it a queue; with  *)
(* two, each would be put among neighbours the other has left.             *)
LEMMA ReorderedLine ==
  ASSUME NEW q, NEW X, NEW p0, NEW p \in [All -> Nat], Line(q, X, p0), NEW B,
         \A t \in X \ B : p[t] = p0[t],
         \A t, u \in X \cap B : t = u
  PROVE  Line(Reordered(q, B, p), X, p)
<1>1. q \in Seq(All) /\ IsInjective(q) /\ X = ToSet(q) /\ X \subseteq All
  BY LenProperties, ElementOfSeq DEF Line, ToSet
<1>2. CASE ~ \E i \in DOMAIN q : q[i] \in B
  <2>1. Reordered(q, B, p) = q
    BY <1>2 DEF Reordered
  <2>2. X \cap B = {}
    BY <1>1, <1>2 DEF ToSet
  <2> QED BY <2>1, <2>2, SamePriorities
<1>3. CASE \E i \in DOMAIN q : q[i] \in B
  <2>1. PICK i \in DOMAIN q : /\ q[i] \in B
                              /\ Reordered(q, B, p) = Behind(RemoveAt(q, i), q[i], p)
    BY <1>3 DEF Reordered
  <2> DEFINE r == RemoveAt(q, i)
  <2> HIDE DEF r
  <2>2. /\ r \in Seq(All) /\ IsInjective(r) /\ ToSet(r) = X \ {q[i]}
        /\ \A j, k \in DOMAIN r : j < k =>
              \E a, b \in DOMAIN q : a < b /\ q[a] = r[j] /\ q[b] = r[k]
    BY <1>1, RemovedLine DEF r
  <2>3. q[i] \in X /\ q[i] \in All /\ \A t \in X \ {q[i]} : p[t] = p0[t]
    BY <1>1, <2>1 DEF ToSet
  <2>4. SortedBy(r, p)
    <3>1. ASSUME NEW j \in DOMAIN r, NEW k \in DOMAIN r, j < k
          PROVE  p[r[k]] <= p[r[j]]
      <4>1. p0[r[k]] <= p0[r[j]]
        BY <2>2, <3>1 DEF Line, SortedBy
      <4>2. r[j] \in X \ {q[i]} /\ r[k] \in X \ {q[i]}
        BY <2>2 DEF ToSet
      <4> QED BY <2>3, <4>1, <4>2
    <3> QED BY <3>1 DEF SortedBy
  <2>5. Line(r, X \ {q[i]}, p)
    BY <2>2, <2>4 DEF Line
  <2>6. Line(Behind(r, q[i], p), (X \ {q[i]}) \cup {q[i]}, p)
    BY <2>3, <2>5, JoinBehind
  <2> QED BY <2>1, <2>3, <2>6 DEF r
<1>4. QED
  BY <1>2, <1>3

(* s is a stack of exactly the mutexes X, each once.                       *)
Stack(s, X) == s \in Seq(Mutexes) /\ IsInjective(s) /\ ToSet(s) = X

(* A stack with a mutex on top of it.                                      *)
LEMMA PushStack ==
  ASSUME NEW s, NEW X, Stack(s, X), NEW m \in Mutexes, m \notin X
  PROVE  Stack(<<m>> \o s, X \cup {m})
<1> DEFINE r == <<m>> \o s
<1> HIDE DEF r
<1>1. /\ s \in Seq(Mutexes) /\ DOMAIN s = 1 .. Len(s) /\ Len(s) \in Nat
      /\ X = {s[i] : i \in 1 .. Len(s)}
      /\ \A j, k \in 1 .. Len(s) : s[j] = s[k] => j = k
  BY LenProperties DEF Stack, ToSet, IsInjective
<1>2. <<m>> \in Seq(Mutexes) /\ Len(<<m>>) = 1 /\ <<m>>[1] = m
  OBVIOUS
<1>3. /\ r \in Seq(Mutexes) /\ Len(r) = Len(s) + 1
      /\ \A k \in 1 .. Len(s) + 1 : r[k] = IF k = 1 THEN m ELSE s[k - 1]
  BY <1>1, <1>2, ConcatProperties DEF r
<1>4. DOMAIN r = 1 .. Len(s) + 1
  BY <1>3, LenProperties
<1>5. /\ r[1] = m
      /\ \A k \in 1 .. Len(s) + 1 : k # 1 => k - 1 \in 1 .. Len(s) /\ r[k] = s[k - 1]
      /\ \A k \in 1 .. Len(s) : k + 1 \in 1 .. Len(s) + 1 /\ r[k + 1] = s[k]
  BY <1>1, <1>3
<1>6. \A k \in 1 .. Len(s) + 1 : k # 1 => r[k] \in X
  BY <1>1, <1>5
<1>7. IsInjective(r)
  <2>1. ASSUME NEW j \in 1 .. Len(s) + 1, NEW k \in 1 .. Len(s) + 1, r[j] = r[k]
        PROVE  j = k
    <3>1. CASE j = 1 \/ k = 1
      BY <1>5, <1>6, <2>1, <3>1
    <3>2. CASE j # 1 /\ k # 1
      <4>1. j - 1 = k - 1
        BY <1>1, <1>5, <2>1, <3>2
      <4> QED BY <1>1, <4>1
    <3> QED BY <3>1, <3>2
  <2> QED BY <1>4, <2>1 DEF IsInjective
<1>8. ToSet(r) = X \cup {m}
  <2>1. ToSet(r) = {r[k] : k \in 1 .. Len(s) + 1}
    BY <1>4 DEF ToSet
  <2>2. \A x \in X : \E k \in 1 .. Len(s) + 1 : r[k] = x
    BY <1>1, <1>5
  <2>3. 1 \in 1 .. Len(s) + 1
    BY <1>1
  <2> QED BY <1>5, <1>6, <2>1, <2>2, <2>3
<1>9. QED
  BY <1>3, <1>7, <1>8 DEF Stack, r

(* A stack without the mutex on top of it.                                 *)
LEMMA PopStack ==
  ASSUME NEW s, NEW X, Stack(s, X), s # <<>>
  PROVE  /\ Head(s) \in X /\ Head(s) \in Mutexes
         /\ Stack(Tail(s), X \ {Head(s)})
<1>1. /\ s \in Seq(Mutexes) /\ DOMAIN s = 1 .. Len(s) /\ Len(s) \in Nat
      /\ X = {s[i] : i \in 1 .. Len(s)}
      /\ \A j, k \in 1 .. Len(s) : s[j] = s[k] => j = k
  BY LenProperties DEF Stack, ToSet, IsInjective
<1>2. Len(s) >= 1 /\ Head(s) = s[1] /\ Head(s) \in Mutexes
  BY <1>1, EmptySeq, HeadTailProperties
<1>3. /\ Tail(s) \in Seq(Mutexes) /\ Len(Tail(s)) = Len(s) - 1
      /\ \A i \in 1 .. Len(s) - 1 : Tail(s)[i] = s[i + 1]
  BY <1>1, <1>2, HeadTailProperties
<1>4. DOMAIN Tail(s) = 1 .. Len(s) - 1
  BY <1>3, LenProperties
<1>5. IsInjective(Tail(s))
  BY <1>1, <1>3, <1>4 DEF IsInjective
<1>6. ToSet(Tail(s)) = X \ {Head(s)}
  <2>1. ASSUME NEW i \in 1 .. Len(s) - 1
        PROVE  Tail(s)[i] \in X \ {Head(s)}
    <3>1. i + 1 \in 1 .. Len(s) /\ i + 1 # 1 /\ 1 \in 1 .. Len(s) /\ Tail(s)[i] = s[i + 1]
      BY <1>1, <1>3
    <3> QED BY <1>1, <1>2, <3>1
  <2>2. ASSUME NEW t \in X, t # Head(s)
        PROVE  \E i \in 1 .. Len(s) - 1 : Tail(s)[i] = t
    <3>1. PICK i \in 1 .. Len(s) : t = s[i]
      BY <1>1
    <3>2. i # 1 /\ i - 1 \in 1 .. Len(s) - 1 /\ Tail(s)[i - 1] = t
      BY <1>1, <1>2, <1>3, <2>2, <3>1
    <3> QED BY <3>2
  <2>3. ToSet(Tail(s)) = {Tail(s)[i] : i \in 1 .. Len(s) - 1}
    BY <1>4 DEF ToSet
  <2> QED BY <2>1, <2>2, <2>3
<1>7. QED
  BY <1>1, <1>2, <1>3, <1>5, <1>6 DEF Stack
-----------------------------------------------------------------------------
(* Boosted is the least set with the owner of m, if below p, and with it   *)
(* the owners of the mutexes its threads wait for.                         *)
LEMMA BoostedLeast ==
  ASSUME NEW m, NEW p
  PROVE  /\ Boosted(m, p) \subseteq Threads
         /\ OwnerBelow(m, p) \subseteq Boosted(m, p)
         /\ \A t \in Boosted(m, p) :
              wtobjp[t] # None => OwnerBelow(wtobjp[t], p) \subseteq Boosted(m, p)
         /\ \A S \in SUBSET Threads :
              /\ OwnerBelow(m, p) \subseteq S
              /\ \A t \in S : wtobjp[t] # None => OwnerBelow(wtobjp[t], p) \subseteq S
              => Boosted(m, p) \subseteq S
<1>1. \A x : OwnerBelow(x, p) \subseteq Threads
  BY DEF OwnerBelow
<1>2. QED
  BY <1>1 DEF Boosted

(* A boosted thread was below the priority, and is boosted for m or for    *)
(* another boosted thread: the loop of chMtxLockS boosts no one else.      *)
LEMMA BoostedHasCause ==
  ASSUME NEW m, NEW p
  PROVE  \A t \in Boosted(m, p) :
           /\ prio[t] < p
           /\ owner[m] = t \/ \E v \in Boosted(m, p) : wtobjp[v] # None /\ owner[wtobjp[v]] = t
<1> DEFINE S == {t \in Boosted(m, p) :
                   /\ prio[t] < p
                   /\ owner[m] = t \/ \E v \in Boosted(m, p) : wtobjp[v] # None /\ owner[wtobjp[v]] = t}
<1>1. S \in SUBSET Threads
  BY BoostedLeast
<1>2. OwnerBelow(m, p) \subseteq S
  BY BoostedLeast DEF OwnerBelow
<1>3. ASSUME NEW t \in S, wtobjp[t] # None
      PROVE  OwnerBelow(wtobjp[t], p) \subseteq S
  <2>1. OwnerBelow(wtobjp[t], p) \subseteq Boosted(m, p)
    BY <1>3, BoostedLeast
  <2>2. QED
    BY <1>3, <2>1 DEF OwnerBelow
<1>4. Boosted(m, p) \subseteq S
  BY <1>1, <1>2, <1>3, BoostedLeast
<1>5. QED
  BY <1>4

(* Whom the loop boosts after the owner of m it boosts along the mutex     *)
(* that owner waits for.                                                   *)
LEMMA BoostedFromOwner ==
  ASSUME NEW m, NEW p, NEW v \in Boosted(m, p), v # owner[m]
  PROVE  /\ owner[m] \in OwnerBelow(m, p) /\ wtobjp[owner[m]] # None
         /\ v \in Boosted(wtobjp[owner[m]], p)
<1> DEFINE S == {t \in Threads :
                   \/ t = owner[m]
                   \/ /\ owner[m] \in OwnerBelow(m, p) /\ wtobjp[owner[m]] # None
                      /\ t \in Boosted(wtobjp[owner[m]], p)}
<1>1. OwnerBelow(m, p) \subseteq S
  BY DEF OwnerBelow
<1>2. OwnerBelow(m, p) # {}
  <2>1. CASE OwnerBelow(m, p) = {}
    <3>1. {} \in SUBSET Threads
      OBVIOUS
    <3>2. Boosted(m, p) \subseteq {}
      BY <2>1, <3>1, BoostedLeast
    <3> QED BY <3>2
  <2> QED BY <2>1
<1>3. owner[m] \in OwnerBelow(m, p)
  BY <1>2 DEF OwnerBelow
<1>4. ASSUME NEW t \in S, wtobjp[t] # None
      PROVE  OwnerBelow(wtobjp[t], p) \subseteq S
  <2>1. OwnerBelow(wtobjp[t], p) \subseteq Threads
    BY DEF OwnerBelow
  <2>2. CASE t = owner[m]
    <3>1. OwnerBelow(wtobjp[t], p) \subseteq Boosted(wtobjp[t], p)
      BY BoostedLeast
    <3> QED BY <1>3, <1>4, <2>1, <2>2, <3>1
  <2>3. CASE t # owner[m]
    <3>1. OwnerBelow(wtobjp[t], p) \subseteq Boosted(wtobjp[owner[m]], p)
      BY <1>4, <2>3, BoostedLeast
    <3> QED BY <1>3, <1>4, <2>1, <2>3, <3>1
  <2> QED BY <2>2, <2>3
<1>5. Boosted(m, p) \subseteq S
  <2>1. S \in SUBSET Threads
    OBVIOUS
  <2> HIDE DEF S
  <2> QED BY <1>1, <1>4, <2>1, BoostedLeast
<1>6. QED
  BY <1>3, <1>5

(* A thread that waits owns only mutexes below the one it waits for, the   *)
(* consequence of nesting in ascending order.                              *)
Ascending ==
  \A t \in Threads, m \in Mutexes :
    wtobjp[t] # None /\ owner[m] = t => m < wtobjp[t]

(* Along the chain of owners the mutexes waited for ascend: it never       *)
(* returns, so the loop of chMtxLockS ends.                                *)
LEMMA BoostedAscend ==
  ASSUME TypeOK, Ascending, NEW u \in Threads, wtobjp[u] # None, NEW p,
         NEW v \in Boosted(wtobjp[u], p), wtobjp[v] # None
  PROVE  wtobjp[u] < wtobjp[v]
<1> DEFINE S == {t \in Threads : wtobjp[t] # None => wtobjp[u] < wtobjp[t]}
<1>1. \A t \in Threads : wtobjp[t] # None => wtobjp[t] \in Mutexes /\ wtobjp[t] \in Nat
  BY MutexAssumption DEF TypeOK
<1>2. OwnerBelow(wtobjp[u], p) \subseteq S
  BY <1>1 DEF OwnerBelow, Ascending
<1>3. ASSUME NEW t \in S, wtobjp[t] # None, NEW s \in OwnerBelow(wtobjp[t], p), wtobjp[s] # None
      PROVE  wtobjp[u] < wtobjp[s]
  <2>1. s \in Threads /\ owner[wtobjp[t]] = s
    BY <1>3 DEF OwnerBelow
  <2>2. wtobjp[t] < wtobjp[s] /\ wtobjp[u] < wtobjp[t]
    BY <1>1, <1>3, <2>1 DEF Ascending
  <2> QED BY <1>1, <1>3, <2>1, <2>2
<1>4. Boosted(wtobjp[u], p) \subseteq S
  <2>1. S \in SUBSET Threads
    OBVIOUS
  <2>2. \A t \in S : wtobjp[t] # None => OwnerBelow(wtobjp[t], p) \subseteq S
    BY <1>3 DEF OwnerBelow
  <2> HIDE DEF S
  <2> QED BY <1>2, <2>1, <2>2, BoostedLeast
<1>5. QED
  BY <1>4

(* Of a chain of owners at most one waits in each queue, and at most one   *)
(* does not wait: one re-enqueueing per list is enough.                    *)
LEMMA OneBoostedPerQueue ==
  ASSUME TypeOK, Ascending, NEW m, NEW p,
         NEW u \in Boosted(m, p), NEW v \in Boosted(m, p), wtobjp[u] = wtobjp[v]
  PROVE  u = v
<1> DEFINE Beyond(t, w) == wtobjp[t] # None /\ w \in Boosted(wtobjp[t], p)
           S == {t \in Threads : t = v \/ Beyond(v, t) \/ Beyond(t, v)}
<1>1. OwnerBelow(m, p) \subseteq S
  BY BoostedFromOwner DEF OwnerBelow
<1>2. ASSUME NEW t \in S, wtobjp[t] # None, NEW s \in OwnerBelow(wtobjp[t], p)
      PROVE  s \in S
  <2>1. s \in Threads /\ s = owner[wtobjp[t]]
    BY <1>2 DEF OwnerBelow
  <2>2. CASE t = v
    <3>1. Beyond(v, s)
      BY <1>2, <2>2, BoostedLeast
    <3> QED BY <2>1, <3>1
  <2>3. CASE Beyond(v, t)
    <3>1. Beyond(v, s)
      BY <1>2, <2>3, BoostedLeast
    <3> QED BY <2>1, <3>1
  <2>4. CASE Beyond(t, v)
    <3>1. v = s \/ Beyond(s, v)
      BY <2>1, <2>4, BoostedFromOwner
    <3> QED BY <2>1, <3>1
  <2> QED BY <1>2, <2>2, <2>3, <2>4
<1>3. Boosted(m, p) \subseteq S
  <2>1. S \in SUBSET Threads
    OBVIOUS
  <2>2. \A t \in S : wtobjp[t] # None => OwnerBelow(wtobjp[t], p) \subseteq S
    BY <1>2
  <2> HIDE DEF S
  <2> QED BY <1>1, <2>1, <2>2, BoostedLeast
<1>4. u \in Threads /\ v \in Threads /\ (u = v \/ Beyond(v, u) \/ Beyond(u, v))
  BY <1>3, BoostedLeast
<1>5. \A t \in Threads : wtobjp[t] # None => wtobjp[t] \in Nat
  BY MutexAssumption DEF TypeOK
<1>6. ~ Beyond(v, u)
  BY <1>4, <1>5, BoostedAscend
<1>7. ~ Beyond(u, v)
  BY <1>4, <1>5, BoostedAscend
<1>8. QED
  BY <1>4, <1>6, <1>7
-----------------------------------------------------------------------------
(* t runs or is ready to.                                                  *)
Runs(st, t) == st[t] \in {"READY", "CURRENT"}

(* A thread runs that is not below any ready one, and the ready list is    *)
(* the queue of those that are ready.                                      *)
Dispatch(cur, rd, st, p) ==
  /\ cur \in All /\ st \in [All -> States]
  /\ \A t \in All : st[t] = "CURRENT" <=> t = cur
  /\ Line(rd, {t \in All : st[t] = "READY"}, p)
  /\ \A t \in All : st[t] = "READY" => p[t] <= p[cur]

(* The waiting queue of a mutex has those that wait for it, by their       *)
(* present priorities.                                                     *)
Queues == \A m \in Mutexes : Line(queue[m], {t \in Threads : wtobjp[t] = m}, prio)

(* The stack of a thread has the mutexes it owns.                          *)
Stacks == \A t \in Threads : Stack(held[t], {m \in Mutexes : owner[m] = t})

(* Those that wait are asleep, for a mutex somebody owns.                  *)
Waits ==
  \A t \in Threads :
    /\ wtobjp[t] # None <=> state[t] = "WTMTX"
    /\ wtobjp[t] # None => owner[wtobjp[t]] # None

(* PriorityIsExact, with the maximum as a bound that is reached.           *)
Exact ==
  \A t \in Threads :
    /\ RealPrio[t] <= prio[t]
    /\ \A u \in Blocked(t) : prio[u] <= prio[t]
    /\ \/ unlocking /\ t = currp
       \/ prio[t] = RealPrio[t]
       \/ \E u \in Blocked(t) : prio[u] = prio[t]

(* The inductive invariant.  No part of it can be spared: the queues are   *)
(* ordered by priorities that Exact explains, the hand-over needs them     *)
(* ordered to find the maximum at their heads, and each of the lists is    *)
(* kept only because a thread is in no other.                              *)
KernelInv ==
  /\ TypeOK
  /\ Dispatch(currp, ready, state, prio) /\ Runs(state, Idle)
  /\ Queues /\ Stacks /\ Waits /\ Ascending /\ Exact

(* The current thread and no other is in state CURRENT.                    *)
Running(st) == \A t \in All : st[t] = "CURRENT" <=> t = currp

(* Those that are ready.                                                   *)
ReadyIn(st) == {t \in All : st[t] = "READY"}

(* The state of t is kept, or it changes between ready and running.        *)
SameOrRuns(st, st2, t) == st2[t] = st[t] \/ (Runs(st, t) /\ Runs(st2, t))

(* chSchGoSleepS leaves the processor to the highest that is ready; the    *)
(* idle thread always is.                                                  *)
LEMMA GoSleepDispatches ==
  ASSUME NEW q, NEW p \in [All -> Nat], NEW newstate \in {"WTMTX", "SLEEPING"},
         currp \in All, state \in [All -> States], Running(state), state[Idle] = "READY",
         Line(q, ReadyIn(state), p), GoSleep(newstate, q)
  PROVE  /\ Dispatch(currp', ready', state', p)
         /\ state'[currp] = newstate
         /\ \A t \in All : t # currp => SameOrRuns(state, state', t)
<1> USE DEF Running, ReadyIn
<1> DEFINE h == Head(q)
<1>1. ReadyIn(state) # {} /\ ReadyIn(state) \subseteq All
  BY DEF All
<1>2. /\ h \in ReadyIn(state) /\ \A t \in ReadyIn(state) : p[t] <= p[h]
      /\ Line(Tail(q), ReadyIn(state) \ {h}, p)
  BY <1>1, LeaveLine
<1> HIDE DEF h
<1>3. /\ currp' = h /\ ready' = Tail(q)
      /\ state' = [state EXCEPT ![currp] = newstate, ![h] = "CURRENT"]
  BY DEF GoSleep, h
<1>4. h \in All /\ state[h] = "READY" /\ h # currp
  BY <1>2
<1>5. /\ state' \in [All -> States]
      /\ \A t \in All : state'[t] = IF t = h THEN "CURRENT" ELSE IF t = currp THEN newstate ELSE state[t]
  BY <1>3, <1>4 DEF States
<1>6. {t \in All : state'[t] = "READY"} = ReadyIn(state) \ {h}
  BY <1>4, <1>5
<1>7. \A t \in All : state'[t] = "CURRENT" <=> t = currp'
  BY <1>3, <1>4, <1>5
<1>8. QED
  BY <1>2, <1>3, <1>4, <1>5, <1>6, <1>7 DEF Dispatch, SameOrRuns, Runs

(* A reschedule to the head of the ready list.                             *)
LEMMA SwitchDispatches ==
  ASSUME NEW q, NEW st \in [All -> States], NEW p \in [All -> Nat], NEW rest,
         currp \in All, Running(st), Line(q, ReadyIn(st), p), q # <<>>,
         p[currp] <= p[Head(q)],
         Line(rest, (ReadyIn(st) \ {Head(q)}) \cup {currp}, p),
         Switch(q, rest, st)
  PROVE  /\ Dispatch(currp', ready', state', p)
         /\ \A t \in All : SameOrRuns(st, state', t)
<1> USE DEF Running, ReadyIn
<1> DEFINE h == Head(q)
<1>1. ReadyIn(st) # {} /\ ReadyIn(st) \subseteq All
  BY EmptyLine
<1>2. h \in ReadyIn(st) /\ \A t \in ReadyIn(st) : p[t] <= p[h]
  BY <1>1, LeaveLine
<1>3. /\ currp' = h /\ ready' = rest
      /\ state' = [st EXCEPT ![currp] = "READY", ![h] = "CURRENT"]
      /\ p[currp] <= p[h]
      /\ Line(rest, (ReadyIn(st) \ {h}) \cup {currp}, p)
  BY DEF Switch, h
<1> HIDE DEF h
<1>4. h \in All /\ st[h] = "READY" /\ h # currp /\ st[currp] = "CURRENT"
  BY <1>2
<1>5. /\ state' \in [All -> States]
      /\ \A t \in All : state'[t] = IF t = h THEN "CURRENT" ELSE IF t = currp THEN "READY" ELSE st[t]
  BY <1>3, <1>4 DEF States
<1>6. {t \in All : state'[t] = "READY"} = (ReadyIn(st) \ {h}) \cup {currp}
  BY <1>4, <1>5
<1>7. \A t \in All : state'[t] = "CURRENT" <=> t = currp'
  BY <1>3, <1>4, <1>5
<1>8. \A t \in All : state'[t] = "READY" => p[t] <= p[h]
  BY <1>2, <1>3, <1>4, <1>5
<1>9. QED
  BY <1>3, <1>4, <1>5, <1>6, <1>7, <1>8 DEF Dispatch, SameOrRuns, Runs

(* The end of an interrupt, with or without the time slice spent.          *)
LEMMA EpilogueDispatches ==
  ASSUME NEW q, NEW st \in [All -> States], prio \in [All -> Nat],
         currp \in All, Running(st), Line(q, ReadyIn(st), prio), Epilogue(q, st)
  PROVE  /\ Dispatch(currp', ready', state', prio)
         /\ \A t \in All : SameOrRuns(st, state', t)
<1>1. PICK spent \in BOOLEAN :
        IF q # <<>> /\ prio[Head(q)] >= prio[currp] + (IF spent THEN 0 ELSE 1)
        THEN Switch(q, IF spent THEN Behind(Tail(q), currp, prio) ELSE Ahead(Tail(q), currp, prio), st)
        ELSE Stay(q, st)
  BY DEF Epilogue
<1>2. ReadyIn(st) \subseteq All /\ currp \notin ReadyIn(st)
  BY DEF ReadyIn, Running
<1>3. q # <<>> =>
        /\ Head(q) \in ReadyIn(st) /\ \A t \in ReadyIn(st) : prio[t] <= prio[Head(q)]
        /\ Line(Tail(q), ReadyIn(st) \ {Head(q)}, prio)
  BY EmptyLine, LeaveLine
<1>4. CASE q # <<>> /\ prio[Head(q)] >= prio[currp] + (IF spent THEN 0 ELSE 1)
  <2> DEFINE rest == IF spent THEN Behind(Tail(q), currp, prio) ELSE Ahead(Tail(q), currp, prio)
  <2>1. Line(rest, (ReadyIn(st) \ {Head(q)}) \cup {currp}, prio)
    BY <1>2, <1>3, <1>4, JoinBehind, JoinAhead
  <2>2. prio[currp] <= prio[Head(q)]
    <3>1. prio[currp] \in Nat /\ prio[Head(q)] \in Nat
      BY <1>2, <1>3, <1>4
    <3> QED BY <1>4, <3>1
  <2>3. Switch(q, rest, st)
    BY <1>1, <1>4
  <2> QED BY <1>4, <2>1, <2>2, <2>3, SwitchDispatches
<1>5. CASE ~ (q # <<>> /\ prio[Head(q)] >= prio[currp] + (IF spent THEN 0 ELSE 1))
  <2>1. currp' = currp /\ ready' = q /\ state' = st
    BY <1>1, <1>5 DEF Stay
  <2>2. ASSUME NEW t \in All, st[t] = "READY"
        PROVE  prio[t] <= prio[currp]
    <3>1. t \in ReadyIn(st)
      BY <2>2 DEF ReadyIn
    <3>2. q # <<>>
      BY <3>1, EmptyLine
    <3>3. prio[t] <= prio[Head(q)] /\ prio[t] \in Nat /\ prio[Head(q)] \in Nat /\ prio[currp] \in Nat
      BY <1>2, <1>3, <3>1, <3>2
    <3> QED BY <1>5, <3>2, <3>3
  <2> QED BY <2>1, <2>2 DEF Dispatch, Running, ReadyIn, SameOrRuns
<1>6. QED
  BY <1>4, <1>5

(* chSchWakeupS compares with the caller alone.  It is enough when every   *)
(* ready thread is below the caller or below the one woken.                *)
LEMMA WakeupDispatches ==
  ASSUME NEW p \in [All -> Nat], NEW w \in All, ~ Runs(state, w),
         currp \in All, state \in [All -> States], Running(state),
         Line(ready, ReadyIn(state), p),
         \A t \in ReadyIn(state) : p[t] <= p[currp] \/ p[t] <= p[w],
         Wakeup(w, p)
  PROVE  /\ Dispatch(currp', ready', state', p)
         /\ Runs(state', w)
         /\ \A t \in All : t # w => SameOrRuns(state, state', t)
<1> USE DEF Running, ReadyIn
<1>1. w \notin ReadyIn(state) /\ w # currp /\ currp \notin ReadyIn(state) /\ state[currp] = "CURRENT"
  BY DEF Runs
<1>2. p[w] \in Nat /\ p[currp] \in Nat /\ \A t \in ReadyIn(state) : p[t] \in Nat
  OBVIOUS
<1>3. CASE p[w] <= p[currp]
  <2>1. currp' = currp /\ ready' = Behind(ready, w, p) /\ state' = [state EXCEPT ![w] = "READY"]
    BY <1>3 DEF Wakeup
  <2>2. Line(ready', ReadyIn(state) \cup {w}, p)
    BY <1>1, <2>1, JoinBehind
  <2>3. /\ state' \in [All -> States]
        /\ \A t \in All : state'[t] = IF t = w THEN "READY" ELSE state[t]
    BY <2>1 DEF States
  <2>4. {t \in All : state'[t] = "READY"} = ReadyIn(state) \cup {w}
    BY <2>3
  <2>5. \A t \in All : state'[t] = "READY" => p[t] <= p[currp]
    BY <1>2, <1>3, <2>3
  <2> QED BY <1>1, <2>1, <2>2, <2>3, <2>4, <2>5 DEF Dispatch, SameOrRuns, Runs
<1>4. CASE ~ (p[w] <= p[currp])
  <2>1. /\ currp' = w /\ ready' = Behind(ready, currp, p)
        /\ state' = [state EXCEPT ![w] = "CURRENT", ![currp] = "READY"]
    BY <1>4 DEF Wakeup
  <2>2. Line(ready', ReadyIn(state) \cup {currp}, p)
    BY <1>1, <2>1, JoinBehind
  <2>3. /\ state' \in [All -> States]
        /\ \A t \in All : state'[t] = IF t = w THEN "CURRENT" ELSE IF t = currp THEN "READY" ELSE state[t]
    BY <1>1, <2>1 DEF States
  <2>4. {t \in All : state'[t] = "READY"} = ReadyIn(state) \cup {currp}
    BY <1>1, <2>3
  <2>5. \A t \in All : state'[t] = "READY" => p[t] <= p[w]
    BY <1>2, <1>4, <2>3
  <2> QED BY <1>1, <2>1, <2>2, <2>3, <2>4, <2>5 DEF Dispatch, SameOrRuns, Runs
<1>5. QED
  BY <1>3, <1>4
-----------------------------------------------------------------------------
(* What holds of the running thread, and of those that wait.               *)
LEMMA CurrentThread ==
  ASSUME KernelInv, NEW t \in Threads, t = currp
  PROVE  /\ wtobjp[t] = None /\ state[t] = "CURRENT" /\ state[Idle] = "READY"
         /\ \A u \in Threads : t \notin Blocked(u)
         /\ \A u \in Threads : wtobjp[u] # None =>
              /\ wtobjp[u] \in Mutexes /\ u # t /\ state[u] = "WTMTX"
              /\ owner[wtobjp[u]] \in Threads
<1>1. t \in All /\ Idle \in All /\ Idle # t /\ None \notin Threads
  BY MutexAssumption DEF All
<1>2. state[t] = "CURRENT" /\ state[Idle] = "READY" /\ wtobjp[t] = None
  BY <1>1 DEF KernelInv, Dispatch, Runs, Waits
<1>3. QED
  BY <1>1, <1>2 DEF KernelInv, TypeOK, Waits, Blocked

(* chMtxLockS of a free mutex: a mutex nobody owns is waited for by        *)
(* nobody.                                                                 *)
LEMMA LockFreeKeeps ==
  ASSUME KernelInv, ~unlocking, NEW t \in Threads, NEW m \in Mutexes, LockFree(t, m)
  PROVE  KernelInv' /\ L!Get(t, m)
<1> USE DEF KernelInv
<1>1. /\ owner[m] = None /\ owner' = [owner EXCEPT ![m] = t]
      /\ held' = [held EXCEPT ![t] = <<m>> \o @]
      /\ UNCHANGED <<queue, wtobjp, prio, state, ready, currp, unlocking>>
      /\ t = currp /\ MayLock(t, m)
  BY DEF LockFree
<1>2. \A u \in Threads : wtobjp[u] # m
  BY <1>1, MutexAssumption DEF Waits
<1>3. /\ owner' \in [Mutexes -> Threads \cup {None}]
      /\ \A x \in Mutexes : owner'[x] = IF x = m THEN t ELSE owner[x]
  BY <1>1 DEF TypeOK
<1>4. Stacks'
  <2>1. ASSUME NEW u \in Threads
        PROVE  Stack(held'[u], {x \in Mutexes : owner'[x] = u})
    <3>1. CASE u = t
      <4>1. m \notin {x \in Mutexes : owner[x] = t}
        BY <1>1, MutexAssumption DEF All
      <4>2. {x \in Mutexes : owner'[x] = t} = {x \in Mutexes : owner[x] = t} \cup {m}
        BY <1>3
      <4>3. held'[t] = <<m>> \o held[t]
        BY <1>1 DEF TypeOK
      <4>4. Stack(held[t], {x \in Mutexes : owner[x] = t})
        BY DEF Stacks
      <4>5. Stack(<<m>> \o held[t], {x \in Mutexes : owner[x] = t} \cup {m})
        BY <4>1, <4>4, PushStack
      <4> QED BY <3>1, <4>2, <4>3, <4>5
    <3>2. CASE u # t
      <4>1. {x \in Mutexes : owner'[x] = u} = {x \in Mutexes : owner[x] = u}
        BY <1>1, <1>3, <3>2, MutexAssumption DEF All
      <4>2. held'[u] = held[u]
        BY <1>1, <3>2 DEF TypeOK
      <4> QED BY <4>1, <4>2 DEF Stacks
    <3> QED BY <3>1, <3>2
  <2> QED BY <2>1 DEF Stacks
<1>5. TypeOK'
  <2>1. held' \in [Threads -> Seq(Mutexes)]
    <3>1. \A u \in Threads : held'[u] \in Seq(Mutexes)
      BY <1>4 DEF Stacks, Stack
    <3> QED BY <1>1, <3>1 DEF TypeOK
  <2> QED BY <1>1, <1>3, <2>1 DEF TypeOK
<1>6. \A u \in Threads : Blocked(u)' = Blocked(u)
  BY <1>1, <1>2, <1>3 DEF Blocked, TypeOK
<1>7. Waits' /\ Ascending' /\ Exact'
  <2>1. Waits'
    BY <1>1, <1>2, <1>3 DEF Waits, TypeOK
  <2>2. Ascending'
    BY <1>1, <1>3, CurrentThread DEF Ascending
  <2>3. Exact'
    BY <1>1, <1>6 DEF Exact
  <2> QED BY <2>1, <2>2, <2>3
<1>8. Dispatch(currp, ready, state, prio)' /\ Runs(state, Idle)' /\ Queues'
  BY <1>1 DEF Dispatch, Runs, Queues
<1>9. L!Get(t, m)
  BY <1>1, CurrentThread DEF L!Get
<1>10. QED
  BY <1>4, <1>5, <1>7, <1>8, <1>9

(* chMtxLockS of a taken mutex: inheritance along the chain of owners      *)
(* keeps every queue ordered and every priority exact.                     *)
LEMMA LockTakenKeeps ==
  ASSUME KernelInv, ~unlocking, NEW t \in Threads, NEW m \in Mutexes, LockTaken(t, m)
  PROVE  KernelInv' /\ L!Wait(t, m)
<1> USE DEF KernelInv
<1> DEFINE B == Boosted(m, prio[t])
           p == [u \in All |-> IF u \in B THEN prio[t] ELSE prio[u]]
<1> HIDE DEF B
<1>1. /\ owner[m] # None /\ t = currp /\ MayLock(t, m)
      /\ prio' = p
      /\ queue' = [x \in Mutexes |->
                     IF x = m THEN Behind(Reordered(queue[x], B, p), t, p)
                     ELSE Reordered(queue[x], B, p)]
      /\ GoSleep("WTMTX", Reordered(ready, B, p))
      /\ wtobjp' = [wtobjp EXCEPT ![t] = m]
      /\ UNCHANGED <<owner, held, unlocking>>
  BY DEF LockTaken, B
<1>2. /\ owner[m] \in Threads
      /\ \A x \in Mutexes : owner[x] = t => x < m
      /\ owner[m] # t
  <2>1. ASSUME NEW x \in Mutexes, owner[x] = t
        PROVE  x < m
    <3>1. x \in ToSet(held[t])
      BY <2>1 DEF Stacks, Stack
    <3> QED BY <1>1, <3>1 DEF MayLock, ToSet
  <2>2. m \in Nat
    BY MutexAssumption
  <2> QED BY <1>1, <2>1, <2>2 DEF TypeOK
<1>3. /\ t \in All /\ Threads \subseteq All /\ wtobjp[t] = None /\ state[t] = "CURRENT"
      /\ m # None /\ currp \in All /\ prio \in [All -> Nat] /\ prio[t] \in Nat
  BY <1>1, CurrentThread, MutexAssumption DEF All, TypeOK
<1>4. /\ B \subseteq Threads
      /\ OwnerBelow(m, prio[t]) \subseteq B
      /\ \A u \in B : wtobjp[u] # None => OwnerBelow(wtobjp[u], prio[t]) \subseteq B
  BY BoostedLeast DEF B
<1>5. \A u \in B : /\ prio[u] < prio[t]
                   /\ owner[m] = u \/ \E v \in B : wtobjp[v] # None /\ owner[wtobjp[v]] = u
  BY BoostedHasCause DEF B
<1>6. \A u, v \in B : wtobjp[u] = wtobjp[v] => u = v
  BY OneBoostedPerQueue DEF B
<1>7. /\ p \in [All -> Nat] /\ t \notin B
      /\ \A u \in All : p[u] = IF u \in B THEN prio[t] ELSE prio[u]
  <2>1. prio[t] \in Nat /\ t \notin B
    BY <1>3, <1>5
  <2> QED BY <1>3, <2>1
<1> HIDE DEF p
<1>8. Queues'
  <2>1. ASSUME NEW x \in Mutexes
        PROVE  Line(Reordered(queue[x], B, p), {u \in Threads : wtobjp[u] = x}, p)
    <3>1. Line(queue[x], {u \in Threads : wtobjp[u] = x}, prio)
      BY DEF Queues
    <3>2. \A u \in {v \in Threads : wtobjp[v] = x} \ B : p[u] = prio[u]
      BY <1>3, <1>7
    <3>3. \A u, v \in {w \in Threads : wtobjp[w] = x} \cap B : u = v
      BY <1>6
    <3> QED BY <1>7, <3>1, <3>2, <3>3, ReorderedLine
  <2>2. ASSUME NEW x \in Mutexes
        PROVE  Line(queue'[x], {u \in Threads : wtobjp'[u] = x}, prio')
    <3>1. CASE x = m
      <4>1. {u \in Threads : wtobjp'[u] = m} = {u \in Threads : wtobjp[u] = m} \cup {t}
        BY <1>1 DEF TypeOK
      <4>2. t \notin {u \in Threads : wtobjp[u] = m}
        BY <1>3
      <4>3. Line(Behind(Reordered(queue[m], B, p), t, p), {u \in Threads : wtobjp[u] = m} \cup {t}, p)
        BY <1>3, <1>7, <2>1, <4>2, JoinBehind
      <4> QED BY <1>1, <3>1, <4>1, <4>3
    <3>2. CASE x # m
      <4>1. {u \in Threads : wtobjp'[u] = x} = {u \in Threads : wtobjp[u] = x}
        BY <1>1, <1>3, <3>2, MutexAssumption DEF TypeOK
      <4> QED BY <1>1, <2>1, <3>2, <4>1
    <3> QED BY <3>1, <3>2
  <2> QED BY <2>2 DEF Queues
<1>9. /\ Dispatch(currp', ready', state', prio')
      /\ state'[t] = "WTMTX"
      /\ \A u \in All : u # t => SameOrRuns(state, state', u)
  <2>1. Line(Reordered(ready, B, p), ReadyIn(state), p)
    <3>1. Line(ready, ReadyIn(state), prio)
      BY DEF Dispatch, ReadyIn
    <3>2. \A u \in ReadyIn(state) \ B : p[u] = prio[u]
      BY <1>7 DEF ReadyIn
    <3>3. \A u, v \in ReadyIn(state) \cap B : u = v
      <4>1. \A u \in ReadyIn(state) \cap B : wtobjp[u] = None
        BY <1>4 DEF ReadyIn, Waits
      <4> QED BY <1>6, <4>1
    <3> QED BY <1>7, <3>1, <3>2, <3>3, ReorderedLine
  <2>2. Running(state) /\ state[Idle] = "READY" /\ state \in [All -> States]
    BY <1>1, CurrentThread DEF Dispatch, Running
  <2> QED BY <1>1, <1>3, <1>7, <2>1, <2>2, GoSleepDispatches
<1>10. Waits' /\ Ascending'
  <2>1. \A u \in Threads : wtobjp'[u] = IF u = t THEN m ELSE wtobjp[u]
    BY <1>1 DEF TypeOK
  <2>2. ASSUME NEW u \in Threads
        PROVE  wtobjp'[u] # None <=> state'[u] = "WTMTX"
    BY <1>3, <1>9, <2>1 DEF Waits, SameOrRuns, Runs
  <2>3. Waits'
    BY <1>1, <1>2, <2>1, <2>2, MutexAssumption DEF Waits
  <2>4. Ascending'
    BY <1>1, <1>2, <2>1 DEF Ascending
  <2> QED BY <2>3, <2>4
<1>11. Exact'
  <2> SUFFICES ASSUME NEW u \in Threads
               PROVE  /\ RealPrio[u] <= prio'[u]
                      /\ \A w \in Blocked(u)' : prio'[w] <= prio'[u]
                      /\ \/ prio'[u] = RealPrio[u]
                         \/ \E w \in Blocked(u)' : prio'[w] = prio'[u]
    BY DEF Exact
  <2>1. \A w \in All : prio[w] \in Nat /\ RealPrio[w] \in Nat
    BY <1>3, MutexAssumption
  <2>2. \A w \in Threads : prio'[w] = IF w \in B THEN prio[t] ELSE prio[w]
    BY <1>1, <1>3, <1>7
  <2>3. /\ \A w \in Threads : w \in Blocked(u)' <=>
                    w \in Blocked(u) \/ (w = t /\ owner[m] = u)
        /\ Blocked(u) \subseteq Threads /\ t \notin Blocked(u)
    BY <1>1, <1>3 DEF Blocked, TypeOK
  <2>4. /\ RealPrio[u] <= prio[u]
        /\ \A w \in Blocked(u) : prio[w] <= prio[u]
        /\ prio[u] = RealPrio[u] \/ \E w \in Blocked(u) : prio[w] = prio[u]
    BY DEF Exact
  <2>5. Blocked(u)' \subseteq Threads
    BY DEF Blocked
  <2>6. CASE u \in B
    <3>1. prio[u] < prio[t] /\ prio'[u] = prio[t]
      BY <1>5, <2>2, <2>6
    <3>2. \A w \in Blocked(u)' : prio'[w] <= prio[t]
      BY <1>3, <2>1, <2>2, <2>3, <2>4, <2>5, <3>1
    <3>3. \E w \in Blocked(u)' : prio'[w] = prio[t]
      <4>1. CASE owner[m] = u
        <5>1. t \in Blocked(u)' /\ prio'[t] = prio[t]
          BY <1>7, <2>2, <2>3, <4>1
        <5> QED BY <5>1
      <4>2. CASE \E v \in B : wtobjp[v] # None /\ owner[wtobjp[v]] = u
        <5>1. PICK v \in B : wtobjp[v] # None /\ owner[wtobjp[v]] = u
          BY <4>2
        <5>2. v \in Blocked(u) /\ prio'[v] = prio[t]
          BY <1>4, <2>2, <5>1 DEF Blocked
        <5> QED BY <2>3, <5>2
      <4> QED BY <1>5, <2>6, <4>1, <4>2
    <3>4. RealPrio[u] <= prio[t]
      BY <1>3, <2>1, <2>4, <3>1
    <3> QED BY <3>1, <3>2, <3>3, <3>4
  <2>7. CASE u \notin B
    <3>1. prio'[u] = prio[u]
      BY <2>2, <2>7
    <3>2. owner[m] = u => prio[t] <= prio[u]
      BY <1>3, <1>4, <2>1, <2>7 DEF OwnerBelow
    <3>3. ASSUME NEW w \in Blocked(u), w \in B
          PROVE  prio[t] <= prio[u]
      <4>1. w \in Threads /\ wtobjp[w] # None /\ owner[wtobjp[w]] = u
        BY <3>3 DEF Blocked
      <4>2. u \notin OwnerBelow(wtobjp[w], prio[t])
        BY <1>4, <2>7, <3>3, <4>1
      <4> QED BY <1>3, <2>1, <4>1, <4>2 DEF OwnerBelow
    <3>4. \A w \in Blocked(u)' : prio'[w] <= prio[u]
      BY <1>7, <2>2, <2>3, <2>4, <2>5, <3>2, <3>3
    <3>5. ASSUME NEW w \in Blocked(u), prio[w] = prio[u]
          PROVE  w \in Blocked(u)' /\ prio'[w] = prio[u]
      <4>1. w \notin B
        BY <1>3, <1>5, <2>1, <3>3, <3>5
      <4> QED BY <2>2, <2>3, <3>5, <4>1
    <3> QED BY <2>4, <3>1, <3>4, <3>5
  <2> QED BY <2>6, <2>7
<1>12. TypeOK'
  <2>1. queue' \in [Mutexes -> Seq(Threads)]
    <3>1. \A x \in Mutexes : queue'[x] \in Seq(Threads)
      BY <1>8, LineType DEF Queues
    <3> QED BY <1>1, <3>1
  <2>2. wtobjp' \in [Threads -> Mutexes \cup {None}]
    BY <1>1 DEF TypeOK
  <2>3. ready' \in Seq(All) /\ currp' \in All /\ state' \in [All -> States]
    BY <1>9 DEF Dispatch, Line
  <2> QED BY <1>1, <1>7, <2>1, <2>2, <2>3 DEF TypeOK
<1>13. Runs(state', Idle)
  <2>1. Idle \in All /\ Idle # t
    BY MutexAssumption DEF All
  <2> QED BY <1>9, <2>1 DEF SameOrRuns, Runs
<1>14. Stacks'
  BY <1>1 DEF Stacks
<1>15. L!Wait(t, m)
  BY <1>1, <1>2, <1>3 DEF L!Wait
<1>16. QED
  BY <1>8, <1>9, <1>10, <1>11, <1>12, <1>13, <1>14, <1>15
(* The mutex on top of the stack.                                          *)
LEMMA TopOfStack ==
  ASSUME KernelInv, NEW t \in Threads, held[t] # <<>>
  PROVE  /\ Head(held[t]) \in Mutexes /\ owner[Head(held[t])] = t
         /\ Stack(Tail(held[t]), {x \in Mutexes : owner[x] = t} \ {Head(held[t])})
<1> DEFINE X == {x \in Mutexes : owner[x] = t}
<1>1. Stack(held[t], X)
  BY DEF KernelInv, Stacks
<1> HIDE DEF X
<1>2. Head(held[t]) \in X /\ Stack(Tail(held[t]), X \ {Head(held[t])})
  BY <1>1, PopStack
<1>3. QED
  BY <1>2 DEF X

(* The head of a waiting queue.                                            *)
LEMMA FirstWaiter ==
  ASSUME KernelInv, NEW m \in Mutexes
  PROVE  /\ queue[m] = <<>> <=> {u \in Threads : wtobjp[u] = m} = {}
         /\ queue[m] # <<>> =>
              /\ Head(queue[m]) \in Threads /\ wtobjp[Head(queue[m])] = m
              /\ \A u \in Threads : wtobjp[u] = m => prio[u] <= prio[Head(queue[m])]
              /\ Line(Tail(queue[m]), {u \in Threads : wtobjp[u] = m} \ {Head(queue[m])}, prio)
<1> DEFINE X == {u \in Threads : wtobjp[u] = m}
<1>1. Line(queue[m], X, prio) /\ prio \in [All -> Nat]
  BY DEF KernelInv, Queues, TypeOK
<1>2. queue[m] = <<>> <=> X = {}
  BY <1>1, EmptyLine
<1>3. X # {} => /\ Head(queue[m]) \in X
                /\ \A u \in X : prio[u] <= prio[Head(queue[m])]
                /\ Line(Tail(queue[m]), X \ {Head(queue[m])}, prio)
  BY <1>1, LeaveLine
<1>4. QED
  BY <1>2, <1>3

(* t gives the mutex on top of its stack to its first waiter, or to nobody.*)
Given(t, m, heir) ==
  /\ held[t] # <<>> /\ m = Head(held[t])
  /\ heir = IF queue[m] = <<>> THEN None ELSE Head(queue[m])
  /\ owner' = [owner EXCEPT ![m] = heir]
  /\ held' = IF heir = None THEN [held EXCEPT ![t] = Tail(@)]
             ELSE [held EXCEPT ![t] = Tail(@), ![heir] = <<m>> \o @]
  /\ queue' = IF heir = None THEN queue ELSE [queue EXCEPT ![m] = Tail(@)]
  /\ wtobjp' = IF heir = None THEN wtobjp ELSE [wtobjp EXCEPT ![heir] = None]

(* Owners and waits after a mutex was given.                               *)
LEMMA GivenFacts ==
  ASSUME KernelInv, NEW t \in Threads, t = currp, NEW m, NEW heir, Given(t, m, heir)
  PROVE  /\ m \in Mutexes /\ owner[m] = t /\ heir \in Threads \cup {None} /\ heir # t
         /\ \A x \in Mutexes : owner'[x] = IF x = m THEN heir ELSE owner[x]
         /\ \A u \in Threads : wtobjp'[u] = IF u = heir THEN None ELSE wtobjp[u]
         /\ heir \in Threads => wtobjp[heir] = m
         /\ \A u \in Threads : wtobjp[u] = m =>
              heir \in Threads /\ prio[u] <= prio[heir]
<1> USE DEF KernelInv
<1>1. m \in Mutexes /\ owner[m] = t
  BY TopOfStack DEF Given
<1>2. None \notin Threads /\ None \notin Mutexes /\ wtobjp[t] = None
  BY CurrentThread, MutexAssumption DEF All
<1>3. CASE queue[m] = <<>>
  <2>1. heir = None /\ owner' = [owner EXCEPT ![m] = None] /\ wtobjp' = wtobjp
    BY <1>3 DEF Given
  <2>2. \A u \in Threads : wtobjp[u] # m
    BY <1>1, <1>3, FirstWaiter
  <2>3. \A x \in Mutexes : owner'[x] = IF x = m THEN heir ELSE owner[x]
    BY <1>1, <2>1 DEF TypeOK
  <2> QED BY <1>1, <1>2, <2>1, <2>2, <2>3
<1>4. CASE queue[m] # <<>>
  <2>1. heir = Head(queue[m])
    BY <1>4 DEF Given
  <2>2. /\ heir \in Threads /\ wtobjp[heir] = m
        /\ \A u \in Threads : wtobjp[u] = m => prio[u] <= prio[heir]
    BY <1>1, <1>4, <2>1, FirstWaiter
  <2>3. owner' = [owner EXCEPT ![m] = heir] /\ wtobjp' = [wtobjp EXCEPT ![heir] = None]
    BY <1>2, <2>2 DEF Given
  <2>4. \A x \in Mutexes : owner'[x] = IF x = m THEN heir ELSE owner[x]
    BY <1>1, <2>3 DEF TypeOK
  <2>5. \A u \in Threads : wtobjp'[u] = IF u = heir THEN None ELSE wtobjp[u]
    BY <2>2, <2>3 DEF TypeOK
  <2> QED BY <1>1, <1>2, <2>2, <2>4, <2>5
<1>5. QED
  BY <1>3, <1>4

(* Giving a mutex keeps queues and stacks, and is what Lock calls a        *)
(* release, whatever becomes of the giver's priority.                      *)
LEMMA GivenKeeps ==
  ASSUME KernelInv, NEW t \in Threads, t = currp, NEW m, NEW heir, Given(t, m, heir),
         prio' \in [All -> Nat], \A u \in All : u # t => prio'[u] = prio[u]
  PROVE  /\ Queues' /\ Stacks' /\ Ascending'
         /\ owner' \in [Mutexes -> Threads \cup {None}]
         /\ queue' \in [Mutexes -> Seq(Threads)]
         /\ held' \in [Threads -> Seq(Mutexes)]
         /\ wtobjp' \in [Threads -> Mutexes \cup {None}]
         /\ \A u \in Threads : wtobjp'[u] # None => owner'[wtobjp'[u]] # None
         /\ L!Release(t, {m})
<1> USE DEF KernelInv
<1>1. /\ m \in Mutexes /\ owner[m] = t /\ heir \in Threads \cup {None} /\ heir # t
      /\ \A x \in Mutexes : owner'[x] = IF x = m THEN heir ELSE owner[x]
      /\ \A u \in Threads : wtobjp'[u] = IF u = heir THEN None ELSE wtobjp[u]
      /\ heir \in Threads => wtobjp[heir] = m
      /\ \A u \in Threads : wtobjp[u] = m => heir \in Threads /\ prio[u] <= prio[heir]
  BY GivenFacts
<1>2. None \notin Threads /\ None \notin Mutexes /\ Threads \subseteq All /\ wtobjp[t] = None
  BY CurrentThread, MutexAssumption DEF All
<1>3. /\ owner' \in [Mutexes -> Threads \cup {None}]
      /\ wtobjp' \in [Threads -> Mutexes \cup {None}]
  BY <1>1 DEF Given, TypeOK
<1>4. Queues'
  <2> SUFFICES ASSUME NEW x \in Mutexes
               PROVE  Line(queue'[x], {u \in Threads : wtobjp'[u] = x}, prio')
    BY DEF Queues
  <2> DEFINE X == {u \in Threads : wtobjp'[u] = x}
  <2>1. \A u \in X : prio'[u] = prio[u]
    BY <1>1, <1>2
  <2>2. Line(queue'[x], X, prio)
    <3>1. CASE x = m /\ heir # None
      <4>1. queue[m] # <<>> /\ heir = Head(queue[m])
        BY <3>1 DEF Given
      <4>2. Line(Tail(queue[m]), {u \in Threads : wtobjp[u] = m} \ {heir}, prio)
        BY <1>1, <4>1, FirstWaiter
      <4>3. queue'[m] = Tail(queue[m])
        BY <1>1, <3>1 DEF Given, TypeOK
      <4>4. X = {u \in Threads : wtobjp[u] = m} \ {heir}
        BY <1>1, <1>2, <3>1
      <4> QED BY <3>1, <4>2, <4>3, <4>4
    <3>2. CASE ~ (x = m /\ heir # None)
      <4>1. queue'[x] = queue[x]
        BY <1>1, <3>2 DEF Given, TypeOK
      <4>2. X = {u \in Threads : wtobjp[u] = x}
        BY <1>1, <1>2, <3>2
      <4> QED BY <4>1, <4>2 DEF Queues
    <3> QED BY <3>1, <3>2
  <2> QED BY <2>1, <2>2, SamePriorities
<1>5. Stacks'
  <2> SUFFICES ASSUME NEW u \in Threads
               PROVE  Stack(held'[u], {x \in Mutexes : owner'[x] = u})
    BY DEF Stacks
  <2>1. Stack(held[u], {x \in Mutexes : owner[x] = u})
    BY DEF Stacks
  <2>2. CASE u = t
    <3>1. Stack(Tail(held[t]), {x \in Mutexes : owner[x] = t} \ {m})
      BY TopOfStack DEF Given
    <3>2. held'[t] = Tail(held[t])
      BY <1>1 DEF Given, TypeOK
    <3>3. {x \in Mutexes : owner'[x] = t} = {x \in Mutexes : owner[x] = t} \ {m}
      BY <1>1
    <3> QED BY <2>2, <3>1, <3>2, <3>3
  <2>3. CASE u = heir
    <3>1. held'[u] = <<m>> \o held[u]
      BY <1>1, <1>2, <2>3 DEF Given, TypeOK
    <3>2. {x \in Mutexes : owner'[x] = u} = {x \in Mutexes : owner[x] = u} \cup {m}
      BY <1>1, <2>3
    <3>3. m \notin {x \in Mutexes : owner[x] = u}
      BY <1>1, <2>3
    <3>4. Stack(<<m>> \o held[u], {x \in Mutexes : owner[x] = u} \cup {m})
      BY <1>1, <2>1, <3>3, PushStack
    <3> QED BY <3>1, <3>2, <3>4
  <2>4. CASE u # t /\ u # heir
    <3>1. held'[u] = held[u]
      BY <1>1, <2>4 DEF Given, TypeOK
    <3>2. {x \in Mutexes : owner'[x] = u} = {x \in Mutexes : owner[x] = u}
      BY <1>1, <2>4
    <3> QED BY <2>1, <3>1, <3>2
  <2> QED BY <2>2, <2>3, <2>4
<1>6. Ascending' /\ \A u \in Threads : wtobjp'[u] # None => owner'[wtobjp'[u]] # None
  <2>1. Ascending'
    BY <1>1, <1>2 DEF Ascending
  <2>2. ASSUME NEW u \in Threads, wtobjp'[u] # None
        PROVE  owner'[wtobjp'[u]] # None
    BY <1>1, <1>2, <1>3, <2>2 DEF Waits
  <2> QED BY <2>1, <2>2
<1>7. queue' \in [Mutexes -> Seq(Threads)] /\ held' \in [Threads -> Seq(Mutexes)]
  <2>1. \A x \in Mutexes : queue'[x] \in Seq(Threads)
    BY <1>4, LineType DEF Queues
  <2>2. \A u \in Threads : held'[u] \in Seq(Mutexes)
    BY <1>5 DEF Stacks, Stack
  <2>3. queue' = [x \in Mutexes |-> queue'[x]] /\ held' = [u \in Threads |-> held'[u]]
    BY DEF Given, TypeOK
  <2> QED BY <2>1, <2>2, <2>3
<1>8. L!Release(t, {m})
  <2>1. owner'[m] \in L!Heirs(m)
    BY <1>1, <1>2 DEF L!Heirs, L!Waiters
  <2>2. wtobjp' = [w \in Threads |-> IF \E x \in {m} : owner'[x] = w THEN None ELSE wtobjp[w]]
    BY <1>1, <1>3
  <2> QED BY <1>1, <1>2, <1>3, <2>1, <2>2 DEF L!Release
<1>9. QED
  BY <1>3, <1>4, <1>5, <1>6, <1>7, <1>8

(* The heir waits no longer, the others as before.                         *)
LEMMA GivenWaits ==
  ASSUME KernelInv, NEW t \in Threads, t = currp, NEW m, NEW heir, Given(t, m, heir),
         heir \in Threads => Runs(state', heir),
         \A u \in All : u # heir => SameOrRuns(state, state', u)
  PROVE  \A u \in Threads : wtobjp'[u] # None <=> state'[u] = "WTMTX"
<1> SUFFICES ASSUME NEW u \in Threads
             PROVE  wtobjp'[u] # None <=> state'[u] = "WTMTX"
  OBVIOUS
<1>1. wtobjp'[u] = IF u = heir THEN None ELSE wtobjp[u]
  BY GivenFacts
<1>2. u \in All /\ (wtobjp[u] # None <=> state[u] = "WTMTX")
  BY DEF KernelInv, Waits, All
<1>3. CASE u = heir
  BY <1>1, <1>3 DEF Runs
<1>4. CASE u # heir
  BY <1>1, <1>2, <1>4 DEF SameOrRuns, Runs
<1>5. QED
  BY <1>3, <1>4

(* The other waiters are blocked by the heir now.                          *)
LEMMA GivenBelow ==
  ASSUME KernelInv, NEW t \in Threads, t = currp, NEW m, NEW heir, Given(t, m, heir),
         NEW u \in Threads
  PROVE  Blocked(u)' = {w \in Threads :
           \/ w \in Blocked(u) /\ wtobjp[w] # m
           \/ u = heir /\ w # heir /\ wtobjp[w] = m}
<1>1. /\ m \in Mutexes /\ owner[m] = t /\ heir \in Threads \cup {None} /\ heir # t
      /\ \A x \in Mutexes : owner'[x] = IF x = m THEN heir ELSE owner[x]
      /\ \A w \in Threads : wtobjp'[w] = IF w = heir THEN None ELSE wtobjp[w]
      /\ heir \in Threads => wtobjp[heir] = m
  BY GivenFacts
<1>2. /\ \A w \in Threads : wtobjp[w] \in Mutexes \cup {None}
      /\ None \notin Mutexes /\ None \notin Threads
  BY MutexAssumption DEF KernelInv, TypeOK, All
<1>3. QED
  BY <1>1, <1>2 DEF Blocked

(* The heir blocks nobody above itself, for it was the highest; so only    *)
(* the giver's priority has to be looked at.                               *)
LEMMA GivenExact ==
  ASSUME KernelInv, NEW t \in Threads, t = currp, NEW m, NEW heir, Given(t, m, heir),
         prio' \in [All -> Nat], \A u \in All : u # t => prio'[u] = prio[u],
         RealPrio[t] <= prio'[t],
         \A u \in Blocked(t)' : prio[u] <= prio'[t],
         \/ unlocking' /\ t = currp'
         \/ prio'[t] = RealPrio[t]
         \/ \E u \in Blocked(t)' : prio[u] = prio'[t]
  PROVE  Exact'
<1>1. /\ heir # t
      /\ \A u \in Threads : wtobjp[u] = m => heir \in Threads /\ prio[u] <= prio[heir]
      /\ heir \in Threads => wtobjp[heir] = m
      /\ m \in Mutexes /\ owner[m] = t
  BY GivenFacts
<1>2. /\ \A u \in Threads : u # t => prio'[u] = prio[u]
      /\ \A u \in Threads : t \notin Blocked(u) /\ Blocked(u) \subseteq Threads
      /\ wtobjp[t] = None /\ None \notin Mutexes
  BY CurrentThread, MutexAssumption DEF Blocked, All
<1> SUFFICES ASSUME NEW u \in Threads
             PROVE  /\ RealPrio[u] <= prio'[u]
                    /\ \A w \in Blocked(u)' : prio'[w] <= prio'[u]
                    /\ \/ unlocking' /\ u = currp'
                       \/ prio'[u] = RealPrio[u]
                       \/ \E w \in Blocked(u)' : prio'[w] = prio'[u]
  BY DEF Exact
<1>3. /\ RealPrio[u] <= prio[u]
      /\ \A w \in Blocked(u) : prio[w] <= prio[u]
      /\ \/ unlocking /\ u = currp
         \/ prio[u] = RealPrio[u]
         \/ \E w \in Blocked(u) : prio[w] = prio[u]
  BY DEF KernelInv, Exact
<1>4. /\ Blocked(u)' \subseteq Threads
      /\ \A w \in Threads : w \in Blocked(u)' <=>
           \/ w \in Blocked(u) /\ wtobjp[w] # m
           \/ u = heir /\ w # heir /\ wtobjp[w] = m
  BY GivenBelow
<1>5. \A w \in Blocked(u)' : w # t /\ prio'[w] = prio[w]
  BY <1>1, <1>2, <1>4
<1>6. CASE u = t
  BY <1>5, <1>6
<1>7. CASE u # t
  <2>1. prio'[u] = prio[u]
    BY <1>2, <1>7
  <2>2. \A w \in Blocked(u) : wtobjp[w] # m
    BY <1>1, <1>7 DEF Blocked
  <2>3. \A w \in Blocked(u) : w \in Blocked(u)' /\ prio'[w] = prio[w]
    BY <1>2, <1>4, <1>5, <2>2
  <2>4. \A w \in Blocked(u)' : prio[w] <= prio[u]
    BY <1>1, <1>3, <1>4
  <2> QED BY <1>3, <1>5, <1>7, <2>1, <2>3, <2>4
<1>8. QED
  BY <1>6, <1>7

(* What chMtxUnlock computes from the heads of the queues is the highest   *)
(* priority in all of them, and no more than the caller has.               *)
LEMMA InheritedIsExact ==
  ASSUME KernelInv, NEW t \in Threads, NEW s, NEW X \in SUBSET {x \in Mutexes : owner[x] = t},
         Stack(s, X)
  PROVE  LET i == Inherited(s, RealPrio[t])
         IN  /\ i \in Nat /\ RealPrio[t] <= i /\ i <= prio[t]
             /\ \A u \in Threads : wtobjp[u] \in X => prio[u] <= i
             /\ \/ i = RealPrio[t]
                \/ \E u \in Threads : wtobjp[u] \in X /\ prio[u] = i
<1> DEFINE Y == {x \in X : queue[x] # <<>>}
           S == {RealPrio[t]} \cup {prio[Head(queue[x])] : x \in Y}
<1>1. /\ t \in All /\ RealPrio[t] \in Nat /\ RealPrio[t] <= prio[t]
      /\ \A u \in Threads : prio[u] \in Nat
      /\ None \notin Mutexes
  BY MutexAssumption DEF KernelInv, TypeOK, Exact, All
<1>2. \A u \in Threads : wtobjp[u] \in X => prio[u] <= prio[t]
  BY <1>1 DEF KernelInv, Exact, Blocked
<1>3. ASSUME NEW x \in Y
      PROVE  /\ Head(queue[x]) \in Threads /\ wtobjp[Head(queue[x])] = x
             /\ \A u \in Threads : wtobjp[u] = x => prio[u] <= prio[Head(queue[x])]
  BY FirstWaiter
<1>4. S \subseteq Nat /\ S # {} /\ \A n \in S : n <= prio[t]
  BY <1>1, <1>2, <1>3
<1>5. Max(S) \in S /\ \A n \in S : n <= Max(S)
  <2> HIDE DEF S
  <2> QED BY <1>1, <1>4, MaxExists
<1>6. Inherited(s, RealPrio[t]) = Max(S)
  BY DEF Inherited, Stack
<1>7. \A u \in Threads : wtobjp[u] \in X =>
        wtobjp[u] \in Y /\ prio[u] <= prio[Head(queue[wtobjp[u]])]
  BY <1>3, FirstWaiter
<1>8. \A u \in Threads : wtobjp[u] \in X => prio[u] <= Max(S)
  <2> SUFFICES ASSUME NEW u \in Threads, wtobjp[u] \in X
               PROVE  prio[u] <= Max(S)
    OBVIOUS
  <2>1. prio[Head(queue[wtobjp[u]])] \in S
    BY <1>7
  <2>2. prio[u] <= prio[Head(queue[wtobjp[u]])] /\ prio[u] \in Nat
    BY <1>1, <1>7
  <2> HIDE DEF S
  <2>3. /\ prio[Head(queue[wtobjp[u]])] <= Max(S)
        /\ prio[Head(queue[wtobjp[u]])] \in Nat /\ Max(S) \in Nat
    BY <1>4, <1>5, <2>1
  <2> QED BY <2>2, <2>3
<1>9. Max(S) = RealPrio[t] \/ \E u \in Threads : wtobjp[u] \in X /\ prio[u] = Max(S)
  BY <1>3, <1>5
<1>10. Max(S) \in Nat /\ RealPrio[t] <= Max(S) /\ Max(S) <= prio[t]
  BY <1>4, <1>5
<1>11. QED
  BY <1>6, <1>8, <1>9, <1>10

(* Giving a mutex keeps the invariant if the processor and the giver's     *)
(* priority are right.                                                     *)
LEMMA GivenInv ==
  ASSUME KernelInv, NEW t \in Threads, t = currp, NEW m, NEW heir, Given(t, m, heir),
         prio' \in [All -> Nat], \A u \in All : u # t => prio'[u] = prio[u],
         unlocking' \in BOOLEAN,
         Dispatch(currp', ready', state', prio'),
         heir \in Threads => Runs(state', heir),
         \A u \in All : u # heir => SameOrRuns(state, state', u),
         RealPrio[t] <= prio'[t],
         \A u \in Blocked(t)' : prio[u] <= prio'[t],
         \/ unlocking' /\ t = currp'
         \/ prio'[t] = RealPrio[t]
         \/ \E u \in Blocked(t)' : prio[u] = prio'[t]
  PROVE  KernelInv' /\ L!Release(t, {m})
<1>1. /\ Queues' /\ Stacks' /\ Ascending'
      /\ owner' \in [Mutexes -> Threads \cup {None}]
      /\ queue' \in [Mutexes -> Seq(Threads)]
      /\ held' \in [Threads -> Seq(Mutexes)]
      /\ wtobjp' \in [Threads -> Mutexes \cup {None}]
      /\ \A u \in Threads : wtobjp'[u] # None => owner'[wtobjp'[u]] # None
      /\ L!Release(t, {m})
  BY GivenKeeps
<1>2. \A u \in Threads : wtobjp'[u] # None <=> state'[u] = "WTMTX"
  BY GivenWaits
<1>3. Waits'
  BY <1>1, <1>2 DEF Waits
<1>4. Exact'
  BY GivenExact
<1>5. Runs(state', Idle)
  <2>1. Idle # heir /\ Idle \in All
    BY GivenFacts, MutexAssumption DEF All
  <2>2. Runs(state, Idle) /\ SameOrRuns(state, state', Idle)
    BY <2>1 DEF KernelInv
  <2> QED BY <2>2 DEF SameOrRuns, Runs
<1>6. ready' \in Seq(All) /\ currp' \in All /\ state' \in [All -> States]
  BY DEF Dispatch, Line
<1>7. TypeOK'
  BY <1>1, <1>6 DEF TypeOK
<1>8. QED
  BY <1>1, <1>3, <1>4, <1>5, <1>7 DEF KernelInv

(* chMtxUnlock of a mutex nobody waits for, and the same turn of           *)
(* chMtxUnlockAll.                                                         *)
LEMMA UnlockFreeKeeps ==
  ASSUME KernelInv, NEW t \in Threads, UnlockFree(t)
  PROVE  KernelInv' /\ L!Release(t, {Head(held[t])})
<1> DEFINE m == Head(held[t])
<1>1. /\ t = currp /\ held[t] # <<>> /\ queue[m] = <<>>
      /\ owner' = [owner EXCEPT ![m] = None]
      /\ held' = [held EXCEPT ![t] = Tail(@)]
      /\ UNCHANGED <<queue, wtobjp, prio, state, ready, currp, unlocking>>
  BY DEF UnlockFree
<1>2. Given(t, m, None)
  BY <1>1 DEF Given
<1> HIDE DEF m
<1>3. None \notin Threads /\ TypeOK /\ Exact /\ Dispatch(currp, ready, state, prio)
  BY MutexAssumption DEF KernelInv, All
<1>4. Blocked(t)' = Blocked(t)
  <2>1. Blocked(t)' = {w \in Threads : w \in Blocked(t) /\ wtobjp[w] # m}
    BY <1>1, <1>2, <1>3, GivenBelow
  <2>2. \A w \in Threads : wtobjp[w] # m
    BY <1>1, <1>2, <1>3, GivenFacts
  <2> QED BY <2>1, <2>2 DEF Blocked
<1>5. /\ RealPrio[t] <= prio'[t]
      /\ \A u \in Blocked(t)' : prio[u] <= prio'[t]
      /\ \/ unlocking' /\ t = currp'
         \/ prio'[t] = RealPrio[t]
         \/ \E u \in Blocked(t)' : prio[u] = prio'[t]
  BY <1>1, <1>3, <1>4 DEF Exact
<1>6. /\ prio' \in [All -> Nat] /\ \A u \in All : u # t => prio'[u] = prio[u]
      /\ unlocking' \in BOOLEAN
      /\ Dispatch(currp', ready', state', prio')
      /\ \A u \in All : u # None => SameOrRuns(state, state', u)
  BY <1>1, <1>3 DEF TypeOK, SameOrRuns
<1>7. KernelInv' /\ L!Release(t, {m})
  BY <1>1, <1>2, <1>3, <1>5, <1>6, GivenInv
<1>8. QED
  BY <1>7 DEF m

(* chMtxUnlock with waiters.  The caller may drop below threads that are   *)
(* ready, but then it had its priority from the heir, who is above them.   *)
LEMMA UnlockHandOverKeeps ==
  ASSUME KernelInv, ~unlocking, NEW t \in Threads, UnlockHandOver(t)
  PROVE  KernelInv' /\ L!Release(t, {Head(held[t])})
<1> DEFINE m == Head(held[t])
           heir == Head(queue[m])
           i == Inherited(Tail(held[t]), RealPrio[t])
           X == {x \in Mutexes : owner[x] = t} \ {m}
<1>1. /\ t = currp /\ held[t] # <<>> /\ queue[m] # <<>>
      /\ prio' = [prio EXCEPT ![t] = i]
      /\ queue' = [queue EXCEPT ![m] = Tail(@)]
      /\ owner' = [owner EXCEPT ![m] = heir]
      /\ held' = [held EXCEPT ![t] = Tail(@), ![heir] = <<m>> \o @]
      /\ wtobjp' = [wtobjp EXCEPT ![heir] = None]
      /\ Wakeup(heir, prio')
      /\ unlocking' = unlocking
  BY DEF UnlockHandOver
<1>2. m \in Mutexes /\ owner[m] = t /\ Stack(Tail(held[t]), X)
  BY <1>1, TopOfStack
<1> HIDE DEF m
<1>3. heir \in Threads
  BY <1>1, <1>2, FirstWaiter
<1> HIDE DEF heir
<1>4. None \notin Threads /\ None \notin Mutexes
  BY MutexAssumption DEF All
<1>5. Given(t, m, heir)
  BY <1>1, <1>3, <1>4 DEF Given, m, heir
<1>6. /\ i \in Nat /\ RealPrio[t] <= i /\ i <= prio[t]
      /\ \A u \in Threads : wtobjp[u] \in X => prio[u] <= i
      /\ \/ i = RealPrio[t]
         \/ \E u \in Threads : wtobjp[u] \in X /\ prio[u] = i
  BY <1>2, InheritedIsExact
<1> HIDE DEF i
<1>7. /\ TypeOK /\ Dispatch(currp, ready, state, prio) /\ t \in All /\ heir \in All
      /\ heir # t /\ wtobjp[heir] = m /\ state[heir] = "WTMTX"
  <2>1. heir # t /\ wtobjp[heir] = m
    BY <1>1, <1>3, <1>5, GivenFacts
  <2>2. state[heir] = "WTMTX"
    BY <1>2, <1>3, <1>4, <2>1 DEF KernelInv, Waits
  <2> QED BY <1>3, <2>1, <2>2 DEF KernelInv, All
<1>8. /\ prio' \in [All -> Nat] /\ prio'[t] = i
      /\ \A u \in All : u # t => prio'[u] = prio[u]
  BY <1>1, <1>6, <1>7 DEF TypeOK
<1>9. /\ Dispatch(currp', ready', state', prio')
      /\ Runs(state', heir)
      /\ \A u \in All : u # heir => SameOrRuns(state, state', u)
  <2>1. ReadyIn(state) \subseteq All /\ t \notin ReadyIn(state)
    BY <1>1, <1>7 DEF ReadyIn, Dispatch
  <2>2. Line(ready, ReadyIn(state), prio)
    BY <1>7 DEF Dispatch, ReadyIn
  <2>3. Line(ready, ReadyIn(state), prio')
    BY <1>8, <2>1, <2>2, SamePriorities
  <2>4. ASSUME NEW u \in ReadyIn(state)
        PROVE  prio'[u] <= prio'[currp] \/ prio'[u] <= prio'[heir]
    <3>1. /\ u \in All /\ u # t /\ prio[u] <= prio[t] /\ prio'[u] = prio[u]
          /\ prio[u] \in Nat /\ prio[t] \in Nat /\ prio[heir] \in Nat
          /\ prio'[currp] = i /\ prio'[heir] = prio[heir]
      BY <1>1, <1>7, <1>8, <2>1, <2>4 DEF Dispatch, ReadyIn, TypeOK
    <3>2. CASE i = prio[t]
      BY <3>1, <3>2
    <3>3. CASE prio[t] = RealPrio[t]
      BY <1>6, <3>1, <3>3
    <3>4. CASE i # prio[t] /\ \E w \in Blocked(t) : prio[w] = prio[t]
      <4>1. PICK w \in Blocked(t) : prio[w] = prio[t]
        BY <3>4
      <4>2. w \in Threads /\ wtobjp[w] \in Mutexes /\ owner[wtobjp[w]] = t
        BY <1>7 DEF Blocked, TypeOK
      <4>3. wtobjp[w] \notin X
        BY <1>6, <3>1, <3>4, <4>1, <4>2
      <4>4. wtobjp[w] = m
        BY <4>2, <4>3
      <4>5. prio[w] <= prio[heir]
        BY <1>1, <1>5, <4>2, <4>4, GivenFacts
      <4> QED BY <3>1, <4>1, <4>5
    <3> QED BY <3>2, <3>3, <3>4 DEF KernelInv, Exact
  <2>5. ~ Runs(state, heir) /\ Running(state) /\ currp \in All /\ state \in [All -> States]
    BY <1>7 DEF Runs, Running, Dispatch
  <2>6. QED
    BY <1>1, <1>7, <1>8, <2>3, <2>4, <2>5, WakeupDispatches
<1>10. \A u \in Threads : u \in Blocked(t)' <=> wtobjp[u] \in X
  <2>1. Blocked(t)' = {w \in Threads : w \in Blocked(t) /\ wtobjp[w] # m}
    BY <1>1, <1>5, <1>7, GivenBelow
  <2> QED BY <1>4, <1>7, <2>1 DEF Blocked, TypeOK
<1>11. /\ RealPrio[t] <= prio'[t]
       /\ \A u \in Blocked(t)' : prio[u] <= prio'[t]
       /\ \/ prio'[t] = RealPrio[t]
          \/ \E u \in Blocked(t)' : prio[u] = prio'[t]
  <2>1. Blocked(t)' \subseteq Threads
    BY DEF Blocked
  <2> QED BY <1>6, <1>8, <1>10, <2>1
<1>12. unlocking' \in BOOLEAN
  BY <1>1, <1>7 DEF TypeOK
<1>13. KernelInv' /\ L!Release(t, {m})
  BY <1>1, <1>5, <1>8, <1>9, <1>11, <1>12, GivenInv
<1>14. QED
  BY <1>13 DEF m

(* A turn of chMtxUnlockAll with waiters: the caller still has the         *)
(* priority of all of them.                                                *)
LEMMA UnlockAllNextKeeps ==
  ASSUME KernelInv, unlocking, NEW t \in Threads, UnlockAllNext(t)
  PROVE  KernelInv' /\ L!Release(t, {Head(held[t])})
<1> DEFINE m == Head(held[t])
           heir == Head(queue[m])
<1>1. CASE queue[m] = <<>>
  <2>1. UnlockFree(t)
    BY <1>1 DEF UnlockAllNext, UnlockFree
  <2> QED BY <2>1, UnlockFreeKeeps
<1>2. CASE queue[m] # <<>>
  <2>1. /\ t = currp /\ held[t] # <<>>
        /\ queue' = [queue EXCEPT ![m] = Tail(@)]
        /\ owner' = [owner EXCEPT ![m] = heir]
        /\ held' = [held EXCEPT ![t] = Tail(@), ![heir] = <<m>> \o @]
        /\ wtobjp' = [wtobjp EXCEPT ![heir] = None]
        /\ ready' = Behind(ready, heir, prio)
        /\ state' = [state EXCEPT ![heir] = "READY"]
        /\ UNCHANGED <<prio, currp, unlocking>>
    BY <1>2 DEF UnlockAllNext
  <2>2. m \in Mutexes /\ owner[m] = t
    BY <2>1, TopOfStack
  <2> HIDE DEF m
  <2>3. heir \in Threads
    BY <1>2, <2>2, FirstWaiter
  <2> HIDE DEF heir
  <2>4. None \notin Threads /\ None \notin Mutexes
    BY MutexAssumption DEF All
  <2>5. Given(t, m, heir)
    BY <1>2, <2>1, <2>3, <2>4 DEF Given, m, heir
  <2>6. /\ heir # t /\ wtobjp[heir] = m /\ state[heir] = "WTMTX"
        /\ TypeOK /\ Dispatch(currp, ready, state, prio) /\ t \in All /\ heir \in All
    <3>1. heir # t /\ wtobjp[heir] = m
      BY <2>1, <2>3, <2>5, GivenFacts
    <3>2. state[heir] = "WTMTX"
      BY <2>2, <2>3, <2>4, <3>1 DEF KernelInv, Waits
    <3> QED BY <2>3, <3>1, <3>2 DEF KernelInv, All
  <2>7. prio[heir] <= prio[t]
    <3>1. heir \in Blocked(t)
      BY <2>2, <2>3, <2>4, <2>6 DEF Blocked
    <3> QED BY <3>1 DEF KernelInv, Exact
  <2>8. /\ Dispatch(currp', ready', state', prio')
        /\ Runs(state', heir)
        /\ \A u \in All : u # heir => SameOrRuns(state, state', u)
    <3>1. /\ state' \in [All -> States]
          /\ \A u \in All : state'[u] = IF u = heir THEN "READY" ELSE state[u]
      BY <2>1, <2>6 DEF Dispatch, States
    <3>2. {u \in All : state'[u] = "READY"} = {u \in All : state[u] = "READY"} \cup {heir}
      BY <2>6, <3>1
    <3>3. Line(ready', {u \in All : state'[u] = "READY"}, prio)
      <4>1. /\ Line(ready, {u \in All : state[u] = "READY"}, prio)
            /\ heir \notin {u \in All : state[u] = "READY"}
            /\ prio \in [All -> Nat]
        BY <2>6 DEF Dispatch, TypeOK
      <4> DEFINE R == {u \in All : state[u] = "READY"}
      <4> HIDE DEF R
      <4>2. Line(Behind(ready, heir, prio), R \cup {heir}, prio)
        BY <2>6, <4>1, JoinBehind DEF R
      <4> QED BY <2>1, <3>2, <4>2 DEF R
    <3> QED BY <2>1, <2>6, <2>7, <3>1, <3>3 DEF Dispatch, Runs, SameOrRuns
  <2>9. \A u \in Blocked(t)' : prio[u] <= prio'[t]
    <3>1. Blocked(t)' \subseteq Blocked(t)
      BY <2>1, <2>5, <2>6, GivenBelow
    <3> QED BY <2>1, <3>1 DEF KernelInv, Exact
  <2>10. /\ RealPrio[t] <= prio'[t] /\ unlocking' /\ t = currp' /\ unlocking' \in BOOLEAN
         /\ prio' \in [All -> Nat] /\ \A u \in All : u # t => prio'[u] = prio[u]
    BY <2>1, <2>6 DEF KernelInv, Exact, TypeOK
  <2>11. KernelInv' /\ L!Release(t, {m})
    BY <2>1, <2>5, <2>8, <2>9, <2>10, GivenInv
  <2> QED BY <2>11 DEF m
<1>3. QED
  BY <1>1, <1>2

(* A call that touches no mutex, queue or stack.                           *)
LEMMA MovesKeep ==
  ASSUME KernelInv, UNCHANGED <<owner, queue, held, wtobjp>>,
         prio' \in [All -> Nat],
         \A u \in Threads : wtobjp[u] # None => prio'[u] = prio[u],
         unlocking' \in BOOLEAN,
         Dispatch(currp', ready', state', prio'), Runs(state', Idle),
         \A u \in Threads : state'[u] = "WTMTX" <=> state[u] = "WTMTX",
         Exact'
  PROVE  KernelInv'
<1> USE DEF KernelInv
<1>1. Queues'
  <2> SUFFICES ASSUME NEW m \in Mutexes
               PROVE  Line(queue[m], {u \in Threads : wtobjp[u] = m}, prio')
    BY DEF Queues
  <2>1. Line(queue[m], {u \in Threads : wtobjp[u] = m}, prio)
    BY DEF Queues
  <2>2. \A u \in {v \in Threads : wtobjp[v] = m} : prio'[u] = prio[u]
    BY MutexAssumption
  <2> QED BY <2>1, <2>2, SamePriorities
<1>2. Stacks' /\ Waits' /\ Ascending'
  BY DEF Stacks, Waits, Ascending
<1>3. TypeOK'
  BY DEF TypeOK, Dispatch, Line
<1>4. QED
  BY <1>1, <1>2, <1>3

(* chMtxUnlockAll takes the kernel lock.                                   *)
LEMMA BeginsKeeps ==
  ASSUME KernelInv, NEW t \in Threads, UnlockAllBegins(t)
  PROVE  KernelInv'
<1>1. /\ UNCHANGED <<owner, queue, held, wtobjp, prio, state, ready, currp>>
      /\ unlocking'
  BY DEF UnlockAllBegins
<1>2. Exact'
  <2>1. \A u \in Threads : Blocked(u)' = Blocked(u)
    BY <1>1 DEF Blocked
  <2> QED BY <1>1, <2>1 DEF KernelInv, Exact, UnlockAllBegins
<1>3. unlocking' \in BOOLEAN
  BY DEF UnlockAllBegins
<1>4. QED
  BY <1>1, <1>2, <1>3, MovesKeep DEF KernelInv, TypeOK

(* A change of thread alone.                                               *)
LEMMA ChangeOfThreadKeeps ==
  ASSUME KernelInv, ~unlocking,
         UNCHANGED <<owner, queue, held, wtobjp, prio, unlocking>>,
         Dispatch(currp', ready', state', prio), Runs(state', Idle),
         \A u \in Threads : state'[u] = "WTMTX" <=> state[u] = "WTMTX"
  PROVE  KernelInv'
<1>1. Exact'
  <2>1. \A u \in Threads : Blocked(u)' = Blocked(u)
    BY DEF Blocked
  <2> QED BY <2>1 DEF KernelInv, Exact
<1>2. QED
  BY <1>1, MovesKeep DEF KernelInv, TypeOK

(* chThdSleep.                                                             *)
LEMMA SleepKeeps ==
  ASSUME KernelInv, ~unlocking, NEW t \in Threads, Sleep(t)
  PROVE  KernelInv'
<1>1. /\ t = currp /\ GoSleep("SLEEPING", ready)
      /\ UNCHANGED <<owner, queue, held, wtobjp, prio, unlocking>>
  BY DEF Sleep
<1>2. /\ TypeOK /\ Dispatch(currp, ready, state, prio) /\ state[Idle] = "READY"
      /\ state[t] = "CURRENT" /\ Threads \subseteq All /\ Idle \in All /\ Idle # t
  BY <1>1, CurrentThread, MutexAssumption DEF KernelInv, All
<1>3. /\ currp \in All /\ state \in [All -> States] /\ prio \in [All -> Nat]
      /\ Running(state) /\ Line(ready, ReadyIn(state), prio)
  BY <1>2 DEF TypeOK, Dispatch, Running, ReadyIn
<1>4. /\ Dispatch(currp', ready', state', prio)
      /\ state'[currp] = "SLEEPING"
      /\ \A u \in All : u # currp => SameOrRuns(state, state', u)
  BY <1>1, <1>2, <1>3, GoSleepDispatches
<1>5. Runs(state', Idle) /\ \A u \in Threads : state'[u] = "WTMTX" <=> state[u] = "WTMTX"
  BY <1>1, <1>2, <1>4 DEF SameOrRuns, Runs
<1>6. QED
  BY <1>1, <1>4, <1>5, ChangeOfThreadKeeps

(* The end of an interrupt.                                                *)
LEMMA EpilogueKeeps ==
  ASSUME KernelInv, ~unlocking, NEW q, NEW st \in [All -> States],
         UNCHANGED <<owner, queue, held, wtobjp, prio, unlocking>>,
         Running(st), Runs(st, Idle), Line(q, ReadyIn(st), prio),
         \A u \in Threads : st[u] = "WTMTX" <=> state[u] = "WTMTX",
         Epilogue(q, st)
  PROVE  KernelInv'
<1>1. currp \in All /\ prio \in [All -> Nat] /\ Threads \subseteq All /\ Idle \in All
  BY DEF KernelInv, TypeOK, All
<1>2. /\ Dispatch(currp', ready', state', prio)
      /\ \A u \in All : SameOrRuns(st, state', u)
  BY <1>1, EpilogueDispatches
<1>3. Runs(state', Idle) /\ \A u \in Threads : state'[u] = "WTMTX" <=> state[u] = "WTMTX"
  BY <1>1, <1>2 DEF SameOrRuns, Runs
<1>4. QED
  BY <1>2, <1>3, ChangeOfThreadKeeps

(* A timer ends a sleep.                                                   *)
LEMMA WakeUpKeeps ==
  ASSUME KernelInv, ~unlocking, NEW t \in Threads, WakeUp(t)
  PROVE  KernelInv'
<1> DEFINE st == [state EXCEPT ![t] = "READY"]
<1>1. /\ state[t] = "SLEEPING" /\ Epilogue(Behind(ready, t, prio), st)
      /\ UNCHANGED <<owner, queue, held, wtobjp, prio, unlocking>>
  BY DEF WakeUp
<1>2. /\ Dispatch(currp, ready, state, prio) /\ Runs(state, Idle)
      /\ prio \in [All -> Nat] /\ state \in [All -> States]
      /\ t \in All /\ Threads \subseteq All /\ Idle \in All
  BY DEF KernelInv, TypeOK, All
<1>3. /\ st \in [All -> States]
      /\ \A u \in All : st[u] = IF u = t THEN "READY" ELSE state[u]
  BY <1>2 DEF States
<1> HIDE DEF st
<1>4. /\ Running(st) /\ Runs(st, Idle)
      /\ \A u \in Threads : st[u] = "WTMTX" <=> state[u] = "WTMTX"
  BY <1>1, <1>2, <1>3 DEF Dispatch, Running, Runs
<1>5. Line(Behind(ready, t, prio), ReadyIn(st), prio)
  <2>1. ReadyIn(st) = ReadyIn(state) \cup {t}
    BY <1>2, <1>3 DEF ReadyIn
  <2>2. Line(ready, ReadyIn(state), prio) /\ t \notin ReadyIn(state)
    BY <1>1, <1>2 DEF Dispatch, ReadyIn
  <2> QED BY <1>2, <2>1, <2>2, JoinBehind
<1>6. QED
  BY <1>1, <1>3, <1>4, <1>5, EpilogueKeeps

(* A tick that ends no sleep.                                              *)
LEMMA SysTickKeeps ==
  ASSUME KernelInv, ~unlocking, SysTick
  PROVE  KernelInv'
<1>1. /\ Epilogue(ready, state)
      /\ UNCHANGED <<owner, queue, held, wtobjp, prio, unlocking>>
  BY DEF SysTick
<1>2. /\ state \in [All -> States] /\ Running(state) /\ Runs(state, Idle)
      /\ Line(ready, ReadyIn(state), prio)
  BY DEF KernelInv, Dispatch, Running, ReadyIn
<1>3. QED
  BY <1>1, <1>2, EpilogueKeeps

(* The end of chMtxUnlockAll: the caller blocks nobody, so its own         *)
(* priority is exact.                                                      *)
LEMMA EndsKeeps ==
  ASSUME KernelInv, NEW t \in Threads, UnlockAllEnds(t)
  PROVE  KernelInv'
<1>1. /\ t = currp /\ held[t] = <<>>
      /\ prio' = [prio EXCEPT ![t] = RealPrio[t]]
      /\ IF ready # <<>> /\ prio[Head(ready)] > RealPrio[t]
         THEN Switch(ready, Ahead(Tail(ready), t, prio'), state) ELSE Stay(ready, state)
      /\ unlocking' = FALSE
      /\ UNCHANGED <<owner, queue, held, wtobjp>>
  BY DEF UnlockAllEnds
<1>2. /\ TypeOK /\ Dispatch(currp, ready, state, prio) /\ Runs(state, Idle) /\ Exact
      /\ t \in All /\ Threads \subseteq All /\ Idle \in All
      /\ \A u \in All : prio[u] \in Nat /\ RealPrio[u] \in Nat
  BY MutexAssumption DEF KernelInv, All, TypeOK
<1>3. /\ prio' \in [All -> Nat]
      /\ \A u \in All : prio'[u] = IF u = t THEN RealPrio[t] ELSE prio[u]
  BY <1>1, <1>2 DEF TypeOK
<1>4. /\ ReadyIn(state) \subseteq All /\ t \notin ReadyIn(state)
      /\ Line(ready, ReadyIn(state), prio')
      /\ Running(state) /\ currp \in All /\ state \in [All -> States]
  <2>1. ReadyIn(state) \subseteq All /\ t \notin ReadyIn(state)
    BY <1>1, <1>2 DEF ReadyIn, Dispatch
  <2>2. Line(ready, ReadyIn(state), prio)
    BY <1>2 DEF ReadyIn, Dispatch
  <2>3. Line(ready, ReadyIn(state), prio')
    BY <1>3, <2>1, <2>2, SamePriorities
  <2> QED BY <1>2, <2>1, <2>3 DEF Dispatch, Running
<1>5. /\ Dispatch(currp', ready', state', prio')
      /\ \A u \in All : SameOrRuns(state, state', u)
  <2>1. ReadyIn(state) # {} =>
          /\ Head(ready) \in ReadyIn(state)
          /\ \A u \in ReadyIn(state) : prio'[u] <= prio'[Head(ready)]
          /\ Line(Tail(ready), ReadyIn(state) \ {Head(ready)}, prio')
    BY <1>3, <1>4, LeaveLine
  <2>2. ready = <<>> <=> ReadyIn(state) = {}
    BY <1>4, EmptyLine
  <2>3. CASE ready # <<>> /\ prio[Head(ready)] > RealPrio[t]
    <3>1. Switch(ready, Ahead(Tail(ready), t, prio'), state)
      BY <1>1, <2>3
    <3>2. prio'[currp] <= prio'[Head(ready)]
      BY <1>1, <1>2, <1>3, <1>4, <2>1, <2>2, <2>3
    <3>3. Line(Ahead(Tail(ready), t, prio'), (ReadyIn(state) \ {Head(ready)}) \cup {t}, prio')
      BY <1>2, <1>3, <1>4, <2>1, <2>2, <2>3, JoinAhead
    <3> QED BY <1>1, <1>3, <1>4, <2>3, <3>1, <3>2, <3>3, SwitchDispatches
  <2>4. CASE ~ (ready # <<>> /\ prio[Head(ready)] > RealPrio[t])
    <3>1. currp' = currp /\ ready' = ready /\ state' = state
      BY <1>1, <2>4 DEF Stay
    <3>2. ASSUME NEW u \in ReadyIn(state)
          PROVE  prio'[u] <= prio'[t]
      <4>1. Head(ready) \in All /\ prio'[u] <= prio'[Head(ready)] /\ Head(ready) # t
        BY <1>4, <2>1
      <4>2. prio'[Head(ready)] <= RealPrio[t] /\ u \in All
        BY <1>2, <1>3, <1>4, <2>2, <2>4, <4>1
      <4> QED BY <1>2, <1>3, <4>1, <4>2
    <3> QED BY <1>1, <1>4, <3>1, <3>2 DEF Dispatch, Running, ReadyIn, SameOrRuns
  <2> QED BY <2>3, <2>4
<1>6. Runs(state', Idle) /\ \A u \in Threads : state'[u] = "WTMTX" <=> state[u] = "WTMTX"
  BY <1>2, <1>5 DEF SameOrRuns, Runs
<1>7. \A u \in Threads : t \notin Blocked(u) /\ wtobjp[t] = None
  BY <1>1, CurrentThread
<1>8. Blocked(t) = {}
  <2>1. {m \in Mutexes : owner[m] = t} = {}
    BY <1>1 DEF KernelInv, Stacks, Stack, ToSet
  <2> QED BY <1>2, <2>1 DEF Blocked, TypeOK
<1>9. Exact'
  <2> SUFFICES ASSUME NEW u \in Threads
               PROVE  /\ RealPrio[u] <= prio'[u]
                      /\ \A w \in Blocked(u) : prio'[w] <= prio'[u]
                      /\ \/ prio'[u] = RealPrio[u]
                         \/ \E w \in Blocked(u) : prio'[w] = prio'[u]
    BY <1>1 DEF Exact, Blocked
  <2>1. CASE u = t
    BY <1>2, <1>3, <1>8, <2>1
  <2>2. CASE u # t
    <3>1. \A w \in Blocked(u) : w \in All /\ w # t
      BY <1>2, <1>7 DEF Blocked
    <3> QED BY <1>1, <1>2, <1>3, <2>2, <3>1 DEF Exact
  <2> QED BY <2>1, <2>2
<1>10. \A u \in Threads : wtobjp[u] # None => prio'[u] = prio[u]
  BY <1>2, <1>3, <1>7
<1>11. QED
  BY <1>1, <1>3, <1>5, <1>6, <1>9, <1>10, MovesKeep
-----------------------------------------------------------------------------
(* All threads asleep and all mutexes free.                                *)
LEMMA InitKernel == Init => KernelInv /\ L!Init
<1> SUFFICES ASSUME Init PROVE KernelInv /\ L!Init
  OBVIOUS
<1> USE DEF Init
<1>1. /\ Idle \in All /\ Threads \subseteq All /\ Idle \notin Threads
      /\ None \notin All /\ None \notin Mutexes /\ RealPrio \in [All -> Nat]
  BY MutexAssumption DEF All
<1>2. \A p : Line(<<>>, {}, p)
  BY DEF Line, SortedBy, IsInjective, ToSet
<1>3. Stack(<<>>, {})
  BY DEF Stack, IsInjective, ToSet
<1>4. TypeOK
  <2>1. state \in [All -> States] /\ currp \in All /\ unlocking \in BOOLEAN
    BY <1>1 DEF States
  <2>2. queue \in [Mutexes -> Seq(Threads)] /\ held \in [Threads -> Seq(Mutexes)]
    OBVIOUS
  <2>3. /\ owner \in [Mutexes -> Threads \cup {None}] /\ prio \in [All -> Nat]
        /\ ready \in Seq(All)
        /\ wtobjp \in [Threads -> Mutexes \cup {None}]
    BY <1>1
  <2> QED BY <2>1, <2>2, <2>3 DEF TypeOK
<1>5. Dispatch(currp, ready, state, prio) /\ Runs(state, Idle)
  <2>1. {t \in All : state[t] = "READY"} = {}
    BY <1>1
  <2>2. Line(ready, {t \in All : state[t] = "READY"}, prio)
    BY <1>2, <2>1
  <2>3. /\ \A t \in All : state[t] = "CURRENT" <=> t = currp
        /\ currp \in All /\ state \in [All -> States]
    BY <1>1, <1>4 DEF TypeOK
  <2> QED BY <1>1, <2>1, <2>2, <2>3 DEF Dispatch, Runs
<1>6. Queues
  <2>1. \A m \in Mutexes : queue[m] = <<>> /\ {t \in Threads : wtobjp[t] = m} = {}
    BY <1>1
  <2> QED BY <1>2, <2>1 DEF Queues
<1>7. Stacks
  <2>1. \A t \in Threads : held[t] = <<>> /\ {m \in Mutexes : owner[m] = t} = {}
    BY <1>1
  <2> QED BY <1>3, <2>1 DEF Stacks
<1>8. Waits /\ Ascending
  BY <1>1 DEF Waits, Ascending
<1>9. Exact
  BY <1>1 DEF Exact, Blocked
<1>10. L!Init
  BY DEF L!Init
<1>11. QED
  BY <1>4, <1>5, <1>6, <1>7, <1>8, <1>9, <1>10 DEF KernelInv

(* Every step keeps the invariant and is a step of Lock or none: to get,   *)
(* to wait and to release are the three calls, and everything else leaves  *)
(* owners and waits alone.                                                 *)
LEMMA StepKernel ==
  KernelInv /\ [Next]_vars => KernelInv' /\ [L!Next]_<<owner, wtobjp>>
<1> SUFFICES ASSUME KernelInv, [Next]_vars
             PROVE  KernelInv' /\ [L!Next]_<<owner, wtobjp>>
  OBVIOUS
<1>1. ASSUME NEW t \in Threads, NEW m \in Mutexes, ~unlocking, LockFree(t, m) \/ LockTaken(t, m)
      PROVE  KernelInv' /\ L!Next
  BY <1>1, LockFreeKeeps, LockTakenKeeps DEF L!Next
<1>2. ASSUME NEW t \in Threads, held[t] # <<>>, L!Release(t, {Head(held[t])})
      PROVE  L!Next
  <2>1. {Head(held[t])} \in SUBSET Mutexes
    BY <1>2, TopOfStack
  <2> QED BY <1>2, <2>1 DEF L!Next
<1>3. ASSUME NEW t \in Threads, ~unlocking, UnlockFree(t) \/ UnlockHandOver(t)
      PROVE  KernelInv' /\ L!Next
  <2>1. held[t] # <<>>
    BY <1>3 DEF UnlockFree, UnlockHandOver
  <2> QED BY <1>2, <1>3, <2>1, UnlockFreeKeeps, UnlockHandOverKeeps
<1>4. ASSUME NEW t \in Threads, unlocking, UnlockAllNext(t)
      PROVE  KernelInv' /\ L!Next
  <2>1. held[t] # <<>>
    BY <1>4 DEF UnlockAllNext
  <2> QED BY <1>2, <1>4, <2>1, UnlockAllNextKeeps
<1>5. ASSUME NEW t \in Threads, UnlockAllBegins(t) \/ UnlockAllEnds(t)
      PROVE  KernelInv' /\ UNCHANGED <<owner, wtobjp>>
  BY <1>5, BeginsKeeps, EndsKeeps DEF UnlockAllBegins, UnlockAllEnds
<1>6. ASSUME NEW t \in Threads, ~unlocking, Sleep(t) \/ WakeUp(t)
      PROVE  KernelInv' /\ UNCHANGED <<owner, wtobjp>>
  BY <1>6, SleepKeeps, WakeUpKeeps DEF Sleep, WakeUp
<1>7. ASSUME ~unlocking, SysTick
      PROVE  KernelInv' /\ UNCHANGED <<owner, wtobjp>>
  BY <1>7, SysTickKeeps DEF SysTick
<1>8. CASE UNCHANGED vars
  <2>1. \A t : Blocked(t)' = Blocked(t)
    BY <1>8 DEF vars, Blocked
  <2>2. TypeOK' /\ Queues' /\ Stacks' /\ Waits' /\ Ascending' /\ Exact'
    BY <1>8, <2>1 DEF vars, KernelInv, TypeOK, Queues, Stacks, Waits, Ascending, Exact
  <2>3. Dispatch(currp, ready, state, prio)' /\ Runs(state, Idle)'
    BY <1>8 DEF vars, KernelInv, Dispatch, Runs
  <2> QED BY <1>8, <2>2, <2>3 DEF vars, KernelInv
<1>9. QED
  BY <1>1, <1>3, <1>4, <1>5, <1>6, <1>7, <1>8 DEF Next

(* The invariant holds of every behaviour of the kernel's mutexes, for any *)
(* threads, priorities and mutexes.                                        *)
THEOREM KernelIsSafe == Spec => []KernelInv
<1>1. KernelInv /\ [Next]_vars => KernelInv'
  BY StepKernel
<1>2. QED
  BY <1>1, InitKernel, PTL DEF Spec

(* No call loses a thread or has it in two lists, though it may move two   *)
(* and re-enqueue a third (chmtx.c).                                       *)
THEOREM OnePlace == Spec => []OnePlaceEach
<1>1. KernelInv => OnePlaceEach
  <2> SUFFICES ASSUME KernelInv PROVE OnePlaceEach
    OBVIOUS
  <2> USE DEF KernelInv
  <2>1. \A t \in All : state[t] = "CURRENT" <=> currp = t
    BY DEF Dispatch
  <2>2. ToSet(ready) = {t \in All : state[t] = "READY"} /\ IsInjective(ready)
    BY DEF Dispatch, Line
  <2>3. ASSUME NEW m \in Mutexes
        PROVE  /\ ToSet(queue[m]) = {t \in Threads : state[t] = "WTMTX" /\ wtobjp[t] = m}
               /\ IsInjective(queue[m])
    <3>1. {t \in Threads : wtobjp[t] = m} = {t \in Threads : state[t] = "WTMTX" /\ wtobjp[t] = m}
      BY MutexAssumption DEF Waits
    <3> QED BY <3>1 DEF Queues, Line
  <2>4. \A t \in Threads : ToSet(held[t]) = {m \in Mutexes : owner[m] = t} /\ IsInjective(held[t])
    BY DEF Stacks, Stack
  <2> QED BY <2>1, <2>2, <2>3, <2>4 DEF OnePlaceEach
<1>2. QED
  BY <1>1, KernelIsSafe, PTL

(* Priority inheritance is exact and transitive: chMtxLockS boosts all it  *)
(* must and chMtxUnlock returns all that is no longer due.                 *)
THEOREM Exactness == Spec => []PriorityIsExact
<1>1. KernelInv => PriorityIsExact
  <2> SUFFICES ASSUME KernelInv, NEW t \in Threads
               PROVE  LET due == {RealPrio[t]} \cup {prio[u] : u \in Blocked(t)}
                      IN  IF unlocking /\ t = currp THEN Max(due) <= prio[t]
                                                    ELSE prio[t] = Max(due)
    BY DEF PriorityIsExact
  <2> DEFINE due == {RealPrio[t]} \cup {prio[u] : u \in Blocked(t)}
  <2>1. /\ \A u \in Blocked(t) : prio[u] \in Nat
        /\ RealPrio[t] \in Nat /\ prio[t] \in Nat
    BY MutexAssumption DEF KernelInv, TypeOK, Blocked, All
  <2>2. /\ RealPrio[t] <= prio[t] /\ \A u \in Blocked(t) : prio[u] <= prio[t]
        /\ \/ unlocking /\ t = currp
           \/ prio[t] = RealPrio[t]
           \/ \E u \in Blocked(t) : prio[u] = prio[t]
    BY DEF KernelInv, Exact
  <2>3. due \subseteq Nat /\ due # {} /\ \A n \in due : n <= prio[t]
    BY <2>1, <2>2
  <2>4. (unlocking /\ t = currp) \/ prio[t] \in due
    BY <2>2
  <2> HIDE DEF due
  <2>5. Max(due) \in due
    BY <2>1, <2>3, MaxExists
  <2>6. prio[t] \in due => Max(due) = prio[t]
    BY <2>3, MaxIs
  <2>7. IF unlocking /\ t = currp THEN Max(due) <= prio[t] ELSE prio[t] = Max(due)
    BY <2>3, <2>4, <2>5, <2>6
  <2> QED BY <2>7 DEF due
<1>2. QED
  BY <1>1, KernelIsSafe, PTL

(* Between two calls no ready thread is above the one that runs            *)
(* (chschd.c), though chSchWakeupS compares with one thread only.          *)
THEOREM HighestThreadRuns == Spec => []HighestRuns
<1>1. KernelInv => HighestRuns
  <2> SUFFICES ASSUME KernelInv PROVE HighestRuns
    OBVIOUS
  <2>1. Dispatch(currp, ready, state, prio)
    BY DEF KernelInv
  <2>2. Sorted(ready)
    BY <2>1 DEF Dispatch, Line, SortedBy, Sorted
  <2>3. \A i \in DOMAIN ready : ready[i] \in {t \in All : state[t] = "READY"}
    BY <2>1 DEF Dispatch, Line, ToSet
  <2> QED BY <2>1, <2>2, <2>3 DEF Dispatch, HighestRuns
<1>2. QED
  BY <1>1, KernelIsSafe, PTL

(* The mutexes of chmtx.c implement Lock: at most one owner, a waiter      *)
(* asleep until it is given the mutex, and given it by the owner with the  *)
(* highest priority first.                                                 *)
THEOREM Refinement == Spec => ImplementsLock
<1>1. QED
  BY InitKernel, StepKernel, KernelIsSafe, PTL DEF Spec, ImplementsLock, L!Spec
-----------------------------------------------------------------------------
(* The shell thread, the registry and the references on threads.           *)

(* The threads of the registry: the static ones, and every shell from its  *)
(* creation until REG_REMOVE.                                              *)
Registered ==
  Static \cup {b \in Blocks : at[b] # "none" /\ ~ (at["main"] = "free" /\ b = shelltp)}

RegistryRight == Range(registry) = Registered

(* At most one shell at a time, the one shelltp designates; only the main  *)
(* loop brings a count to zero, and the shell is then final.               *)
OneShell ==
  /\ \A b \in Blocks : at[b] # "none" => b = shelltp
  /\ \A b \in Blocks : at[b] \notin {"unlink", "free"}
  /\ shelltp # NoThread => (at[shelltp] = "none" <=> at["main"] = "clear")
  /\ at["main"] = "clear" => shelltp # NoThread
  /\ at["main"] \in Releasing =>
       shelltp # NoThread /\ released["main"] = shelltp /\ at[shelltp] = "final"

(* A walk stands at a registered thread, and releases another.             *)
WalksRight ==
  \A b \in Blocks :
    /\ at[b] = "walk" => cursor[b] # NoThread
    /\ cursor[b] # NoThread => at[b] \in {"walk", "decrement"} /\ cursor[b] \in Registered
    /\ at[b] = "decrement" => released[b] \in Registered /\ released[b] # cursor[b]

(* The references, counted at the only shell there can be.                 *)
CountsExact ==
  \A t \in Objects :
    refs[t] = Creator(t)
              + (IF shelltp # NoThread /\ cursor[shelltp] = t THEN 1 ELSE 0)
              + (IF shelltp # NoThread /\ at[shelltp] = "decrement" /\ released[shelltp] = t
                 THEN 1 ELSE 0)

ShellInv ==
  LifeTypeOK /\ RegistryRight /\ OneShell /\ WalksRight /\ CountsExact

(* The creator of a thread holds one reference or none.                    *)
LEMMA CreatorIs ==
  \A t : Creator(t) \in {0, 1} /\ Creator(t)' \in {0, 1}
BY DEF Creator

(* A thread with at most one reference has room for another.               *)
LEMMA OneMore ==
  ASSUME refs \in [Objects -> 0 .. 255], NEW x \in Objects \cup {NoThread},
         x \in Objects => refs[x] \in {0, 1},
         refs' = IF x = NoThread THEN refs ELSE [refs EXCEPT ![x] = refs[x] + 1]
  PROVE  /\ refs' \in [Objects -> 0 .. 255]
         /\ \A t \in Objects : refs'[t] = refs[t] + IF t = x THEN 1 ELSE 0
<1>1. \A t \in Objects : refs[t] \in Nat
  OBVIOUS
<1>2. CASE x = NoThread
  <2>1. \A t \in Objects : t # x
    BY <1>2, ShellLifeAssumption
  <2> QED BY <1>1, <1>2, <2>1
<1>3. CASE x # NoThread
  <2>1. x \in Objects /\ refs' = [refs EXCEPT ![x] = refs[x] + 1]
    BY <1>3
  <2>2. refs[x] + 1 \in 0 .. 255
    BY <2>1
  <2>3. refs' \in [Objects -> 0 .. 255]
    BY <2>1, <2>2
  <2>4. refs'[x] = refs[x] + 1 /\ \A t \in Objects : t # x => refs'[t] = refs[t]
    BY <2>1
  <2> QED BY <1>1, <2>3, <2>4
<1> QED BY <1>2, <1>3

(* What the shell's invariant says of the main loop's pointer.             *)
LEMMA ShellFacts ==
  ASSUME ShellInv
  PROVE  /\ \A b \in Blocks : at[b] # "none" => shelltp = b
         /\ \A b \in Blocks : cursor[b] # NoThread => shelltp = b
         /\ Registered \subseteq Objects
         /\ shelltp # NoThread => shelltp \in Blocks /\ shelltp \in Objects /\ shelltp \in Actors
         /\ "main" \in Actors /\ Blocks \subseteq Actors /\ Blocks \subseteq Objects
         /\ NoThread \notin Objects /\ "main" \notin Blocks
<1> USE ShellLifeAssumption DEF Objects, Actors
<1>1. \A b \in Blocks : at[b] # "none" => shelltp = b
  BY DEF ShellInv, OneShell
<1>2. \A b \in Blocks : cursor[b] # NoThread => shelltp = b
  BY <1>1 DEF ShellInv, WalksRight
<1>3. shelltp # NoThread => shelltp \in Blocks
  BY DEF ShellInv, LifeTypeOK
<1> QED BY <1>1, <1>2, <1>3 DEF Registered

(* Where a registered thread is in the registry.                           *)
LEMMA Placed ==
  ASSUME ShellInv, NEW t \in Registered
  PROVE  PlaceOf(t) \in DOMAIN registry /\ registry[PlaceOf(t)] = t
<1>1. \E i \in DOMAIN registry : registry[i] = t
  BY DEF ShellInv, RegistryRight, Range
<1> QED BY <1>1 DEF PlaceOf

(* The next thread of the registry is another registered one, if any.      *)
LEMMA NewerIs ==
  ASSUME ShellInv, NEW t \in Registered
  PROVE  /\ Newer(t) \in Registered \cup {NoThread}
         /\ Newer(t) # t
<1>1. /\ PlaceOf(t) \in 1 .. Len(registry) /\ registry[PlaceOf(t)] = t
      /\ Len(registry) \in Nat /\ DOMAIN registry = 1 .. Len(registry)
  BY Placed, LenProperties DEF ShellInv, LifeTypeOK
<1>2. CASE PlaceOf(t) < Len(registry)
  <2>1. /\ Newer(t) = registry[PlaceOf(t) + 1] /\ PlaceOf(t) + 1 \in DOMAIN registry
        /\ PlaceOf(t) + 1 # PlaceOf(t)
    BY <1>1, <1>2 DEF Newer
  <2>2. Newer(t) \in Registered
    BY <2>1 DEF ShellInv, RegistryRight, Range
  <2>3. Newer(t) # t
    BY <1>1, <2>1 DEF ShellInv, LifeTypeOK, IsInjective
  <2> QED BY <2>2, <2>3
<1>3. CASE ~ (PlaceOf(t) < Len(registry))
  <2>1. Newer(t) = NoThread
    BY <1>3 DEF Newer
  <2>2. t # NoThread
    BY ShellFacts
  <2> QED BY <2>1, <2>2
<1> QED BY <1>2, <1>3

(* The oldest thread is registered: the registry is never empty.           *)
LEMMA FirstIs ==
  ASSUME ShellInv
  PROVE  Head(registry) \in Registered
<1>1. Static # {}
  <2>1. Len(Statics) \in Nat /\ Statics # <<>> /\ DOMAIN Statics = 1 .. Len(Statics)
    BY ShellLifeAssumption, LenProperties
  <2>2. 1 \in DOMAIN Statics
    BY <2>1, ShellLifeAssumption, EmptySeq
  <2> QED BY <2>2 DEF Static, Range
<1>2. PICK i \in DOMAIN registry : TRUE
  BY <1>1 DEF ShellInv, RegistryRight, Registered, Range
<1>3. /\ Len(registry) \in Nat /\ DOMAIN registry = 1 .. Len(registry)
      /\ registry \in Seq(Objects)
  BY LenProperties DEF ShellInv, LifeTypeOK
<1>4. 1 \in DOMAIN registry /\ registry # <<>>
  BY <1>2, <1>3, EmptySeq
<1>5. Head(registry) = registry[1]
  BY <1>3, <1>4, HeadTailProperties
<1> QED BY <1>4, <1>5 DEF ShellInv, RegistryRight, Range

(* At the start the registry is that of the static threads.                *)
LEMMA InitShell == LifeInit => ShellInv
<1> SUFFICES ASSUME LifeInit PROVE ShellInv
  OBVIOUS
<1> USE DEF LifeInit
<1>1. LifeTypeOK
  <2>1. Statics \in Seq(Objects)
    BY ShellLifeAssumption, SeqMonotonic DEF Objects
  <2>2. /\ at \in [Actors -> MainPoints \cup ShellPoints \cup Releasing]
        /\ at["main"] \in MainPoints /\ \A b \in Blocks : at[b] \in ShellPoints
    BY ShellLifeAssumption DEF Actors, MainPoints, ShellPoints
  <2>3. refs \in [Objects -> 0 .. 255]
    OBVIOUS
  <2> QED BY <2>1, <2>2, <2>3, ShellLifeAssumption DEF LifeTypeOK
<1>2. at["main"] = "control" /\ \A b \in Blocks : at[b] = "none"
  BY ShellLifeAssumption DEF Actors
<1>3. RegistryRight
  BY <1>2 DEF RegistryRight, Registered, Static
<1>4. OneShell
  BY <1>2 DEF OneShell, Releasing
<1>5. WalksRight
  BY <1>2 DEF WalksRight
<1>6. CountsExact
  <2> SUFFICES ASSUME NEW t \in Objects
               PROVE  refs[t] = Creator(t)
    BY DEF CountsExact
  <2>1. t \in Static \/ t \in Blocks
    BY DEF Objects
  <2> QED BY <1>2, <2>1 DEF Creator
<1> QED BY <1>1, <1>3, <1>4, <1>5, <1>6 DEF ShellInv

(* The main loop passes control() or finds the shell alive.                *)
LEMMA QuietMainKeeps ==
  ASSUME ShellInv, Control \/ Alive
  PROVE  ShellInv'
<1> USE ShellLifeAssumption, ShellFacts
<1>1. /\ at["main"] \in {"control", "manage"}
      /\ \E to \in {"control", "manage"} : at' = [at EXCEPT !["main"] = to]
      /\ UNCHANGED <<shelltp, registry, refs, cursor, released>>
  BY DEF Control, Alive, Go
<1>2. /\ at'["main"] \in {"control", "manage"} /\ \A b \in Blocks : at'[b] = at[b]
      /\ at' \in [Actors -> MainPoints \cup ShellPoints \cup Releasing]
  BY <1>1 DEF ShellInv, LifeTypeOK, MainPoints
<1>3. Registered' = Registered
  BY <1>1, <1>2 DEF Registered
<1>4. LifeTypeOK'
  BY <1>1, <1>2 DEF ShellInv, LifeTypeOK, MainPoints
<1>5. RegistryRight'
  BY <1>1, <1>3 DEF ShellInv, RegistryRight
<1>6. OneShell'
  BY <1>1, <1>2 DEF ShellInv, OneShell, Releasing
<1>7. WalksRight'
  BY <1>1, <1>2, <1>3 DEF ShellInv, WalksRight
<1>8. CountsExact'
  <2>1. ASSUME NEW t \in Objects PROVE Creator(t)' = Creator(t)
    BY <1>1, <1>2 DEF Creator, Objects
  <2> QED BY <1>1, <1>2, <2>1, CreatorIs DEF ShellInv, CountsExact
<1> QED BY <1>4, <1>5, <1>6, <1>7, <1>8 DEF ShellInv

(* A new shell: no other is there, so none can be counted or walked to.    *)
LEMMA CreateKeeps ==
  ASSUME ShellInv, NEW b \in Blocks, Create(b)
  PROVE  ShellInv'
<1> USE ShellLifeAssumption, ShellFacts
<1>1. /\ at["main"] = "manage" /\ shelltp = NoThread /\ shelltp' = b
      /\ \A c \in Blocks : at[c] = "none" /\ cursor[c] = NoThread
      /\ UNCHANGED <<cursor, released>>
  BY DEF Create
<1>2. /\ at'["main"] = "control" /\ at'[b] = "prompt"
      /\ \A c \in Blocks : c # b => at'[c] = "none"
      /\ at' \in [Actors -> MainPoints \cup ShellPoints \cup Releasing]
  BY <1>1 DEF Create, ShellInv, LifeTypeOK, MainPoints, ShellPoints
<1>3. Registered = Static /\ Registered' = Static \cup {b} /\ b \notin Static
  BY <1>1, <1>2 DEF Registered
<1>4. /\ registry' \in Seq(Objects) /\ IsInjective(registry')
      /\ Range(registry') = Range(registry) \cup {b}
  <2>1. registry \in Seq(Objects) /\ IsInjective(registry) /\ Range(registry) = Static
    BY <1>3 DEF ShellInv, LifeTypeOK, RegistryRight
  <2>2. registry' = Append(registry, b) /\ b \in Objects /\ b \notin Range(registry)
    BY <1>3, <2>1 DEF Create
  <2> QED BY <2>1, <2>2, AppendedLine
<1>5. /\ refs' \in [Objects -> 0 .. 255] /\ refs'[b] = 1
      /\ \A t \in Objects : t # b => refs'[t] = refs[t]
  <2>1. refs' = [refs EXCEPT ![b] = 1] /\ b \in Objects
    BY DEF Create
  <2>2. refs \in [Objects -> 0 .. 255]
    BY DEF ShellInv, LifeTypeOK
  <2> QED BY <2>1, <2>2
<1>6. LifeTypeOK'
  BY <1>1, <1>2, <1>4, <1>5 DEF ShellInv, LifeTypeOK, MainPoints, ShellPoints
<1>7. RegistryRight'
  BY <1>3, <1>4 DEF ShellInv, RegistryRight
<1>8. OneShell'
  BY <1>1, <1>2 DEF OneShell, Releasing
<1>9. WalksRight'
  BY <1>1, <1>2 DEF WalksRight
<1>10. CountsExact'
  <2> SUFFICES ASSUME NEW t \in Objects PROVE refs'[t] = Creator(t)'
    BY <1>1, <1>2, CreatorIs DEF CountsExact
  <2>1. CASE t = b
    BY <1>1, <1>2, <1>5, <2>1 DEF Creator
  <2>2. CASE t # b
    <3>1. refs[t] = Creator(t)
      BY <1>1, CreatorIs DEF ShellInv, CountsExact
    <3>2. refs[t] \in Nat /\ Creator(t) = IF t \in Static THEN 1 ELSE 0
      BY <1>1, <3>1 DEF Creator, ShellInv, LifeTypeOK
    <3>3. Creator(t)' = IF t \in Static THEN 1 ELSE 0
      BY <1>1, <2>2 DEF Creator
    <3> QED BY <1>5, <2>2, <3>1, <3>2, <3>3
  <2> QED BY <2>1, <2>2
<1> QED BY <1>6, <1>7, <1>8, <1>9, <1>10 DEF ShellInv

(* The shell has terminated: its release begins.                           *)
LEMMA ReapKeeps ==
  ASSUME ShellInv, Reap
  PROVE  ShellInv'
<1> USE ShellLifeAssumption, ShellFacts
<1>1. /\ at["main"] = "manage" /\ shelltp # NoThread /\ at[shelltp] = "final"
      /\ UNCHANGED <<shelltp, registry, refs, cursor>>
  BY DEF Reap, Go
<1>2. /\ at'["main"] = "decrement" /\ \A b \in Blocks : at'[b] = at[b]
      /\ at' \in [Actors -> MainPoints \cup ShellPoints \cup Releasing]
  BY <1>1 DEF Reap, Go, ShellInv, LifeTypeOK, Releasing
<1>3. /\ released'["main"] = shelltp /\ \A b \in Blocks : released'[b] = released[b]
      /\ released' \in [Actors -> Objects \cup {NoThread}]
  BY <1>1 DEF Reap, ShellInv, LifeTypeOK
<1>4. Registered' = Registered
  BY <1>1, <1>2 DEF Registered
<1>5. LifeTypeOK'
  BY <1>1, <1>2, <1>3 DEF ShellInv, LifeTypeOK, Releasing
<1>6. RegistryRight'
  BY <1>1, <1>4 DEF ShellInv, RegistryRight
<1>7. OneShell'
  BY <1>1, <1>2, <1>3 DEF ShellInv, OneShell, Releasing
<1>8. WalksRight'
  BY <1>1, <1>2, <1>3, <1>4 DEF ShellInv, WalksRight
<1>9. CountsExact'
  <2>1. ASSUME NEW t \in Objects PROVE Creator(t)' = Creator(t)
    BY <1>1, <1>2 DEF Creator, Objects
  <2> QED BY <1>1, <1>2, <1>3, <2>1, CreatorIs DEF ShellInv, CountsExact
<1> QED BY <1>5, <1>6, <1>7, <1>8, <1>9 DEF ShellInv

(* shelltp = NULL: the shell is gone.                                      *)
LEMMA ClearKeeps ==
  ASSUME ShellInv, Clear
  PROVE  ShellInv'
<1> USE ShellLifeAssumption, ShellFacts
<1>1. /\ at["main"] = "clear" /\ shelltp # NoThread /\ at[shelltp] = "none"
      /\ shelltp' = NoThread /\ UNCHANGED <<registry, refs, cursor, released>>
  BY DEF Clear, Go, ShellInv, OneShell
<1>2. \A b \in Blocks : at[b] = "none" /\ cursor[b] = NoThread
  BY <1>1 DEF ShellInv, OneShell, WalksRight
<1>3. /\ at'["main"] = "control" /\ \A b \in Blocks : at'[b] = at[b]
      /\ at' \in [Actors -> MainPoints \cup ShellPoints \cup Releasing]
  BY <1>1 DEF Clear, Go, ShellInv, LifeTypeOK, MainPoints
<1>4. Registered' = Registered
  BY <1>2, <1>3 DEF Registered
<1>5. LifeTypeOK'
  BY <1>1, <1>3 DEF ShellInv, LifeTypeOK, MainPoints
<1>6. RegistryRight'
  BY <1>1, <1>4 DEF ShellInv, RegistryRight
<1>7. OneShell'
  BY <1>1, <1>2, <1>3 DEF OneShell, Releasing
<1>8. WalksRight'
  BY <1>1, <1>2, <1>3 DEF WalksRight
<1>9. CountsExact'
  <2> SUFFICES ASSUME NEW t \in Objects PROVE refs[t] = Creator(t)'
    BY <1>1, <1>2, <1>3, CreatorIs DEF CountsExact
  <2>1. Creator(t)' = Creator(t) /\ Creator(t) \in {0, 1}
    BY <1>1, <1>2, <1>3 DEF Creator, Objects
  <2>2. cursor[shelltp] # t
    BY <1>1, <1>2
  <2> QED BY <1>1, <2>1, <2>2, CreatorIs DEF ShellInv, CountsExact
<1> QED BY <1>5, <1>6, <1>7, <1>8, <1>9 DEF ShellInv

(* The main loop gives its reference up: it was the last, because a final  *)
(* shell walks no more, so the working area goes.                          *)
LEMMA LastReference ==
  ASSUME ShellInv, Decrement("main")
  PROVE  ShellInv'
<1> USE ShellLifeAssumption, ShellFacts
<1>1. /\ at["main"] = "decrement" /\ shelltp # NoThread /\ released["main"] = shelltp
      /\ at[shelltp] = "final" /\ UNCHANGED <<shelltp, registry, cursor, released>>
  BY DEF Decrement, ShellInv, OneShell, Releasing
<1>2. refs[shelltp] = 1
  <2>1. cursor[shelltp] = NoThread
    BY <1>1 DEF ShellInv, WalksRight
  <2>2. Creator(shelltp) = 1
    BY <1>1 DEF Creator
  <2> QED BY <1>1, <2>1, <2>2, CreatorIs DEF ShellInv, CountsExact
<1>3. /\ refs' \in [Objects -> 0 .. 255] /\ refs'[shelltp] = 0
      /\ \A t \in Objects : t # shelltp => refs'[t] = refs[t]
  <2>1. refs' = [refs EXCEPT ![shelltp] = refs[shelltp] - 1]
    BY <1>1 DEF Decrement
  <2>2. refs \in [Objects -> 0 .. 255] /\ shelltp \in Objects
    BY <1>1 DEF ShellInv, LifeTypeOK
  <2> QED BY <1>2, <2>1, <2>2
<1>4. /\ at'["main"] = "unlink" /\ \A b \in Blocks : at'[b] = at[b]
      /\ at' \in [Actors -> MainPoints \cup ShellPoints \cup Releasing]
  <2>1. at' = [at EXCEPT !["main"] = "unlink"]
    BY <1>1, <1>3 DEF Decrement
  <2> QED BY <1>1, <2>1 DEF ShellInv, LifeTypeOK, Releasing
<1>5. Registered' = Registered
  BY <1>1, <1>4 DEF Registered
<1>6. LifeTypeOK'
  BY <1>1, <1>3, <1>4 DEF ShellInv, LifeTypeOK, Releasing
<1>7. RegistryRight'
  BY <1>1, <1>5 DEF ShellInv, RegistryRight
<1>8. OneShell'
  BY <1>1, <1>4 DEF ShellInv, OneShell, Releasing
<1>9. WalksRight'
  BY <1>1, <1>4, <1>5 DEF ShellInv, WalksRight
<1>10. CountsExact'
  <2>1. cursor[shelltp] = NoThread
    BY <1>1 DEF ShellInv, WalksRight
  <2> SUFFICES ASSUME NEW t \in Objects PROVE refs'[t] = Creator(t)'
    BY <1>1, <1>4, <2>1, CreatorIs DEF CountsExact
  <2>2. CASE t = shelltp
    BY <1>1, <1>3, <1>4, <2>2 DEF Creator
  <2>3. CASE t # shelltp
    <3>1. refs[t] = Creator(t)
      BY <1>1, <2>1, CreatorIs DEF ShellInv, CountsExact
    <3>2. Creator(t)' = Creator(t)
      BY <1>1, <2>3 DEF Creator
    <3> QED BY <1>3, <2>3, <3>1, <3>2
  <2> QED BY <2>2, <2>3
<1> QED BY <1>6, <1>7, <1>8, <1>9, <1>10 DEF ShellInv

(* REG_REMOVE of the dead shell.                                           *)
LEMMA UnlinkKeeps ==
  ASSUME ShellInv, Unlink("main")
  PROVE  ShellInv'
<1> USE ShellLifeAssumption, ShellFacts
<1>1. /\ at["main"] = "unlink" /\ shelltp # NoThread /\ released["main"] = shelltp
      /\ at[shelltp] = "final" /\ UNCHANGED <<shelltp, refs, cursor, released>>
  BY DEF Unlink, Go, ShellInv, OneShell, Releasing
<1>2. /\ at'["main"] = "free" /\ \A b \in Blocks : at'[b] = at[b]
      /\ at' \in [Actors -> MainPoints \cup ShellPoints \cup Releasing]
  BY <1>1 DEF Unlink, Go, ShellInv, LifeTypeOK, Releasing
<1>3. shelltp \in Registered /\ Registered' = Registered \ {shelltp}
  BY <1>1, <1>2 DEF Registered
<1>4. \A b \in Blocks : cursor[b] = NoThread
  BY <1>1 DEF ShellInv, WalksRight
<1>5. /\ registry' \in Seq(Objects) /\ IsInjective(registry')
      /\ Range(registry') = Range(registry) \ {shelltp}
  <2>1. PlaceOf(shelltp) \in DOMAIN registry /\ registry[PlaceOf(shelltp)] = shelltp
    BY <1>3, Placed
  <2>2. registry \in Seq(Objects) /\ IsInjective(registry)
    BY DEF ShellInv, LifeTypeOK
  <2>3. registry' = RemoveAt(registry, PlaceOf(shelltp))
    BY <1>1 DEF Unlink
  <2> DEFINE i == PlaceOf(shelltp)
  <2> HIDE DEF i
  <2>4. i \in DOMAIN registry /\ registry[i] = shelltp /\ registry' = RemoveAt(registry, i)
    BY <2>1, <2>3 DEF i
  <2>5. /\ RemoveAt(registry, i) \in Seq(Objects) /\ IsInjective(RemoveAt(registry, i))
        /\ ToSet(RemoveAt(registry, i)) = ToSet(registry) \ {registry[i]}
    BY <2>2, <2>4, RemovedLine
  <2>6. \A q : ToSet(q) = Range(q)
    BY DEF ToSet, Range
  <2> QED BY <2>4, <2>5, <2>6
<1>6. LifeTypeOK'
  BY <1>1, <1>2, <1>5 DEF ShellInv, LifeTypeOK, Releasing
<1>7. RegistryRight'
  BY <1>3, <1>5 DEF ShellInv, RegistryRight
<1>8. OneShell'
  BY <1>1, <1>2 DEF ShellInv, OneShell, Releasing
<1>9. WalksRight'
  <2>1. \A b \in Blocks : at[b] \notin {"walk", "decrement"}
    BY <1>1 DEF ShellInv, OneShell
  <2> QED BY <1>1, <1>2, <1>4, <2>1 DEF WalksRight
<1>10. CountsExact'
  <2>1. ASSUME NEW t \in Objects PROVE Creator(t)' = Creator(t)
    BY <1>1, <1>2 DEF Creator, Objects
  <2> QED BY <1>1, <1>2, <2>1, CreatorIs DEF ShellInv, CountsExact
<1> QED BY <1>6, <1>7, <1>8, <1>9, <1>10 DEF ShellInv

(* chHeapFree of its working area.                                         *)
LEMMA FreeKeeps ==
  ASSUME ShellInv, Free("main")
  PROVE  ShellInv'
<1> USE ShellLifeAssumption, ShellFacts
<1>1. /\ at["main"] = "free" /\ shelltp # NoThread /\ released["main"] = shelltp
      /\ at[shelltp] = "final" /\ UNCHANGED <<shelltp, registry, refs, cursor, released>>
  BY DEF Free, ShellInv, OneShell, Releasing
<1>2. /\ at'["main"] = "clear" /\ at'[shelltp] = "none"
      /\ at' \in [Actors -> MainPoints \cup ShellPoints \cup Releasing]
  BY <1>1 DEF Free, Returned, ShellInv, LifeTypeOK, MainPoints, ShellPoints
<1>3. \A b \in Blocks : at'[b] = "none" /\ cursor[b] = NoThread
  <2>1. \A b \in Blocks : b # shelltp => at'[b] = at[b]
    BY <1>1 DEF Free, ShellInv, LifeTypeOK
  <2>2. \A b \in Blocks : cursor[b] = NoThread
    BY <1>1 DEF ShellInv, WalksRight
  <2> QED BY <1>2, <2>1, <2>2
<1>4. Registered' = Registered
  BY <1>1, <1>2, <1>3 DEF Registered
<1>5. LifeTypeOK'
  BY <1>1, <1>2, <1>3 DEF ShellInv, LifeTypeOK, MainPoints, ShellPoints
<1>6. RegistryRight'
  BY <1>1, <1>4 DEF ShellInv, RegistryRight
<1>7. OneShell'
  BY <1>1, <1>2, <1>3 DEF OneShell, Releasing
<1>8. WalksRight'
  BY <1>1, <1>3 DEF WalksRight
<1>9. CountsExact'
  <2>1. ASSUME NEW t \in Objects PROVE Creator(t)' = Creator(t)
    BY <1>1, <1>2, <1>3 DEF Creator, Objects
  <2>2. \A t \in Objects : refs[t] = Creator(t)
    BY <1>1, <1>3, CreatorIs DEF ShellInv, CountsExact
  <2> QED BY <1>1, <1>3, <2>1, <2>2, CreatorIs DEF CountsExact
<1> QED BY <1>5, <1>6, <1>7, <1>8, <1>9 DEF ShellInv

(* exit: the shell becomes final, still in the registry and counted.       *)
LEMMA ExitKeeps ==
  ASSUME ShellInv, NEW b \in Blocks, Exit(b)
  PROVE  ShellInv'
<1> USE ShellLifeAssumption, ShellFacts
<1>1. /\ at[b] = "prompt" /\ shelltp = b /\ at["main"] \notin Releasing \cup {"clear"}
      /\ UNCHANGED <<shelltp, registry, refs, cursor, released>>
  BY DEF Exit, Go, ShellInv, OneShell
<1>2. /\ at'[b] = "final" /\ at'["main"] = at["main"]
      /\ \A c \in Blocks : c # b => at'[c] = at[c]
      /\ at' \in [Actors -> MainPoints \cup ShellPoints \cup Releasing]
  BY <1>1 DEF Exit, Go, ShellInv, LifeTypeOK, ShellPoints
<1>3. Registered' = Registered
  BY <1>1, <1>2 DEF Registered
<1>4. LifeTypeOK'
  BY <1>1, <1>2 DEF ShellInv, LifeTypeOK, ShellPoints
<1>5. RegistryRight'
  BY <1>1, <1>3 DEF ShellInv, RegistryRight
<1>6. OneShell'
  BY <1>1, <1>2 DEF ShellInv, OneShell, Releasing
<1>7. WalksRight'
  BY <1>1, <1>2, <1>3 DEF ShellInv, WalksRight
<1>8. CountsExact'
  <2>1. ASSUME NEW t \in Objects PROVE Creator(t)' = Creator(t)
    BY <1>1, <1>2 DEF Creator, Objects
  <2> QED BY <1>1, <1>2, <2>1, CreatorIs DEF ShellInv, CountsExact
<1> QED BY <1>4, <1>5, <1>6, <1>7, <1>8 DEF ShellInv

(* chRegFirstThread: the oldest thread gets the walk's reference.          *)
LEMMA FirstThreadKeeps ==
  ASSUME ShellInv, NEW b \in Blocks, FirstThread(b)
  PROVE  ShellInv'
<1> USE ShellLifeAssumption, ShellFacts
<1> DEFINE h == Head(registry)
<1>1. /\ at[b] = "prompt" /\ shelltp = b /\ at["main"] \notin Releasing \cup {"clear"}
      /\ UNCHANGED <<shelltp, registry, released>> /\ cursor[b] = NoThread
  BY DEF FirstThread, Go, ShellInv, OneShell, WalksRight
<1>2. h \in Registered /\ h \in Objects /\ h # NoThread
  BY FirstIs
<1>3. /\ at'[b] = "walk" /\ at'["main"] = at["main"]
      /\ \A c \in Blocks : c # b => at'[c] = at[c]
      /\ at' \in [Actors -> MainPoints \cup ShellPoints \cup Releasing]
  BY <1>1 DEF FirstThread, Go, ShellInv, LifeTypeOK, ShellPoints
<1>4. /\ cursor'[b] = h /\ \A c \in Blocks : c # b => cursor'[c] = cursor[c]
      /\ cursor' \in [Blocks -> Objects \cup {NoThread}]
  BY <1>2 DEF FirstThread, ShellInv, LifeTypeOK
<1>5. \A t \in Objects : refs[t] = Creator(t)
  BY <1>1, CreatorIs DEF ShellInv, CountsExact
<1>6. /\ refs'[h] = Creator(h) + 1 /\ \A t \in Objects : t # h => refs'[t] = Creator(t)
      /\ refs' \in [Objects -> 0 .. 255]
  <2>1. refs \in [Objects -> 0 .. 255] /\ refs' = [refs EXCEPT ![h] = @ + 1]
    BY DEF FirstThread, ShellInv, LifeTypeOK
  <2> HIDE DEF h
  <2>2. \A t \in Objects : refs[t] \in {0, 1} /\ refs[t] = Creator(t)
    BY <1>5, CreatorIs
  <2>3. /\ refs' \in [Objects -> 0 .. 255]
        /\ \A t \in Objects : refs'[t] = refs[t] + IF t = h THEN 1 ELSE 0
    <3>1. refs' = IF h = NoThread THEN refs ELSE [refs EXCEPT ![h] = refs[h] + 1]
      BY <1>2, <2>1
    <3> QED BY <1>2, <2>1, <2>2, <3>1, OneMore
  <2> QED BY <1>2, <2>2, <2>3
<1> HIDE DEF h
<1>7. Registered' = Registered
  BY <1>1, <1>3 DEF Registered
<1>8. LifeTypeOK'
  BY <1>1, <1>3, <1>4, <1>6 DEF ShellInv, LifeTypeOK, ShellPoints
<1>9. RegistryRight'
  BY <1>1, <1>7 DEF ShellInv, RegistryRight
<1>10. OneShell'
  BY <1>1, <1>3 DEF ShellInv, OneShell, Releasing
<1>11. WalksRight'
  BY <1>1, <1>2, <1>3, <1>4, <1>7 DEF ShellInv, WalksRight
<1>12. CountsExact'
  <2>1. ASSUME NEW t \in Objects PROVE Creator(t)' = Creator(t)
    BY <1>1, <1>3 DEF Creator, Objects
  <2> QED BY <1>1, <1>2, <1>3, <1>4, <1>6, <2>1, CreatorIs DEF CountsExact
<1> QED BY <1>8, <1>9, <1>10, <1>11, <1>12 DEF ShellInv

(* chRegNextThread: the next thread gets a reference before the last is    *)
(* given up.                                                               *)
LEMMA NextThreadKeeps ==
  ASSUME ShellInv, NEW b \in Blocks, NextThread(b)
  PROVE  ShellInv'
<1> USE ShellLifeAssumption, ShellFacts
<1> DEFINE c == cursor[b]
           n == Newer(c)
<1>1. /\ at[b] = "walk" /\ shelltp = b /\ at["main"] \notin Releasing \cup {"clear"}
      /\ UNCHANGED <<shelltp, registry>> /\ c # NoThread /\ c \in Registered
  BY DEF NextThread, Go, ShellInv, OneShell, WalksRight
<1>2. n \in Registered \cup {NoThread} /\ n # c
  BY <1>1, NewerIs
<1>3. /\ at'[b] = "decrement" /\ at'["main"] = at["main"]
      /\ \A d \in Blocks : d # b => at'[d] = at[d]
      /\ at' \in [Actors -> MainPoints \cup ShellPoints \cup Releasing]
  BY <1>1 DEF NextThread, Go, ShellInv, LifeTypeOK, Releasing
<1>4. /\ cursor'[b] = n /\ \A d \in Blocks : d # b => cursor'[d] = cursor[d]
      /\ cursor' \in [Blocks -> Objects \cup {NoThread}]
  <2>1. n \in Objects \cup {NoThread}
    BY <1>2
  <2> HIDE DEF n
  <2>2. cursor' = [cursor EXCEPT ![b] = n]
    BY DEF NextThread, n
  <2> QED BY <2>1, <2>2 DEF ShellInv, LifeTypeOK
<1>5. /\ released'[b] = c /\ released'["main"] = released["main"]
      /\ \A d \in Blocks : d # b => released'[d] = released[d]
      /\ released' \in [Actors -> Objects \cup {NoThread}]
  <2>1. released' = [released EXCEPT ![b] = c] /\ c \in Objects \cup {NoThread}
    BY DEF NextThread, ShellInv, LifeTypeOK
  <2>2. released \in [Actors -> Objects \cup {NoThread}] /\ b \in Actors /\ "main" # b
    BY DEF ShellInv, LifeTypeOK
  <2> HIDE DEF c
  <2> QED BY <2>1, <2>2
<1>6. refs[c] = Creator(c) + 1 /\ \A t \in Objects : t # c => refs[t] = Creator(t)
  BY <1>1, CreatorIs DEF ShellInv, CountsExact
<1>7. refs' = IF n = NoThread THEN refs ELSE [refs EXCEPT ![n] = refs[n] + 1]
  BY DEF NextThread
<1>8. refs \in [Objects -> 0 .. 255] /\ c \in Objects
  BY <1>1 DEF ShellInv, LifeTypeOK
<1> HIDE DEF n, c
<1>9. /\ refs' \in [Objects -> 0 .. 255]
      /\ \A t \in Objects : refs'[t] = refs[t] + IF t = n THEN 1 ELSE 0
  <2>1. n \in Objects \cup {NoThread} /\ NoThread \notin Objects
    BY <1>2
  <2>2. n \in Objects => refs[n] \in {0, 1}
    BY <1>2, <1>6, CreatorIs
  <2> QED BY <1>7, <1>8, <2>1, <2>2, OneMore
<1>10. Registered' = Registered
  BY <1>1, <1>3 DEF Registered
<1>11. LifeTypeOK'
  BY <1>1, <1>3, <1>4, <1>5, <1>9 DEF ShellInv, LifeTypeOK, Releasing
<1>12. RegistryRight'
  BY <1>1, <1>10 DEF ShellInv, RegistryRight
<1>13. OneShell'
  BY <1>1, <1>3, <1>5 DEF ShellInv, OneShell, Releasing
<1>14. WalksRight'
  BY <1>1, <1>2, <1>3, <1>4, <1>5, <1>10 DEF ShellInv, WalksRight
<1>15. CountsExact'
  <2> SUFFICES ASSUME NEW t \in Objects
               PROVE  refs'[t] = Creator(t)' + (IF n = t THEN 1 ELSE 0)
                                             + (IF c = t THEN 1 ELSE 0)
    BY <1>1, <1>3, <1>4, <1>5, CreatorIs DEF CountsExact
  <2>1. Creator(t)' = Creator(t)
    BY <1>1, <1>3 DEF Creator, Objects
  <2>2. refs[t] = Creator(t) + IF c = t THEN 1 ELSE 0
    BY <1>6, CreatorIs
  <2>3. refs'[t] = refs[t] + IF t = n THEN 1 ELSE 0
    BY <1>9
  <2> QED BY <2>1, <2>2, <2>3, CreatorIs
<1> QED BY <1>11, <1>12, <1>13, <1>14, <1>15 DEF ShellInv

(* chThdRelease by a walk: the creator's reference stays, nothing is freed.*)
LEMMA WalkReleases ==
  ASSUME ShellInv, NEW b \in Blocks, Decrement(b)
  PROVE  ShellInv'
<1> USE ShellLifeAssumption, ShellFacts
<1> DEFINE r == released[b]
<1>1. /\ at[b] = "decrement" /\ shelltp = b /\ at["main"] \notin Releasing \cup {"clear"}
      /\ UNCHANGED <<shelltp, registry, cursor, released>>
      /\ r \in Registered /\ r # cursor[b]
  BY DEF Decrement, ShellInv, OneShell, WalksRight
<1>2. r \in Objects /\ refs[r] = 2
  <2>1. r \in Static \/ r = b
    BY <1>1 DEF Registered
  <2>2. Creator(r) = 1
    BY <1>1, <2>1 DEF Creator, Releasing
  <2>3. refs[r] = Creator(r) + 1
    BY <1>1, CreatorIs DEF ShellInv, CountsExact
  <2> QED BY <1>1, <2>2, <2>3
<1>3. /\ refs' \in [Objects -> 0 .. 255] /\ refs'[r] = 1
      /\ \A t \in Objects : t # r => refs'[t] = refs[t]
  BY <1>2 DEF Decrement, ShellInv, LifeTypeOK
<1>4. /\ at'[b] \in {"prompt", "walk"} /\ at'["main"] = at["main"]
      /\ at'[b] = "prompt" <=> cursor[b] = NoThread
      /\ \A d \in Blocks : d # b => at'[d] = at[d]
      /\ at' \in [Actors -> MainPoints \cup ShellPoints \cup Releasing]
  <2>1. at' = [at EXCEPT ![b] = IF cursor[b] = NoThread THEN "prompt" ELSE "walk"]
    BY <1>1, <1>3 DEF Decrement, Returned
  <2> QED BY <1>1, <2>1 DEF ShellInv, LifeTypeOK, ShellPoints
<1> HIDE DEF r
<1>5. Registered' = Registered
  BY <1>1, <1>4 DEF Registered
<1>6. LifeTypeOK'
  BY <1>1, <1>3, <1>4 DEF ShellInv, LifeTypeOK, ShellPoints
<1>7. RegistryRight'
  BY <1>1, <1>5 DEF ShellInv, RegistryRight
<1>8. OneShell'
  BY <1>1, <1>4 DEF ShellInv, OneShell, Releasing
<1>9. WalksRight'
  BY <1>1, <1>4, <1>5 DEF ShellInv, WalksRight
<1>10. CountsExact'
  <2> SUFFICES ASSUME NEW t \in Objects
               PROVE  refs'[t] = Creator(t)' + (IF cursor[b] = t THEN 1 ELSE 0)
    BY <1>1, <1>4, CreatorIs DEF CountsExact
  <2>1. Creator(t)' = Creator(t)
    BY <1>1, <1>4 DEF Creator, Objects
  <2>2. refs[t] = Creator(t) + (IF cursor[b] = t THEN 1 ELSE 0) + (IF r = t THEN 1 ELSE 0)
    BY <1>1, CreatorIs DEF ShellInv, CountsExact, r
  <2> QED BY <1>1, <1>2, <1>3, <2>1, <2>2, CreatorIs
<1> QED BY <1>6, <1>7, <1>8, <1>9, <1>10 DEF ShellInv

(* A shell never unlinks nor frees: only the main loop's release ends a    *)
(* working area.                                                           *)
LEMMA OnlyMainUnlinks ==
  ASSUME ShellInv, NEW b \in Blocks
  PROVE  ~ Unlink(b) /\ ~ Free(b)
BY DEF ShellInv, OneShell, Unlink, Free, Go

(* Every action keeps the invariant of the shell's life.                   *)
LEMMA LifeKeeps == ShellInv /\ [LifeNext]_lifeVars => ShellInv'
<1> SUFFICES ASSUME ShellInv, [LifeNext]_lifeVars
             PROVE  ShellInv'
  OBVIOUS
<1>1. CASE Control \/ Alive
  BY <1>1, QuietMainKeeps
<1>2. ASSUME NEW b \in Blocks, Create(b) PROVE ShellInv'
  BY <1>2, CreateKeeps
<1>3. CASE Reap
  BY <1>3, ReapKeeps
<1>4. CASE Clear
  BY <1>4, ClearKeeps
<1>5. CASE Release("main")
  BY <1>5, LastReference, UnlinkKeeps, FreeKeeps DEF Release
<1>6. ASSUME NEW b \in Blocks, Shell(b) PROVE ShellInv'
  <2>1. CASE FirstThread(b)
    BY <2>1, FirstThreadKeeps
  <2>2. CASE NextThread(b)
    BY <2>2, NextThreadKeeps
  <2>3. CASE Release(b)
    BY <2>3, WalkReleases, OnlyMainUnlinks DEF Release
  <2>4. CASE Exit(b)
    BY <2>4, ExitKeeps
  <2> QED BY <1>6, <2>1, <2>2, <2>3, <2>4 DEF Shell
<1>7. CASE UNCHANGED lifeVars
  <2>1. /\ at' = at /\ shelltp' = shelltp /\ registry' = registry /\ refs' = refs
        /\ cursor' = cursor /\ released' = released
    BY <1>7 DEF lifeVars
  <2>2. LifeTypeOK' /\ RegistryRight' /\ OneShell'
    BY <2>1 DEF ShellInv, LifeTypeOK, RegistryRight, Registered, OneShell
  <2>3. WalksRight'
    BY <2>1 DEF ShellInv, WalksRight, Registered
  <2>4. CountsExact'
    BY <2>1 DEF ShellInv, CountsExact, Creator
  <2> QED BY <2>2, <2>3, <2>4 DEF ShellInv
<1> QED BY <1>1, <1>2, <1>3, <1>4, <1>5, <1>6, <1>7 DEF LifeNext, MainLoop

(* The registry, the counts and the walks agree in every state.            *)
THEOREM ShellLifeIsSafe == LifeSpec => []ShellInv
<1>1. LifeInit => ShellInv
  BY InitShell
<1>2. ShellInv /\ [LifeNext]_lifeVars => ShellInv'
  BY LifeKeeps
<1> QED BY <1>1, <1>2, PTL DEF LifeSpec

(* The threads command stands at registered threads only.                  *)
THEOREM CursorsRegistered == LifeSpec => []CursorIsRegistered
<1>1. ShellInv => CursorIsRegistered
  BY DEF ShellInv, WalksRight, RegistryRight, CursorIsRegistered, Walking, Range
<1> QED BY <1>1, ShellLifeIsSafe, PTL

(* p_refs is exact: no reference is lost, none is kept.                    *)
THEOREM ReferencesExact == LifeSpec => []RefsAreExact
<1>1. ASSUME ShellInv PROVE RefsAreExact
  <2> SUFFICES ASSUME NEW t \in Objects
               PROVE  refs[t] = Creator(t) + Cardinality(At(t)) + Cardinality(Leaving(t))
    BY DEF RefsAreExact
  <2>1. t # NoThread
    BY ShellLifeAssumption
  <2>2. At(t) \subseteq {shelltp} /\ Leaving(t) \subseteq {shelltp}
    BY <1>1, <2>1, ShellFacts DEF At, Leaving
  <2>3. shelltp \in At(t) <=> shelltp # NoThread /\ cursor[shelltp] = t
    BY <1>1, ShellFacts, ShellLifeAssumption DEF At, Objects
  <2>4. shelltp \in Leaving(t) <=>
          shelltp # NoThread /\ at[shelltp] = "decrement" /\ released[shelltp] = t
    BY <1>1, ShellFacts, ShellLifeAssumption DEF Leaving, Objects
  <2>5. /\ Cardinality(At(t)) = IF shelltp \in At(t) THEN 1 ELSE 0
        /\ Cardinality(Leaving(t)) = IF shelltp \in Leaving(t) THEN 1 ELSE 0
    BY <2>2, CountOne
  <2> QED BY <1>1, <2>3, <2>4, <2>5 DEF ShellInv, CountsExact
<1>2. ShellInv => RefsAreExact
  BY <1>1
<1> QED BY <1>2, ShellLifeIsSafe, PTL

(* While REG_REMOVE runs unlocked nobody walks the registry.               *)
THEOREM NobodyWalksAlong == LifeSpec => []UnlinkedAlone
<1>1. ASSUME ShellInv PROVE UnlinkedAlone
  <2> SUFFICES ASSUME NEW a \in Actors, at[a] = "unlink", NEW b \in Blocks
               PROVE  ~ Walking(b)
    BY DEF UnlinkedAlone
  <2>1. a = "main"
    BY <1>1 DEF ShellInv, OneShell, Actors
  <2>2. at[shelltp] = "final"
    BY <1>1, <2>1 DEF ShellInv, OneShell, Releasing
  <2>3. cursor[b] # NoThread => shelltp = b /\ at[b] \in {"walk", "decrement"}
    BY <1>1, ShellFacts DEF ShellInv, WalksRight
  <2> QED BY <2>2, <2>3 DEF Walking
<1>2. ShellInv => UnlinkedAlone
  BY <1>1
<1> QED BY <1>2, ShellLifeIsSafe, PTL

(* The working area of the last shell is back before the next is asked for.*)
THEOREM HeapStaysWhole == LifeSpec => []HeapIsWhole
<1>1. ASSUME ShellInv PROVE HeapIsWhole
  BY <1>1, ShellLifeAssumption, ShellFacts DEF HeapIsWhole, Objects
<1>2. ShellInv => HeapIsWhole
  BY <1>1
<1> QED BY <1>2, ShellLifeIsSafe, PTL
=============================================================================
