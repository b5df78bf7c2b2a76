------------------------------ MODULE IOProofs ------------------------------
(***************************************************************************)
(* Machine-checked facts about input and output.  First the serial line,   *)
(* for any number of threads, any size of the queue and any timeouts: the  *)
(* list of timers on time, the output queue a first-in first-out buffer    *)
(* and nobody waiting beside a free place.  Then the memory card and the   *)
(* walk of its tree, for any cards, names, contents and depths.            *)
(***************************************************************************)
EXTENDS SerialOut, Card, ListFacts

(* The sums over the list exist: each prefix has one more than the last.   *)
LEMMA SumsExist ==
  ASSUME NEW list, NEW L \in Nat
  PROVE  \E sum : sum = [k \in 0 .. L |-> IF k = 0 THEN 0 ELSE sum[k - 1] + list[k].time]
<1> DEFINE Has(n) == \E sum : sum = [k \in 0 .. n |->
                                       IF k = 0 THEN 0 ELSE sum[k - 1] + list[k].time]
           Bad == {n \in Nat : ~ Has(n)}
<1> SUFFICES Bad = {}
  OBVIOUS
<1> SUFFICES ASSUME Bad # {} PROVE FALSE
  OBVIOUS
<1>1. PICK n \in Bad : \A k \in Bad : n <= k
  BY LeastNatural
<1>2. CASE n = 0
  <2> DEFINE sum == [k \in 0 .. 0 |-> 0]
  <2>1. sum = [k \in 0 .. 0 |-> IF k = 0 THEN 0 ELSE sum[k - 1] + list[k].time]
    OBVIOUS
  <2>2. Has(0)
    BY <2>1
  <2> QED BY <1>2, <2>2
<1>3. CASE n # 0
  <2>1. n - 1 \in Nat /\ ~ (n - 1 \in Bad)
    <3> HIDE DEF Has
    <3>1. n \in Nat /\ n - 1 \in Nat /\ ~ (n <= n - 1)
      BY <1>1, <1>3
    <3> QED BY <1>1, <3>1
  <2>2. PICK s : s = [k \in 0 .. n - 1 |-> IF k = 0 THEN 0 ELSE s[k - 1] + list[k].time]
    BY <2>1
  <2> DEFINE sum == [k \in 0 .. n |-> IF k = n THEN s[n - 1] + list[n].time ELSE s[k]]
  <2>3. \A k \in 0 .. n - 1 : s[k] = IF k = 0 THEN 0 ELSE s[k - 1] + list[k].time
    BY <2>2
  <2>4. ASSUME NEW k \in 0 .. n
        PROVE  sum[k] = IF k = 0 THEN 0 ELSE sum[k - 1] + list[k].time
    <3>1. CASE k = n
      BY <1>3, <2>1, <3>1
    <3>2. CASE k # n
      <4>1. k \in 0 .. n - 1 /\ sum[k] = s[k]
        BY <2>1, <3>2
      <4>2. k # 0 => k - 1 \in 0 .. n /\ sum[k - 1] = s[k - 1]
        BY <2>1, <4>1
      <4> QED BY <2>3, <4>1, <4>2
    <3> QED BY <3>1, <3>2
  <2>5. sum = [k \in 0 .. n |-> IF k = 0 THEN 0 ELSE sum[k - 1] + list[k].time]
    BY <2>4
  <2>6. Has(n)
    BY <2>5
  <2> QED BY <2>6
<1> QED BY <1>2, <1>3

(* The ticks to the first deadline are its timer's, to the next its own    *)
(* more.                                                                   *)
LEMMA RemainingIs ==
  ASSUME NEW list, Len(list) \in Nat
  PROVE  /\ Remaining(list, 0) = 0
         /\ \A i \in 1 .. Len(list) : Remaining(list, i) = Remaining(list, i - 1) + list[i].time
<1> DEFINE sum == CHOOSE sum : sum = [k \in 0 .. Len(list) |->
                                        IF k = 0 THEN 0 ELSE sum[k - 1] + list[k].time]
<1>1. sum = [k \in 0 .. Len(list) |-> IF k = 0 THEN 0 ELSE sum[k - 1] + list[k].time]
  BY SumsExist
<1>2. \A i : Remaining(list, i) = sum[i]
  BY DEF Remaining
<1> HIDE DEF sum
<1>3. \A k \in 0 .. Len(list) : sum[k] = IF k = 0 THEN 0 ELSE sum[k - 1] + list[k].time
  BY <1>1
<1> QED BY <1>2, <1>3

(* Whatever grows by the timers' ticks is the ticks to the deadlines.      *)
LEMMA SumsAre ==
  ASSUME NEW list, Len(list) \in Nat, NEW D, D[0] = 0,
         \A i \in 1 .. Len(list) : D[i] = D[i - 1] + list[i].time
  PROVE  \A i \in 0 .. Len(list) : Remaining(list, i) = D[i]
<1> DEFINE Bad == {i \in 0 .. Len(list) : Remaining(list, i) # D[i]}
<1> SUFFICES ASSUME Bad # {} PROVE FALSE
  OBVIOUS
<1>1. PICK n \in Bad : \A k \in Bad : n <= k
  <2>1. Bad \subseteq Nat
    OBVIOUS
  <2> QED BY <2>1, LeastNatural
<1>2. n # 0 /\ n \in 1 .. Len(list) /\ n - 1 \in 0 .. Len(list)
  BY <1>1, RemainingIs
<1>3. Remaining(list, n - 1) = D[n - 1]
  <2>1. n - 1 \notin Bad
    BY <1>1, <1>2
  <2> QED BY <1>2, <2>1
<1>4. Remaining(list, n) = D[n]
  <2>1. Remaining(list, n) = Remaining(list, n - 1) + list[n].time
    BY <1>2, RemainingIs
  <2> QED BY <1>2, <1>3, <2>1
<1> QED BY <1>1, <1>4

Timer == [of : Threads, time : Nat]

(* list has a timer for each of the threads armed, none twice, and d holds *)
(* the ticks to their deadlines.                                           *)
OnTime(list, armed, d) ==
  /\ list \in Seq(Timer)
  /\ armed = {list[i].of : i \in 1 .. Len(list)}
  /\ \A i, j \in 1 .. Len(list) : list[i].of = list[j].of => i = j
  /\ \A i \in 1 .. Len(list) : Remaining(list, i) = d[list[i].of]

(* The steps between the deadlines are what the timers hold.               *)
LEMMA OnTimeSteps ==
  ASSUME NEW list, NEW armed, NEW d \in [Threads -> Nat], OnTime(list, armed, d)
  PROVE  /\ Len(list) \in Nat /\ DOMAIN list = 1 .. Len(list)
         /\ armed \subseteq Threads
         /\ \A i \in 1 .. Len(list) :
              /\ list[i] \in Timer /\ list[i].of \in armed /\ list[i].of \in Threads
              /\ list[i].time \in Nat /\ d[list[i].of] \in Nat
         /\ list # <<>> => Len(list) >= 1 /\ Head(list) = list[1]
                           /\ list[1].time = d[list[1].of]
         /\ \A i \in 2 .. Len(list) : d[list[i].of] = d[list[i - 1].of] + list[i].time
<1>1. /\ Len(list) \in Nat /\ DOMAIN list = 1 .. Len(list)
      /\ \A i \in 1 .. Len(list) : list[i] \in Timer
  BY LenProperties, ElementOfSeq DEF OnTime
<1>2. \A i \in 1 .. Len(list) :
        /\ list[i].of \in armed /\ list[i].of \in Threads
        /\ list[i].time \in Nat /\ d[list[i].of] \in Nat
  BY <1>1 DEF OnTime, Timer
<1>3. armed \subseteq Threads
  BY <1>2 DEF OnTime
<1>4. ASSUME list # <<>>
      PROVE  Len(list) >= 1 /\ Head(list) = list[1] /\ list[1].time = d[list[1].of]
  <2>1. Len(list) >= 1 /\ Head(list) = list[1]
    BY <1>1, <1>4, EmptySeq, HeadTailProperties DEF OnTime
  <2>2. Remaining(list, 1) = Remaining(list, 0) + list[1].time /\ Remaining(list, 0) = 0
    BY <1>1, <2>1, RemainingIs
  <2> QED BY <1>1, <1>2, <2>1, <2>2 DEF OnTime
<1>5. ASSUME NEW i \in 2 .. Len(list)
      PROVE  d[list[i].of] = d[list[i - 1].of] + list[i].time
  <2>1. i \in 1 .. Len(list) /\ i - 1 \in 1 .. Len(list)
    BY <1>1
  <2>2. Remaining(list, i) = Remaining(list, i - 1) + list[i].time
    BY <1>1, <2>1, RemainingIs
  <2> QED BY <2>1, <2>2 DEF OnTime
<1> QED BY <1>1, <1>2, <1>3, <1>4, <1>5

(* The other way round: timers that hold the steps are on time.            *)
LEMMA StepsOnTime ==
  ASSUME NEW list \in Seq(Timer), NEW d \in [Threads -> Nat],
         \A i, j \in 1 .. Len(list) : list[i].of = list[j].of => i = j,
         Len(list) >= 1 => list[1].time = d[list[1].of],
         \A i \in 2 .. Len(list) : d[list[i].of] = d[list[i - 1].of] + list[i].time
  PROVE  OnTime(list, {list[i].of : i \in 1 .. Len(list)}, d)
<1> DEFINE D == [i \in 0 .. Len(list) |-> IF i = 0 THEN 0 ELSE d[list[i].of]]
<1>1. /\ Len(list) \in Nat
      /\ \A i \in 1 .. Len(list) : list[i].time \in Nat /\ d[list[i].of] \in Nat
  <2>1. Len(list) \in Nat /\ \A i \in 1 .. Len(list) : list[i] \in Timer
    BY LenProperties, ElementOfSeq
  <2> QED BY <2>1 DEF Timer
<1>2. D[0] = 0
  BY <1>1
<1>3. ASSUME NEW i \in 1 .. Len(list) PROVE D[i] = D[i - 1] + list[i].time
  <2>1. CASE i = 1
    BY <1>1, <2>1
  <2>2. CASE i # 1
    <3>1. i \in 2 .. Len(list) /\ i - 1 \in 0 .. Len(list) /\ i - 1 # 0 /\ i \in 0 .. Len(list) /\ i # 0
      BY <1>1, <2>2
    <3> QED BY <3>1
  <2> QED BY <2>1, <2>2
<1>4. \A i \in 0 .. Len(list) : Remaining(list, i) = D[i]
  <2> HIDE DEF D
  <2> QED BY <1>1, <1>2, <1>3, SumsAre
<1>5. \A i \in 1 .. Len(list) : Remaining(list, i) = d[list[i].of]
  <2> SUFFICES ASSUME NEW i \in 1 .. Len(list)
               PROVE  Remaining(list, i) = d[list[i].of]
    OBVIOUS
  <2>1. i \in 0 .. Len(list) /\ i # 0
    BY <1>1
  <2> QED BY <1>4, <2>1
<1> QED BY <1>5 DEF OnTime

(* One timer is given other ticks.                                         *)
Retime(list, spot, x) == [list EXCEPT ![spot].time = x]

LEMMA Retimed ==
  ASSUME NEW list \in Seq(Timer), NEW spot \in 1 .. Len(list), NEW x \in Nat
  PROVE  /\ Retime(list, spot, x) \in Seq(Timer) /\ Len(Retime(list, spot, x)) = Len(list)
         /\ \A k \in 1 .. Len(list) :
              /\ Retime(list, spot, x)[k].of = list[k].of
              /\ Retime(list, spot, x)[k].time = IF k = spot THEN x ELSE list[k].time
<1> DEFINE e == [list[spot] EXCEPT !.time = x]
           r == Retime(list, spot, x)
<1>1. list[spot] \in [of : Threads, time : Nat]
  BY ElementOfSeq DEF Timer
<1>2. e \in Timer /\ e.of = list[spot].of /\ e.time = x
  BY <1>1 DEF Timer
<1>3. r = [list EXCEPT ![spot] = e]
  BY DEF Retime
<1> HIDE DEF e, r
<1>4. /\ r \in Seq(Timer) /\ Len(r) = Len(list)
      /\ \A k \in 1 .. Len(list) : r[k] = IF k = spot THEN e ELSE list[k]
  BY <1>2, <1>3, ExceptSeq
<1>5. \A k \in 1 .. Len(list) : /\ r[k].of = list[k].of
                               /\ r[k].time = IF k = spot THEN x ELSE list[k].time
  BY <1>2, <1>4
<1> QED BY <1>4, <1>5, Zenon DEF r

(* chVTSetI: the timer is in its place and the others' deadlines stay.     *)
LEMMA TimerSetOnTime ==
  ASSUME NEW list, NEW armed, NEW d \in [Threads -> Nat], OnTime(list, armed, d),
         NEW t \in Threads, t \notin armed, NEW time \in Nat
  PROVE  OnTime(TimerSet(list, t, time), armed \cup {t}, [d EXCEPT ![t] = time])
<1> DEFINE n == Len(list)
           later == {i \in DOMAIN list : Remaining(list, i) >= time}
           spot == IF later = {} THEN Len(list) + 1 ELSE Min(later)
           delta == time - Remaining(list, spot - 1)
           rest == IF later = {} THEN list ELSE [list EXCEPT ![spot].time = @ - delta]
           new == [of |-> t, time |-> delta]
           r == InsertAt(rest, spot, new)
           e == [d EXCEPT ![t] = time]
<1>1. /\ n \in Nat /\ DOMAIN list = 1 .. n /\ armed \subseteq Threads
      /\ \A i \in 1 .. n :
           /\ list[i] \in Timer /\ list[i].of \in armed /\ list[i].of \in Threads
           /\ list[i].time \in Nat /\ d[list[i].of] \in Nat
      /\ list # <<>> => n >= 1 /\ list[1].time = d[list[1].of]
      /\ \A i \in 2 .. n : d[list[i].of] = d[list[i - 1].of] + list[i].time
  BY OnTimeSteps
<1>2. /\ list \in Seq(Timer)
      /\ \A i, j \in 1 .. n : list[i].of = list[j].of => i = j
      /\ \A i \in 1 .. n : Remaining(list, i) = d[list[i].of]
      /\ armed = {list[i].of : i \in 1 .. n}
  BY DEF OnTime
<1>3. TimerSet(list, t, time) = r
  BY DEF TimerSet
<1>4. /\ spot \in 1 .. n + 1
      /\ spot <= n => d[list[spot].of] >= time
      /\ \A k \in 1 .. n : k < spot => d[list[k].of] < time
      /\ later = {} <=> spot = n + 1
  <2> HIDE DEF later
  <2>1. CASE later = {}
    <3>1. \A k \in 1 .. n : ~ (Remaining(list, k) >= time)
      BY <1>1, <2>1 DEF later
    <3> QED BY <1>1, <1>2, <2>1, <3>1
  <2>2. CASE later # {}
    <3>1. later \subseteq 1 .. n /\ later \subseteq Nat
      BY <1>1 DEF later
    <3>2. spot \in later /\ \A k \in later : spot <= k
      <4>1. \E m \in later : \A k \in later : m <= k
        BY <2>2, <3>1, LeastNatural
      <4> QED BY <2>2, <4>1 DEF Min
    <3>3. spot \in 1 .. n /\ d[list[spot].of] >= time
      BY <1>1, <1>2, <3>1, <3>2 DEF later
    <3>4. ASSUME NEW k \in 1 .. n, k < spot PROVE d[list[k].of] < time
      <4>1. k \notin later
        BY <1>1, <3>2, <3>3, <3>4
      <4>2. ~ (Remaining(list, k) >= time)
        BY <1>1, <4>1 DEF later
      <4> QED BY <1>1, <1>2, <4>2
    <3> QED BY <1>1, <2>2, <3>3, <3>4
  <2> QED BY <2>1, <2>2
<1> HIDE DEF later, spot
<1>5. /\ delta \in Nat
      /\ spot = 1 => delta = time
      /\ spot > 1 => spot - 1 \in 1 .. n /\ time = d[list[spot - 1].of] + delta
  <2>1. CASE spot = 1
    <3>1. Remaining(list, spot - 1) = 0
      BY <1>1, <2>1, RemainingIs
    <3> QED BY <2>1, <3>1
  <2>2. CASE spot > 1
    <3>1. spot - 1 \in 1 .. n /\ spot - 1 < spot
      BY <1>1, <1>4, <2>2
    <3>2. Remaining(list, spot - 1) = d[list[spot - 1].of] /\ d[list[spot - 1].of] < time
      BY <1>2, <1>4, <3>1
    <3>3. d[list[spot - 1].of] \in Nat
      BY <1>1, <3>1
    <3> QED BY <2>2, <3>1, <3>2, <3>3
  <2> QED BY <1>1, <1>4, <2>1, <2>2
<1> HIDE DEF delta
<1>6. /\ spot <= n => list[spot].time - delta \in Nat
      /\ spot <= n => d[list[spot].of] = time + (list[spot].time - delta)
  <2> SUFFICES ASSUME spot <= n
               PROVE  /\ list[spot].time - delta \in Nat
                      /\ d[list[spot].of] = time + (list[spot].time - delta)
    OBVIOUS
  <2>0. spot \in 1 .. n /\ d[list[spot].of] >= time /\ list[spot].time \in Nat /\ d[list[spot].of] \in Nat
    BY <1>1, <1>4
  <2>1. CASE spot = 1
    <3>1. d[list[spot].of] = list[spot].time
      BY <1>1, <2>0, <2>1, EmptySeq
    <3> QED BY <1>5, <2>0, <2>1, <3>1
  <2>2. CASE spot > 1
    <3> DEFINE now == d[list[spot].of]
               before == d[list[spot - 1].of]
               own == list[spot].time
    <3>1. now = before + own
      <4>1. spot \in 2 .. n
        BY <1>1, <2>0, <2>2
      <4> QED BY <1>1, <4>1
    <3>2. before \in Nat /\ time = before + delta /\ delta \in Nat
      <4>1. spot - 1 \in 1 .. n /\ time = before + delta /\ delta \in Nat
        BY <1>5, <2>2
      <4> QED BY <1>1, <4>1
    <3>3. now \in Nat /\ own \in Nat /\ now >= time
      BY <2>0
    <3> HIDE DEF now, before, own
    <3>4. own - delta \in Nat /\ now = time + (own - delta)
      BY <3>1, <3>2, <3>3
    <3> QED BY <3>4 DEF now, own
  <2> QED BY <2>0, <2>1, <2>2
<1>7. /\ rest \in Seq(Timer) /\ Len(rest) = n
      /\ \A k \in 1 .. n : rest[k].of = list[k].of
      /\ \A k \in 1 .. n : rest[k].time = IF k = spot THEN list[k].time - delta ELSE list[k].time
  <2>1. CASE later = {}
    BY <1>1, <1>2, <1>4, <2>1
  <2>2. CASE later # {}
    <3>1. spot \in 1 .. n /\ list[spot].time - delta \in Nat /\ spot <= n
      BY <1>1, <1>4, <1>6, <2>2
    <3>2. rest = [list EXCEPT ![spot].time = list[spot].time - delta]
      BY <2>2
    <3> HIDE DEF rest
    <3>3. /\ rest \in Seq(Timer) /\ Len(rest) = n
          /\ \A k \in 1 .. n :
               /\ rest[k].of = list[k].of
               /\ rest[k].time = IF k = spot THEN list[spot].time - delta ELSE list[k].time
      <4> DEFINE x == list[spot].time - delta
      <4>1. list \in Seq(Timer) /\ spot \in 1 .. Len(list) /\ x \in Nat
        BY <1>2, <3>1
      <4>2. rest = Retime(list, spot, x)
        BY <3>2 DEF Retime
      <4> HIDE DEF x
      <4>3. /\ rest \in Seq(Timer) /\ Len(rest) = Len(list)
            /\ \A k \in 1 .. Len(list) :
                 /\ rest[k].of = list[k].of
                 /\ rest[k].time = IF k = spot THEN x ELSE list[k].time
        BY <4>1, <4>2, Retimed
      <4> QED BY <4>3, Zenon DEF x
    <3> QED BY <3>3
  <2> HIDE DEF rest
  <2> QED BY <2>1, <2>2
<1> HIDE DEF rest
<1>8. new \in Timer /\ new.of = t /\ new.time = delta
  BY <1>5 DEF Timer
<1> HIDE DEF new
<1>9. /\ r \in Seq(Timer) /\ Len(r) = n + 1
      /\ \A k \in 1 .. n + 1 : r[k] = IF k < spot THEN rest[k] ELSE IF k = spot THEN new ELSE rest[k - 1]
  <2>1. spot \in 1 .. Len(rest) + 1
    BY <1>4, <1>7
  <2>2. rest \in Seq(Timer) /\ new \in Timer
    BY <1>7, <1>8
  <2>3. IsInsertion(r, rest, spot, new, Timer)
    BY <2>1, <2>2, InsertionIs, Zenon
  <2>4. Len(rest) = n
    BY <1>7
  <2> HIDE DEF r
  <2> QED BY <2>3, <2>4, Zenon DEF IsInsertion
<1> HIDE DEF r
<1>10. \A k \in 1 .. n + 1 :
         /\ r[k].of = IF k < spot THEN list[k].of ELSE IF k = spot THEN t ELSE list[k - 1].of
         /\ r[k].time = IF k < spot THEN list[k].time
                        ELSE IF k = spot THEN delta
                        ELSE IF k = spot + 1 THEN list[k - 1].time - delta ELSE list[k - 1].time
  <2> SUFFICES ASSUME NEW k \in 1 .. n + 1
               PROVE  /\ r[k].of = IF k < spot THEN list[k].of ELSE IF k = spot THEN t ELSE list[k - 1].of
                      /\ r[k].time = IF k < spot THEN list[k].time
                                     ELSE IF k = spot THEN delta
                                     ELSE IF k = spot + 1 THEN list[k - 1].time - delta
                                     ELSE list[k - 1].time
    OBVIOUS
  <2>1. CASE k < spot
    <3>1. k \in 1 .. n /\ k # spot /\ r[k] = rest[k]
      BY <1>1, <1>4, <1>9, <2>1
    <3> QED BY <1>7, <2>1, <3>1
  <2>2. CASE k = spot
    BY <1>8, <1>9, <2>2
  <2>3. CASE k > spot
    <3>1. k - 1 \in 1 .. n /\ ~ (k < spot) /\ k # spot /\ (k - 1 = spot <=> k = spot + 1) /\ r[k] = rest[k - 1]
      BY <1>1, <1>4, <1>9, <2>3
    <3> QED BY <1>7, <3>1
  <2> QED BY <1>1, <1>4, <2>1, <2>2, <2>3
<1>11. e \in [Threads -> Nat] /\ e[t] = time /\ \A k \in 1 .. n : e[list[k].of] = d[list[k].of]
  BY <1>1
<1> HIDE DEF e
<1>12. ASSUME NEW i \in 1 .. n + 1, NEW j \in 1 .. n + 1, r[i].of = r[j].of
       PROVE  i = j
  <2> DEFINE old(k) == IF k < spot THEN k ELSE k - 1
  <2>1. ASSUME NEW k \in 1 .. n + 1, k # spot
        PROVE  old(k) \in 1 .. n /\ r[k].of = list[old(k)].of /\ r[k].of # t
    <3>1. old(k) \in 1 .. n /\ r[k].of = list[old(k)].of
      BY <1>1, <1>4, <1>10, <2>1
    <3> QED BY <1>1, <3>1
  <2>2. r[spot].of = t
    BY <1>4, <1>10
  <2>3. CASE i = spot \/ j = spot
    BY <1>12, <2>1, <2>2, <2>3
  <2>4. CASE i # spot /\ j # spot
    <3>1. old(i) = old(j)
      <4> HIDE DEF old
      <4>1. /\ old(i) \in 1 .. n /\ r[i].of = list[old(i)].of
            /\ old(j) \in 1 .. n /\ r[j].of = list[old(j)].of
        BY <2>1, <2>4
      <4>2. list[old(i)].of = list[old(j)].of
        BY <1>12, <4>1
      <4> QED BY <1>2, <4>1, <4>2
    <3> QED BY <1>4, <2>4, <3>1
  <2> QED BY <2>3, <2>4
<1>13. r[1].time = e[r[1].of]
  <2>1. CASE spot = 1
    BY <1>1, <1>5, <1>10, <1>11, <2>1
  <2>2. CASE spot > 1
    <3>1. n >= 1 /\ 1 \in 1 .. n /\ 1 < spot
      BY <1>1, <1>4, <2>2
    <3>2. list[1].time = d[list[1].of]
      BY <1>1, <3>1, EmptySeq
    <3>3. r[1].of = list[1].of /\ r[1].time = list[1].time
      BY <1>1, <1>10, <3>1
    <3>4. e[list[1].of] = d[list[1].of]
      BY <1>11, <3>1
    <3> QED BY <3>2, <3>3, <3>4
  <2> QED BY <1>4, <2>1, <2>2
<1>14. ASSUME NEW i \in 2 .. n + 1
       PROVE  e[r[i].of] = e[r[i - 1].of] + r[i].time
  <2>0. i \in 1 .. n + 1 /\ i - 1 \in 1 .. n + 1 /\ i - 1 \in 1 .. n
    BY <1>1
  <2>1. CASE i < spot
    <3>1. i \in 2 .. n /\ i \in 1 .. n /\ i - 1 < spot
      BY <1>1, <1>4, <2>1
    <3>2. r[i].of = list[i].of /\ r[i].time = list[i].time /\ r[i - 1].of = list[i - 1].of
      BY <1>10, <2>0, <2>1, <3>1
    <3> QED BY <1>1, <1>11, <2>0, <3>1, <3>2
  <2>2. CASE i = spot
    <3>1. r[i].of = t /\ r[i].time = delta
      BY <1>10, <2>0, <2>2
    <3>2. i - 1 < spot /\ spot > 1
      BY <2>2
    <3>3. r[i - 1].of = list[i - 1].of
      BY <1>10, <2>0, <3>2
    <3>4. time = d[list[spot - 1].of] + delta
      BY <1>5, <3>2
    <3> QED BY <1>11, <2>0, <2>2, <3>1, <3>3, <3>4
  <2>3. CASE i = spot + 1
    <3>0. ~ (i < spot) /\ i # spot /\ i \in 1 .. n + 1
      BY <1>4, <2>0, <2>3
    <3>1. r[i].of = list[i - 1].of /\ r[i].time = list[i - 1].time - delta
      BY <1>10, <2>3, <3>0
    <3>2. i - 1 = spot /\ spot <= n /\ r[i - 1].of = t
      BY <1>4, <1>10, <2>0, <2>3
    <3> QED BY <1>6, <1>11, <2>0, <3>1, <3>2
  <2>4. CASE i > spot + 1
    <3>1. i - 1 \in 2 .. n
      BY <1>4, <2>0, <2>4
    <3>2. r[i].of = list[i - 1].of /\ r[i].time = list[i - 1].time
      BY <1>4, <1>10, <2>0, <2>4
    <3>3. ~ (i - 1 < spot) /\ i - 1 # spot /\ i - 1 - 1 \in 1 .. n /\ i - 1 \in 2 .. n
      BY <1>1, <1>4, <2>0, <2>4
    <3>4. r[i - 1].of = list[i - 1 - 1].of
      BY <1>10, <2>0, <3>3
    <3>5. /\ e[list[i - 1].of] = d[list[i - 1].of]
          /\ e[list[i - 1 - 1].of] = d[list[i - 1 - 1].of]
      BY <1>11, <2>0, <3>3
    <3>6. d[list[i - 1].of] = d[list[i - 1 - 1].of] + list[i - 1].time
      BY <1>1, <3>3
    <3> QED BY <3>2, <3>4, <3>5, <3>6
  <2> QED BY <1>4, <2>0, <2>1, <2>2, <2>3, <2>4
<1>15. {r[k].of : k \in 1 .. n + 1} = armed \cup {t}
  <2>1. ASSUME NEW k \in 1 .. n + 1 PROVE r[k].of \in armed \cup {t}
    <3>1. CASE k < spot
      <4>1. k \in 1 .. n
        BY <1>1, <1>4, <3>1
      <4> QED BY <1>1, <1>10, <3>1, <4>1
    <3>2. CASE k = spot
      BY <1>10, <3>2
    <3>3. CASE k > spot
      <4>1. k - 1 \in 1 .. n /\ ~ (k < spot) /\ k # spot
        BY <1>1, <1>4, <3>3
      <4> QED BY <1>1, <1>10, <4>1
    <3>4. k < spot \/ k = spot \/ k > spot
      BY <1>1, <1>4
    <3> QED BY <3>1, <3>2, <3>3, <3>4
  <2>2. ASSUME NEW k \in 1 .. n PROVE \E m \in 1 .. n + 1 : r[m].of = list[k].of
    <3>1. CASE k < spot
      BY <1>1, <1>10, <3>1
    <3>2. CASE k >= spot
      <4>1. k + 1 \in 1 .. n + 1 /\ ~ (k + 1 < spot) /\ k + 1 # spot /\ k + 1 - 1 = k
        BY <1>1, <1>4, <3>2
      <4>2. r[k + 1].of = list[k].of
        BY <1>10, <4>1
      <4> QED BY <4>1, <4>2
    <3>3. k < spot \/ k >= spot
      BY <1>1, <1>4
    <3> QED BY <3>1, <3>2, <3>3
  <2>3. spot \in 1 .. n + 1 /\ r[spot].of = t
    <3>1. spot \in 1 .. n + 1 /\ ~ (spot < spot)
      BY <1>1, <1>4
    <3> QED BY <1>10, <3>1
  <2>4. armed \cup {t} \subseteq {r[k].of : k \in 1 .. n + 1}
    <3>1. ASSUME NEW u \in armed PROVE u \in {r[k].of : k \in 1 .. n + 1}
      <4>1. PICK k \in 1 .. n : u = list[k].of
        BY <1>2
      <4>2. PICK m \in 1 .. n + 1 : r[m].of = u
        BY <2>2, <4>1
      <4> QED BY <4>2
    <3>2. t \in {r[k].of : k \in 1 .. n + 1}
      BY <2>3
    <3> QED BY <3>1, <3>2
  <2> QED BY <2>1, <2>4
<1>16. OnTime(r, {r[k].of : k \in 1 .. n + 1}, e)
  <2>1. r \in Seq(Timer) /\ Len(r) = n + 1 /\ e \in [Threads -> Nat]
    BY <1>9, <1>11
  <2>2. \A i, j \in 1 .. Len(r) : r[i].of = r[j].of => i = j
    BY <1>12, <2>1
  <2>3. \A i \in 2 .. Len(r) : e[r[i].of] = e[r[i - 1].of] + r[i].time
    BY <1>14, <2>1
  <2>4. OnTime(r, {r[k].of : k \in 1 .. Len(r)}, e)
    BY <1>13, <2>1, <2>2, <2>3, StepsOnTime
  <2> QED BY <2>1, <2>4
<1> QED BY <1>3, <1>15, <1>16 DEF e, r

(* chVTResetI: the timer is gone and the others' deadlines stay.           *)
LEMMA TimerResetOnTime ==
  ASSUME NEW list, NEW armed, NEW d \in [Threads -> Nat], OnTime(list, armed, d),
         NEW t \in armed
  PROVE  OnTime(TimerReset(list, t), armed \ {t}, d)
<1> DEFINE n == Len(list)
           spot == IndexOf(list, t)
           more == list[spot + 1].time + list[spot].time
           rest == IF spot = n THEN list ELSE [list EXCEPT ![spot + 1].time = @ + list[spot].time]
           r == RemoveAt(rest, spot)
<1>1. /\ n \in Nat /\ DOMAIN list = 1 .. n /\ armed \subseteq Threads
      /\ \A i \in 1 .. n :
           /\ list[i] \in Timer /\ list[i].of \in armed /\ list[i].of \in Threads
           /\ list[i].time \in Nat /\ d[list[i].of] \in Nat
      /\ list # <<>> => n >= 1 /\ list[1].time = d[list[1].of]
      /\ \A i \in 2 .. n : d[list[i].of] = d[list[i - 1].of] + list[i].time
  BY OnTimeSteps
<1>2. /\ list \in Seq(Timer)
      /\ \A i, j \in 1 .. n : list[i].of = list[j].of => i = j
      /\ armed = {list[i].of : i \in 1 .. n}
  BY DEF OnTime
<1>3. TimerReset(list, t) = r
  BY DEF TimerReset
<1>4. spot \in 1 .. n /\ list[spot].of = t
  <2>1. \E i \in DOMAIN list : list[i].of = t
    BY <1>1, <1>2
  <2> QED BY <1>1, <2>1 DEF IndexOf
<1> HIDE DEF spot
<1>5. /\ rest \in Seq(Timer) /\ Len(rest) = n
      /\ \A k \in 1 .. n : /\ rest[k].of = list[k].of
                           /\ rest[k].time = IF k = spot + 1 THEN more ELSE list[k].time
  <2>1. CASE spot = n
    <3>1. \A k \in 1 .. n : k # spot + 1
      BY <1>1, <2>1
    <3> QED BY <1>2, <2>1, <3>1
  <2>2. CASE spot # n
    <3>1. spot + 1 \in 1 .. Len(list) /\ more \in Nat
      <4>1. spot + 1 \in 1 .. n
        <5>1. n \in Nat /\ spot \in 1 .. n /\ spot # n
          BY <1>1, <1>4, <2>2
        <5> HIDE DEF n
        <5> QED BY <5>1
      <4>2. list[spot].time \in Nat /\ list[spot + 1].time \in Nat
        BY <1>1, <1>4, <4>1
      <4> QED BY <4>1, <4>2
    <3>2. rest = Retime(list, spot + 1, more)
      BY <2>2 DEF Retime
    <3> HIDE DEF rest, more
    <3>3. /\ rest \in Seq(Timer) /\ Len(rest) = Len(list)
          /\ \A k \in 1 .. Len(list) :
               /\ rest[k].of = list[k].of
               /\ rest[k].time = IF k = spot + 1 THEN more ELSE list[k].time
      BY <1>2, <3>1, <3>2, Retimed
    <3> QED BY <3>3
  <2> HIDE DEF rest
  <2> QED BY <2>1, <2>2
<1>6. more = list[spot + 1].time + list[spot].time
  OBVIOUS
<1> HIDE DEF rest, more
<1>7. /\ r \in Seq(Timer) /\ Len(r) = n - 1
      /\ \A k \in 1 .. n - 1 : r[k] = IF k < spot THEN rest[k] ELSE rest[k + 1]
  <2>1. spot \in DOMAIN rest /\ rest \in Seq(Timer) /\ Len(rest) = n
    BY <1>4, <1>5, LenProperties
  <2>2. /\ r \in Seq(Timer) /\ Len(r) = Len(rest) - 1
        /\ \A k \in 1 .. Len(rest) - 1 : r[k] = IF k < spot THEN rest[k] ELSE rest[k + 1]
    BY <2>1, Removed, Zenon
  <2> HIDE DEF r
  <2> QED BY <2>1, <2>2
<1> HIDE DEF r
<1>8. \A k \in 1 .. n - 1 :
        /\ r[k].of = IF k < spot THEN list[k].of ELSE list[k + 1].of
        /\ r[k].time = IF k < spot THEN list[k].time
                       ELSE IF k = spot THEN more ELSE list[k + 1].time
  <2> SUFFICES ASSUME NEW k \in 1 .. n - 1
               PROVE  /\ r[k].of = IF k < spot THEN list[k].of ELSE list[k + 1].of
                      /\ r[k].time = IF k < spot THEN list[k].time
                                     ELSE IF k = spot THEN more ELSE list[k + 1].time
    OBVIOUS
  <2>1. CASE k < spot
    <3>1. k \in 1 .. n /\ k # spot + 1 /\ r[k] = rest[k]
      BY <1>1, <1>4, <1>7, <2>1
    <3> QED BY <1>5, <2>1, <3>1
  <2>2. CASE k >= spot
    <3>1. k + 1 \in 1 .. n /\ ~ (k < spot) /\ (k + 1 = spot + 1 <=> k = spot) /\ r[k] = rest[k + 1]
      BY <1>1, <1>4, <1>7, <2>2
    <3> QED BY <1>5, <3>1
  <2> QED BY <1>1, <1>4, <2>1, <2>2
<1> DEFINE old(k) == IF k < spot THEN k ELSE k + 1
<1>9. \A k \in 1 .. n - 1 : old(k) \in 1 .. n /\ old(k) # spot /\ r[k].of = list[old(k)].of
  BY <1>1, <1>4, <1>8
<1>10. ASSUME NEW i \in 1 .. n - 1, NEW j \in 1 .. n - 1, r[i].of = r[j].of
       PROVE  i = j
  <2>1. old(i) = old(j)
    <3> HIDE DEF old
    <3> QED BY <1>2, <1>9, <1>10
  <2> QED BY <1>4, <2>1
<1>11. ASSUME Len(r) >= 1 PROVE r[1].time = d[r[1].of]
  <2>0. 1 \in 1 .. n - 1 /\ n >= 2 /\ list # <<>> /\ 1 \in 1 .. n
    BY <1>1, <1>7, <1>11, EmptySeq
  <2>1. CASE spot = 1
    <3>1. r[1].of = list[1 + 1].of /\ r[1].time = more
      BY <1>8, <2>0, <2>1
    <3>2. d[list[2].of] = d[list[2 - 1].of] + list[2].time
      BY <1>1, <2>0
    <3>3. list[1].time = d[list[1].of] /\ list[1].time \in Nat /\ list[2].time \in Nat
      BY <1>1, <2>0
    <3>4. more = list[2].time + list[1].time
      BY <1>6, <2>1
    <3> QED BY <3>1, <3>2, <3>3, <3>4
  <2>2. CASE spot > 1
    <3>1. r[1].of = list[1].of /\ r[1].time = list[1].time
      BY <1>8, <2>0, <2>2
    <3> QED BY <1>1, <2>0, <3>1
  <2> QED BY <1>4, <2>1, <2>2
<1>12. ASSUME NEW i \in 2 .. n - 1
       PROVE  d[r[i].of] = d[r[i - 1].of] + r[i].time
  <2>0. /\ i \in 1 .. n - 1 /\ i - 1 \in 1 .. n - 1
        /\ i \in 2 .. n /\ i + 1 \in 2 .. n /\ (i - 1) + 1 = i /\ (i + 1) - 1 = i
    BY <1>1
  <2>1. /\ d[list[i].of] = d[list[i - 1].of] + list[i].time
        /\ d[list[i + 1].of] = d[list[i].of] + list[i + 1].time
    <3>1. \A k \in 2 .. n : d[list[k].of] = d[list[k - 1].of] + list[k].time
      BY <1>1
    <3>2. d[list[i + 1].of] = d[list[(i + 1) - 1].of] + list[i + 1].time
      BY <2>0, <3>1
    <3> QED BY <2>0, <3>1, <3>2
  <2>2. CASE i < spot
    <3>1. r[i].of = list[i].of /\ r[i].time = list[i].time
      BY <1>8, <2>0, <2>2
    <3>2. r[i - 1].of = list[i - 1].of
      BY <1>4, <1>8, <2>0, <2>2
    <3> QED BY <2>1, <3>1, <3>2
  <2>3. CASE i = spot
    <3>1. r[i].of = list[i + 1].of /\ r[i].time = more
      BY <1>8, <2>0, <2>3
    <3>2. r[i - 1].of = list[i - 1].of
      BY <1>4, <1>8, <2>0, <2>3
    <3>3. more = list[i + 1].time + list[i].time
      BY <1>6, <2>3
    <3>4. /\ list[i].time \in Nat /\ list[i + 1].time \in Nat /\ d[list[i - 1].of] \in Nat
      BY <1>1, <2>0
    <3> DEFINE later == d[list[i + 1].of]
               now == d[list[i].of]
               before == d[list[i - 1].of]
               own == list[i].time
               next == list[i + 1].time
    <3>5. now = before + own /\ later = now + next /\ more = next + own
      BY <2>1, <3>3
    <3>6. before \in Nat /\ own \in Nat /\ next \in Nat
      BY <3>4
    <3>7. d[r[i].of] = later /\ d[r[i - 1].of] = before /\ r[i].time = more
      BY <3>1, <3>2
    <3> HIDE DEF later, now, before, own, next
    <3> QED BY <3>5, <3>6, <3>7
  <2>4. CASE i > spot
    <3>1. r[i].of = list[i + 1].of /\ r[i].time = list[i + 1].time
      BY <1>4, <1>8, <2>0, <2>4
    <3>2. ~ (i - 1 < spot)
      BY <1>4, <2>0, <2>4
    <3>3. r[i - 1].of = list[(i - 1) + 1].of
      BY <1>8, <2>0, <3>2
    <3> QED BY <2>0, <2>1, <3>1, <3>3
  <2> QED BY <1>4, <2>0, <2>2, <2>3, <2>4
<1>13. {r[k].of : k \in 1 .. n - 1} = armed \ {t}
  <2>1. ASSUME NEW k \in 1 .. n - 1 PROVE r[k].of \in armed \ {t}
    <3> DEFINE m == old(k)
    <3>1. m \in 1 .. n /\ m # spot /\ r[k].of = list[m].of
      BY <1>9
    <3> HIDE DEF m
    <3>2. list[m].of \in armed
      BY <1>1, <3>1
    <3>3. list[m].of # t
      BY <1>2, <1>4, <3>1
    <3> QED BY <3>1, <3>2, <3>3
  <2>2. ASSUME NEW k \in 1 .. n, k # spot PROVE \E m \in 1 .. n - 1 : r[m].of = list[k].of
    <3>1. CASE k < spot
      <4>1. k \in 1 .. n - 1
        BY <1>1, <1>4, <3>1
      <4> QED BY <1>8, <3>1, <4>1
    <3>2. CASE k > spot
      <4>1. k - 1 \in 1 .. n - 1 /\ ~ (k - 1 < spot) /\ (k - 1) + 1 = k
        BY <1>1, <1>4, <3>2
      <4>2. r[k - 1].of = list[k].of
        BY <1>8, <4>1
      <4> QED BY <4>1, <4>2
    <3>3. k < spot \/ k > spot
      BY <1>1, <1>4, <2>2
    <3> QED BY <3>1, <3>2, <3>3
  <2>3. ASSUME NEW u \in armed, u # t PROVE u \in {r[k].of : k \in 1 .. n - 1}
    <3>1. PICK k \in 1 .. n : u = list[k].of
      BY <1>2
    <3>2. k # spot
      BY <1>4, <2>3, <3>1
    <3> QED BY <2>2, <3>1, <3>2
  <2> QED BY <2>1, <2>3
<1>15. Len(r) = n - 1
  BY <1>7
<1>14. OnTime(r, {r[k].of : k \in 1 .. Len(r)}, d)
  <2>1. \A i, j \in 1 .. Len(r) : r[i].of = r[j].of => i = j
    BY <1>10, <1>15
  <2>2. \A i \in 2 .. Len(r) : d[r[i].of] = d[r[i - 1].of] + r[i].time
    BY <1>12, <1>15
  <2> QED BY <1>7, <1>11, <2>1, <2>2, StepsOnTime
<1> QED BY <1>3, <1>13, <1>14, <1>15 DEF r

(* The deadlines of the list come in its order.                            *)
LEMMA FirstIsFirst ==
  ASSUME NEW list, NEW armed, NEW d \in [Threads -> Nat], OnTime(list, armed, d),
         NEW t \in armed
  PROVE  Len(list) >= 1 /\ list # <<>> /\ d[list[1].of] <= d[t]
<1> DEFINE n == Len(list)
           Bad == {i \in 1 .. n : ~ (d[list[1].of] <= d[list[i].of])}
<1>1. /\ n \in Nat
      /\ \A i \in 1 .. n : list[i].time \in Nat /\ d[list[i].of] \in Nat
      /\ \A i \in 2 .. n : d[list[i].of] = d[list[i - 1].of] + list[i].time
  BY OnTimeSteps
<1>2. PICK k \in 1 .. n : t = list[k].of
  BY DEF OnTime
<1>3. n >= 1 /\ list # <<>>
  BY <1>1, <1>2, EmptySeq
<1>4. Bad = {}
  <2> SUFFICES ASSUME Bad # {} PROVE FALSE
    OBVIOUS
  <2>1. Bad \subseteq Nat
    BY <1>1
  <2>2. PICK i \in Bad : \A j \in Bad : i <= j
    BY <2>1, LeastNatural
  <2>3. i \in 1 .. n /\ ~ (d[list[1].of] <= d[list[i].of])
    OBVIOUS
  <2>4. i # 1
    BY <1>1, <1>3, <2>3
  <2>5. i \in 2 .. n /\ i - 1 \in 1 .. n /\ i - 1 < i
    BY <1>1, <2>3, <2>4
  <2>6. i - 1 \notin Bad
    BY <2>1, <2>2, <2>5
  <2>7. d[list[1].of] <= d[list[i - 1].of]
    BY <2>5, <2>6
  <2>8. d[list[i].of] = d[list[i - 1].of] + list[i].time
    BY <1>1, <2>5
  <2>9. /\ d[list[1].of] \in Nat /\ d[list[i].of] \in Nat
        /\ d[list[i - 1].of] \in Nat /\ list[i].time \in Nat
    BY <1>1, <1>3, <2>3, <2>5
  <2> DEFINE a == d[list[1].of]
             b == d[list[i - 1].of]
             c == d[list[i].of]
             own == list[i].time
  <2>10. a <= b /\ c = b + own /\ ~ (a <= c) /\ {a, b, c, own} \subseteq Nat
    BY <2>3, <2>7, <2>8, <2>9
  <2> HIDE DEF a, b, c, own
  <2> QED BY <2>10
<1> QED BY <1>2, <1>3, <1>4

(* A tick brings every deadline nearer by one.                             *)
LEMMA TickedOnTime ==
  ASSUME NEW list, NEW armed, NEW d \in [Threads -> Nat], OnTime(list, armed, d),
         ~ RunsOut(list), list # <<>>,
         NEW e, e = [t \in Threads |-> IF t \in armed THEN d[t] - 1 ELSE d[t]]
  PROVE  e \in [Threads -> Nat] /\ OnTime(Ticked(list), armed, e)
<1> DEFINE n == Len(list)
           less == list[1].time - 1
           r == Ticked(list)
<1>1. /\ n \in Nat /\ n >= 1 /\ armed \subseteq Threads
      /\ \A i \in 1 .. n :
           /\ list[i].of \in armed /\ list[i].of \in Threads
           /\ list[i].time \in Nat /\ d[list[i].of] \in Nat
      /\ Head(list) = list[1] /\ list[1].time = d[list[1].of]
      /\ \A i \in 2 .. n : d[list[i].of] = d[list[i - 1].of] + list[i].time
  BY OnTimeSteps
<1>2. /\ list \in Seq(Timer)
      /\ \A i, j \in 1 .. n : list[i].of = list[j].of => i = j
      /\ armed = {list[i].of : i \in 1 .. n}
  BY DEF OnTime
<1>3. less \in Nat /\ 1 \in 1 .. n /\ list[1].time = less + 1
  <2>1. list[1].time # 0 /\ list[1].time \in Nat /\ 1 \in 1 .. n
    BY <1>1 DEF RunsOut
  <2> QED BY <2>1
<1>4. r = Retime(list, 1, less)
  BY DEF Ticked, Retime
<1> HIDE DEF r, less
<1>5. /\ r \in Seq(Timer) /\ Len(r) = n
      /\ \A k \in 1 .. n : /\ r[k].of = list[k].of
                           /\ r[k].time = IF k = 1 THEN less ELSE list[k].time
  BY <1>2, <1>3, <1>4, Retimed
<1>6. ASSUME NEW t \in armed
      PROVE  d[t] >= 1 /\ e[t] \in Nat /\ d[t] = e[t] + 1
  <2>1. d[list[1].of] <= d[t]
    BY FirstIsFirst
  <2>2. t \in Threads /\ d[t] \in Nat /\ d[list[1].of] = less + 1
    BY <1>1, <1>3
  <2>3. e[t] = d[t] - 1
    BY <2>2
  <2>4. d[t] >= 1
    BY <1>3, <2>1, <2>2
  <2> QED BY <2>2, <2>3, <2>4
<1>7. e \in [Threads -> Nat]
  <2>1. \A t \in Threads : e[t] \in Nat
    BY <1>6
  <2> QED BY <2>1
<1>8. \A k \in 1 .. n : d[list[k].of] = e[r[k].of] + 1 /\ e[r[k].of] \in Nat
  BY <1>1, <1>5, <1>6
<1>9. \A i, j \in 1 .. Len(r) : r[i].of = r[j].of => i = j
  BY <1>2, <1>5
<1>10. Len(r) >= 1 => r[1].time = e[r[1].of]
  <2>1. r[1].time = less /\ d[list[1].of] = e[r[1].of] + 1 /\ e[r[1].of] \in Nat
    BY <1>3, <1>5, <1>8
  <2>2. d[list[1].of] = less + 1
    BY <1>1, <1>3
  <2> DEFINE x == e[r[1].of]
  <2>3. x \in Nat /\ x + 1 = less + 1
    BY <2>1, <2>2
  <2> HIDE DEF x
  <2>4. x = less
    BY <1>3, <2>3
  <2> QED BY <2>1, <2>4 DEF x
<1>11. ASSUME NEW i \in 2 .. Len(r) PROVE e[r[i].of] = e[r[i - 1].of] + r[i].time
  <2>1. i \in 2 .. n /\ i \in 1 .. n /\ i - 1 \in 1 .. n /\ i # 1
    BY <1>1, <1>5
  <2> DEFINE a == e[r[i].of]
             b == e[r[i - 1].of]
             own == r[i].time
             c == d[list[i].of]
             before == d[list[i - 1].of]
  <2>2. own = list[i].time /\ own \in Nat
    BY <1>1, <1>5, <2>1
  <2>3. c = a + 1 /\ before = b + 1 /\ a \in Nat /\ b \in Nat
    BY <1>8, <2>1
  <2>4. c = before + own
    BY <1>1, <2>1, <2>2
  <2>5. a = b + own
    <3> HIDE DEF a, b, own, c, before
    <3>1. own \in Nat
      BY <2>2
    <3>2. a + 1 = (b + 1) + own
      BY <2>3, <2>4
    <3> QED BY <2>3, <3>1, <3>2
  <2> QED BY <2>5
<1>12. {r[k].of : k \in 1 .. Len(r)} = armed
  <2>1. Len(r) = n /\ \A k \in 1 .. n : r[k].of = list[k].of
    BY <1>5
  <2>2. armed = {list[k].of : k \in 1 .. n}
    BY <1>2
  <2> HIDE DEF n
  <2> QED BY <2>1, <2>2
<1>13. OnTime(r, {r[k].of : k \in 1 .. Len(r)}, e)
  BY <1>5, <1>7, <1>9, <1>10, <1>11, StepsOnTime
<1> QED BY <1>7, <1>12, <1>13 DEF r

(* The timer that ran out is taken off.                                    *)
LEMMA TailOnTime ==
  ASSUME NEW list, NEW armed, NEW d \in [Threads -> Nat], OnTime(list, armed, d),
         RunsOut(list)
  PROVE  /\ Head(list).of \in armed /\ Head(list).of \in Threads /\ d[Head(list).of] = 0
         /\ OnTime(Tail(list), armed \ {Head(list).of}, d)
<1> DEFINE n == Len(list)
           r == Tail(list)
<1>1. /\ n \in Nat /\ n >= 1 /\ armed \subseteq Threads
      /\ \A i \in 1 .. n :
           /\ list[i].of \in armed /\ list[i].of \in Threads
           /\ list[i].time \in Nat /\ d[list[i].of] \in Nat
      /\ Head(list) = list[1] /\ list[1].time = d[list[1].of]
      /\ \A i \in 2 .. n : d[list[i].of] = d[list[i - 1].of] + list[i].time
  BY OnTimeSteps DEF RunsOut
<1>2. /\ list \in Seq(Timer) /\ list # <<>>
      /\ \A i, j \in 1 .. n : list[i].of = list[j].of => i = j
      /\ armed = {list[i].of : i \in 1 .. n}
  BY DEF OnTime, RunsOut
<1>3. 1 \in 1 .. n /\ list[1].of \in armed /\ list[1].of \in Threads /\ d[list[1].of] = 0
  BY <1>1 DEF RunsOut
<1>4. /\ r \in Seq(Timer) /\ Len(r) = n - 1
      /\ \A k \in 1 .. n - 1 : r[k] = list[k + 1]
  BY <1>2, HeadTailProperties
<1> HIDE DEF r
<1>5. \A k \in 1 .. n - 1 : k + 1 \in 1 .. n /\ k + 1 \in 2 .. n /\ k + 1 # 1
  BY <1>1
<1>6. \A i, j \in 1 .. Len(r) : r[i].of = r[j].of => i = j
  <2> SUFFICES ASSUME NEW i \in 1 .. n - 1, NEW j \in 1 .. n - 1, r[i].of = r[j].of
               PROVE  i = j
    BY <1>4
  <2>1. i + 1 = j + 1
    BY <1>2, <1>4, <1>5
  <2> QED BY <1>1, <2>1
<1>7. Len(r) >= 1 => r[1].time = d[r[1].of]
  <2> SUFFICES ASSUME Len(r) >= 1 PROVE r[1].time = d[r[1].of]
    OBVIOUS
  <2>1. 1 \in 1 .. n - 1 /\ 2 \in 2 .. n /\ 2 \in 1 .. n
    BY <1>1, <1>4
  <2>2. r[1] = list[2]
    BY <1>4, <2>1
  <2>3. d[list[2].of] = d[list[2 - 1].of] + list[2].time /\ list[2].time \in Nat
    BY <1>1, <2>1
  <2> QED BY <1>3, <2>2, <2>3
<1>8. ASSUME NEW i \in 2 .. Len(r) PROVE d[r[i].of] = d[r[i - 1].of] + r[i].time
  <2>1. /\ i \in 1 .. n - 1 /\ i - 1 \in 1 .. n - 1 /\ i + 1 \in 2 .. n
        /\ (i - 1) + 1 = i /\ (i + 1) - 1 = i
    BY <1>1, <1>4
  <2>2. r[i] = list[i + 1] /\ r[i - 1] = list[(i - 1) + 1]
    BY <1>4, <2>1
  <2>3. d[list[i + 1].of] = d[list[(i + 1) - 1].of] + list[i + 1].time
    BY <1>1, <2>1
  <2> QED BY <2>1, <2>2, <2>3
<1>9. {r[k].of : k \in 1 .. Len(r)} = armed \ {list[1].of}
  <2>1. ASSUME NEW k \in 1 .. n - 1 PROVE r[k].of \in armed \ {list[1].of}
    BY <1>1, <1>2, <1>3, <1>4, <1>5
  <2>2. ASSUME NEW k \in 1 .. n, k # 1 PROVE \E m \in 1 .. n - 1 : r[m].of = list[k].of
    <3>1. k - 1 \in 1 .. n - 1 /\ (k - 1) + 1 = k
      BY <1>1, <2>2
    <3>2. r[k - 1] = list[k]
      BY <1>4, <3>1
    <3> QED BY <3>1, <3>2
  <2>3. ASSUME NEW u \in armed, u # list[1].of PROVE u \in {r[k].of : k \in 1 .. n - 1}
    <3>1. PICK k \in 1 .. n : u = list[k].of
      BY <1>2
    <3>2. k # 1
      BY <2>3, <3>1
    <3> QED BY <2>2, <3>1, <3>2
  <2>4. Len(r) = n - 1
    BY <1>4
  <2> QED BY <2>1, <2>3, <2>4
<1>10. OnTime(r, {r[k].of : k \in 1 .. Len(r)}, d)
  BY <1>4, <1>6, <1>7, <1>8, StepsOnTime
<1> QED BY <1>1, <1>3, <1>9, <1>10 DEF r
-----------------------------------------------------------------------------
(* The write pointer is where the next byte of the content would be: the   *)
(* counter tells a full queue from an empty one.                           *)
Pointers ==
  /\ buffer \in [0 .. Size - 1 -> Threads \cup {None}]
  /\ rdptr \in 0 .. Size - 1
  /\ counter \in 0 .. Size
  /\ wrptr = Slot(Size - counter + 1)

LEMMA SizeIsPositive == Size \in Nat /\ Size > 0
BY SerialAssumption DEF SerialAssumption

(* The slots of the content are different places of the buffer.            *)
LEMMA Slots ==
  ASSUME Pointers
  PROVE  /\ \A i \in 1 .. Size : Slot(i) \in 0 .. Size - 1
         /\ wrptr \in 0 .. Size - 1
         /\ \A i \in 1 .. Size - counter : counter > 0 => Slot(i) # wrptr
BY SizeIsPositive DEF Pointers, Slot

(* A byte stored is one byte more at the end of the content.               *)
LEMMA StoreAppends ==
  ASSUME Pointers, ~IsFull, NEW t \in Threads, Store(t)
  PROVE  Pointers' /\ F!Put(t)
<1> Size \in Nat /\ Size > 0
  BY SizeIsPositive
<1>1. PICK n \in 0 .. Size - 1 : n = Size - counter
  BY DEF Pointers, IsFull
<1>2. /\ counter \in 1 .. Size /\ counter' = counter - 1 /\ Size - counter' = n + 1
      /\ rdptr' = rdptr /\ rdptr \in 0 .. Size - 1
  BY <1>1 DEF Pointers, IsFull, Store
<1>3. /\ wrptr = Slot(n + 1) /\ wrptr \in 0 .. Size - 1
      /\ \A i \in 1 .. n : Slot(i) \in 0 .. Size - 1 /\ Slot(i) # wrptr
  BY <1>1, <1>2, Slots DEF Pointers
<1>4. /\ buffer' = [buffer EXCEPT ![wrptr] = t]
      /\ buffer' \in [0 .. Size - 1 -> Threads \cup {None}]
      /\ buffer'[wrptr] = t
      /\ \A i \in 1 .. n : buffer'[Slot(i)] = buffer[Slot(i)]
  BY <1>3 DEF Pointers, Store
<1>5. wrptr' = Slot(n + 2)
  BY <1>1, <1>2, <1>3 DEF Store, After, Slot
<1>6. \A i \in 1 .. Size + 1 : Slot(i)' = Slot(i)
  BY <1>2 DEF Slot
<1>7. Pointers'
  <2>1. wrptr' = (Slot(Size - counter + 1))'
    BY <1>2, <1>5 DEF Slot
  <2>2. QED
    BY <1>2, <1>4, <2>1 DEF Pointers
<1>8. Content' = [i \in 1 .. n + 1 |-> IF i = n + 1 THEN t ELSE buffer[Slot(i)]]
  BY <1>1, <1>2, <1>3, <1>4, <1>6 DEF Content
<1>9. Content = [i \in 1 .. n |-> buffer[Slot(i)]]
  BY <1>1 DEF Content
<1>10. Content' = Append(Content, t) /\ Len(Content) = n
  BY <1>8, <1>9
<1>11. QED
  BY <1>1, <1>7, <1>10 DEF F!Put

(* A byte taken is the first of the content.                               *)
LEMMA GetTakesHead ==
  ASSUME Pointers, ~IsEmpty, Get
  PROVE  Pointers' /\ F!Get
<1> DEFINE n == Size - counter
<1>1. counter < Size
  BY SizeIsPositive DEF Pointers, IsEmpty, Slot
<1>2. /\ counter' = counter + 1 /\ n \in 1 .. Size /\ Size - counter' = n - 1
      /\ buffer' = buffer /\ wrptr' = wrptr /\ Size \in Nat /\ counter' \in 0 .. Size
  BY <1>1, SizeIsPositive DEF Pointers, Get
<1>3. rdptr' = After(rdptr) /\ rdptr' \in 0 .. Size - 1
  BY SizeIsPositive DEF Pointers, Get, After
<1>4. \A i \in 1 .. Size : Slot(i)' = Slot(i + 1)
  BY <1>2, <1>3 DEF Slot, After, Pointers
<1>5. Pointers'
  BY <1>2, <1>3, <1>4 DEF Pointers
<1>6. Content' = [i \in 1 .. n - 1 |-> Content[i + 1]]
  <2>1. Content' = [i \in 1 .. n - 1 |-> buffer[Slot(i)']]
    BY <1>2 DEF Content
  <2>2. ASSUME NEW i \in 1 .. n - 1 PROVE buffer[Slot(i)'] = Content[i + 1]
    <3>1. i \in 1 .. Size /\ i + 1 \in 1 .. n
      BY <1>2
    <3>2. Slot(i)' = Slot(i + 1)
      BY <1>4, <3>1
    <3>3. Content[i + 1] = buffer[Slot(i + 1)]
      BY <3>1 DEF Content
    <3> QED BY <3>2, <3>3
  <2> QED BY <2>1, <2>2
<1>7. Len(Content) = n /\ Content # <<>> /\ Tail(Content) = [i \in 1 .. n - 1 |-> Content[i + 1]]
  BY <1>2 DEF Content
<1>8. QED
  BY <1>5, <1>6, <1>7 DEF F!Get

(* What leaves the fields of the queue alone leaves its content alone.     *)
LEMMA Untouched ==
  ASSUME Pointers, UNCHANGED <<buffer, wrptr, rdptr, counter>>
  PROVE  Pointers' /\ Content' = Content
BY DEF Pointers, Content, Slot

LEMMA InitPointers == Init => Pointers /\ Content = <<>>
BY SizeIsPositive DEF Init, Pointers, Slot, Content

(* Every step keeps the pointers; it puts a byte, takes one, or is no step *)
(* of the buffer.                                                          *)
LEMMA StepOfTheFifo ==
  ASSUME Pointers, [Next]_vars
  PROVE  Pointers' /\ [F!Next]_Content
<1> DEFINE Same == UNCHANGED <<buffer, wrptr, rdptr, counter>>
<1>1. /\ Same => Pointers' /\ [F!Next]_Content
      /\ ~IsEmpty /\ Get => Pointers' /\ [F!Next]_Content
      /\ \A t \in Threads : ~IsFull /\ Store(t) => Pointers' /\ [F!Next]_Content
  BY Untouched, GetTakesHead, StoreAppends DEF F!Next
<1>2. ASSUME NEW t \in Writers, NEW time, OQPut(t, time)
      PROVE  Same \/ (~IsFull /\ Store(t))
  BY <1>2 DEF OQPut, PutLoop
<1>3. ASSUME NEW t \in Threads, Resume(t)
      PROVE  Same \/ (~IsFull /\ Store(t))
  BY <1>3 DEF Resume, Back, PutLoop, queue
<1>4. ASSUME NEW t \in Sleepers, NEW time, Sleep(t, time)
      PROVE  Same
  BY <1>4 DEF Sleep, queue
<1>5. ServeInterrupt => Same \/ (~IsEmpty /\ Get)
  BY DEF ServeInterrupt, queue
<1>6. Tick \/ Expire \/ Wakeup \/ ShiftBegins \/ ShiftEnds \/ UNCHANGED vars => Same
  BY DEF Tick, Expire, Wakeup, ShiftBegins, ShiftEnds, vars, queue
<1>7. QED
  BY <1>1, <1>2, <1>3, <1>4, <1>5, <1>6 DEF Next, Threads

-----------------------------------------------------------------------------
ArmedOnes(list) == {list[i].of : i \in 1 .. Len(list)}

(* The timers against the states of the threads: whoever has one waits or  *)
(* was woken, a wait that ended by timeout ended at its deadline, and a    *)
(* sleeping thread has a timer, armed or firing.                           *)
TimersRight ==
  /\ OnTime(vtlist, ArmedOnes(vtlist), due)
  /\ \A t \in ArmedOnes(vtlist) : pc[t] # "RUN"
  /\ \A t \in Threads : pc[t] = "TIMEOUT" => due[t] = 0 /\ t \notin ArmedOnes(vtlist)
  /\ firing # None => firing \notin ArmedOnes(vtlist) /\ due[firing] = 0 /\ pc[firing] # "RUN"
  /\ \A t \in Threads : pc[t] = "SLEEPING" => t \in ArmedOnes(vtlist) \/ firing = t

Woken == {t \in Threads : pc[t] = "OK"}

(* The waiting threads against the room in the buffer.                     *)
WaitersRight ==
  /\ Woken \subseteq Writers /\ IsFiniteSet(Woken)
  /\ ToSet(waiting) = {t \in Threads : pc[t] = "WTQUEUE"}
  /\ waiting # <<>> => counter <= Cardinality(Woken)

SerialInv == TypeOK /\ Pointers /\ TimersRight /\ WaitersRight

LEMMA ArmedIs ==
  ASSUME TypeOK, TimersRight
  PROVE  /\ due \in [Threads -> Nat] /\ ArmedOnes(vtlist) \subseteq Threads
         /\ \A t : IsArmed(vtlist, t) <=> t \in ArmedOnes(vtlist)
<1>1. due \in [Threads -> Nat]
  BY DEF TypeOK
<1>2. DOMAIN vtlist = 1 .. Len(vtlist) /\ ArmedOnes(vtlist) \subseteq Threads
  BY <1>1, OnTimeSteps DEF TimersRight
<1> QED BY <1>1, <1>2 DEF IsArmed, ArmedOnes

(* A list of timers that is on time has the type of the variable.          *)
LEMMA TimersTyped ==
  ASSUME NEW list, NEW armed, NEW d \in [Threads -> Nat], OnTime(list, armed, d)
  PROVE  \A i \in DOMAIN list : list[i].of \in Threads /\ list[i].time \in Nat
BY OnTimeSteps

LEMMA OnTimeArmed ==
  ASSUME NEW list, NEW armed, NEW d, OnTime(list, armed, d)
  PROVE  armed = ArmedOnes(list)
BY DEF OnTime, ArmedOnes

(* A thread waits from now on, with a timer unless its time is infinite.   *)
LEMMA WaitBegins ==
  ASSUME TypeOK, TimersRight, firing = None, NEW t \in Threads, NEW vl,
         OnTime(vl, ArmedOnes(vtlist) \ {t}, due),
         NEW newstate \in {"WTQUEUE", "SLEEPING"},
         NEW time \in Timeouts \cup Sleeps \cup {Infinite},
         newstate = "SLEEPING" => time # Infinite,
         GoSleepTimeout(t, newstate, time, vl)
  PROVE  /\ TimersRight' /\ due' \in [Threads -> Nat] /\ firing' = None
         /\ pc' = [pc EXCEPT ![t] = newstate]
         /\ timeout' \in [Threads -> Timeouts \cup Sleeps \cup {Infinite}]
<1> DEFINE old == ArmedOnes(vtlist)
           new == IF time = Infinite THEN old \ {t} ELSE (old \ {t}) \cup {t}
<1>1. /\ due \in [Threads -> Nat] /\ old \subseteq Threads
      /\ pc \in [Threads -> {"RUN", "WTQUEUE", "SLEEPING", "OK", "TIMEOUT"}]
      /\ timeout \in [Threads -> Timeouts \cup Sleeps \cup {Infinite}]
  BY ArmedIs DEF TypeOK
<1>2. /\ pc' = [pc EXCEPT ![t] = newstate] /\ firing' = None
      /\ timeout' \in [Threads -> Timeouts \cup Sleeps \cup {Infinite}]
  BY <1>1 DEF GoSleepTimeout
<1>3. /\ OnTime(vtlist', new, due') /\ due' \in [Threads -> Nat]
      /\ \A u \in Threads : u # t => due'[u] = due[u]
  <2>1. CASE time = Infinite
    BY <1>1, <2>1 DEF GoSleepTimeout
  <2>2. CASE time # Infinite
    <3>1. time \in Nat
      BY <2>2, SerialAssumption DEF SerialAssumption
    <3>2. vtlist' = TimerSet(vl, t, time) /\ due' = [due EXCEPT ![t] = time]
      BY <2>2 DEF GoSleepTimeout
    <3>3. OnTime(TimerSet(vl, t, time), (old \ {t}) \cup {t}, [due EXCEPT ![t] = time])
      BY <1>1, <3>1, TimerSetOnTime
    <3>4. due' \in [Threads -> Nat] /\ \A u \in Threads : u # t => due'[u] = due[u]
      BY <1>1, <3>1, <3>2
    <3> QED BY <2>2, <3>2, <3>3, <3>4
  <2> QED BY <2>1, <2>2
<1>4. new = ArmedOnes(vtlist')
  BY <1>3, OnTimeArmed
<1>5. /\ new \subseteq old \cup {t} /\ \A u \in old : u # t => u \in new
      /\ time # Infinite => t \in new
  OBVIOUS
<1> HIDE DEF new, old
<1>6. \A u \in new : pc'[u] # "RUN"
  <2>1. \A u \in old : pc[u] # "RUN"
    BY DEF TimersRight, old
  <2> QED BY <1>1, <1>2, <1>5, <2>1
<1>7. ASSUME NEW u \in Threads, pc'[u] = "TIMEOUT" PROVE due'[u] = 0 /\ u \notin new
  <2>1. u # t /\ pc[u] = "TIMEOUT"
    BY <1>1, <1>2, <1>7
  <2>2. due[u] = 0 /\ u \notin old
    BY <2>1 DEF TimersRight, old
  <2> QED BY <1>3, <1>5, <2>1, <2>2
<1>8. ASSUME NEW u \in Threads, pc'[u] = "SLEEPING" PROVE u \in new
  <2>1. CASE u = t
    BY <1>1, <1>2, <1>5, <1>8, <2>1
  <2>2. CASE u # t
    <3>1. u \in old
      <4>1. pc[u] = "SLEEPING" /\ u # None
        BY <1>1, <1>2, <1>8, <2>2, SerialAssumption DEF SerialAssumption
      <4> QED BY <4>1 DEF TimersRight, old
    <3> QED BY <1>5, <2>2, <3>1
  <2> QED BY <2>1, <2>2
<1>9. TimersRight'
  <2>1. OnTime(vtlist', ArmedOnes(vtlist'), due')
    BY <1>3, <1>4
  <2> QED BY <1>2, <1>4, <1>6, <1>7, <1>8, <2>1 DEF TimersRight
<1> QED BY <1>2, <1>3, <1>9

(* A thread goes on, and its timer if there was one is off.                *)
LEMMA GoesOn ==
  ASSUME TypeOK, TimersRight, firing = None, NEW t \in Threads, NEW vl,
         OnTime(vl, ArmedOnes(vtlist) \ {t}, due),
         vtlist' = vl, due' = due, firing' = firing, pc' = [pc EXCEPT ![t] = "RUN"]
  PROVE  TimersRight'
<1> DEFINE old == ArmedOnes(vtlist)
<1>1. /\ due \in [Threads -> Nat] /\ old \subseteq Threads
      /\ pc \in [Threads -> {"RUN", "WTQUEUE", "SLEEPING", "OK", "TIMEOUT"}]
  BY ArmedIs DEF TypeOK
<1>2. ArmedOnes(vtlist') = old \ {t}
  BY OnTimeArmed
<1>3. /\ \A u \in old : pc[u] # "RUN"
      /\ \A u \in Threads : pc[u] = "TIMEOUT" => due[u] = 0 /\ u \notin old
      /\ \A u \in Threads : pc[u] = "SLEEPING" => u \in old
  <2>1. \A u \in Threads : u # None
    BY SerialAssumption DEF SerialAssumption
  <2> QED BY <2>1 DEF TimersRight
<1> HIDE DEF old
<1>4. /\ \A u \in old \ {t} : pc'[u] # "RUN"
      /\ \A u \in Threads : pc'[u] = "TIMEOUT" => due'[u] = 0 /\ u \notin old \ {t}
      /\ \A u \in Threads : pc'[u] = "SLEEPING" => u \in old \ {t}
  BY <1>1, <1>3
<1>5. OnTime(vtlist', ArmedOnes(vtlist'), due')
  BY <1>2 DEF old
<1> QED BY <1>2, <1>4, <1>5 DEF TimersRight

(* Before a call the thread has no timer; before it resumes it may, and    *)
(* then it is reset.                                                       *)
LEMMA TimerOff ==
  ASSUME TypeOK, TimersRight, NEW t \in Threads
  PROVE  /\ pc[t] = "RUN" => OnTime(vtlist, ArmedOnes(vtlist) \ {t}, due)
         /\ OnTime(IF IsArmed(vtlist, t) THEN TimerReset(vtlist, t) ELSE vtlist,
                   ArmedOnes(vtlist) \ {t}, due)
<1>1. /\ due \in [Threads -> Nat] /\ OnTime(vtlist, ArmedOnes(vtlist), due)
      /\ IsArmed(vtlist, t) <=> t \in ArmedOnes(vtlist)
      /\ pc[t] = "RUN" => t \notin ArmedOnes(vtlist)
  BY ArmedIs DEF TimersRight
<1>2. t \notin ArmedOnes(vtlist) => OnTime(vtlist, ArmedOnes(vtlist) \ {t}, due)
  <2>1. t \notin ArmedOnes(vtlist) => ArmedOnes(vtlist) \ {t} = ArmedOnes(vtlist)
    OBVIOUS
  <2> QED BY <1>1, <2>1
<1>3. t \in ArmedOnes(vtlist) => OnTime(TimerReset(vtlist, t), ArmedOnes(vtlist) \ {t}, due)
  BY <1>1, TimerResetOnTime
<1> QED BY <1>1, <1>2, <1>3

(* The tick, the timer taken off, its callback, and what the interrupt     *)
(* wakes.                                                                  *)
LEMMA TickTimers ==
  ASSUME TypeOK, TimersRight, Tick
  PROVE  TimersRight' /\ due' \in [Threads -> Nat]
<1> DEFINE old == ArmedOnes(vtlist)
<1>1. /\ due \in [Threads -> Nat] /\ old \subseteq Threads
      /\ \A t : IsArmed(vtlist, t) <=> t \in old
  BY ArmedIs
<1>2. /\ OnTime(vtlist, old, due) /\ ~ RunsOut(vtlist) /\ vtlist # <<>>
      /\ vtlist' = Ticked(vtlist) /\ firing = None
      /\ due' = [t \in Threads |-> IF IsArmed(vtlist, t) THEN due[t] - 1 ELSE due[t]]
      /\ pc' = pc /\ firing' = firing
  BY DEF Tick, TimersRight, Ticking, threads
<1>3. due' = [t \in Threads |-> IF t \in old THEN due[t] - 1 ELSE due[t]]
  BY <1>1, <1>2
<1>4. due' \in [Threads -> Nat] /\ OnTime(vtlist', old, due')
  BY <1>1, <1>2, <1>3, TickedOnTime
<1>5. ArmedOnes(vtlist') = old
  BY <1>4, OnTimeArmed
<1>6. \A t \in Threads : pc'[t] = "TIMEOUT" => due'[t] = 0 /\ t \notin old
  BY <1>1, <1>2, <1>3 DEF TimersRight
<1> QED BY <1>2, <1>4, <1>5, <1>6 DEF TimersRight

LEMMA ExpireTimers ==
  ASSUME TypeOK, TimersRight, Expire
  PROVE  TimersRight' /\ due' \in [Threads -> Nat] /\ firing' \in Threads
<1> DEFINE old == ArmedOnes(vtlist)
           t == Head(vtlist).of
<1>1. /\ due \in [Threads -> Nat] /\ OnTime(vtlist, old, due) /\ RunsOut(vtlist)
      /\ firing = None /\ firing' = t /\ vtlist' = Tail(vtlist)
      /\ pc' = pc /\ due' = due
  BY ArmedIs DEF Expire, TimersRight, threads
<1>2. /\ t \in old /\ t \in Threads /\ due[t] = 0
      /\ OnTime(vtlist', old \ {t}, due)
  BY <1>1, TailOnTime
<1>3. ArmedOnes(vtlist') = old \ {t}
  BY <1>2, OnTimeArmed
<1>4. /\ \A u \in old : pc[u] # "RUN"
      /\ \A u \in Threads : pc[u] = "TIMEOUT" => due[u] = 0 /\ u \notin old
      /\ \A u \in Threads : pc[u] = "SLEEPING" => u \in old
  <2>1. \A u \in Threads : u # None
    BY SerialAssumption DEF SerialAssumption
  <2> QED BY <1>1, <2>1 DEF TimersRight
<1> HIDE DEF old, t
<1> QED BY <1>1, <1>2, <1>3, <1>4 DEF TimersRight

LEMMA WakeupTimers ==
  ASSUME TypeOK, TimersRight, Wakeup
  PROVE  TimersRight' /\ due' \in [Threads -> Nat]
<1> DEFINE old == ArmedOnes(vtlist)
<1>1. /\ due \in [Threads -> Nat] /\ old \subseteq Threads
      /\ pc \in [Threads -> {"RUN", "WTQUEUE", "SLEEPING", "OK", "TIMEOUT"}]
      /\ firing \in Threads
  BY ArmedIs DEF TypeOK, Wakeup
<1>2. /\ firing # None /\ firing' = None /\ vtlist' = vtlist /\ due' = due
      /\ IF Ready(firing) THEN pc' = pc ELSE pc' = [pc EXCEPT ![firing] = "TIMEOUT"]
  BY DEF Wakeup
<1>3. /\ firing \notin old /\ due[firing] = 0
      /\ \A t \in old : pc[t] # "RUN"
      /\ \A t \in Threads : pc[t] = "TIMEOUT" => due[t] = 0 /\ t \notin old
      /\ \A t \in Threads : pc[t] = "SLEEPING" => t \in old \/ firing = t
      /\ OnTime(vtlist, old, due)
  BY <1>2 DEF TimersRight
<1>4. ArmedOnes(vtlist') = old
  BY <1>2
<1> HIDE DEF old
<1>5. /\ \A t \in old : pc'[t] # "RUN"
      /\ \A t \in Threads : pc'[t] = "TIMEOUT" => due[t] = 0 /\ t \notin old
      /\ \A t \in Threads : pc'[t] = "SLEEPING" => t \in old
  BY <1>1, <1>2, <1>3 DEF Ready
<1> QED BY <1>1, <1>2, <1>3, <1>4, <1>5 DEF TimersRight

(* A byte taken may wake a waiting thread, whose timer goes on.            *)
LEMMA GetTimers ==
  ASSUME TypeOK, TimersRight, WaitersRight, Get \/ UNCHANGED pc,
         UNCHANGED <<vtlist, firing, due>>
  PROVE  TimersRight'
<1>1. pc \in [Threads -> {"RUN", "WTQUEUE", "SLEEPING", "OK", "TIMEOUT"}]
  BY DEF TypeOK
<1>2. pc' = pc \/ \E u \in Threads : pc[u] = "WTQUEUE" /\ pc' = [pc EXCEPT ![u] = "OK"]
  <2>1. CASE waiting = <<>> \/ ~ Get
    BY <2>1 DEF Get
  <2>2. CASE waiting # <<>> /\ Get
    <3>1. waiting \in Seq(Writers) /\ IsInjective(waiting)
      BY DEF TypeOK
    <3>2. Head(waiting) \in ToSet(waiting)
      BY <2>2, <3>1, TailLine DEF ToSet
    <3>3. Head(waiting) \in Threads /\ pc[Head(waiting)] = "WTQUEUE"
      BY <3>2 DEF WaitersRight
    <3> QED BY <2>2, <3>3 DEF Get
  <2> QED BY <2>1, <2>2
<1>3. ArmedOnes(vtlist') = ArmedOnes(vtlist)
  OBVIOUS
<1>4. ArmedOnes(vtlist) \subseteq Threads
  BY ArmedIs
<1> DEFINE old == ArmedOnes(vtlist)
<1> HIDE DEF old
<1>5. /\ \A t \in old : pc'[t] # "RUN"
      /\ \A t \in Threads : pc'[t] = "TIMEOUT" => due[t] = 0 /\ t \notin old
      /\ firing # None => firing \notin old /\ due[firing] = 0 /\ pc'[firing] # "RUN"
      /\ \A t \in Threads : pc'[t] = "SLEEPING" => t \in old \/ firing = t
  <2>1. /\ \A t \in old : pc[t] # "RUN"
        /\ \A t \in Threads : pc[t] = "TIMEOUT" => due[t] = 0 /\ t \notin old
        /\ firing # None => firing \notin old /\ due[firing] = 0 /\ pc[firing] # "RUN"
        /\ \A t \in Threads : pc[t] = "SLEEPING" => t \in old \/ firing = t
    BY DEF TimersRight, old
  <2>2. firing \in Threads \cup {None} /\ old \subseteq Threads
    BY <1>4 DEF TypeOK, old
  <2> QED BY <1>1, <1>2, <2>1, <2>2
<1> QED BY <1>3, <1>5 DEF TimersRight, old

(* The waiting threads, when one stores its byte, when one joins them, and *)
(* when the step is none of theirs.                                        *)
LEMMA StoreWaiters ==
  ASSUME TypeOK, WaitersRight, NEW t \in Threads, pc[t] \in {"RUN", "OK"},
         ~ IsFull, Store(t), pc' = [pc EXCEPT ![t] = "RUN"]
  PROVE  WaitersRight'
<1>1. /\ pc \in [Threads -> {"RUN", "WTQUEUE", "SLEEPING", "OK", "TIMEOUT"}]
      /\ counter \in Nat /\ counter' = counter - 1 /\ waiting' = waiting
  BY SerialAssumption DEF TypeOK, Store, IsFull, SerialAssumption
<1>2. Woken' = Woken \ {t} /\ {u \in Threads : pc'[u] = "WTQUEUE"} = {u \in Threads : pc[u] = "WTQUEUE"}
  BY <1>1 DEF Woken
<1>3. /\ IsFiniteSet(Woken') /\ Cardinality(Woken) \in Nat /\ Cardinality(Woken') \in Nat
      /\ Cardinality(Woken') >= Cardinality(Woken) - 1
  <2>1. IsFiniteSet(Woken)
    BY DEF WaitersRight
  <2>2. /\ IsFiniteSet(Woken \ {t}) /\ Cardinality(Woken) \in Nat
        /\ Cardinality(Woken \ {t})
             = IF t \in Woken THEN Cardinality(Woken) - 1 ELSE Cardinality(Woken)
    BY <2>1, FS_RemoveElement, FS_CardinalityType
  <2>3. Cardinality(Woken \ {t}) \in Nat
    BY <2>2, FS_CardinalityType
  <2> QED BY <1>2, <2>2, <2>3
<1>4. Woken' \subseteq Writers
  BY <1>2 DEF WaitersRight
<1>5. waiting' # <<>> => counter' <= Cardinality(Woken')
  <2>1. waiting # <<>> => counter <= Cardinality(Woken)
    BY DEF WaitersRight
  <2> QED BY <1>1, <1>3, <2>1
<1> QED BY <1>1, <1>2, <1>3, <1>4, <1>5 DEF WaitersRight

LEMMA JoinWaiters ==
  ASSUME TypeOK, WaitersRight, NEW t \in Writers, pc[t] \in {"RUN", "OK"},
         IsFull, waiting' = Append(waiting, t), counter' = counter,
         pc' = [pc EXCEPT ![t] = "WTQUEUE"]
  PROVE  WaitersRight' /\ waiting' \in Seq(Writers) /\ IsInjective(waiting')
<1>1. /\ pc \in [Threads -> {"RUN", "WTQUEUE", "SLEEPING", "OK", "TIMEOUT"}]
      /\ waiting \in Seq(Writers) /\ IsInjective(waiting) /\ t \in Threads
  BY DEF TypeOK, Threads
<1>2. Woken' = Woken \ {t}
  BY <1>1 DEF Woken
<1>3. {u \in Threads : pc'[u] = "WTQUEUE"} = {u \in Threads : pc[u] = "WTQUEUE"} \cup {t}
  BY <1>1
<1>4. ToSet(waiting) = {u \in Threads : pc[u] = "WTQUEUE"} /\ t \notin ToSet(waiting)
  BY DEF WaitersRight
<1>5. /\ waiting' \in Seq(Writers) /\ IsInjective(waiting')
      /\ ToSet(waiting') = ToSet(waiting) \cup {t}
  <2>1. ToSet(waiting) = Range(waiting)
    BY DEF ToSet, Range
  <2>2. ToSet(waiting') = Range(waiting')
    BY DEF ToSet, Range
  <2> QED BY <1>1, <1>4, <2>1, <2>2, AppendedLine
<1>6. IsFiniteSet(Woken') /\ Cardinality(Woken') \in Nat /\ Woken' \subseteq Writers
  <2>1. IsFiniteSet(Woken) /\ Woken \subseteq Writers
    BY DEF WaitersRight
  <2> QED BY <1>2, <2>1, FS_RemoveElement, FS_CardinalityType
<1>7. counter' <= Cardinality(Woken')
  BY <1>6 DEF IsFull
<1> QED BY <1>3, <1>4, <1>5, <1>6, <1>7 DEF WaitersRight

LEMMA OtherWaiters ==
  ASSUME TypeOK, WaitersRight, UNCHANGED <<waiting, counter>>,
         NEW t \in Threads, pc[t] \notin {"WTQUEUE", "OK"},
         NEW ended \in {"RUN", "SLEEPING", "TIMEOUT"},
         pc' = pc \/ pc' = [pc EXCEPT ![t] = ended]
  PROVE  WaitersRight'
<1>1. pc \in [Threads -> {"RUN", "WTQUEUE", "SLEEPING", "OK", "TIMEOUT"}]
  BY DEF TypeOK
<1>2. Woken' = Woken /\ {u \in Threads : pc'[u] = "WTQUEUE"} = {u \in Threads : pc[u] = "WTQUEUE"}
  BY <1>1 DEF Woken
<1> QED BY <1>2 DEF WaitersRight

(* A timeout takes the thread out of the queue.                            *)
LEMMA WakeupWaiters ==
  ASSUME TypeOK, WaitersRight, TimersRight, Wakeup
  PROVE  WaitersRight' /\ waiting' \in Seq(Writers) /\ IsInjective(waiting')
<1>1. /\ pc \in [Threads -> {"RUN", "WTQUEUE", "SLEEPING", "OK", "TIMEOUT"}]
      /\ waiting \in Seq(Writers) /\ IsInjective(waiting)
      /\ firing \in Threads /\ counter' = counter
  BY DEF TypeOK, Wakeup
<1>2. CASE Ready(firing)
  BY <1>1, <1>2 DEF Wakeup, WaitersRight, Woken
<1>3. CASE ~ Ready(firing) /\ pc[firing] # "WTQUEUE"
  <2>1. /\ waiting' = waiting /\ pc' = [pc EXCEPT ![firing] = "TIMEOUT"]
        /\ pc[firing] \notin {"WTQUEUE", "OK"}
    BY <1>3 DEF Wakeup, Ready
  <2> QED BY <1>1, <2>1, OtherWaiters
<1>4. CASE pc[firing] = "WTQUEUE"
  <2> DEFINE i == CHOOSE i \in DOMAIN waiting : waiting[i] = firing
  <2>1. ToSet(waiting) = {u \in Threads : pc[u] = "WTQUEUE"}
    BY DEF WaitersRight
  <2>2. i \in DOMAIN waiting /\ waiting[i] = firing
    BY <1>1, <1>4, <2>1 DEF ToSet
  <2>3. waiting' = RemoveAt(waiting, i) /\ pc' = [pc EXCEPT ![firing] = "TIMEOUT"]
    BY <1>4 DEF Wakeup, Ready, Dequeued
  <2> HIDE DEF i
  <2>4. /\ waiting' \in Seq(Writers) /\ IsInjective(waiting')
        /\ ToSet(waiting') = ToSet(waiting) \ {firing}
    BY <1>1, <2>2, <2>3, RemovedLine
  <2>5. /\ Woken' = Woken
        /\ {u \in Threads : pc'[u] = "WTQUEUE"} = {u \in Threads : pc[u] = "WTQUEUE"} \ {firing}
    BY <1>1, <1>4, <2>3 DEF Woken
  <2>6. waiting # <<>>
    BY <1>1, <2>2, EmptySeq, LenProperties
  <2> QED BY <1>1, <2>1, <2>4, <2>5, <2>6 DEF WaitersRight
<1> QED BY <1>2, <1>3, <1>4

(* A byte taken makes room for one and wakes one.                          *)
LEMMA GetWaiters ==
  ASSUME TypeOK, WaitersRight, Get
  PROVE  WaitersRight' /\ waiting' \in Seq(Writers) /\ IsInjective(waiting')
<1>1. /\ pc \in [Threads -> {"RUN", "WTQUEUE", "SLEEPING", "OK", "TIMEOUT"}]
      /\ waiting \in Seq(Writers) /\ IsInjective(waiting)
      /\ counter \in Nat /\ counter' = counter + 1
  BY SerialAssumption DEF TypeOK, Get, SerialAssumption
<1>2. CASE waiting = <<>>
  <2>1. pc' = pc /\ waiting' = waiting
    BY <1>2 DEF Get
  <2> QED BY <1>1, <1>2, <2>1 DEF WaitersRight, Woken
<1>3. CASE waiting # <<>>
  <2> DEFINE t == Head(waiting)
  <2>1. pc' = [pc EXCEPT ![t] = "OK"] /\ waiting' = Tail(waiting)
    BY <1>3 DEF Get
  <2>2. /\ waiting' \in Seq(Writers) /\ IsInjective(waiting')
        /\ ToSet(waiting') = ToSet(waiting) \ {t}
        /\ t = waiting[1] /\ 1 \in DOMAIN waiting
    BY <1>1, <1>3, <2>1, TailLine
  <2>3. t \in ToSet(waiting) /\ t \in Writers
    <3>1. t \in ToSet(waiting)
      BY <2>2 DEF ToSet
    <3>2. waiting[1] \in Writers
      BY <1>1, <2>2, LenProperties, ElementOfSeq
    <3> QED BY <2>2, <3>1, <3>2
  <2> HIDE DEF t
  <2>4. ToSet(waiting) = {u \in Threads : pc[u] = "WTQUEUE"}
    BY DEF WaitersRight
  <2>5. pc[t] = "WTQUEUE" /\ t \in Threads /\ t \notin Woken
    BY <2>3, <2>4 DEF Woken
  <2>6. /\ Woken' = Woken \cup {t}
        /\ {u \in Threads : pc'[u] = "WTQUEUE"} = {u \in Threads : pc[u] = "WTQUEUE"} \ {t}
    BY <1>1, <2>1, <2>5 DEF Woken
  <2>7. IsFiniteSet(Woken) /\ Woken \subseteq Writers /\ counter <= Cardinality(Woken)
    BY <1>3 DEF WaitersRight
  <2>8. /\ IsFiniteSet(Woken') /\ Cardinality(Woken') = Cardinality(Woken) + 1
        /\ Cardinality(Woken) \in Nat /\ Woken' \subseteq Writers
    BY <2>3, <2>5, <2>6, <2>7, FS_AddElement, FS_CardinalityType
  <2>9. counter' <= Cardinality(Woken')
    BY <1>1, <2>7, <2>8
  <2> QED BY <2>2, <2>4, <2>6, <2>8, <2>9 DEF WaitersRight
<1> QED BY <1>2, <1>3

(* The queue's part of the types, and the rest.                            *)
QueueTyped ==
  /\ buffer \in [0 .. Size - 1 -> Writers \cup {None}]
  /\ waiting \in Seq(Writers) /\ IsInjective(waiting)

RestTyped ==
  /\ pc \in [Threads -> {"RUN", "WTQUEUE", "SLEEPING", "OK", "TIMEOUT"}]
  /\ timeout \in [Threads -> Timeouts \cup Sleeps \cup {Infinite}]
  /\ firing \in Threads \cup {None}
  /\ {txeie, tcie, txe, tc, shifting} \subseteq BOOLEAN
  /\ due \in [Threads -> Nat]

LEMMA Typed == TypeOK => QueueTyped /\ RestTyped
BY DEF TypeOK, QueueTyped, RestTyped

LEMMA TypesTogether == Pointers /\ TimersRight /\ QueueTyped /\ RestTyped => TypeOK
<1> SUFFICES ASSUME Pointers, TimersRight, QueueTyped, RestTyped
             PROVE  TypeOK
  OBVIOUS
<1>1. {wrptr, rdptr} \subseteq 0 .. Size - 1 /\ counter \in 0 .. Size
  BY Slots DEF Pointers
<1>2. \A i \in DOMAIN vtlist : vtlist[i].of \in Threads /\ vtlist[i].time \in Nat
  BY TimersTyped DEF TimersRight, RestTyped
<1> QED BY <1>1, <1>2 DEF TypeOK, QueueTyped, RestTyped

LEMMA StoreTyped ==
  ASSUME TypeOK, NEW t \in Writers, Store(t)
  PROVE  QueueTyped' /\ {txeie, tcie, txe, tc, shifting}' \subseteq BOOLEAN
BY DEF TypeOK, Store, QueueTyped

(* A turn of the loop of chOQPutTimeout: the byte is stored and the thread *)
(* goes on, or it waits.                                                   *)
LEMMA PutLoopKeeps ==
  ASSUME SerialInv, firing = None, NEW t \in Writers, pc[t] \in {"RUN", "OK"},
         NEW time \in Timeouts \cup Sleeps \cup {Infinite}, NEW vl,
         OnTime(vl, ArmedOnes(vtlist) \ {t}, due), PutLoop(t, time, vl)
  PROVE  TimersRight' /\ WaitersRight' /\ QueueTyped' /\ RestTyped'
<1> USE DEF SerialInv
<1>1. t \in Threads /\ QueueTyped /\ RestTyped
  BY Typed DEF Threads
<1>2. CASE IsFull
  <2>1. /\ waiting' = Append(waiting, t) /\ GoSleepTimeout(t, "WTQUEUE", time, vl)
        /\ UNCHANGED <<buffer, counter, usart>>
    BY <1>2 DEF PutLoop
  <2>2. /\ TimersRight' /\ due' \in [Threads -> Nat] /\ firing' = None
        /\ pc' = [pc EXCEPT ![t] = "WTQUEUE"]
        /\ timeout' \in [Threads -> Timeouts \cup Sleeps \cup {Infinite}]
    BY <1>1, <2>1, WaitBegins
  <2>3. WaitersRight' /\ waiting' \in Seq(Writers) /\ IsInjective(waiting')
    BY <1>2, <2>1, <2>2, JoinWaiters
  <2> QED BY <1>1, <2>1, <2>2, <2>3 DEF QueueTyped, RestTyped, usart
<1>3. CASE ~ IsFull
  <2>1. /\ Store(t) /\ pc' = [pc EXCEPT ![t] = "RUN"] /\ vtlist' = vl
        /\ timeout' = [timeout EXCEPT ![t] = Infinite] /\ firing' = firing /\ due' = due
    BY <1>3 DEF PutLoop
  <2>2. TimersRight'
    BY <1>1, <2>1, GoesOn
  <2>3. WaitersRight'
    BY <1>1, <1>3, <2>1, StoreWaiters
  <2>4. QueueTyped' /\ {txeie, tcie, txe, tc, shifting}' \subseteq BOOLEAN
    BY <2>1, StoreTyped
  <2> QED BY <1>1, <2>1, <2>2, <2>3, <2>4 DEF RestTyped
<1> QED BY <1>2, <1>3

LEMMA ResumeKeeps ==
  ASSUME SerialInv, NEW t \in Threads, Resume(t)
  PROVE  TimersRight' /\ WaitersRight' /\ QueueTyped' /\ RestTyped'
<1> USE DEF SerialInv
<1> DEFINE vl == IF IsArmed(vtlist, t) THEN TimerReset(vtlist, t) ELSE vtlist
<1>1. firing = None /\ Ready(t) /\ Back(t, vl) /\ QueueTyped /\ RestTyped
  BY Typed DEF Resume, Ticking
<1>2. OnTime(vl, ArmedOnes(vtlist) \ {t}, due)
  BY TimerOff
<1> HIDE DEF vl
<1>3. CASE pc[t] = "OK"
  <2>1. t \in Writers
    BY <1>3 DEF WaitersRight, Woken
  <2>2. PutLoop(t, timeout[t], vl)
    BY <1>1, <1>3 DEF Back
  <2>3. timeout[t] \in Timeouts \cup Sleeps \cup {Infinite}
    BY <1>1 DEF RestTyped
  <2> QED BY <1>1, <1>2, <1>3, <2>1, <2>2, <2>3, PutLoopKeeps
<1>4. CASE pc[t] = "TIMEOUT"
  <2>1. /\ pc' = [pc EXCEPT ![t] = "RUN"] /\ vtlist' = vl
        /\ timeout' = [timeout EXCEPT ![t] = Infinite]
        /\ UNCHANGED <<queue, usart, firing, due>>
    BY <1>1, <1>4 DEF Back
  <2>2. TimersRight'
    BY <1>1, <1>2, <2>1, GoesOn
  <2>3. WaitersRight'
    <3>1. pc[t] \notin {"WTQUEUE", "OK"}
      BY <1>4
    <3> QED BY <2>1, <3>1, OtherWaiters DEF queue
  <2> QED BY <1>1, <2>1, <2>2, <2>3 DEF QueueTyped, RestTyped, queue, usart
<1> QED BY <1>1, <1>3, <1>4 DEF Ready

LEMMA SleepKeeps ==
  ASSUME SerialInv, NEW t \in Sleepers, NEW time \in Sleeps, Sleep(t, time)
  PROVE  TimersRight' /\ WaitersRight' /\ QueueTyped' /\ RestTyped'
<1> USE DEF SerialInv
<1>1. /\ t \in Threads /\ firing = None /\ pc[t] = "RUN" /\ time # Infinite
      /\ GoSleepTimeout(t, "SLEEPING", time, vtlist)
      /\ UNCHANGED <<queue, usart>> /\ QueueTyped /\ RestTyped
  BY Typed, SerialAssumption DEF Sleep, Ticking, Threads, SerialAssumption
<1>2. OnTime(vtlist, ArmedOnes(vtlist) \ {t}, due)
  BY <1>1, TimerOff
<1>3. /\ TimersRight' /\ due' \in [Threads -> Nat] /\ firing' = None
      /\ pc' = [pc EXCEPT ![t] = "SLEEPING"]
      /\ timeout' \in [Threads -> Timeouts \cup Sleeps \cup {Infinite}]
  BY <1>1, <1>2, WaitBegins
<1>4. WaitersRight'
  BY <1>1, <1>3, OtherWaiters DEF queue
<1> QED BY <1>1, <1>3, <1>4 DEF QueueTyped, RestTyped, queue, usart

LEMMA ServeKeeps ==
  ASSUME SerialInv, ServeInterrupt
  PROVE  TimersRight' /\ WaitersRight' /\ QueueTyped' /\ RestTyped'
<1> USE DEF SerialInv
<1>1. /\ UNCHANGED <<vtlist, firing, shifting, due>> /\ QueueTyped /\ RestTyped
      /\ {txeie, tcie, txe, tc, shifting}' \subseteq BOOLEAN
  <2>1. QueueTyped /\ RestTyped
    BY Typed
  <2>2. /\ txeie \in BOOLEAN /\ tcie \in BOOLEAN /\ txe \in BOOLEAN
        /\ tc \in BOOLEAN /\ shifting \in BOOLEAN
    BY <2>1 DEF RestTyped
  <2>3. txeie' \in BOOLEAN /\ tcie' \in BOOLEAN /\ tc' \in BOOLEAN /\ shifting' \in BOOLEAN
    BY <2>2 DEF ServeInterrupt
  <2>4. txe' \in BOOLEAN
    BY <2>2 DEF ServeInterrupt
  <2> QED BY <2>1, <2>3, <2>4 DEF ServeInterrupt
<1>2. CASE Get
  <2>1. TimersRight'
    BY <1>1, <1>2, GetTimers
  <2>2. WaitersRight' /\ waiting' \in Seq(Writers) /\ IsInjective(waiting')
    BY <1>2, GetWaiters
  <2>3. timeout' = timeout /\ buffer' = buffer
    BY <1>2 DEF Get
  <2>4. pc' \in [Threads -> {"RUN", "WTQUEUE", "SLEEPING", "OK", "TIMEOUT"}]
    BY <1>1, <1>2 DEF Get, RestTyped
  <2> QED BY <1>1, <2>1, <2>2, <2>3, <2>4 DEF QueueTyped, RestTyped
<1>3. CASE UNCHANGED <<threads, queue>>
  <2>1. TimersRight'
    BY <1>1, <1>3, GetTimers DEF threads
  <2>2. WaitersRight'
    BY <1>3 DEF threads, queue, WaitersRight, Woken
  <2> QED BY <1>1, <1>3, <2>1, <2>2 DEF QueueTyped, RestTyped, threads, queue
<1> QED BY <1>2, <1>3 DEF ServeInterrupt

(* Steps that leave the threads or the queue as they are.                  *)
LEMMA SameKeeps ==
  ASSUME SerialInv, UNCHANGED <<threads, queue, vtlist, firing, due>>
  PROVE  TimersRight' /\ WaitersRight' /\ QueueTyped'
<1> USE DEF SerialInv
<1>1. QueueTyped' /\ WaitersRight'
  BY Typed DEF QueueTyped, WaitersRight, Woken, threads, queue
<1>2. TimersRight'
  BY GetTimers DEF threads
<1> QED BY <1>1, <1>2

LEMMA SerialStep ==
  ASSUME SerialInv, [Next]_vars
  PROVE  SerialInv'
<1> USE DEF SerialInv
<1>0. Pointers'
  BY StepOfTheFifo
<1> DEFINE Keeps == TimersRight' /\ WaitersRight' /\ QueueTyped' /\ RestTyped'
<1>1. ASSUME NEW t \in Writers, NEW time \in Timeouts \cup {Infinite}, OQPut(t, time)
      PROVE  Keeps
  <2>1. firing = None /\ pc[t] = "RUN" /\ PutLoop(t, time, vtlist) /\ t \in Threads
    BY <1>1 DEF OQPut, Ticking, Threads
  <2>2. OnTime(vtlist, ArmedOnes(vtlist) \ {t}, due)
    BY <2>1, TimerOff
  <2>3. time \in Timeouts \cup Sleeps \cup {Infinite}
    OBVIOUS
  <2> QED BY <2>1, <2>2, <2>3, PutLoopKeeps
<1>2. ASSUME NEW t \in Sleepers, NEW time \in Sleeps, Sleep(t, time)
      PROVE  Keeps
  BY <1>2, SleepKeeps
<1>3. ASSUME NEW t \in Threads, Resume(t)
      PROVE  Keeps
  BY <1>3, ResumeKeeps
<1>4. ASSUME Tick PROVE Keeps
  <2>1. TimersRight' /\ due' \in [Threads -> Nat] /\ UNCHANGED <<threads, queue, firing, usart>>
    BY <1>4, TickTimers DEF Tick
  <2> QED BY <2>1, Typed DEF QueueTyped, RestTyped, WaitersRight, Woken, threads, queue, usart
<1>5. ASSUME Expire PROVE Keeps
  <2>1. /\ TimersRight' /\ due' \in [Threads -> Nat] /\ firing' \in Threads
        /\ UNCHANGED <<threads, queue, usart>>
    BY <1>5, ExpireTimers DEF Expire
  <2> QED BY <2>1, Typed DEF QueueTyped, RestTyped, WaitersRight, Woken, threads, queue, usart
<1>6. ASSUME Wakeup PROVE Keeps
  <2>1. TimersRight' /\ due' \in [Threads -> Nat]
    BY <1>6, WakeupTimers
  <2>2. WaitersRight' /\ waiting' \in Seq(Writers) /\ IsInjective(waiting')
    BY <1>6, WakeupWaiters
  <2>3. /\ firing' = None /\ UNCHANGED <<timeout, buffer, usart>>
        /\ pc' = pc \/ pc' = [pc EXCEPT ![firing] = "TIMEOUT"]
    BY <1>6 DEF Wakeup
  <2>4. QueueTyped /\ RestTyped
    BY Typed
  <2>5. pc' \in [Threads -> {"RUN", "WTQUEUE", "SLEEPING", "OK", "TIMEOUT"}]
    BY <2>3, <2>4 DEF RestTyped
  <2> QED BY <2>1, <2>2, <2>3, <2>4, <2>5 DEF QueueTyped, RestTyped, usart
<1>7. ASSUME ServeInterrupt PROVE Keeps
  BY <1>7, ServeKeeps
<1>8. ASSUME ShiftBegins \/ ShiftEnds \/ UNCHANGED vars PROVE Keeps
  <2>1. UNCHANGED <<threads, queue, vtlist, firing, due>>
    BY <1>8 DEF ShiftBegins, ShiftEnds, vars
  <2>2. RestTyped
    BY Typed
  <2>3. {txeie, tcie, txe, tc, shifting}' \subseteq BOOLEAN
    <3>1. /\ txeie \in BOOLEAN /\ tcie \in BOOLEAN /\ txe \in BOOLEAN
          /\ tc \in BOOLEAN /\ shifting \in BOOLEAN
      BY <2>2 DEF RestTyped
    <3>2. /\ txeie' = txeie /\ tcie' = tcie
          /\ txe' \in BOOLEAN /\ tc' \in BOOLEAN /\ shifting' \in BOOLEAN
      BY <1>8, <3>1 DEF ShiftBegins, ShiftEnds, vars, usart
    <3> QED BY <3>1, <3>2
  <2> QED BY <2>1, <2>2, <2>3, SameKeeps DEF RestTyped, threads
<1>9. Keeps
  <2> HIDE DEF Keeps, SerialInv
  <2>1. CASE Next
    BY <1>1, <1>2, <1>3, <1>4, <1>5, <1>6, <1>7, <1>8, <2>1 DEF Next
  <2> QED BY <1>8, <2>1
<1>10. TypeOK'
  BY <1>0, <1>9, TypesTogether, PTL
<1> QED BY <1>0, <1>9, <1>10

LEMMA SerialBegins == Init => SerialInv
<1> SUFFICES ASSUME Init PROVE SerialInv
  OBVIOUS
<1>1. Pointers
  BY InitPointers
<1>2. TimersRight
  <2>1. /\ vtlist = <<>> /\ due \in [Threads -> Nat] /\ firing = None
        /\ pc = [t \in Threads |-> "RUN"]
    BY DEF Init
  <2>2. ArmedOnes(vtlist) = {} /\ vtlist \in Seq(Timer) /\ Len(vtlist) = 0
    BY <2>1, EmptySeq DEF ArmedOnes
  <2>3. OnTime(vtlist, ArmedOnes(vtlist), due)
    BY <2>2 DEF OnTime, ArmedOnes
  <2> QED BY <2>1, <2>2, <2>3 DEF TimersRight
<1>3. waiting = <<>> /\ waiting \in Seq(Writers) /\ IsInjective(waiting)
  BY EmptySeq DEF Init, IsInjective
<1>4. WaitersRight
  <2>1. Woken = {} /\ {t \in Threads : pc[t] = "WTQUEUE"} = {}
    BY DEF Init, Woken
  <2>2. ToSet(waiting) = {}
    BY <1>3 DEF ToSet
  <2> QED BY <1>3, <2>1, <2>2, FS_EmptySet DEF WaitersRight
<1>5. QueueTyped /\ RestTyped
  BY <1>3 DEF Init, QueueTyped, RestTyped
<1>6. TypeOK
  BY <1>1, <1>2, <1>5, TypesTogether
<1> QED BY <1>1, <1>2, <1>4, <1>6 DEF SerialInv

(* Types, pointers, timers and waiting threads stay right.                 *)
THEOREM SerialIsSafe == Spec => []SerialInv
<1>1. SerialInv /\ [Next]_vars => SerialInv'
  BY SerialStep
<1> QED BY <1>1, SerialBegins, PTL DEF Spec

(* No writer waits beside a free place that nobody was woken for, whatever *)
(* the interrupt, the timeouts and the other writers do between the wakeup *)
(* and the woken thread's turn.                                            *)
THEOREM NobodyForgotten == Spec => []NoWaiterForgotten
<1>1. SerialInv => NoWaiterForgotten
  BY DEF SerialInv, WaitersRight, Woken, NoWaiterForgotten
<1> QED BY <1>1, SerialIsSafe, PTL

(* The list of differences of chvt.c keeps every deadline, however timers  *)
(* are set, reset and expire between each other, and no timer outlives the *)
(* wait whose stack it is on.                                              *)
THEOREM DeadlinesKept == Spec => []TimersOnTime
<1>1. SerialInv => TimersOnTime
  <2> SUFFICES ASSUME SerialInv PROVE TimersOnTime
    OBVIOUS
  <2>1. TypeOK /\ TimersRight
    BY DEF SerialInv
  <2>2. /\ DOMAIN vtlist = 1 .. Len(vtlist)
        /\ \A t : IsArmed(vtlist, t) <=> t \in ArmedOnes(vtlist)
    BY <2>1, ArmedIs, OnTimeSteps DEF TimersRight
  <2>3. /\ \A i \in 1 .. Len(vtlist) : Remaining(vtlist, i) = due[vtlist[i].of]
        /\ \A i, j \in 1 .. Len(vtlist) : vtlist[i].of = vtlist[j].of => i = j
        /\ \A i \in 1 .. Len(vtlist) : pc[vtlist[i].of] # "RUN"
    BY <2>1 DEF TimersRight, OnTime, ArmedOnes
  <2>4. \A t \in Threads : pc[t] = "TIMEOUT" => due[t] = 0
    BY <2>1 DEF TimersRight
  <2>5. \A t \in Threads : pc[t] = "SLEEPING" => IsArmed(vtlist, t) \/ firing = t
    BY <2>1, <2>2 DEF TimersRight
  <2> QED BY <2>2, <2>3, <2>4, <2>5 DEF TimersOnTime
<1> QED BY <1>1, SerialIsSafe, PTL

(* Whatever waits, timeouts, sleeps and interrupts do, the output queue is *)
(* a first-in first-out buffer of Size bytes: chOQPutTimeout puts at its   *)
(* end, once for each call that finds room, and chOQGetI takes its head.   *)
THEOREM Refinement == Spec => ImplementsFifo
<1>1. Init => Pointers /\ F!Init
  BY InitPointers DEF F!Init
<1>2. Pointers /\ [Next]_vars => Pointers' /\ [F!Next]_Content
  BY StepOfTheFifo
<1>3. QED
  BY <1>1, <1>2, PTL DEF Spec, ImplementsFifo, F!Spec
-----------------------------------------------------------------------------
(* The card the listing is read from.                                      *)
ListingInv ==
  /\ MMCTypeOK
  /\ at \in {"PROMPT", "CONNECT", "F_MOUNT", "SYNC", "GETFREE", "OPEN", "READDIR"}
  /\ fs_ready \in BOOLEAN
  /\ state = "READY" => spi = "FULL" /\ card # NoCard
  /\ fs_ready => volume \in {NoCard, card}
  /\ at \in {"GETFREE", "OPEN", "READDIR"} => fs_ready
  /\ at \in {"OPEN", "READDIR"} => Known
  /\ at = "PROMPT" /\ ~fs_ready => state = "ACTIVE"

LEMMA ListingBegins == CardInit => ListingInv
BY DEF CardInit, MMCInit, ListingInv, MMCTypeOK

(* The calls of the driver.                                                *)
LEMMA ReadKinds ==
  ASSUME ListingInv
  PROVE  /\ ReadSucceeds => UNCHANGED mmc
         /\ ReadFails => UNCHANGED card /\ state' = "READING" /\ MMCTypeOK'
<1>1. ReadSucceeds => UNCHANGED mmc
  BY DEF ReadSucceeds, ListingInv, mmc
<1>2. ReadFails => UNCHANGED card /\ state' = "READING" /\ MMCTypeOK'
  BY DEF ReadFails, ListingInv, MMCTypeOK
<1> QED BY <1>1, <1>2

LEMMA ErrorListing ==
  ASSUME ListingInv, at \in {"GETFREE", "OPEN", "READDIR"}, ReadError \/ CheckFails
  PROVE  ListingInv'
<1>1. at' = "PROMPT" /\ fs_ready' = TRUE /\ fs_ready = TRUE
  BY DEF ReadError, CheckFails, GivesUp, ListingInv
<1>2. \/ UNCHANGED mmc
      \/ UNCHANGED card /\ state' = "READING" /\ MMCTypeOK'
  BY ReadKinds DEF ReadError, CheckFails
<1>3. card' = card /\ volume' \in {NoCard, card}
  BY <1>1, <1>2 DEF ReadError, CheckFails, ListingInv, mmc
<1>4. MMCTypeOK' /\ (state' = "READY" => spi' = "FULL" /\ card' # NoCard)
  BY <1>2 DEF ListingInv, MMCTypeOK, mmc
<1> QED BY <1>1, <1>3, <1>4 DEF ListingInv

LEMMA CheckListing ==
  ASSUME ListingInv, at = "GETFREE", CheckSucceeds, at' = "OPEN", UNCHANGED fs_ready
  PROVE  ListingInv'
<1>1. UNCHANGED mmc
  BY ReadKinds DEF CheckSucceeds
<1>2. volume' = card /\ state = "READY" /\ card # NoCard
  BY DEF CheckSucceeds, Known, ReadSucceeds, ListingInv
<1>3. Known'
  BY <1>1, <1>2 DEF Known, mmc
<1>4. MMCTypeOK' /\ (state' = "READY" => spi' = "FULL" /\ card' # NoCard)
  BY <1>1 DEF ListingInv, MMCTypeOK, mmc
<1> QED BY <1>1, <1>2, <1>3, <1>4 DEF ListingInv, mmc

(* A step within the walk or back to the prompt.                           *)
LEMMA WalkListing ==
  ASSUME ListingInv, at \in {"OPEN", "READDIR"}, ReadOrKept,
         at' \in {"OPEN", "READDIR", "PROMPT"}, UNCHANGED <<fs_ready, volume>>
  PROVE  ListingInv'
<1>1. UNCHANGED mmc
  BY ReadKinds DEF ReadOrKept
<1>2. Known /\ Known'
  BY <1>1 DEF ListingInv, Known, mmc
<1>3. MMCTypeOK' /\ (state' = "READY" => spi' = "FULL" /\ card' # NoCard)
  BY <1>1 DEF ListingInv, MMCTypeOK, mmc
<1> QED BY <1>1, <1>2, <1>3 DEF ListingInv, mmc

LEMMA MountListing ==
  ASSUME ListingInv, Mount \/ Connected \/ FMount
  PROVE  ListingInv'
<1>1. CASE Mount
  BY <1>1 DEF Mount, ConnectBegins, ListingInv, MMCTypeOK
<1>2. CASE Connected
  <2>1. PICK ok \in BOOLEAN, blocks \in BOOLEAN :
          /\ ok => card # NoCard
          /\ block_addresses' = (block_addresses \/ blocks)
          /\ IF ok THEN state' = "READY" /\ spi' = "FULL"
                   ELSE state' = "ACTIVE" /\ spi' = "STOP"
          /\ UNCHANGED <<card, failed>>
    BY <1>2 DEF Connected, ConnectEnds
  <2>2. block_addresses' \in BOOLEAN
    BY <2>1
  <2>3. MMCTypeOK' /\ (state' = "READY" => spi' = "FULL" /\ card' # NoCard)
    BY <2>1, <2>2 DEF ListingInv, MMCTypeOK
  <2>4. at' = "F_MOUNT" /\ UNCHANGED <<fs_ready, volume, card>>
    BY <1>2, <2>1 DEF Connected
  <2> QED BY <2>3, <2>4 DEF ListingInv
<1>3. CASE FMount
  BY <1>3 DEF FMount, mmc, ListingInv, MMCTypeOK
<1> QED BY <1>1, <1>2, <1>3

LEMMA UnmountListing ==
  ASSUME ListingInv, Unmount \/ Disconnected \/ Tree \/ ChangeCard
  PROVE  ListingInv'
<1>1. CASE Unmount
  BY <1>1 DEF Unmount, DisconnectBegins, ListingInv, MMCTypeOK, mmc
<1>2. CASE Disconnected
  BY <1>2 DEF Disconnected, DisconnectEnds, ListingInv, MMCTypeOK
<1>3. CASE Tree
  BY <1>3 DEF Tree, ListingInv, MMCTypeOK, mmc
<1>4. CASE ChangeCard
  BY <1>4 DEF ChangeCard, Exchange, ListingInv, MMCTypeOK
<1> QED BY <1>1, <1>2, <1>3, <1>4

LEMMA ListingStep ==
  ASSUME ListingInv, [CardNext]_cardVars
  PROVE  ListingInv'
<1>1. CASE GetFree
  BY <1>1, ErrorListing, CheckListing DEF GetFree
<1>2. CASE Open
  BY <1>2, ErrorListing, WalkListing DEF Open
<1>3. CASE ReadDirFails
  BY <1>3, ErrorListing DEF ReadDirFails
<1>4. ASSUME NEW name \in Names, ReadDir(name) PROVE ListingInv'
  <2>1. at = "READDIR" /\ ReadOrKept /\ at' \in {"OPEN", "READDIR"} /\ UNCHANGED <<fs_ready, volume>>
    BY <1>4 DEF ReadDir, EnterDirectory
  <2> QED BY <2>1, WalkListing
<1>5. CASE ReadDirEnds
  <2>1. at = "READDIR" /\ ReadOrKept /\ at' \in {"PROMPT", "READDIR"} /\ UNCHANGED <<fs_ready, volume>>
    BY <1>5 DEF ReadDirEnds, LeaveDirectory
  <2> QED BY <2>1, WalkListing
<1>6. CASE UNCHANGED cardVars
  BY <1>6 DEF cardVars, mmc, ListingInv, MMCTypeOK, Known
<1> QED BY <1>1, <1>2, <1>3, <1>4, <1>5, <1>6, MountListing, UnmountListing DEF CardNext, Goes

(* What tree shows is read from the card in the socket, whatever failed    *)
(* before: chk_mounted takes a volume for known only while the card is     *)
(* READY, and f_mount forgets the volume of the card before.               *)
THEOREM ListingIsRead == CardSpec => []ListingIsTheCards
<1>1. ListingInv => ListingIsTheCards
  BY DEF ListingInv, ListingIsTheCards, Known
<1> QED BY <1>1, ListingBegins, ListingStep, PTL DEF CardSpec
-----------------------------------------------------------------------------
(* The names passed up to each position of a path, as Place counts them.   *)
Walked(p) ==
  CHOOSE names : names = [k \in 0 .. Len(p) |->
    IF k = 0 THEN <<>>
    ELSE IF p[k] = Separator THEN names[k - 1] ELSE Append(names[k - 1], p[k])]

LEMMA WalksExist ==
  ASSUME NEW p, NEW L \in Nat
  PROVE  \E names : names = [k \in 0 .. L |->
           IF k = 0 THEN <<>>
           ELSE IF p[k] = Separator THEN names[k - 1] ELSE Append(names[k - 1], p[k])]
<1> DEFINE Step(names, k) ==
             IF k = 0 THEN <<>>
             ELSE IF p[k] = Separator THEN names[k - 1] ELSE Append(names[k - 1], p[k])
           Has(n) == \E names : names = [k \in 0 .. n |-> Step(names, k)]
           Bad == {n \in Nat : ~ Has(n)}
<1> SUFFICES Bad = {}
  OBVIOUS
<1> SUFFICES ASSUME Bad # {} PROVE FALSE
  OBVIOUS
<1>1. PICK n \in Bad : \A k \in Bad : n <= k
  <2>1. Bad \subseteq Nat
    OBVIOUS
  <2> HIDE DEF Bad
  <2> QED BY <2>1, LeastNatural
<1>2. CASE n = 0
  <2> DEFINE names == [k \in 0 .. 0 |-> <<>>]
  <2>1. names = [k \in 0 .. 0 |-> Step(names, k)]
    OBVIOUS
  <2>2. Has(0)
    BY <2>1
  <2> QED BY <1>2, <2>2
<1>3. CASE n # 0
  <2>1. n - 1 \in Nat /\ ~ (n - 1 \in Bad)
    <3> HIDE DEF Has
    <3>1. n \in Nat /\ n - 1 \in Nat /\ ~ (n <= n - 1)
      BY <1>1, <1>3
    <3> QED BY <1>1, <3>1
  <2>2. PICK s : s = [k \in 0 .. n - 1 |-> Step(s, k)]
    BY <2>1
  <2> DEFINE names == [k \in 0 .. n |-> IF k = n THEN Step(s, n) ELSE s[k]]
  <2>3. \A k \in 0 .. n - 1 : s[k] = Step(s, k)
    BY <2>2
  <2>4. ASSUME NEW k \in 0 .. n
        PROVE  names[k] = Step(names, k)
    <3>1. k # 0 => k - 1 \in 0 .. n - 1 /\ k - 1 \in 0 .. n /\ k - 1 # n
      BY <2>1
    <3>2. k # 0 => names[k - 1] = s[k - 1]
      BY <3>1
    <3>3. Step(names, k) = Step(s, k)
      BY <3>2
    <3>4. k # n => k \in 0 .. n - 1
      BY <2>1
    <3>5. names[k] = Step(s, k)
      BY <2>3, <3>4
    <3> QED BY <3>3, <3>5
  <2>5. names = [k \in 0 .. n |-> Step(names, k)]
    <3>1. DOMAIN names = 0 .. n
      OBVIOUS
    <3> HIDE DEF Step
    <3> QED BY <2>4
  <2>6. Has(n)
    BY <2>5
  <2> QED BY <2>6
<1> QED BY <1>2, <1>3

LEMMA WalkedIs ==
  ASSUME NEW p, Len(p) \in Nat
  PROVE  /\ Walked(p)[0] = <<>> /\ Place(p) = Walked(p)[Len(p)]
         /\ \A k \in 1 .. Len(p) :
              Walked(p)[k] = IF p[k] = Separator THEN Walked(p)[k - 1]
                             ELSE Append(Walked(p)[k - 1], p[k])
<1>1. Walked(p) = [k \in 0 .. Len(p) |->
        IF k = 0 THEN <<>>
        ELSE IF p[k] = Separator THEN Walked(p)[k - 1] ELSE Append(Walked(p)[k - 1], p[k])]
  BY WalksExist DEF Walked
<1>2. Place(p) = Walked(p)[Len(p)]
  BY DEF Place, Walked
<1>3. \A k \in 0 .. Len(p) :
        Walked(p)[k] = IF k = 0 THEN <<>>
                       ELSE IF p[k] = Separator THEN Walked(p)[k - 1]
                       ELSE Append(Walked(p)[k - 1], p[k])
  <2> DEFINE w == Walked(p)
  <2> HIDE DEF w
  <2>1. w = [k \in 0 .. Len(p) |->
          IF k = 0 THEN <<>>
          ELSE IF p[k] = Separator THEN w[k - 1] ELSE Append(w[k - 1], p[k])]
    BY <1>1 DEF w
  <2>2. \A k \in 0 .. Len(p) :
          w[k] = IF k = 0 THEN <<>>
                 ELSE IF p[k] = Separator THEN w[k - 1] ELSE Append(w[k - 1], p[k])
    BY <2>1
  <2> QED BY <2>2, Zenon DEF w
<1> QED BY <1>2, <1>3

(* Paths that agree up to a position lead to the same place there.         *)
LEMMA WalksAgree ==
  ASSUME NEW p, NEW q, Len(p) \in Nat, Len(q) \in Nat,
         NEW n \in Nat, n <= Len(p), n <= Len(q), \A k \in 1 .. n : p[k] = q[k]
  PROVE  \A k \in 0 .. n : Walked(p)[k] = Walked(q)[k]
<1> DEFINE Bad == {k \in 0 .. n : Walked(p)[k] # Walked(q)[k]}
<1> SUFFICES ASSUME Bad # {} PROVE FALSE
  OBVIOUS
<1>1. PICK m \in Bad : \A k \in Bad : m <= k
  <2>1. Bad \subseteq Nat
    OBVIOUS
  <2> QED BY <2>1, LeastNatural
<1>2. m \in 1 .. n /\ m - 1 \in 0 .. n /\ m \in 1 .. Len(p) /\ m \in 1 .. Len(q)
  <2>1. m # 0
    BY <1>1, WalkedIs
  <2> QED BY <1>1, <2>1
<1>3. Walked(p)[m - 1] = Walked(q)[m - 1]
  <2>1. m - 1 \notin Bad
    BY <1>1, <1>2
  <2> QED BY <1>2, <2>1
<1>4. p[m] = q[m]
  BY <1>2
<1>5. /\ Walked(p)[m] = IF p[m] = Separator THEN Walked(p)[m - 1]
                        ELSE Append(Walked(p)[m - 1], p[m])
      /\ Walked(q)[m] = IF q[m] = Separator THEN Walked(q)[m - 1]
                        ELSE Append(Walked(q)[m - 1], q[m])
  BY <1>2, WalkedIs
<1>6. Walked(p)[m] = Walked(q)[m]
  BY <1>3, <1>4, <1>5
<1> QED BY <1>1, <1>6

Words == Names \cup {Separator}

(* A place is a sequence of names.                                         *)
LEMMA WalkedTyped ==
  ASSUME NEW p \in Seq(Words)
  PROVE  \A k \in 0 .. Len(p) : Walked(p)[k] \in Seq(Names)
<1>0. Len(p) \in Nat /\ \A k \in 1 .. Len(p) : p[k] \in Words
  BY LenProperties, ElementOfSeq
<1> DEFINE Bad == {k \in 0 .. Len(p) : Walked(p)[k] \notin Seq(Names)}
<1> SUFFICES ASSUME Bad # {} PROVE FALSE
  OBVIOUS
<1>1. PICK m \in Bad : \A k \in Bad : m <= k
  <2>1. Bad \subseteq Nat
    OBVIOUS
  <2> QED BY <2>1, LeastNatural
<1>2. m \in 1 .. Len(p) /\ m - 1 \in 0 .. Len(p)
  <2>1. m # 0
    <3>1. Walked(p)[0] = <<>>
      BY <1>0, WalkedIs
    <3>2. Walked(p)[0] \in Seq(Names)
      BY <3>1
    <3> QED BY <1>1, <3>2
  <2> QED BY <1>0, <1>1, <2>1
<1>3. Walked(p)[m - 1] \in Seq(Names)
  <2>1. m - 1 \notin Bad
    BY <1>1, <1>2
  <2> QED BY <1>2, <2>1
<1>4. Walked(p)[m] = IF p[m] = Separator THEN Walked(p)[m - 1]
                     ELSE Append(Walked(p)[m - 1], p[m])
  BY <1>0, <1>2, WalkedIs
<1>5. Walked(p)[m] \in Seq(Names)
  <2>1. CASE p[m] = Separator
    BY <1>3, <1>4, <2>1
  <2>2. CASE p[m] # Separator
    <3>1. p[m] \in Names
      BY <1>0, <1>2, <2>2 DEF Words
    <3> QED BY <1>3, <1>4, <2>2, <3>1, AppendProperties
  <2> QED BY <2>1, <2>2
<1> QED BY <1>1, <1>5

(* The path and the calls of scan_files: each call was opened at the place *)
(* the path led to at its i, the i of the calls go up, and the innermost   *)
(* reads with the whole path.                                              *)
Call == [dir : Seq(Names), read : Nat, i : Nat]

PathInv ==
  /\ path \in Seq(Words) /\ calls \in Seq(Call)
  /\ \A k \in 1 .. Len(calls) :
       calls[k].i <= Len(path) /\ calls[k].dir = Walked(path)[calls[k].i]
  /\ \A j, k \in 1 .. Len(calls) : j < k => calls[j].i <= calls[k].i
  /\ at = "READDIR" => calls # <<>> /\ calls[Len(calls)].i = Len(path)
  /\ at \notin {"OPEN", "READDIR"} => calls = <<>>
  /\ ListedWhereTheyAre

LEMMA PathBegins == CardInit => PathInv
<1> SUFFICES ASSUME CardInit PROVE PathInv
  OBVIOUS
<1>1. path \in Seq(Words) /\ calls \in Seq(Call) /\ Len(calls) = 0
  BY EmptySeq DEF CardInit
<1> QED BY <1>1 DEF CardInit, PathInv, ListedWhereTheyAre

(* The calls are over.                                                     *)
LEMMA PathOver ==
  ASSUME PathInv, calls' = <<>>, path' = <<>> \/ path' = path, line' = line,
         at' # "READDIR"
  PROVE  PathInv'
<1>1. path' \in Seq(Words) /\ calls' \in Seq(Call) /\ Len(calls') = 0
  BY EmptySeq DEF PathInv
<1> QED BY <1>1 DEF PathInv, ListedWhereTheyAre

(* What a read entry leaves: one more is read in the innermost call, and   *)
(* its i is given.                                                         *)
LEMMA NextEntry ==
  ASSUME PathInv, at = "READDIR", NEW i \in Nat
  PROVE  LET n == Len(calls)
             r == [calls EXCEPT ![n] = [dir |-> calls[n].dir, read |-> calls[n].read + 1, i |-> i]]
         IN  /\ n \in Nat /\ n >= 1 /\ calls[n] \in Call /\ Last(calls) = calls[n]
             /\ r \in Seq(Call) /\ Len(r) = n
             /\ \A k \in 1 .. n : r[k].dir = calls[k].dir
                                  /\ r[k].i = IF k = n THEN i ELSE calls[k].i
<1> DEFINE n == Len(calls)
           top == [dir |-> calls[n].dir, read |-> calls[n].read + 1, i |-> i]
           r == [calls EXCEPT ![n] = top]
<1>1. calls \in Seq(Call) /\ calls # <<>>
  BY DEF PathInv
<1>2. n \in Nat /\ n >= 1 /\ n \in 1 .. n /\ calls[n] \in Call
  BY <1>1, EmptySeq, LenProperties, ElementOfSeq
<1>3. top \in Call /\ top.dir = calls[n].dir /\ top.i = i
  BY <1>2 DEF Call
<1>4. Last(calls) = calls[n]
  BY DEF Last
<1> HIDE DEF top
<1>5. /\ r \in Seq(Call) /\ Len(r) = n
      /\ \A k \in 1 .. n : r[k] = IF k = n THEN top ELSE calls[k]
  BY <1>1, <1>2, <1>3, ExceptSeq
<1> HIDE DEF r
<1>6. \A k \in 1 .. n : r[k].dir = calls[k].dir /\ r[k].i = IF k = n THEN i ELSE calls[k].i
  BY <1>3, <1>5
<1> QED BY <1>2, <1>4, <1>5, <1>6, Zenon DEF r, top

LEMMA NextCallIs ==
  ASSUME PathInv, at = "READDIR"
  PROVE  LET n == Len(calls)
             next(i) == [calls EXCEPT
               ![n] = [dir |-> calls[n].dir, read |-> calls[n].read + 1, i |-> i]]
         IN  /\ NextCall = next(calls[n].i)
             /\ [NextCall EXCEPT ![Len(calls)].i = @ + 1] = next(calls[n].i + 1)
<1> DEFINE n == Len(calls)
           top == calls[n]
           more(i) == [dir |-> top.dir, read |-> top.read + 1, i |-> i]
           next(i) == [calls EXCEPT ![n] = more(i)]
<1>1. top \in [dir : Seq(Names), read : Nat, i : Nat] /\ top.i \in Nat
  BY NextEntry DEF Call
<1>2. n \in DOMAIN calls
  BY NextEntry, LenProperties DEF PathInv
<1>3. [top EXCEPT !.read = @ + 1] = more(top.i)
  <2> HIDE DEF top
  <2> QED BY <1>1
<1>4. NextCall = next(top.i)
  <2>1. NextCall = [calls EXCEPT ![n] = [top EXCEPT !.read = @ + 1]]
    BY DEF NextCall
  <2> QED BY <1>3, <2>1
<1>5. next(top.i)[n] = more(top.i)
  BY <1>2
<1>6. [more(top.i) EXCEPT !.i = @ + 1] = more(top.i + 1)
  <2> HIDE DEF top
  <2> QED OBVIOUS
<1>7. [next(top.i) EXCEPT ![n] = more(top.i + 1)] = next(top.i + 1)
  <2> DEFINE a == more(top.i)
             b == more(top.i + 1)
  <2> HIDE DEF a, b
  <2>1. [[calls EXCEPT ![n] = a] EXCEPT ![n] = b] = [calls EXCEPT ![n] = b]
    BY <1>2
  <2> QED BY <2>1 DEF a, b
<1>8. [NextCall EXCEPT ![n].i = @ + 1] = [NextCall EXCEPT ![n] = [NextCall[n] EXCEPT !.i = @ + 1]]
  OBVIOUS
<1>9. NextCall[n] = more(top.i)
  BY <1>4, <1>5
<1>10. [NextCall EXCEPT ![n].i = @ + 1] = next(top.i + 1)
  <2> DEFINE c == NextCall
             m == more(top.i)
  <2>1. [c EXCEPT ![n].i = @ + 1] = [c EXCEPT ![n] = [m EXCEPT !.i = @ + 1]]
    <3> HIDE DEF m
    <3>1. c[n] = m
      BY <1>9 DEF m
    <3> HIDE DEF c
    <3>2. [c EXCEPT ![n].i = @ + 1] = [c EXCEPT ![n] = [c[n] EXCEPT !.i = @ + 1]]
      OBVIOUS
    <3> QED BY <3>1, <3>2
  <2>2. [m EXCEPT !.i = @ + 1] = more(top.i + 1)
    BY <1>6
  <2> HIDE DEF more, m, c, next
  <2>3. [c EXCEPT ![n].i = @ + 1] = [c EXCEPT ![n] = more(top.i + 1)]
    BY <2>1, <2>2
  <2>4. c = next(top.i)
    BY <1>4 DEF c
  <2> QED BY <1>7, <2>3, <2>4 DEF c
<1> QED BY <1>4, <1>10

Entered == [NextCall EXCEPT ![Len(calls)].i = @ + 1]

(* After an entry that was passed over or shown, and after a directory.    *)
LEMMA EntryRead ==
  ASSUME PathInv, at = "READDIR"
  PROVE  /\ Len(calls) \in Nat /\ Len(calls) >= 1 /\ Len(calls) \in 1 .. Len(calls)
         /\ Top = calls[Len(calls)]
         /\ \A k \in 1 .. Len(calls) : calls[k] \in Call /\ calls[k].i \in Nat
         /\ NextCall \in Seq(Call) /\ Len(NextCall) = Len(calls)
         /\ \A k \in 1 .. Len(calls) :
              NextCall[k].dir = calls[k].dir /\ NextCall[k].i = calls[k].i
         /\ Entered \in Seq(Call) /\ Len(Entered) = Len(calls)
         /\ \A k \in 1 .. Len(calls) :
              /\ Entered[k].dir = calls[k].dir
              /\ Entered[k].i = IF k = Len(calls) THEN calls[k].i + 1 ELSE calls[k].i
<1> DEFINE n == Len(calls)
           next(i) == [calls EXCEPT
             ![n] = [dir |-> calls[n].dir, read |-> calls[n].read + 1, i |-> i]]
<1>1. n \in Nat /\ n >= 1 /\ n \in 1 .. n /\ Top = calls[n]
  <2>1. n \in Nat /\ n >= 1 /\ Last(calls) = calls[n]
    <3>1. 0 \in Nat
      OBVIOUS
    <3> QED BY <3>1, NextEntry
  <2> HIDE DEF n
  <2> QED BY <2>1 DEF Top
<1>2. \A k \in 1 .. n : calls[k] \in Call /\ calls[k].i \in Nat
  <2>1. calls \in Seq(Call)
    BY DEF PathInv
  <2>2. \A k \in 1 .. n : calls[k] \in Call
    BY <2>1, ElementOfSeq
  <2> QED BY <2>2 DEF Call
<1>3. \A i \in Nat : /\ next(i) \in Seq(Call) /\ Len(next(i)) = n
                     /\ \A k \in 1 .. n : next(i)[k].dir = calls[k].dir
                                          /\ next(i)[k].i = IF k = n THEN i ELSE calls[k].i
  BY NextEntry, Zenon
<1>4. NextCall = next(calls[n].i) /\ Entered = next(calls[n].i + 1)
  BY NextCallIs, Zenon DEF Entered
<1> HIDE DEF next, n
<1>5. calls[n].i \in Nat /\ calls[n].i + 1 \in Nat
  BY <1>1, <1>2
<1>6. /\ NextCall \in Seq(Call) /\ Len(NextCall) = n
      /\ \A k \in 1 .. n : NextCall[k].dir = calls[k].dir
                           /\ NextCall[k].i = IF k = n THEN calls[n].i ELSE calls[k].i
  BY <1>3, <1>4, <1>5, Zenon
<1>7. /\ Entered \in Seq(Call) /\ Len(Entered) = n
      /\ \A k \in 1 .. n : Entered[k].dir = calls[k].dir
                           /\ Entered[k].i = IF k = n THEN calls[n].i + 1 ELSE calls[k].i
  BY <1>3, <1>4, <1>5, Zenon
<1> QED BY <1>1, <1>2, <1>6, <1>7 DEF n

(* An entry is read; the calls and the path stay.                          *)
LEMMA ReadPath ==
  ASSUME PathInv, at = "READDIR", at' = at, path' = path, calls' = NextCall,
         line'.shown = line'.file
  PROVE  PathInv'
<1> DEFINE n == Len(calls)
<1>1. /\ n \in Nat /\ n >= 1 /\ n \in 1 .. n /\ calls[n] \in Call
      /\ calls' \in Seq(Call) /\ Len(calls') = n
      /\ \A k \in 1 .. n : calls'[k].dir = calls[k].dir /\ calls'[k].i = calls[k].i
  BY EntryRead
<1> HIDE DEF n
<1>2. /\ \A k \in 1 .. n : calls[k].i <= Len(path) /\ calls[k].dir = Walked(path)[calls[k].i]
      /\ \A j, k \in 1 .. n : j < k => calls[j].i <= calls[k].i
      /\ calls[n].i = Len(path) /\ path \in Seq(Words)
  BY DEF PathInv, n
<1>3. \A k \in 1 .. n : calls'[k].i <= Len(path') /\ calls'[k].dir = Walked(path')[calls'[k].i]
  BY <1>1, <1>2
<1>4. \A j, k \in 1 .. n : j < k => calls'[j].i <= calls'[k].i
  BY <1>1, <1>2
<1>5. calls' # <<>> /\ calls'[Len(calls')].i = Len(path')
  BY <1>1, <1>2
<1> QED BY <1>1, <1>2, <1>3, <1>4, <1>5 DEF PathInv, ListedWhereTheyAre

(* The path with more behind it.                                           *)
LEMMA Longer ==
  ASSUME NEW p \in Seq(Words), NEW more \in Seq(Words)
  PROVE  /\ p \o more \in Seq(Words) /\ Len(p) \in Nat
         /\ Len(p \o more) = Len(p) + Len(more)
         /\ \A k \in 1 .. Len(p) : (p \o more)[k] = p[k]
         /\ \A k \in 1 .. Len(more) : (p \o more)[Len(p) + k] = more[k]
         /\ \A k \in 0 .. Len(p) : Walked(p \o more)[k] = Walked(p)[k]
<1> DEFINE q == p \o more
<1>1. /\ q \in Seq(Words) /\ Len(p) \in Nat /\ Len(more) \in Nat
      /\ Len(q) = Len(p) + Len(more) /\ Len(q) \in Nat
      /\ \A k \in 1 .. Len(q) : q[k] = IF k <= Len(p) THEN p[k] ELSE more[k - Len(p)]
  BY ConcatProperties, LenProperties
<1> HIDE DEF q
<1>2. \A k \in 1 .. Len(p) : q[k] = p[k]
  BY <1>1
<1>3. ASSUME NEW k \in 1 .. Len(more) PROVE q[Len(p) + k] = more[k]
  <2>1. Len(p) + k \in 1 .. Len(q) /\ ~ (Len(p) + k <= Len(p)) /\ (Len(p) + k) - Len(p) = k
    BY <1>1
  <2> QED BY <1>1, <2>1
<1>4. \A k \in 0 .. Len(p) : Walked(q)[k] = Walked(p)[k]
  <2>1. Len(p) <= Len(q)
    BY <1>1
  <2> DEFINE L == Len(p)
  <2>2. L \in Nat /\ L <= Len(p) /\ L <= Len(q) /\ \A k \in 1 .. L : p[k] = q[k]
    BY <1>1, <1>2, <2>1
  <2> HIDE DEF L
  <2>3. \A k \in 0 .. L : Walked(p)[k] = Walked(q)[k]
    BY <1>1, <2>2, WalksAgree
  <2> QED BY <2>3 DEF L
<1> QED BY <1>1, <1>2, <1>3, <1>4 DEF q

(* A file is shown under the place its directory was opened at.            *)
LEMMA FileShown ==
  ASSUME PathInv, at = "READDIR", NEW name \in Names
  PROVE  Place(path \o <<Separator, name>>) = Append(Top.dir, name)
<1> DEFINE more == <<Separator, name>>
           q == path \o more
           L == Len(path)
<1>1. more \in Seq(Words) /\ Len(more) = 2 /\ more[1] = Separator /\ more[2] = name
  BY DEF Words
<1>2. path \in Seq(Words)
  BY DEF PathInv
<1> HIDE DEF more
<1>3. /\ q \in Seq(Words) /\ L \in Nat /\ Len(q) = L + 2
      /\ q[L + 1] = Separator /\ q[L + 2] = name /\ Walked(q)[L] = Walked(path)[L]
  <2>1. /\ q \in Seq(Words) /\ L \in Nat /\ Len(q) = L + Len(more)
        /\ \A k \in 1 .. Len(more) : q[L + k] = more[k]
        /\ \A k \in 0 .. L : Walked(q)[k] = Walked(path)[k]
    BY <1>1, <1>2, Longer, Zenon
  <2> HIDE DEF q, L
  <2>2. q[L + 1] = more[1] /\ q[L + 2] = more[2]
    BY <1>1, <2>1
  <2> QED BY <1>1, <2>1, <2>2
<1> HIDE DEF q
<1>4. Separator # name
  BY NamesAssumption DEF NamesAssumption
<1>5. /\ L + 1 \in 1 .. Len(q) /\ (L + 1) - 1 = L
      /\ L + 2 \in 1 .. Len(q) /\ (L + 2) - 1 = L + 1 /\ Len(q) \in Nat
  BY <1>3
<1>6. Walked(q)[L + 1] = Walked(q)[L]
  <2>1. Walked(q)[L + 1] = IF q[L + 1] = Separator THEN Walked(q)[(L + 1) - 1]
                           ELSE Append(Walked(q)[(L + 1) - 1], q[L + 1])
    BY <1>5, WalkedIs, Zenon
  <2> QED BY <1>3, <1>5, <2>1
<1>7. Walked(q)[L + 2] = Append(Walked(q)[L + 1], name)
  <2>1. Walked(q)[L + 2] = IF q[L + 2] = Separator THEN Walked(q)[(L + 2) - 1]
                           ELSE Append(Walked(q)[(L + 2) - 1], q[L + 2])
    BY <1>5, WalkedIs, Zenon
  <2> QED BY <1>3, <1>4, <1>5, <2>1
<1>8. Place(q) = Walked(q)[Len(q)]
  BY <1>5, WalkedIs
<1>9. Top.dir = Walked(path)[L]
  <2>1. Top = calls[Len(calls)] /\ Len(calls) \in 1 .. Len(calls)
    BY EntryRead
  <2>2. calls[Len(calls)].i = L
    BY DEF PathInv
  <2> QED BY <2>1, <2>2 DEF PathInv
<1> QED BY <1>3, <1>6, <1>7, <1>8, <1>9 DEF q, more

LEMMA EnterPath ==
  ASSUME PathInv, at = "READDIR", NEW name \in Names, EnterDirectory(name), line' = line
  PROVE  PathInv'
<1> DEFINE n == Len(calls)
           L == Len(path)
           more == <<Separator, Separator, name>>
<1>1. path \in Seq(Words) /\ calls \in Seq(Call) /\ L \in Nat /\ calls[n].i = L
  BY LenProperties DEF PathInv
<1>2. /\ n \in Nat /\ n >= 1 /\ n \in 1 .. n /\ calls[n] \in Call /\ Top = calls[n]
      /\ calls' \in Seq(Call) /\ Len(calls') = n
      /\ \A k \in 1 .. n : calls'[k].dir = calls[k].dir
                           /\ calls'[k].i = IF k = n THEN L + 1 ELSE calls[k].i
  <2>1. calls' = Entered
    BY DEF EnterDirectory, Entered
  <2> QED BY <1>1, <2>1, EntryRead
<1>3. path' = path \o more
  <2>1. SubSeq(path, 1, L) = path
    BY <1>1, SubSeqFull
  <2> QED BY <1>1, <1>2, <2>1 DEF EnterDirectory
<1>4. more \in Seq(Words) /\ Len(more) = 3 /\ more[1] = Separator
  BY DEF Words
<1> HIDE DEF more
<1>5. /\ path' \in Seq(Words) /\ Len(path') = L + 3 /\ path'[L + 1] = Separator
      /\ \A k \in 0 .. L : Walked(path')[k] = Walked(path)[k]
  <2> DEFINE q == path \o more
  <2>1. /\ q \in Seq(Words) /\ L \in Nat /\ Len(q) = L + Len(more)
        /\ \A k \in 1 .. Len(more) : q[L + k] = more[k]
        /\ \A k \in 0 .. L : Walked(q)[k] = Walked(path)[k]
    BY <1>1, <1>4, Longer, Zenon
  <2>2. path' = q
    BY <1>3
  <2> HIDE DEF q, L
  <2>3. q[L + 1] = more[1]
    BY <1>4, <2>1
  <2> QED BY <1>4, <2>1, <2>2, <2>3
<1>6. Walked(path')[L + 1] = Walked(path)[L]
  <2>1. L + 1 \in 1 .. Len(path') /\ Len(path') \in Nat /\ (L + 1) - 1 = L
    BY <1>1, <1>5
  <2>2. Walked(path')[L + 1] = IF path'[L + 1] = Separator THEN Walked(path')[(L + 1) - 1]
                               ELSE Append(Walked(path')[(L + 1) - 1], path'[L + 1])
    BY <2>1, WalkedIs, Zenon
  <2> QED BY <1>1, <1>5, <2>1, <2>2
<1>7. /\ \A k \in 1 .. n : calls[k].i <= L /\ calls[k].dir = Walked(path)[calls[k].i]
      /\ \A j, k \in 1 .. n : j < k => calls[j].i <= calls[k].i
  BY DEF PathInv
<1>8. \A k \in 1 .. n : calls[k].i \in 0 .. L
  <2>1. \A k \in 1 .. n : calls[k].i \in Nat
    BY EntryRead
  <2> QED BY <1>1, <1>7, <2>1
<1>9. ASSUME NEW k \in 1 .. n
      PROVE  calls'[k].i <= Len(path') /\ calls'[k].dir = Walked(path')[calls'[k].i]
  <2>0. calls[k].i \in 0 .. L /\ calls[k].dir = Walked(path)[calls[k].i]
    BY <1>7, <1>8
  <2>1. CASE k = n
    <3>1. calls'[k].dir = calls[n].dir /\ calls'[k].i = L + 1
      BY <1>2, <2>1
    <3>2. calls[n].dir = Walked(path)[L]
      BY <1>1, <2>0, <2>1
    <3> QED BY <1>1, <1>5, <1>6, <3>1, <3>2
  <2>2. CASE k # n
    <3>1. calls'[k].dir = calls[k].dir /\ calls'[k].i = calls[k].i
      BY <1>2, <2>2
    <3>2. Walked(path')[calls[k].i] = Walked(path)[calls[k].i]
      BY <1>5, <2>0
    <3>3. calls[k].i <= Len(path')
      BY <1>1, <1>5, <2>0
    <3> QED BY <2>0, <3>1, <3>2, <3>3
  <2> QED BY <2>1, <2>2
<1>10. ASSUME NEW j \in 1 .. n, NEW k \in 1 .. n, j < k PROVE calls'[j].i <= calls'[k].i
  <2>1. j # n /\ calls'[j].i = calls[j].i /\ calls[j].i \in 0 .. L /\ calls[j].i <= calls[k].i
    BY <1>2, <1>7, <1>8, <1>10
  <2>2. CASE k = n
    BY <1>1, <1>2, <2>1, <2>2
  <2>3. CASE k # n
    BY <1>2, <2>1, <2>3
  <2> QED BY <2>2, <2>3
<1>11. at' = "OPEN"
  BY DEF EnterDirectory
<1>12. \A k \in 1 .. Len(calls') : calls'[k].i <= Len(path') /\ calls'[k].dir = Walked(path')[calls'[k].i]
  BY <1>2, <1>9
<1>13. \A j, k \in 1 .. Len(calls') : j < k => calls'[j].i <= calls'[k].i
  BY <1>2, <1>10
<1> QED BY <1>2, <1>5, <1>11, <1>12, <1>13 DEF PathInv, ListedWhereTheyAre

LEMMA OpenPath ==
  ASSUME PathInv, at = "OPEN", at' = "READDIR", UNCHANGED <<path, line>>,
         calls' = Append(calls, [dir |-> Place(path), read |-> 0, i |-> Len(path)])
  PROVE  PathInv'
<1> DEFINE n == Len(calls)
           L == Len(path)
           new == [dir |-> Place(path), read |-> 0, i |-> L]
<1>1. path \in Seq(Words) /\ calls \in Seq(Call) /\ L \in Nat /\ n \in Nat
  BY LenProperties DEF PathInv
<1>2. Place(path) = Walked(path)[L] /\ Place(path) \in Seq(Names)
  BY <1>1, WalkedIs, WalkedTyped
<1>3. new \in Call /\ new.i = L /\ new.dir = Walked(path)[L]
  BY <1>1, <1>2 DEF Call
<1> HIDE DEF new
<1>4. /\ calls' \in Seq(Call) /\ Len(calls') = n + 1 /\ calls'[n + 1] = new
      /\ \A k \in 1 .. n : calls'[k] = calls[k]
  BY <1>1, <1>3, AppendProperties DEF new
<1>5. /\ \A k \in 1 .. n : calls[k].i <= L /\ calls[k].dir = Walked(path)[calls[k].i]
      /\ \A j, k \in 1 .. n : j < k => calls[j].i <= calls[k].i
  BY DEF PathInv
<1>6. ASSUME NEW k \in 1 .. n + 1
      PROVE  calls'[k].i <= Len(path') /\ calls'[k].dir = Walked(path')[calls'[k].i]
  <2>1. CASE k = n + 1
    BY <1>1, <1>3, <1>4, <2>1
  <2>2. CASE k \in 1 .. n
    BY <1>4, <1>5, <2>2
  <2> QED BY <1>1, <2>1, <2>2
<1>7. ASSUME NEW j \in 1 .. n + 1, NEW k \in 1 .. n + 1, j < k PROVE calls'[j].i <= calls'[k].i
  <2>1. j \in 1 .. n /\ calls'[j].i = calls[j].i /\ calls[j].i <= L
    BY <1>1, <1>4, <1>5, <1>7
  <2>2. CASE k = n + 1
    BY <1>3, <1>4, <2>1, <2>2
  <2>3. CASE k \in 1 .. n
    BY <1>4, <1>5, <1>7, <2>1, <2>3
  <2> QED BY <1>1, <2>2, <2>3
<1>8. calls' # <<>> /\ calls'[Len(calls')].i = Len(path')
  BY <1>1, <1>3, <1>4
<1>9. \A k \in 1 .. Len(calls') : calls'[k].i <= Len(path') /\ calls'[k].dir = Walked(path')[calls'[k].i]
  BY <1>4, <1>6
<1>10. \A j, k \in 1 .. Len(calls') : j < k => calls'[j].i <= calls'[k].i
  BY <1>4, <1>7
<1> QED BY <1>1, <1>4, <1>8, <1>9, <1>10 DEF PathInv, ListedWhereTheyAre

LEMMA LeavePath ==
  ASSUME PathInv, at = "READDIR", LeaveDirectory, line' = line
  PROVE  PathInv'
<1> DEFINE n == Len(calls)
           L == Len(path)
           m == calls[n - 1].i
<1>1. path \in Seq(Words) /\ calls \in Seq(Call) /\ L \in Nat
  BY LenProperties DEF PathInv
<1>2. n \in Nat /\ n >= 1
  BY EntryRead
<1>3. calls' = SubSeq(calls, 1, n - 1)
  BY DEF LeaveDirectory, Front
<1>4. /\ calls' \in Seq(Call) /\ Len(calls') = n - 1
      /\ \A k \in 1 .. n - 1 : calls'[k] = calls[k]
  <2>1. n - 1 \in Nat /\ \A k \in 1 .. n - 1 : calls[k] \in Call
    BY <1>1, <1>2, ElementOfSeq
  <2> HIDE DEF n
  <2>2. CASE n = 1
    BY <1>1, <1>2, <1>3, <2>2, SubSeqEmpty, EmptySeq
  <2>3. CASE n > 1
    <3>1. /\ Len(SubSeq(calls, 1, n - 1)) = n - 1 /\ SubSeq(calls, 1, n - 1) \in Seq(Call)
          /\ \A k \in 1 .. n - 1 : SubSeq(calls, 1, n - 1)[k] = calls[k]
      BY <1>1, <1>2, <2>1, <2>3, SubSeqProperties
    <3> QED BY <1>3, <3>1
  <2> QED BY <1>2, <2>2, <2>3
<1>5. CASE n = 1
  <2>1. at' = "PROMPT" /\ path' = <<>>
    BY <1>5 DEF LeaveDirectory
  <2>2. calls' = <<>>
    BY <1>3, <1>5
  <2> QED BY <2>1, <2>2, PathOver
<1>6. CASE n > 1
  <2>1. at' = at /\ path' = SubSeq(path, 1, Last(calls').i)
    <3>1. n # 1
      <4> HIDE DEF n
      <4> QED BY <1>6
    <3>2. Len(calls) # 1
      BY <3>1
    <3> QED BY <3>2 DEF LeaveDirectory
  <2>2. Last(calls') = calls[n - 1] /\ n - 1 \in 1 .. n /\ n - 1 \in 1 .. n - 1
    <3>1. n - 1 \in 1 .. n /\ n - 1 \in 1 .. n - 1
      BY <1>2, <1>6
    <3> QED BY <1>4, <3>1 DEF Last
  <2>3. /\ \A k \in 1 .. n : calls[k].i <= L /\ calls[k].dir = Walked(path)[calls[k].i]
        /\ \A j, k \in 1 .. n : j < k => calls[j].i <= calls[k].i
    BY DEF PathInv
  <2>4. \A k \in 1 .. n : calls[k].i \in 0 .. L
    <3>1. \A k \in 1 .. n : calls[k].i \in Nat
      BY EntryRead
    <3> QED BY <1>1, <2>3, <3>1
  <2>5. m \in 0 .. L
    BY <2>2, <2>4
  <2> HIDE DEF m
  <2>6. path' = SubSeq(path, 1, m)
    BY <2>1, <2>2 DEF m
  <2>7. /\ path' \in Seq(Words) /\ Len(path') = m
        /\ \A k \in 1 .. m : path'[k] = path[k]
    <3>1. \A k \in 1 .. m : path[k] \in Words
      BY <1>1, <2>5, ElementOfSeq
    <3>2. CASE m = 0
      BY <1>1, <2>6, <3>2, SubSeqEmpty, EmptySeq
    <3>3. CASE m # 0
      BY <1>1, <2>5, <2>6, <3>1, <3>3, SubSeqProperties
    <3> QED BY <3>2, <3>3
  <2>8. \A k \in 0 .. m : Walked(path')[k] = Walked(path)[k]
    <3>1. m \in Nat /\ m <= Len(path') /\ m <= Len(path) /\ Len(path') \in Nat /\ Len(path) \in Nat
      BY <1>1, <2>5, <2>7
    <3> DEFINE q == path'
    <3> HIDE DEF q
    <3>2. Len(q) \in Nat /\ m <= Len(q) /\ \A k \in 1 .. m : q[k] = path[k]
      BY <2>7, <3>1 DEF q
    <3>3. \A k \in 0 .. m : Walked(q)[k] = Walked(path)[k]
      BY <3>1, <3>2, WalksAgree
    <3> QED BY <3>3 DEF q
  <2>9. ASSUME NEW k \in 1 .. n - 1
        PROVE  calls'[k].i <= Len(path') /\ calls'[k].dir = Walked(path')[calls'[k].i]
    <3>1. k \in 1 .. n /\ calls'[k] = calls[k] /\ calls[k].i \in 0 .. L
      BY <1>2, <1>4, <2>4
    <3>2. calls[k].i <= m
      <4>1. CASE k = n - 1
        BY <2>5, <4>1 DEF m
      <4>2. CASE k < n - 1
        BY <2>2, <2>3, <3>1, <4>2 DEF m
      <4> QED BY <1>2, <4>1, <4>2
    <3>3. calls[k].i \in 0 .. m
      BY <2>5, <3>1, <3>2
    <3> QED BY <2>3, <2>7, <2>8, <3>1, <3>2, <3>3
  <2>10. ASSUME NEW j \in 1 .. n - 1, NEW k \in 1 .. n - 1, j < k
         PROVE  calls'[j].i <= calls'[k].i
    <3>1. j \in 1 .. n /\ k \in 1 .. n /\ calls'[j] = calls[j] /\ calls'[k] = calls[k]
      BY <1>2, <1>4
    <3> QED BY <2>3, <2>10, <3>1
  <2>11. calls' # <<>> /\ calls'[Len(calls')].i = Len(path')
    <3>1. calls'[Len(calls')] = calls[n - 1] /\ Len(calls') # 0
      BY <1>4, <1>6, <2>2
    <3> QED BY <2>7, <3>1 DEF m
  <2>12. \A k \in 1 .. Len(calls') : calls'[k].i <= Len(path') /\ calls'[k].dir = Walked(path')[calls'[k].i]
    BY <1>4, <2>9
  <2>13. \A j, k \in 1 .. Len(calls') : j < k => calls'[j].i <= calls'[k].i
    BY <1>4, <2>10
  <2> QED BY <1>4, <2>1, <2>7, <2>11, <2>12, <2>13 DEF PathInv, ListedWhereTheyAre
<1>7. n = 1 \/ n > 1
  <2> HIDE DEF n
  <2> QED BY <1>2
<1> QED BY <1>5, <1>6, <1>7

LEMMA PathStep ==
  ASSUME PathInv, [CardNext]_cardVars
  PROVE  PathInv'
<1>1. ASSUME UNCHANGED walk, at' # "READDIR" \/ at' = at,
             at' \in {"OPEN", "READDIR"} \/ at \notin {"OPEN", "READDIR"}
      PROVE  PathInv'
  BY <1>1 DEF walk, PathInv, ListedWhereTheyAre
<1>2. ASSUME Mount \/ Connected \/ FMount \/ Unmount \/ Disconnected \/ Tree \/ ChangeCard
             \/ UNCHANGED cardVars
      PROVE  PathInv'
  <2>1. /\ UNCHANGED walk
        /\ at' # "READDIR" \/ at' = at
        /\ at' \in {"OPEN", "READDIR"} \/ at \notin {"OPEN", "READDIR"}
    BY <1>2 DEF Mount, Connected, FMount, Unmount, Disconnected, Tree, ChangeCard, cardVars
  <2> QED BY <1>1, <2>1
<1>3. ASSUME CheckFails \/ ReadError PROVE PathInv'
  BY <1>3, PathOver DEF CheckFails, ReadError, GivesUp
<1>4. CASE GetFree
  <2>1. calls = <<>>
    BY <1>4 DEF GetFree, PathInv
  <2>2. CASE CheckFails \/ ReadError
    BY <1>3, <2>2
  <2>3. CASE at' = "OPEN" /\ path' = <<>> /\ UNCHANGED <<fs_ready, calls, line>>
    BY <2>1, <2>3, PathOver
  <2> QED BY <1>4, <2>2, <2>3 DEF GetFree
<1>5. CASE Open
  BY <1>3, <1>5, OpenPath DEF Open
<1>6. CASE ReadDirFails
  BY <1>3, <1>6 DEF ReadDirFails
<1>7. ASSUME NEW name \in Names, ReadDir(name) PROVE PathInv'
  <2>1. at = "READDIR"
    BY <1>7 DEF ReadDir
  <2>2. CASE calls' = NextCall /\ UNCHANGED <<at, path, line>>
    BY <2>1, <2>2, ReadPath DEF PathInv, ListedWhereTheyAre
  <2>3. CASE EnterDirectory(name) /\ UNCHANGED line
    BY <2>1, <2>3, EnterPath
  <2>4. CASE /\ line' = [shown |-> Place(path \o <<Separator, name>>),
                         file |-> Append(Top.dir, name)]
             /\ calls' = NextCall /\ UNCHANGED <<at, path>>
    <3>1. line'.shown = line'.file
      BY <2>1, <2>4, FileShown
    <3> QED BY <2>1, <2>4, <3>1, ReadPath
  <2> QED BY <1>7, <2>2, <2>3, <2>4 DEF ReadDir
<1>8. CASE ReadDirEnds
  BY <1>8, LeavePath DEF ReadDirEnds
<1> QED BY <1>2, <1>4, <1>5, <1>6, <1>7, <1>8 DEF CardNext, Goes

(* A file is shown where it is, however deep the directories go and        *)
(* whatever failed before: scan_files cuts the one path buffer back to     *)
(* where each call began, and its leftover separators lead nowhere.        *)
THEOREM ListedInPlace == CardSpec => []ListedWhereTheyAre
<1>1. PathInv => ListedWhereTheyAre
  BY DEF PathInv
<1> QED BY <1>1, PathBegins, PathStep, PTL DEF CardSpec
=============================================================================
