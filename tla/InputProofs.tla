---------------------------- MODULE InputProofs ----------------------------
(***************************************************************************)
(* What reaches the controller from outside: the pulse widths of RCInput,  *)
(* for any number of channels, any counter width and any latency below the *)
(* shortest phase of a pulse; and the sensor structures of Samples, which  *)
(* the estimator and the shell share without a lock, for any number of     *)
(* readings and any axes.                                                  *)
(***************************************************************************)
EXTENDS RCInput, Samples, TLAPS

(* Cap and Elapsed stay within the ranges the variables live in.           *)
LEMMA CapType == \A n \in Nat : Cap(n) \in 0 .. MaxPhase
BY RCAssumption DEF Cap

LEMMA ElapsedType ==
  \A from, to \in Ticks : Elapsed(from, to) \in Ticks
BY RCAssumption DEF Elapsed, Ticks

(* Type correctness of the capture: in particular a width the control loop *)
(* reads is 0 or within RC_IN_RANGE whatever the receiver does.            *)
THEOREM WidthsTypeCorrect == CaptureSpec => []CaptureTypeOK
<1>1. CaptureInit => CaptureTypeOK
  <2> SUFFICES ASSUME CaptureInit PROVE CaptureTypeOK
    OBVIOUS
  <2>1. 0 \in Ticks /\ 0 \in 0 .. MaxPhase /\ 0 \in {0} \cup MinPulse .. MaxPulse
    BY RCAssumption DEF Ticks
  <2>2. /\ start \in [Channels -> Ticks]
        /\ RCinput \in [Channels -> {0} \cup MinPulse .. MaxPulse]
        /\ phase \in [Channels -> 0 .. MaxPhase]
        /\ age \in [Channels -> 0 .. MaxPhase]
        /\ pulse \in [Channels -> 0 .. MaxPhase]
    BY <2>1 DEF CaptureInit
  <2>3. /\ pin \in [Channels -> Levels] /\ low \in BOOLEAN
        /\ atZero \in [Channels -> BOOLEAN]
    BY DEF CaptureInit, Levels
  <2> QED BY <2>2, <2>3 DEF CaptureInit, CaptureTypeOK
<1>2. CaptureTypeOK /\ [CaptureNext]_captureVars => CaptureTypeOK'
  <2> SUFFICES ASSUME CaptureTypeOK, [CaptureNext]_captureVars
               PROVE  CaptureTypeOK'
    OBVIOUS
  <2> USE RCAssumption DEF CaptureTypeOK, Levels, Ticks
  <2>1. CASE Tick
    <3>1. counter' \in Ticks
      BY <2>1 DEF Tick
    <3>2. phase' \in [Channels -> 0 .. MaxPhase]
      BY <2>1, CapType DEF Tick
    <3>3. age' \in [Channels -> 0 .. MaxPhase]
      BY <2>1 DEF Tick
    <3> QED BY <2>1, <3>1, <3>2, <3>3 DEF Tick
  <2>2. CASE EnterHandler
    BY <2>2 DEF EnterHandler
  <2>3. ASSUME NEW ch \in Channels, Edge(ch)
        PROVE  CaptureTypeOK'
    BY <2>3 DEF Edge
  <2>4. ASSUME NEW ch \in Channels, ReadHigh(ch)
        PROVE  CaptureTypeOK'
    <3>1. atZero' \in [Channels -> BOOLEAN]
      BY <2>4, Zenon DEF ReadHigh
    <3>2. start' \in [Channels -> Ticks] /\ age' \in [Channels -> 0 .. MaxPhase]
      BY <2>4 DEF ReadHigh, Return
    <3> QED BY <2>4, <3>1, <3>2 DEF ReadHigh, Return
  <2>5. ASSUME NEW ch \in Channels, ReadNotHigh(ch)
        PROVE  CaptureTypeOK'
    BY <2>5 DEF ReadNotHigh
  <2>6. ASSUME NEW ch \in Channels, ReadLow(ch)
        PROVE  CaptureTypeOK'
    <3>1. Elapsed(start[ch], counter) \in 0 .. CounterMod - 1
      <4>1. start[ch] \in Ticks /\ counter \in Ticks
        OBVIOUS
      <4> QED BY <4>1, ElapsedType
    <3>2. RCinput' \in [Channels -> {0} \cup MinPulse .. MaxPulse]
      BY <2>6, <3>1 DEF ReadLow, InRange
    <3>3. start' \in [Channels -> Ticks] /\ age' \in [Channels -> 0 .. MaxPhase]
      BY <2>6 DEF ReadLow, Return
    <3> QED BY <2>6, <3>2, <3>3 DEF ReadLow, Return
  <2>7. CASE UNCHANGED captureVars
    BY <2>7 DEF captureVars
  <2> QED BY <2>1, <2>2, <2>3, <2>4, <2>5, <2>6, <2>7 DEF CaptureNext, Callback
<1> QED BY <1>1, <1>2, PTL DEF CaptureSpec
-----------------------------------------------------------------------------
(* Between its two reads of the pin a callback is the handler's current    *)
(* one, and a pin that no longer reads LOW has raised its line again.      *)
SecondReadInv ==
  /\ served = {} => ~low
  /\ low => \A ch \in Channels :
              Current(ch) => pin[ch] = "LOW" \/ ch \in pending

SettledInv == CaptureTypeOK /\ SecondReadInv /\ NoPulseWhenSettled

(* Only one channel is called back at a time.                              *)
LEMMA OneCurrent ==
  ASSUME CaptureTypeOK, NEW c \in Channels, NEW d \in Channels, Current(c), Current(d)
  PROVE  c = d
BY RCAssumption DEF Current, CaptureTypeOK

(* An edge leaves its own line waiting and the others alone.               *)
LEMMA EdgeKeepsSettled ==
  ASSUME SettledInv, NEW c \in Channels, Edge(c)
  PROVE  SecondReadInv' /\ NoPulseWhenSettled'
<1> USE DEF SettledInv, CaptureTypeOK
<1>1. SecondReadInv'
  BY DEF SecondReadInv, Edge, Current
<1>2. NoPulseWhenSettled'
  <2> SUFFICES ASSUME NEW ch \in Channels, Settled(ch)'
               PROVE  start'[ch] = 0
    BY DEF NoPulseWhenSettled
  <2>1. ch # c
    BY DEF Edge, Settled, Waiting
  <2> QED BY <2>1 DEF Edge, Settled, Waiting, NoPulseWhenSettled
<1> QED BY <1>1, <1>2

(* The callback's three ways out.                                          *)
LEMMA CallbackKeepsSettled ==
  ASSUME SettledInv, NEW c \in Channels, Callback(c)
  PROVE  SecondReadInv' /\ NoPulseWhenSettled'
<1> USE DEF SettledInv, CaptureTypeOK
<1>1. CASE ReadHigh(c)
  <2>1. SecondReadInv'
    BY <1>1 DEF ReadHigh, Return, SecondReadInv
  <2>2. NoPulseWhenSettled'
    BY <1>1 DEF ReadHigh, Return, NoPulseWhenSettled, Settled, Waiting
  <2> QED BY <2>1, <2>2
<1>2. CASE ReadNotHigh(c)
  <2>1. SecondReadInv'
    <3>1. \A ch \in Channels : Current(ch) => ch = c
      BY <1>2, OneCurrent DEF ReadNotHigh
    <3> QED BY <1>2, <3>1 DEF ReadNotHigh, SecondReadInv, Current
  <2>2. NoPulseWhenSettled'
    BY <1>2 DEF ReadNotHigh, NoPulseWhenSettled, Settled, Waiting
  <2> QED BY <2>1, <2>2
<1>3. CASE ReadLow(c)
  <2>1. SecondReadInv'
    BY <1>3 DEF ReadLow, Return, SecondReadInv
  <2>2. NoPulseWhenSettled'
    <3> SUFFICES ASSUME NEW ch \in Channels, Settled(ch)'
                 PROVE  start'[ch] = 0
      BY DEF NoPulseWhenSettled
    <3>1. CASE ch = c
      <4>1. pin[c] = "LOW"
        BY <1>3, <3>1 DEF ReadLow, Settled
      <4>2. start' = IF start[c] # 0 THEN [start EXCEPT ![c] = 0] ELSE start
        BY <1>3, <4>1 DEF ReadLow
      <4> QED BY <3>1, <4>2
    <3>2. CASE ch # c
      <4>1. Settled(ch) /\ start'[ch] = start[ch]
        BY <1>3, <3>2 DEF ReadLow, Return, Settled, Waiting
      <4> QED BY <4>1 DEF NoPulseWhenSettled
    <3> QED BY <3>1, <3>2
  <2> QED BY <2>1, <2>2
<1> QED BY <1>1, <1>2, <1>3 DEF Callback

(* Every step keeps the second reading and the settled lines.              *)
LEMMA SettledStays == CaptureSpec => []SettledInv
<1>1. CaptureInit => SecondReadInv /\ NoPulseWhenSettled
  BY DEF CaptureInit, SecondReadInv, NoPulseWhenSettled, Settled
<1>2. CaptureTypeOK /\ SecondReadInv /\ NoPulseWhenSettled /\ [CaptureNext]_captureVars
        => SecondReadInv' /\ NoPulseWhenSettled'
  <2> SUFFICES ASSUME SettledInv, [CaptureNext]_captureVars
               PROVE  SecondReadInv' /\ NoPulseWhenSettled'
    BY DEF SettledInv
  <2>1. CASE Tick
    BY <2>1 DEF Tick, SettledInv, SecondReadInv, NoPulseWhenSettled,
                Settled, Waiting, Current
  <2>2. CASE EnterHandler
    BY <2>2 DEF EnterHandler, SettledInv, SecondReadInv, NoPulseWhenSettled,
                Settled, Waiting
  <2>3. CASE \E ch \in Channels : Edge(ch) \/ Callback(ch)
    BY <2>3, EdgeKeepsSettled, CallbackKeepsSettled
  <2>4. CASE UNCHANGED captureVars
    BY <2>4 DEF captureVars, SettledInv, SecondReadInv, NoPulseWhenSettled,
                Settled, Waiting, Current
  <2> QED BY <2>1, <2>2, <2>3, <2>4 DEF CaptureNext
<1>3. SettledInv <=> CaptureTypeOK /\ SecondReadInv /\ NoPulseWhenSettled
  BY DEF SettledInv
<1> QED BY <1>1, <1>2, <1>3, WidthsTypeCorrect, PTL DEF CaptureSpec

(* No stale start survives a settled LOW pin, so a falling edge is never   *)
(* paired with the rising edge of an older pulse; this needs no bound on   *)
(* the latency: an edge between the two reads has set its bit again.       *)
THEOREM NoStaleStart == CaptureSpec => []NoPulseWhenSettled
<1>1. SettledInv => NoPulseWhenSettled
  BY DEF SettledInv
<1>2. QED
  BY <1>1, SettledStays, PTL
-----------------------------------------------------------------------------
(* The counter without its remainder.                                      *)
LEMMA ElapsedCases ==
  \A from, to \in Ticks :
    Elapsed(from, to) = IF from <= to THEN to - from ELSE to - from + CounterMod
BY RCAssumption DEF Elapsed, Ticks

LEMMA NextCount ==
  \A n \in Ticks : (n + 1) % CounterMod = IF n + 1 = CounterMod THEN 0 ELSE n + 1
BY RCAssumption DEF Ticks

(* A tick makes a difference of two stamps one longer, also over the wrap, *)
(* up to a whole turn of the counter.                                      *)
LEMMA ElapsedTick ==
  ASSUME NEW from \in Ticks, NEW to \in Ticks, Elapsed(from, to) + 1 < CounterMod
  PROVE  Elapsed(from, (to + 1) % CounterMod) = Elapsed(from, to) + 1
BY ElapsedCases, NextCount, RCAssumption DEF Ticks

(* Because Latency < MinPhase a line never waits with two edges: an edge   *)
(* has been called back before the pin may move again.                     *)
OneEdgeInv ==
  /\ served \cap pending = {}
  /\ \A ch \in Channels : IF ch \in Waiting THEN age[ch] = phase[ch] /\ age[ch] <= Latency
                                            ELSE age[ch] = 0

(* While the pin is HIGH the stamp is as old as the level, and when the    *)
(* falling edge waits as old as pulse and wait together, but for the       *)
(* latency with which it was taken; it is 0 only if the counter was.       *)
StampInv ==
  \A ch \in Channels :
    /\ pin[ch] = "HIGH" /\ ch \notin Waiting =>
         /\ atZero[ch] <=> start[ch] = 0
         /\ phase[ch] < CounterMod - Latency =>
              Elapsed(start[ch], counter) \in phase[ch] - Latency .. phase[ch]
    /\ pin[ch] = "LOW" /\ ch \in Waiting =>
         /\ atZero[ch] <=> start[ch] = 0
         /\ pulse[ch] < CounterMod - Latency =>
              Elapsed(start[ch], counter) \in
                pulse[ch] + phase[ch] - Latency .. pulse[ch] + phase[ch]

CaptureInv == OneEdgeInv /\ StampInv /\ LegalPulseAccepted

LEMMA TickKeepsCapture ==
  ASSUME SettledInv, CaptureInv, Tick
  PROVE  CaptureInv'
<1> USE DEF SettledInv, CaptureTypeOK, CaptureInv
<1>1. /\ \A ch \in Waiting : age[ch] < Latency
      /\ counter' = (counter + 1) % CounterMod
      /\ phase' = [ch \in Channels |-> Cap(phase[ch] + 1)]
      /\ age' = [ch \in Channels |-> IF ch \in Waiting THEN age[ch] + 1 ELSE 0]
      /\ UNCHANGED <<pin, pending, served, low, start, RCinput, pulse, atZero>>
  BY DEF Tick
<1>2. Waiting' = Waiting /\ Waiting \subseteq Channels
  BY <1>1 DEF Waiting
<1>3. \A ch \in Channels :
        /\ phase'[ch] = IF phase[ch] + 1 > MaxPhase THEN MaxPhase ELSE phase[ch] + 1
        /\ phase[ch] \in 0 .. MaxPhase /\ pulse[ch] \in 0 .. MaxPhase
        /\ start[ch] \in Ticks /\ counter \in Ticks
        /\ Elapsed(start[ch], counter) \in Int
  BY <1>1, ElapsedType DEF Cap, Ticks
<1>4. \A ch \in Waiting : phase'[ch] = phase[ch] + 1 /\ phase[ch] + 1 <= Latency
  BY <1>1, <1>2, <1>3, RCAssumption DEF OneEdgeInv
<1>5. OneEdgeInv'
  BY <1>1, <1>2, <1>3, <1>4, RCAssumption DEF OneEdgeInv
<1>6. StampInv'
  <2> SUFFICES ASSUME NEW ch \in Channels
               PROVE  /\ pin[ch] = "HIGH" /\ ch \notin Waiting =>
                           /\ atZero[ch] <=> start[ch] = 0
                           /\ phase'[ch] < CounterMod - Latency =>
                                Elapsed(start[ch], counter') \in phase'[ch] - Latency .. phase'[ch]
                      /\ pin[ch] = "LOW" /\ ch \in Waiting =>
                           /\ atZero[ch] <=> start[ch] = 0
                           /\ pulse[ch] < CounterMod - Latency =>
                                Elapsed(start[ch], counter') \in
                                  pulse[ch] + phase'[ch] - Latency .. pulse[ch] + phase'[ch]
    BY <1>1, <1>2 DEF StampInv
  <2> DEFINE e == Elapsed(start[ch], counter)
  <2>1. e + 1 < CounterMod => Elapsed(start[ch], counter') = e + 1
    BY <1>1, <1>3, ElapsedTick
  <2>2. e \in Int
    BY <1>3
  <2>3. ASSUME pin[ch] = "HIGH", ch \notin Waiting, phase'[ch] < CounterMod - Latency
        PROVE  Elapsed(start[ch], counter') \in phase'[ch] - Latency .. phase'[ch]
    <3>1. phase'[ch] = phase[ch] + 1 /\ phase[ch] < CounterMod - Latency
      BY <1>3, <2>3, RCAssumption
    <3>2. e \in phase[ch] - Latency .. phase[ch]
      BY <2>3, <3>1 DEF StampInv
    <3> HIDE DEF e
    <3> QED BY <1>3, <2>1, <2>2, <2>3, <3>1, <3>2, RCAssumption
  <2>4. ASSUME pin[ch] = "LOW", ch \in Waiting, pulse[ch] < CounterMod - Latency
        PROVE  Elapsed(start[ch], counter') \in
                 pulse[ch] + phase'[ch] - Latency .. pulse[ch] + phase'[ch]
    <3>1. e \in pulse[ch] + phase[ch] - Latency .. pulse[ch] + phase[ch]
      BY <2>4 DEF StampInv
    <3> HIDE DEF e
    <3> QED BY <1>3, <1>4, <2>1, <2>2, <2>4, <3>1, RCAssumption
  <2> QED BY <2>3, <2>4 DEF StampInv
<1>7. LegalPulseAccepted'
  BY <1>1, <1>2 DEF LegalPulseAccepted, Settled
<1>8. QED
  BY <1>5, <1>6, <1>7

LEMMA EdgeKeepsCapture ==
  ASSUME SettledInv, CaptureInv, NEW c \in Channels, Edge(c)
  PROVE  CaptureInv'
<1> USE DEF SettledInv, CaptureTypeOK, CaptureInv
<1>1. /\ phase[c] >= MinPhase
      /\ pin' = [pin EXCEPT ![c] = IF @ = "LOW" THEN "HIGH" ELSE "LOW"]
      /\ pending' = pending \cup {c}
      /\ phase' = [phase EXCEPT ![c] = 0]
      /\ pulse' = IF pin[c] = "HIGH" THEN [pulse EXCEPT ![c] = phase[c]] ELSE pulse
      /\ UNCHANGED <<counter, served, low, start, RCinput, age, atZero>>
  BY DEF Edge
<1>2. c \notin Waiting /\ age[c] = 0 /\ phase[c] \in 0 .. MaxPhase
  BY <1>1, RCAssumption DEF OneEdgeInv
<1>3. Waiting' = Waiting \cup {c} /\ pin[c] \in Levels
  BY <1>1 DEF Waiting
<1>4. OneEdgeInv'
  BY <1>1, <1>2, <1>3, RCAssumption DEF OneEdgeInv, Waiting
<1>5. StampInv'
  <2> SUFFICES ASSUME NEW ch \in Channels
               PROVE  /\ pin'[ch] = "HIGH" /\ ch \notin Waiting' =>
                           /\ atZero[ch] <=> start[ch] = 0
                           /\ phase'[ch] < CounterMod - Latency =>
                                Elapsed(start[ch], counter) \in phase'[ch] - Latency .. phase'[ch]
                      /\ pin'[ch] = "LOW" /\ ch \in Waiting' =>
                           /\ atZero[ch] <=> start[ch] = 0
                           /\ pulse'[ch] < CounterMod - Latency =>
                                Elapsed(start[ch], counter) \in
                                  pulse'[ch] + phase'[ch] - Latency .. pulse'[ch] + phase'[ch]
    BY <1>1 DEF StampInv
  <2>1. CASE ch # c
    BY <1>1, <1>3, <2>1 DEF StampInv
  <2>2. CASE ch = c
    <3>1. pin'[c] = "LOW" => pin[c] = "HIGH" /\ pulse'[c] = phase[c] /\ phase'[c] = 0
      BY <1>1, <1>3 DEF Levels
    <3>2. c \in Waiting'
      BY <1>3
    <3>3. pin[c] = "HIGH" =>
            /\ atZero[c] <=> start[c] = 0
            /\ phase[c] < CounterMod - Latency =>
                 Elapsed(start[c], counter) \in phase[c] - Latency .. phase[c]
      BY <1>2 DEF StampInv
    <3>4. phase[c] + 0 - Latency = phase[c] - Latency /\ phase[c] + 0 = phase[c]
      BY <1>2, RCAssumption
    <3> QED BY <2>2, <3>1, <3>2, <3>3, <3>4
  <2> QED BY <2>1, <2>2
<1>6. LegalPulseAccepted'
  <2> SUFFICES ASSUME NEW ch \in Channels, Settled(ch)', ~atZero[ch],
                      InRange(pulse'[ch] - Latency), InRange(pulse'[ch] + Latency)
               PROVE  Close(RCinput[ch], pulse'[ch])
    BY <1>1 DEF LegalPulseAccepted, InRange, Close
  <2>1. ch # c /\ Settled(ch) /\ pulse'[ch] = pulse[ch]
    BY <1>1, <1>3 DEF Settled
  <2> QED BY <1>1, <2>1 DEF LegalPulseAccepted
<1>7. QED
  BY <1>4, <1>5, <1>6

(* When the callback of c closes a pulse its width is the true one.        *)
LEMMA WidthIsTrue ==
  ASSUME SettledInv, CaptureInv, NEW c \in Channels, ReadLow(c)
  PROVE  /\ pin[c] = "LOW" /\ c \in Waiting /\ (atZero[c] <=> start[c] = 0)
         /\ pulse[c] < CounterMod - Latency => Close(Elapsed(start[c], counter), pulse[c])
<1> USE DEF SettledInv, CaptureTypeOK, CaptureInv
<1>1. c \in served /\ Current(c) /\ low
  BY DEF ReadLow, Current
<1>2. pin[c] = "LOW" /\ c \in Waiting
  BY <1>1 DEF SecondReadInv, OneEdgeInv, Waiting
<1>3. phase[c] \in 0 .. Latency /\ pulse[c] \in Nat
  BY <1>2, RCAssumption DEF OneEdgeInv
<1>4. Elapsed(start[c], counter) \in Int
  <2>1. start[c] \in Ticks /\ counter \in Ticks
    OBVIOUS
  <2> QED BY <2>1, ElapsedType DEF Ticks
<1>5. QED
  BY <1>2, <1>3, <1>4, RCAssumption DEF StampInv, Close

LEMMA CallbackKeepsCapture ==
  ASSUME SettledInv, CaptureInv, NEW c \in Channels, Callback(c)
  PROVE  CaptureInv'
<1> USE DEF SettledInv, CaptureTypeOK, CaptureInv
<1>1. ASSUME Return(c), c \in served, UNCHANGED <<counter, pin, pending, phase, pulse>>
      PROVE  /\ OneEdgeInv' /\ Waiting' = Waiting \ {c}
  <2>1. c \notin pending /\ Waiting' = Waiting \ {c}
    BY <1>1 DEF OneEdgeInv, Return, Waiting
  <2>2. /\ age' = [age EXCEPT ![c] = 0]
        /\ served' = served \ {c}
    BY <1>1, <2>1 DEF Return
  <2> QED BY <1>1, <2>1, <2>2 DEF OneEdgeInv
<1>2. CASE ReadHigh(c)
  <2>1. /\ c \in served /\ pin[c] = "HIGH" /\ Return(c)
        /\ start' = [start EXCEPT ![c] = counter]
        /\ atZero' = [atZero EXCEPT ![c] = (counter = 0)]
        /\ UNCHANGED <<counter, pin, pending, RCinput, phase, pulse>>
    BY <1>2 DEF ReadHigh, Current
  <2>2. OneEdgeInv' /\ Waiting' = Waiting \ {c}
    BY <1>1, <2>1
  <2>3. StampInv'
    <3>1. /\ start'[c] = counter /\ (atZero'[c] <=> counter = 0)
          /\ \A ch \in Channels : ch # c => start'[ch] = start[ch] /\ atZero'[ch] = atZero[ch]
      BY <2>1
    <3>2. Elapsed(counter, counter) = 0 /\ phase[c] \in 0 .. Latency
      BY <2>1, ElapsedCases, RCAssumption DEF OneEdgeInv, Waiting, Ticks
    <3> QED BY <2>1, <2>2, <3>1, <3>2, RCAssumption DEF StampInv
  <2>4. LegalPulseAccepted'
    BY <2>1, <2>2 DEF LegalPulseAccepted, Settled
  <2> QED BY <2>2, <2>3, <2>4
<1>3. CASE ReadNotHigh(c)
  BY <1>3 DEF ReadNotHigh, OneEdgeInv, StampInv, LegalPulseAccepted, Settled, Waiting
<1>4. CASE ReadLow(c)
  <2> DEFINE width == Elapsed(start[c], counter)
  <2>1. /\ c \in served /\ Return(c)
        /\ start' = IF start[c] # 0 /\ pin[c] = "LOW" THEN [start EXCEPT ![c] = 0] ELSE start
        /\ RCinput' = IF start[c] # 0 /\ pin[c] = "LOW" /\ InRange(width)
                      THEN [RCinput EXCEPT ![c] = width] ELSE RCinput
        /\ UNCHANGED <<counter, pin, pending, phase, pulse, atZero>>
    BY <1>4 DEF ReadLow, Current
  <2>2. OneEdgeInv' /\ Waiting' = Waiting \ {c}
    BY <1>1, <2>1
  <2>3. StampInv'
    <3>1. \A ch \in Channels : ch # c => start'[ch] = start[ch]
      BY <2>1
    <3>2. pin[c] = "LOW"
      BY <1>4, WidthIsTrue
    <3> QED BY <2>1, <2>2, <3>1, <3>2 DEF StampInv
  <2>4. LegalPulseAccepted'
    <3> SUFFICES ASSUME NEW ch \in Channels, Settled(ch)', ~atZero[ch],
                        InRange(pulse[ch] - Latency), InRange(pulse[ch] + Latency)
                 PROVE  Close(RCinput'[ch], pulse[ch])
      BY <2>1 DEF LegalPulseAccepted, InRange, Close
    <3>1. CASE ch # c
      BY <2>1, <2>2, <3>1 DEF LegalPulseAccepted, Settled
    <3>2. CASE ch = c
      <4>1. pulse[c] \in Nat /\ pulse[c] < CounterMod - Latency
        BY <3>2, RCAssumption DEF InRange
      <4>2. pin[c] = "LOW" /\ start[c] # 0 /\ Close(width, pulse[c])
        BY <1>4, <3>2, <4>1, WidthIsTrue
      <4>3. width \in Int
        <5>1. start[c] \in Ticks /\ counter \in Ticks
          OBVIOUS
        <5> QED BY <5>1, ElapsedType DEF Ticks
      <4> HIDE DEF width
      <4>4. InRange(width)
        BY <3>2, <4>1, <4>2, <4>3, RCAssumption DEF InRange, Close
      <4> QED BY <2>1, <3>2, <4>2, <4>4
    <3> QED BY <3>1, <3>2
  <2> QED BY <2>2, <2>3, <2>4
<1>5. QED
  BY <1>2, <1>3, <1>4 DEF Callback

LEMMA CaptureIsExact == CaptureSpec => [](SettledInv /\ CaptureInv)
<1>1. CaptureInit => CaptureInv
  BY RCAssumption DEF CaptureInit, CaptureInv, OneEdgeInv, StampInv, LegalPulseAccepted,
                      Settled, Waiting, InRange, Close
<1>2. SettledInv /\ CaptureInv /\ [CaptureNext]_captureVars => CaptureInv'
  <2> SUFFICES ASSUME SettledInv, CaptureInv, [CaptureNext]_captureVars
               PROVE  CaptureInv'
    OBVIOUS
  <2>1. CASE EnterHandler
    BY <2>1 DEF EnterHandler, CaptureInv, OneEdgeInv, StampInv, LegalPulseAccepted,
                Settled, Waiting
  <2>2. CASE UNCHANGED captureVars
    BY <2>2 DEF captureVars, CaptureInv, OneEdgeInv, StampInv, LegalPulseAccepted,
                Settled, Waiting
  <2> QED BY <2>1, <2>2, TickKeepsCapture, EdgeKeepsCapture, CallbackKeepsCapture
          DEF CaptureNext
<1>3. QED
  BY <1>1, <1>2, SettledStays, PTL DEF CaptureSpec

(* Whatever the receiver sends, a width that control() reads is that of    *)
(* one pulse, up to the latency, across any wrap of the counter.           *)
THEOREM TrueWidth == CaptureSpec => PublishedIsTrueWidth
<1> DEFINE Published ==
      \A ch \in Channels :
        RCinput'[ch] # RCinput[ch] /\ pulse[ch] < CounterMod - Latency
        => Close(RCinput'[ch], pulse[ch])
<1>1. SettledInv /\ CaptureInv /\ [CaptureNext]_captureVars => [Published]_captureVars
  <2> SUFFICES ASSUME SettledInv, CaptureInv, CaptureNext,
                      NEW ch \in Channels, RCinput'[ch] # RCinput[ch],
                      pulse[ch] < CounterMod - Latency
               PROVE  Close(RCinput'[ch], pulse[ch])
    OBVIOUS
  <2>1. PICK c \in Channels : ReadLow(c)
    BY DEF CaptureNext, Tick, EnterHandler, Edge, Callback, ReadHigh, ReadNotHigh
  <2>2. ch = c /\ RCinput'[c] = Elapsed(start[c], counter)
    BY <2>1 DEF ReadLow, SettledInv, CaptureTypeOK
  <2> QED BY <2>1, <2>2, WidthIsTrue
<1>2. QED
  BY <1>1, CaptureIsExact, PTL DEF CaptureSpec, PublishedIsTrueWidth

(* No legal pulse is lost but one whose rising edge was stamped 0: once it *)
(* is over and called back, its width is the published one.                *)
THEOREM NoPulseLost == CaptureSpec => []LegalPulseAccepted
<1>1. CaptureInv => LegalPulseAccepted
  BY DEF CaptureInv
<1>2. QED
  BY <1>1, CaptureIsExact, PTL
-----------------------------------------------------------------------------
(***************************************************************************)
(* Samples.  The argument is one of priorities: while the estimator is     *)
(* between the end of a transfer and its next sleep, the shell does not    *)
(* run.                                                                    *)
(***************************************************************************)

(* What each thread is about to store.                                     *)
Scope ==
  /\ sensor["dcm"] \in {"imu", "mag"} /\ sensor["shell"] # "imu"
  /\ \A t \in Threads :
       /\ at[t] = "release" =>
            left[t] = Filled(sensor[t]) \/ (left[t] = {} /\ got[t] = 0)
       /\ at[t] = "store" => left[t] \subseteq Filled(sensor[t])
  /\ at["shell"] = "print" => left["shell"] = {}

(* The estimator has the results of a transfer in its hands.               *)
InHand == at["dcm"] \in {"release", "store"} /\ left["dcm"] # {}

(* What it has in its hands is not older than anything already stored, nor *)
(* than what the shell is storing or printing.                             *)
Newest ==
  /\ \A f \in Fields : sample[f] <= readings
  /\ \A t \in Threads : got[t] <= readings
  /\ InHand /\ sensor["dcm"] = "imu" => \A f \in Fields : sample[f] <= got["dcm"]
  /\ InHand /\ at["shell"] \in {"store", "print"} =>
       got["dcm"] = Junk \/ got["shell"] <= got["dcm"]

(* ShellPrintsOwnOrNewer, from the moment a component is stored.           *)
OwnOrNewer ==
  at["shell"] \in {"store", "print"} =>
    \A f \in Filled(sensor["shell"]) \ left["shell"] :
      sample[f] # Junk => got["shell"] <= sample[f]

(* Components of the estimator's IMU reading that are still to come.       *)
Pending ==
  IF at["dcm"] = "store" /\ sensor["dcm"] = "imu" THEN left["dcm"] ELSE {}

(* OneReadingUnlessShell, also in the middle of the stores.                *)
OneReading ==
  /\ Pending # {} => \A f \in ImuFields \ Pending : sample[f] = got["dcm"]
  /\ ~touched => \A f, g \in ImuFields \ Pending : sample[f] = sample[g]

(* Nothing is stored between the two readings of the structures.           *)
Unchanged == at["dcm"] = "publish" => used = sample

IInv == TypeOK /\ Scope /\ Newest /\ OwnOrNewer /\ OneReading /\ Unchanged
-----------------------------------------------------------------------------
(* The fields of the sensors: those of the IMU and of the magnetometer are *)
(* apart.                                                                  *)
LEMMA FieldsApart ==
  /\ \A s \in Sensors : Filled(s) \subseteq Fields
  /\ Filled("imu") = ImuFields
  /\ \A f \in Filled("mag") : f \notin ImuFields
BY DEF Filled, Fields, Sensors, Vectors, ImuFields

(* The constants of the types.                                             *)
LEMMA TypeFacts ==
  /\ Threads = {"dcm", "shell"} /\ Junk \in Values /\ 0 \in Values
  /\ \A n \in 0 .. MaxReadings : n \in Values
  /\ \A v \in Values : v \in Int /\ (v # Junk => 0 <= v)
BY SamplesAssumption DEF SamplesAssumption, Threads, Junk, Values

(* The shell runs only while the estimator sleeps, waits for a bus or for  *)
(* the end of a transfer.                                                  *)
LEMMA ShellRuns ==
  ASSUME Running("shell")
  PROVE  at["dcm"] \notin {"release", "store", "update", "publish"}
BY DEF Running, Ready, RealPrio, HIGHPRIO, NORMALPRIO, Threads

LEMMA InvInit == Init => IInv
<1> SUFFICES ASSUME Init PROVE IInv
    OBVIOUS
<1> USE SamplesAssumption DEF SamplesAssumption, Init
<1>1. TypeOK
  <2>1. at \in [Threads -> Points] /\ sensor \in [Threads -> Sensors]
    BY DEF Points, ReadPoints, Sensors
  <2>2. got \in [Threads -> Values] /\ left \in [Threads -> SUBSET Fields]
    BY TypeFacts
  <2>3. sample \in [Fields -> Values] /\ used \in [Fields -> Values]
    BY TypeFacts
  <2>4. readings \in 0 .. MaxReadings
    <3>1. MaxReadings \in Nat /\ readings = 0
      OBVIOUS
    <3>2. QED
      BY ONLY <3>1
  <2>5. touched \in BOOLEAN
    OBVIOUS
  <2>6. QED
    BY <2>1, <2>2, <2>3, <2>4, <2>5 DEF TypeOK
<1>2. Scope /\ Newest /\ OwnOrNewer
  BY FieldsApart DEF Scope, Newest, OwnOrNewer, Threads, InHand
<1>3. \A f \in ImuFields : sample[f] = 0
  BY DEF ImuFields, Fields, Vectors
<1>4. Pending = {}
  BY DEF Pending, Threads
<1>5. QED
  BY <1>1, <1>2, <1>3, <1>4 DEF IInv, OneReading, Unchanged, Threads

(* A transfer begins.                                                      *)
LEMMA InvTransmit ==
  ASSUME IInv, NEW t \in Threads, Transmit(t)
  PROVE  IInv'
<1> USE SamplesAssumption, TypeFacts DEF SamplesAssumption, IInv, Transmit, Go
<1>1. TypeOK'
  BY DEF TypeOK, Points, ReadPoints, Sensors
<1>2. Scope'
  BY DEF Scope, TypeOK
<1>3. Newest'
  BY DEF Scope, Newest, InHand, TypeOK
<1>4. OwnOrNewer'
  BY DEF Scope, Newest, OwnOrNewer, InHand, TypeOK
<1>5. OneReading'
  BY DEF Scope, Newest, OneReading, Pending, InHand, TypeOK
<1>6. Unchanged'
  BY DEF Unchanged, TypeOK
<1>7. QED
  BY <1>1, <1>2, <1>3, <1>4, <1>5, <1>6

(* A transfer ends: a reading is newer than all there is.                  *)
LEMMA InvTransferEnds ==
  ASSUME IInv, NEW t \in Threads, TransferEnds(t)
  PROVE  IInv'
<1> USE SamplesAssumption, TypeFacts, FieldsApart DEF SamplesAssumption, IInv,
        TransferEnds, Go
<1>1. TypeOK'
  BY DEF TypeOK, Points, ReadPoints, Sensors
<1>2. Scope'
  BY DEF Scope, TypeOK
<1>3. Newest'
  <2>1. CASE readings' = readings + 1 /\ got' = [got EXCEPT ![t] = readings']
    <3>1. \A f \in Fields : sample[f] <= readings' /\ sample[f] <= readings
      BY <2>1 DEF Newest, TypeOK
    <3>2. \A u \in Threads : got'[u] <= readings'
      BY <2>1 DEF Newest, TypeOK
    <3>3. InHand' /\ sensor'["dcm"] = "imu" => \A f \in Fields : sample'[f] <= got'["dcm"]
      BY <2>1, <3>1 DEF Newest, InHand, TypeOK
    <3>4. InHand' /\ at'["shell"] \in {"store", "print"} =>
            got'["dcm"] = Junk \/ got'["shell"] <= got'["dcm"]
      BY <2>1, <3>2 DEF Newest, InHand, TypeOK
    <3>5. QED
      BY <3>1, <3>2, <3>3, <3>4 DEF Newest
  <2>2. CASE /\ UNCHANGED readings /\ sensor[t] = "mag"
             /\ got' = [got EXCEPT ![t] = Junk]
    BY <2>2 DEF Newest, InHand, TypeOK, Junk
  <2>3. CASE /\ UNCHANGED readings /\ left' = [left EXCEPT ![t] = {}]
             /\ got' = [got EXCEPT ![t] = 0]
    BY <2>3 DEF Newest, InHand, TypeOK
  <2>4. QED
    BY <2>1, <2>2, <2>3
<1>4. OwnOrNewer'
  BY DEF Scope, Newest, OwnOrNewer, InHand, TypeOK
<1>5. OneReading'
  BY DEF Scope, Newest, OneReading, Pending, InHand, TypeOK
<1>6. Unchanged'
  BY DEF Unchanged, TypeOK
<1>7. QED
  BY <1>1, <1>2, <1>3, <1>4, <1>5, <1>6

(* The bus is released and the stores begin.                               *)
LEMMA InvRelease ==
  ASSUME IInv, NEW t \in Threads, Release(t)
  PROVE  IInv'
<1> USE SamplesAssumption, TypeFacts, FieldsApart, ShellRuns DEF
        SamplesAssumption, IInv, Release, Go
<1>1. TypeOK'
  BY DEF TypeOK, Points, ReadPoints, Sensors
<1>2. Scope'
  BY DEF Scope, TypeOK
<1>3. Newest'
  BY DEF Scope, Newest, InHand, TypeOK
<1>4. OwnOrNewer'
  BY DEF Scope, Newest, OwnOrNewer, InHand, TypeOK
<1>5. OneReading'
  BY DEF Scope, Newest, OneReading, Pending, InHand, TypeOK
<1>6. Unchanged'
  BY DEF Unchanged, TypeOK
<1>7. QED
  BY <1>1, <1>2, <1>3, <1>4, <1>5, <1>6

(* A component is stored.                                                  *)
LEMMA InvStore ==
  ASSUME IInv, NEW t \in Threads, NEW f \in Fields, Store(t, f)
  PROVE  IInv'
<1> USE SamplesAssumption, TypeFacts, FieldsApart, ShellRuns DEF
        SamplesAssumption, IInv, Store
<1>1. TypeOK'
  BY DEF TypeOK, Points, ReadPoints, Sensors
<1>2. Scope'
  BY DEF Scope, TypeOK
<1>3. Newest'
  BY DEF Scope, Newest, InHand, TypeOK
<1>4. OwnOrNewer'
  BY DEF Scope, Newest, OwnOrNewer, InHand, TypeOK
<1>5. OneReading'
  <2>1. CASE t = "shell"
    BY <2>1 DEF OneReading, Pending, TypeOK
  <2>2. CASE t = "dcm" /\ sensor["dcm"] = "mag"
    <3>1. f \notin ImuFields /\ Pending = {} /\ Pending' = {}
      BY <2>2 DEF Scope, Pending, TypeOK
    <3>2. \A g \in ImuFields : sample'[g] = sample[g]
      BY <3>1 DEF TypeOK, ImuFields, Fields, Vectors
    <3>3. touched' = touched
      BY <2>2 DEF TypeOK
    <3>4. QED
      BY <3>1, <3>2, <3>3 DEF OneReading
  <2>3. CASE t = "dcm" /\ sensor["dcm"] = "imu"
    <3>1. Pending = left["dcm"] /\ Pending # {} /\ Pending' = Pending \ {f}
      BY <2>3 DEF Pending, TypeOK
    <3>2. sample'[f] = got["dcm"] /\ got' = got
      BY <2>3 DEF Newest, InHand, TypeOK
    <3>3. \A g \in ImuFields \ Pending' : sample'[g] = got["dcm"]
      BY <3>1, <3>2 DEF OneReading, TypeOK, ImuFields, Fields, Vectors
    <3>4. QED
      BY <3>2, <3>3 DEF OneReading
  <2>4. QED
    BY <2>1, <2>2, <2>3 DEF Scope
<1>6. Unchanged'
  BY DEF Unchanged, TypeOK
<1>7. QED
  BY <1>1, <1>2, <1>3, <1>4, <1>5, <1>6

(* The stores are over.                                                    *)
LEMMA InvStored ==
  ASSUME IInv, NEW t \in Threads, Stored(t)
  PROVE  IInv'
<1> USE SamplesAssumption, TypeFacts, FieldsApart DEF SamplesAssumption, IInv,
        Stored, Go
<1>1. TypeOK'
  BY DEF TypeOK, Points, ReadPoints, Sensors
<1>2. Scope'
  BY DEF Scope, TypeOK
<1>3. Newest'
  BY DEF Scope, Newest, InHand, TypeOK
<1>4. OwnOrNewer'
  BY DEF Scope, Newest, OwnOrNewer, InHand, TypeOK
<1>5. OneReading'
  BY DEF Scope, Newest, OneReading, Pending, InHand, TypeOK
<1>6. Unchanged'
  BY DEF Unchanged, TypeOK
<1>7. QED
  BY <1>1, <1>2, <1>3, <1>4, <1>5, <1>6

(* The estimator wakes for the magnetometer, or for the update.            *)
LEMMA InvWake ==
  ASSUME IInv, Wake
  PROVE  IInv'
<1> USE SamplesAssumption, TypeFacts DEF SamplesAssumption, IInv, Wake, Go
<1>1. TypeOK'
  BY DEF TypeOK, Points, ReadPoints, Sensors
<1>2. Scope'
  BY DEF Scope, TypeOK
<1>3. Newest'
  BY DEF Scope, Newest, InHand, TypeOK
<1>4. OwnOrNewer'
  BY DEF Scope, Newest, OwnOrNewer, InHand, TypeOK
<1>5. OneReading'
  BY DEF Scope, Newest, OneReading, Pending, InHand, TypeOK
<1>6. Unchanged'
  BY DEF Unchanged, TypeOK
<1>7. QED
  BY <1>1, <1>2, <1>3, <1>4, <1>5, <1>6

(* The update loads its arguments.                                         *)
LEMMA InvUpdate ==
  ASSUME IInv, Update
  PROVE  IInv'
<1> USE SamplesAssumption, TypeFacts DEF SamplesAssumption, IInv, Update, Go
<1>1. TypeOK'
  BY DEF TypeOK, Points, ReadPoints, Sensors
<1>2. Scope'
  BY DEF Scope, TypeOK
<1>3. Newest'
  BY DEF Scope, Newest, InHand, TypeOK
<1>4. OwnOrNewer'
  BY DEF Scope, Newest, OwnOrNewer, InHand, TypeOK
<1>5. OneReading'
  BY DEF Scope, Newest, OneReading, Pending, InHand, TypeOK
<1>6. Unchanged'
  BY DEF Unchanged, TypeOK
<1>7. QED
  BY <1>1, <1>2, <1>3, <1>4, <1>5, <1>6

(* The publication ends the pass.                                          *)
LEMMA InvPublish ==
  ASSUME IInv, Publish
  PROVE  IInv'
<1> USE SamplesAssumption, TypeFacts DEF SamplesAssumption, IInv, Publish, Go
<1>1. TypeOK'
  BY DEF TypeOK, Points, ReadPoints, Sensors
<1>2. Scope'
  BY DEF Scope, TypeOK
<1>3. Newest'
  BY DEF Scope, Newest, InHand, TypeOK
<1>4. OwnOrNewer'
  BY DEF Scope, Newest, OwnOrNewer, InHand, TypeOK
<1>5. OneReading'
  BY DEF Scope, Newest, OneReading, Pending, InHand, TypeOK
<1>6. Unchanged'
  BY DEF Unchanged, TypeOK
<1>7. QED
  BY <1>1, <1>2, <1>3, <1>4, <1>5, <1>6

(* The shell is given a command.                                           *)
LEMMA InvCommand ==
  ASSUME IInv, Command
  PROVE  IInv'
<1> USE SamplesAssumption, TypeFacts DEF SamplesAssumption, IInv, Command, Go
<1>1. TypeOK'
  BY DEF TypeOK, Points, ReadPoints, Sensors
<1>2. Scope'
  BY DEF Scope, TypeOK
<1>3. Newest'
  BY DEF Scope, Newest, InHand, TypeOK
<1>4. OwnOrNewer'
  BY DEF Scope, Newest, OwnOrNewer, InHand, TypeOK
<1>5. OneReading'
  BY DEF Scope, Newest, OneReading, Pending, InHand, TypeOK
<1>6. Unchanged'
  BY DEF Unchanged, TypeOK
<1>7. QED
  BY <1>1, <1>2, <1>3, <1>4, <1>5, <1>6

(* The shell has printed.                                                  *)
LEMMA InvChprintf ==
  ASSUME IInv, Chprintf
  PROVE  IInv'
<1> USE SamplesAssumption, TypeFacts DEF SamplesAssumption, IInv, Chprintf, Go
<1>1. TypeOK'
  BY DEF TypeOK, Points, ReadPoints, Sensors
<1>2. Scope'
  BY DEF Scope, TypeOK
<1>3. Newest'
  BY DEF Scope, Newest, InHand, TypeOK
<1>4. OwnOrNewer'
  BY DEF Scope, Newest, OwnOrNewer, InHand, TypeOK
<1>5. OneReading'
  BY DEF Scope, Newest, OneReading, Pending, InHand, TypeOK
<1>6. Unchanged'
  BY DEF Unchanged, TypeOK
<1>7. QED
  BY <1>1, <1>2, <1>3, <1>4, <1>5, <1>6

(* Every step keeps the invariant.                                         *)
LEMMA InvNext == IInv /\ [Next]_vars => IInv'
<1> SUFFICES ASSUME IInv, [Next]_vars PROVE IInv'
    OBVIOUS
<1>1. CASE UNCHANGED vars
  BY <1>1 DEF vars, IInv, TypeOK, Scope, Newest, InHand, OwnOrNewer, OneReading, Pending,
     Unchanged
<1>2. CASE \E t \in Threads :
             \/ Transmit(t) \/ TransferEnds(t) \/ Release(t) \/ Stored(t)
             \/ \E f \in Fields : Store(t, f)
  BY <1>2, InvTransmit, InvTransferEnds, InvRelease, InvStored, InvStore
<1>3. CASE Wake \/ Update \/ Publish \/ Command \/ Chprintf
  BY <1>3, InvWake, InvUpdate, InvPublish, InvCommand, InvChprintf
<1>4. QED
  BY <1>1, <1>2, <1>3 DEF Next

LEMMA Invariance == Spec => []IInv
BY InvInit, InvNext, PTL DEF Spec

(* Readings, points and the structures keep their types.                   *)
THEOREM TypeCorrect == Spec => []TypeOK
<1>1. IInv => TypeOK
  BY DEF IInv
<1>2. QED
  BY <1>1, Invariance, PTL

(* The shell never prints a component older than its own reading, however  *)
(* many readings and axes there are.                                       *)
THEOREM NeverOlder == Spec => []ShellPrintsOwnOrNewer
<1>1. IInv => ShellPrintsOwnOrNewer
  <2> SUFFICES ASSUME IInv, at["shell"] = "print",
                      NEW f \in Filled(sensor["shell"]), sample[f] # Junk
               PROVE  sample[f] >= got["shell"]
      BY DEF ShellPrintsOwnOrNewer
  <2>1. f \in Filled(sensor["shell"]) \ left["shell"] /\ f \in Fields
    BY FieldsApart, TypeFacts DEF IInv, Scope, TypeOK
  <2>2. got["shell"] <= sample[f]
    BY <2>1 DEF IInv, OwnOrNewer
  <2>3. sample[f] \in Int /\ got["shell"] \in Int
    BY <2>1, TypeFacts DEF IInv, TypeOK
  <2>4. QED
    BY <2>2, <2>3
<1>2. QED
  BY <1>1, Invariance, PTL

(* An update mixes two readings of the IMU only after a store of the       *)
(* shell.                                                                  *)
THEOREM Unmixed == Spec => []OneReadingUnlessShell
<1>1. IInv => OneReadingUnlessShell
  BY DEF IInv, OneReading, Pending, Unchanged, OneReadingUnlessShell
<1>2. QED
  BY <1>1, Invariance, PTL

(* The attitude is published with the measurements it was computed from.   *)
THEOREM Consistent == Spec => PublishedIsUsed
<1>1. IInv /\ [Next]_vars => [Publish => sample = used]_vars
  BY DEF IInv, Unchanged, Publish, Go
<1>2. QED
  BY <1>1, Invariance, PTL DEF Spec, PublishedIsUsed
=============================================================================
