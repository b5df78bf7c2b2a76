------------------------------ MODULE RCInput ------------------------------
(***************************************************************************)
(* Pulse width capture of the RC receiver (src/src/IO/Input/RCInput.c).    *)
(*                                                                         *)
(* Every channel is a pin on an EXTI line.  Both edges raise the line's    *)
(* pending bit; the vector's handler snapshots and clears the pending bits *)
(* of its lines and calls extcb1..extcb4, which read the pin again and     *)
(* time-stamp it with the free-running 32-bit cycle counter.  The four     *)
(* callbacks are the same code on different array elements, so one action  *)
(* with a channel parameter stands for all of them.                        *)
(*                                                                         *)
(* Time is counted in abstract ticks.  The counter has CounterMod values   *)
(* (2^32 in the hardware) and wraps.  A pending edge is served at most     *)
(* Latency ticks after it happened, which bounds every critical section    *)
(* and every other interrupt.  A pin keeps a level for at least MinPhase   *)
(* ticks.                                                                  *)
(***************************************************************************)
EXTENDS Integers

CONSTANTS
  Channels,    (* the RC channels, numbers in the order of their EXTI lines *)
  CounterMod,  (* number of values of halGetCounterValue()                  *)
  MinPulse,    (* 0.9 ms in ticks, lower end of RC_IN_RANGE                 *)
  MaxPulse,    (* 2.3 ms in ticks, upper end of RC_IN_RANGE                 *)
  Latency,     (* ticks an edge may wait for its callback                   *)
  MinPhase,    (* ticks between two edges of one pin                        *)
  MaxPhase     (* bound of the model: ages above it are not told apart      *)

ASSUME RCAssumption ==
  /\ Channels \subseteq Nat
  /\ CounterMod \in Nat \ {0}
  /\ MinPulse \in Nat /\ MaxPulse \in Nat /\ MinPulse <= MaxPulse
  /\ MaxPulse < CounterMod
  /\ Latency \in Nat /\ MinPhase \in Nat /\ Latency < MinPhase
  /\ MaxPhase \in Nat /\ Latency <= MaxPhase /\ CounterMod <= MaxPhase + Latency

VARIABLES
  counter,  (* the cycle counter                                            *)
  pin,      (* level of each input pin                                      *)
  pending,  (* channels whose bit is set in EXTI->PR                        *)
  served,   (* pr of the running handler: channels still to be called back  *)
  low,      (* the callback has read the pin once and found it not HIGH     *)
  start,    (* start[]: stamp of the rising edge, 0 for "no pulse"          *)
  RCinput,  (* RCInput[]: last accepted width, 0 before the first           *)
  phase,    (* history: ticks since the pin's last edge                     *)
  age,      (* history: ticks since the oldest edge not yet called back     *)
  pulse,    (* history: true width of the last complete pulse               *)
  atZero    (* history: the last rising edge was stamped 0                  *)

captureVars == <<counter, pin, pending, served, low, start, RCinput,
                 phase, age, pulse, atZero>>

Levels == {"LOW", "HIGH"}
Ticks  == 0 .. CounterMod - 1
Cap(n) == IF n > MaxPhase THEN MaxPhase ELSE n

CaptureTypeOK ==
  /\ counter \in Ticks
  /\ pin \in [Channels -> Levels]
  /\ pending \subseteq Channels
  /\ served \subseteq Channels
  /\ low \in BOOLEAN
  /\ start \in [Channels -> Ticks]
  /\ RCinput \in [Channels -> {0} \cup MinPulse .. MaxPulse]
  /\ phase \in [Channels -> 0 .. MaxPhase]
  /\ age \in [Channels -> 0 .. MaxPhase]
  /\ pulse \in [Channels -> 0 .. MaxPhase]
  /\ atZero \in [Channels -> BOOLEAN]

(* The channel the handler calls back next: lines are tested in ascending  *)
(* order.                                                                  *)
Current(ch) == ch \in served /\ \A other \in served : ch <= other

(* Mutant: the time stamps kept in a variable of half the range.           *)
ElapsedNarrow(from, to) == (to - from) % (CounterMod \div 2)

(* (end - start) on uint32_t, the width the callback computes.             *)
Elapsed(from, to) == (to - from) % CounterMod

(* Mutant: RC_IN_RANGE without its upper end.                              *)
InRangeOpen(width) == MinPulse <= width

(* RC_IN_RANGE.                                                            *)
InRange(width) == MinPulse <= width /\ width <= MaxPulse

(* initInput: the pins are inputs and extStart arms all four lines; start  *)
(* and RCInput are zero-initialised.  The receiver drives the pins low.    *)
CaptureInit ==
  /\ counter \in Ticks
  /\ pin = [ch \in Channels |-> "LOW"]
  /\ pending = {} /\ served = {} /\ low = FALSE
  /\ start = [ch \in Channels |-> 0]
  /\ RCinput = [ch \in Channels |-> 0]
  /\ phase = [ch \in Channels |-> 0]
  /\ age = [ch \in Channels |-> 0]
  /\ pulse = [ch \in Channels |-> 0]
  /\ atZero = [ch \in Channels |-> FALSE]

Waiting == pending \cup served

(* One tick of the hardware counter.                                       *)
Tick ==
  /\ \A ch \in Waiting : age[ch] < Latency
  /\ counter' = (counter + 1) % CounterMod
  /\ phase' = [ch \in Channels |-> Cap(phase[ch] + 1)]
  /\ age' = [ch \in Channels |-> IF ch \in Waiting THEN age[ch] + 1 ELSE 0]
  /\ UNCHANGED <<pin, pending, served, low, start, RCinput, pulse, atZero>>

(* The receiver moves a pin; the edge sets the line's pending bit.         *)
Edge(ch) ==
  /\ phase[ch] >= MinPhase
  /\ pin' = [pin EXCEPT ![ch] = IF @ = "LOW" THEN "HIGH" ELSE "LOW"]
  /\ pending' = pending \cup {ch}
  /\ phase' = [phase EXCEPT ![ch] = 0]
  /\ pulse' = IF pin[ch] = "HIGH" THEN [pulse EXCEPT ![ch] = phase[ch]] ELSE pulse
  /\ UNCHANGED <<counter, served, low, start, RCinput, age, atZero>>

(* Mutant: only the first pending line is served, all are cleared.         *)
EnterHandlerFirst ==
  /\ served = {} /\ pending # {}
  /\ served' = {CHOOSE ch \in pending : \A other \in pending : ch <= other}
  /\ pending' = {}
  /\ UNCHANGED <<counter, pin, low, start, RCinput, phase, age, pulse, atZero>>

(* EXTIx_IRQHandler: pr = EXTI->PR & lines; EXTI->PR = pr.                 *)
EnterHandler ==
  /\ served = {} /\ pending # {}
  /\ served' = pending
  /\ pending' = {}
  /\ UNCHANGED <<counter, pin, low, start, RCinput, phase, age, pulse, atZero>>

(* The callback of ch returns.  An edge that came meanwhile has waited     *)
(* since it happened.                                                      *)
Return(ch) ==
  /\ served' = served \ {ch}
  /\ low' = FALSE
  /\ age' = [age EXCEPT ![ch] = IF ch \in pending THEN phase[ch] ELSE 0]

(* First palReadPad of extcb: on HIGH the pulse starts now.                *)
ReadHigh(ch) ==
  /\ Current(ch) /\ ~low
  /\ pin[ch] = "HIGH"
  /\ start' = [start EXCEPT ![ch] = counter]
  /\ atZero' = [atZero EXCEPT ![ch] = (counter = 0)]
  /\ Return(ch)
  /\ UNCHANGED <<counter, pin, pending, RCinput, phase, pulse>>

ReadNotHigh(ch) ==
  /\ Current(ch) /\ ~low
  /\ pin[ch] = "LOW"
  /\ low' = TRUE
  /\ UNCHANGED <<counter, pin, pending, served, start, RCinput, phase, age, pulse, atZero>>

(* Mutant: start reset only when the width is accepted.                    *)
ReadLowKeepsStart(ch) ==
  /\ Current(ch) /\ low
  /\ LET width == Elapsed(start[ch], counter)
     IN  IF start[ch] # 0 /\ pin[ch] = "LOW" /\ InRange(width)
         THEN /\ start' = [start EXCEPT ![ch] = 0]
              /\ RCinput' = [RCinput EXCEPT ![ch] = width]
         ELSE UNCHANGED <<start, RCinput>>
  /\ Return(ch)
  /\ UNCHANGED <<counter, pin, pending, phase, pulse, atZero>>

(* Second palReadPad: with a pulse running and the pin LOW the width is    *)
(* published when it is in range, and the pulse is over.                   *)
ReadLow(ch) ==
  /\ Current(ch) /\ low
  /\ LET width == Elapsed(start[ch], counter)
         ends  == start[ch] # 0 /\ pin[ch] = "LOW"
     IN  /\ start' = IF ends THEN [start EXCEPT ![ch] = 0] ELSE start
         /\ RCinput' = IF ends /\ InRange(width)
                       THEN [RCinput EXCEPT ![ch] = width] ELSE RCinput
  /\ Return(ch)
  /\ UNCHANGED <<counter, pin, pending, phase, pulse, atZero>>

Callback(ch) == ReadHigh(ch) \/ ReadNotHigh(ch) \/ ReadLow(ch)

CaptureNext ==
  \/ Tick
  \/ EnterHandler
  \/ \E ch \in Channels : Edge(ch) \/ Callback(ch)

CaptureSpec == CaptureInit /\ [][CaptureNext]_captureVars
-----------------------------------------------------------------------------
Close(a, b) == a - b <= Latency /\ b - a <= Latency

(* A width control() can read is the true width of one pulse, up to the    *)
(* service latency, across any wrap of the counter, as long as the pulse   *)
(* was shorter than a wrap.  It needs Latency < MinPhase: with equality, a *)
(* rising edge between the two reads of the pin keeps the old start, and   *)
(* the next falling edge closes a pulse that began one period earlier.     *)
PublishedIsTrueWidth ==
  [][\A ch \in Channels :
       RCinput'[ch] # RCinput[ch] /\ pulse[ch] < CounterMod - Latency
       => Close(RCinput'[ch], pulse[ch])]_captureVars

Settled(ch) == pin[ch] = "LOW" /\ ch \notin Waiting

(* Once a pulse is over and served, its width is the published one if it   *)
(* is a legal servo pulse by more than the latency.  The only legal pulse  *)
(* ever lost is one whose rising edge was stamped 0, the value that stands *)
(* for "no pulse".                                                         *)
LegalPulseAccepted ==
  \A ch \in Channels :
    (/\ Settled(ch) /\ ~atZero[ch]
     /\ InRange(pulse[ch] - Latency) /\ InRange(pulse[ch] + Latency))
    => Close(RCinput[ch], pulse[ch])

(* No stale start survives a settled LOW pin, so a missed rising edge      *)
(* cannot pair the next falling edge with an older pulse.                  *)
NoPulseWhenSettled ==
  \A ch \in Channels : Settled(ch) => start[ch] = 0
=============================================================================
