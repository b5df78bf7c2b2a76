----------------------------- MODULE SerialOut -----------------------------
(***************************************************************************)
(* What the threads print on its way to the serial line: the output queue  *)
(* (chibios/os/kernel/src/chqueues.c) with its waiting threads, waits with *)
(* a timeout (chschd.c, chvt.c), sleeps, and the interrupt and notify      *)
(* routine of the USART (serial_lld.c).                                    *)
(*                                                                         *)
(* A call runs with the kernel locked until it waits or returns, and is    *)
(* one action.  Which of the threads that are not waiting runs is left     *)
(* open.  Interrupts come between two calls, the one of the USART also     *)
(* between two steps of a tick.                                            *)
(***************************************************************************)
EXTENDS Timers

CONSTANTS
  Writers,    (* the threads that print; a byte is known by its writer     *)
  Sleepers,   (* the threads that sleep                                    *)
  Size,       (* q_top - q_buffer                                          *)
  Timeouts, Sleeps, (* finite timeouts and sleeps, in ticks                *)
  Infinite,   (* TIME_INFINITE                                             *)
  None

Threads == Writers \cup Sleepers

ASSUME SerialAssumption ==
  /\ Size \in Nat \ {0} /\ Timeouts \cup Sleeps \subseteq Nat \ {0}
  /\ Infinite \notin Timeouts \cup Sleeps /\ None \notin Threads

VARIABLES
  pc,         (* each thread: runs or may run, waits, sleeps, or is ready  *)
              (* after a wait, with its rdymsg OK or TIMEOUT               *)
  timeout,    (* the time argument of the call a thread waits in           *)
  buffer, wrptr, rdptr, counter, (* the fields of the queue                *)
  waiting,    (* q_waiting                                                 *)
  vtlist,     (* the armed timers, each on the stack of its thread         *)
  firing,     (* the thread whose timer chVTDoTickI has taken off and      *)
              (* whose callback comes next                                 *)
  txeie, tcie,(* interrupts enabled in CR1                                 *)
  txe, tc,    (* flags of SR                                               *)
  shifting,   (* a byte is on the line                                     *)
  due         (* history: ticks to the deadline of each armed timer        *)

threads == <<pc, timeout>>
queue == <<buffer, wrptr, rdptr, counter, waiting>>
usart == <<txeie, tcie, txe, tc, shifting>>
vars == <<threads, queue, vtlist, firing, usart, due>>

TypeOK ==
  /\ pc \in [Threads -> {"RUN", "WTQUEUE", "SLEEPING", "OK", "TIMEOUT"}]
  /\ timeout \in [Threads -> Timeouts \cup Sleeps \cup {Infinite}]
  /\ buffer \in [0 .. Size - 1 -> Writers \cup {None}]
  /\ {wrptr, rdptr} \subseteq 0 .. Size - 1 /\ counter \in 0 .. Size
  /\ waiting \in Seq(Writers) /\ IsInjective(waiting)
  /\ \A i \in DOMAIN vtlist : vtlist[i].of \in Threads /\ vtlist[i].time \in Nat
  /\ firing \in Threads \cup {None}
  /\ {txeie, tcie, txe, tc, shifting} \subseteq BOOLEAN
  /\ due \in [Threads -> Nat]

(* chOQInit and usart_init.                                                *)
Init ==
  /\ pc = [t \in Threads |-> "RUN"]
  /\ timeout = [t \in Threads |-> Infinite]
  /\ buffer = [i \in 0 .. Size - 1 |-> None]
  /\ wrptr = 0 /\ rdptr = 0 /\ counter = Size /\ waiting = <<>>
  /\ vtlist = <<>> /\ firing = None
  /\ txeie = FALSE /\ tcie = FALSE
  /\ txe = TRUE /\ tc = FALSE /\ shifting = FALSE
  /\ due = [t \in Threads |-> 0]
-----------------------------------------------------------------------------
(* chVTDoTickI is under way: no thread runs.                               *)
Ticking == firing # None \/ RunsOut(vtlist)

(* The pointer moves on, and from q_top back to q_buffer.                  *)
After(ptr) == IF ptr + 1 >= Size THEN 0 ELSE ptr + 1

IsFull == counter = 0
IsEmpty == wrptr = rdptr /\ counter # 0

(* chSchGoSleepTimeoutS with the list of timers vl, up to the switch.      *)
GoSleepTimeout(t, newstate, time, vl) ==
  /\ pc' = [pc EXCEPT ![t] = newstate]
  /\ timeout' = [timeout EXCEPT ![t] = time]
  /\ IF time = Infinite
     THEN vtlist' = vl /\ due' = due
     ELSE vtlist' = TimerSet(vl, t, time) /\ due' = [due EXCEPT ![t] = time]
  /\ UNCHANGED firing

(* Mutant: the byte is stored and the interrupt left as it is.             *)
StoreSilent(t) ==
  /\ counter' = counter - 1
  /\ buffer' = [buffer EXCEPT ![wrptr] = t]
  /\ wrptr' = After(wrptr)
  /\ txeie' = txeie
  /\ UNCHANGED <<rdptr, waiting, tcie, txe, tc, shifting>>

(* The byte goes into the buffer, and notify enables the interrupt.        *)
Store(t) ==
  /\ counter' = counter - 1
  /\ buffer' = [buffer EXCEPT ![wrptr] = t]
  /\ wrptr' = After(wrptr)
  /\ txeie' = TRUE
  /\ UNCHANGED <<rdptr, waiting, tcie, txe, tc, shifting>>

(* The loop of chOQPutTimeout: qwait while the queue is full.              *)
PutLoop(t, time, vl) ==
  IF IsFull
  THEN /\ waiting' = Append(waiting, t)
       /\ GoSleepTimeout(t, "WTQUEUE", time, vl)
       /\ UNCHANGED <<buffer, wrptr, rdptr, counter, usart>>
  ELSE /\ Store(t)
       /\ pc' = [pc EXCEPT ![t] = "RUN"]
       /\ vtlist' = vl
       /\ timeout' = [timeout EXCEPT ![t] = Infinite]
       /\ UNCHANGED <<firing, due>>

(* chOQPutTimeout.                                                         *)
OQPut(t, time) ==
  /\ pc[t] = "RUN" /\ ~Ticking
  /\ PutLoop(t, time, vtlist)

(* chThdSleep.                                                             *)
Sleep(t, time) ==
  /\ pc[t] = "RUN" /\ ~Ticking
  /\ GoSleepTimeout(t, "SLEEPING", time, vtlist)
  /\ UNCHANGED <<queue, usart>>

Ready(t) == pc[t] \in {"OK", "TIMEOUT"}

(* Mutant: a woken writer takes the room for granted.                      *)
BackSure(t, vl) ==
  /\ pc' = [pc EXCEPT ![t] = "RUN"]
  /\ timeout' = [timeout EXCEPT ![t] = Infinite]
  /\ vtlist' = vl
  /\ IF pc[t] = "OK" THEN Store(t) ELSE UNCHANGED <<queue, usart>>
  /\ UNCHANGED <<firing, due>>

(* Back from the wait: with OK the loop looks again, else the call returns.*)
Back(t, vl) ==
  IF pc[t] = "OK" THEN PutLoop(t, timeout[t], vl)
  ELSE /\ pc' = [pc EXCEPT ![t] = "RUN"]
       /\ timeout' = [timeout EXCEPT ![t] = Infinite]
       /\ vtlist' = vl
       /\ UNCHANGED <<queue, usart, firing, due>>

(* Mutant: the timer of a wait that ended early stays in the list.         *)
ResumeArmed(t) == Ready(t) /\ ~Ticking /\ Back(t, vtlist)

(* A woken thread runs: chSchGoSleepTimeoutS resets a timer still armed.   *)
Resume(t) ==
  /\ Ready(t) /\ ~Ticking
  /\ Back(t, IF IsArmed(vtlist, t) THEN TimerReset(vtlist, t) ELSE vtlist)
-----------------------------------------------------------------------------
(* SysTick, with chVTDoTickI: one tick.                                    *)
Tick ==
  /\ ~Ticking /\ vtlist # <<>>
  /\ vtlist' = Ticked(vtlist)
  /\ due' = [t \in Threads |-> IF IsArmed(vtlist, t) THEN due[t] - 1 ELSE due[t]]
  /\ UNCHANGED <<threads, queue, firing, usart>>

(* Its loop takes off a timer that ran out, and unlocks the kernel.        *)
Expire ==
  /\ firing = None /\ RunsOut(vtlist)
  /\ firing' = Head(vtlist).of
  /\ vtlist' = Tail(vtlist)
  /\ UNCHANGED <<threads, queue, usart, due>>

(* dequeue() of a thread that is in the queue.                             *)
Dequeued(t) == RemoveAt(waiting, CHOOSE i \in DOMAIN waiting : waiting[i] = t)

(* The callback, wakeup(): a thread made ready meanwhile is left alone, a  *)
(* waiting one is taken out of its queue.                                  *)
Wakeup ==
  /\ firing # None /\ firing' = None
  /\ IF Ready(firing) THEN UNCHANGED <<pc, waiting>>
     ELSE /\ pc' = [pc EXCEPT ![firing] = "TIMEOUT"]
          /\ waiting' = IF pc[firing] = "WTQUEUE" THEN Dequeued(firing) ELSE waiting
  /\ UNCHANGED <<timeout, buffer, wrptr, rdptr, counter, vtlist, usart, due>>

(* Mutant: the interrupt wakes nobody unless the queue was full.           *)
GetFromFull ==
  /\ counter' = counter + 1
  /\ rdptr' = After(rdptr)
  /\ IF waiting = <<>> \/ ~IsFull THEN UNCHANGED <<pc, waiting>>
     ELSE /\ pc' = [pc EXCEPT ![Head(waiting)] = "OK"]
          /\ waiting' = Tail(waiting)
  /\ UNCHANGED <<timeout, buffer, wrptr>>

(* chOQGetI of a queue that is not empty: the first waiting thread, if any,*)
(* is made ready.                                                          *)
Get ==
  /\ counter' = counter + 1
  /\ rdptr' = After(rdptr)
  /\ IF waiting = <<>> THEN UNCHANGED <<pc, waiting>>
     ELSE /\ pc' = [pc EXCEPT ![Head(waiting)] = "OK"]
          /\ waiting' = Tail(waiting)
  /\ UNCHANGED <<timeout, buffer, wrptr>>

(* serve_interrupt, for the line or for a received byte: the two branches  *)
(* of the transmitter.  The second rewrites CR1 as it was on entry.        *)
ServeInterrupt ==
  /\ LET serves == txeie /\ txe
     IN  /\ IF serves /\ ~IsEmpty THEN Get /\ txe' = FALSE
            ELSE UNCHANGED <<threads, queue, txe>>
         /\ txeie' = (txeie /\ (tc \/ ~(serves /\ IsEmpty)))
         /\ tcie' = (~tc /\ (tcie \/ (serves /\ IsEmpty)))
         /\ tc' = FALSE
  /\ UNCHANGED <<vtlist, firing, shifting, due>>

(* The byte in DR goes on the line; the line has sent it.                  *)
ShiftBegins ==
  /\ ~txe /\ ~shifting
  /\ txe' = TRUE /\ shifting' = TRUE
  /\ UNCHANGED <<threads, queue, vtlist, firing, txeie, tcie, tc, due>>

ShiftEnds ==
  /\ shifting /\ shifting' = FALSE
  /\ tc' = (tc \/ txe)
  /\ UNCHANGED <<threads, queue, vtlist, firing, txeie, tcie, txe, due>>

Requested == (txeie /\ txe) \/ (tcie /\ tc)

Next ==
  \/ \E t \in Writers, time \in Timeouts \cup {Infinite} : OQPut(t, time)
  \/ \E t \in Sleepers, time \in Sleeps : Sleep(t, time)
  \/ \E t \in Threads : Resume(t)
  \/ Tick \/ Expire \/ Wakeup
  \/ ServeInterrupt \/ ShiftBegins \/ ShiftEnds

(* Ticks go on, a requested interrupt is served, the line sends what it    *)
(* has and a woken thread gets the processor; nobody has to call.          *)
Spec ==
  /\ Init /\ [][Next]_vars
  /\ WF_vars(Tick) /\ WF_vars(Expire) /\ WF_vars(Wakeup)
  /\ WF_vars(Requested /\ ServeInterrupt) /\ WF_vars(ShiftBegins) /\ WF_vars(ShiftEnds)
  /\ \A t \in Threads : WF_vars(Resume(t))
-----------------------------------------------------------------------------
(* No writer is left waiting beside a free place: the interrupt wakes one  *)
(* thread for each byte it takes, a wait may end by its timeout meanwhile, *)
(* and another thread may take the place first.                            *)
NoWaiterForgotten ==
  /\ TypeOK
  /\ ToSet(waiting) = {t \in Threads : pc[t] = "WTQUEUE"}
  /\ waiting # <<>> =>
       counter <= Cardinality({t \in Threads : pc[t] = "OK"})

(* The list of differences keeps every deadline, and no timer of a thread  *)
(* that has left its wait: they live on its stack.  A wait ends by timeout *)
(* only at its own deadline.                                               *)
TimersOnTime ==
  /\ \A i \in DOMAIN vtlist :
       Remaining(vtlist, i) = due[vtlist[i].of] /\ pc[vtlist[i].of] # "RUN"
  /\ \A i, j \in DOMAIN vtlist : vtlist[i].of = vtlist[j].of => i = j
  /\ \A t \in Threads : pc[t] = "TIMEOUT" => due[t] = 0
  /\ \A t \in Threads :
       pc[t] = "SLEEPING" => IsArmed(vtlist, t) \/ firing = t

(* Every wait for room and every sleep ends: a stored byte starts the      *)
(* transmitter again after it fell silent.                                 *)
WaitsEnd ==
  \A t \in Threads : pc[t] \in {"WTQUEUE", "SLEEPING"} ~> Ready(t)

(* While a byte is inside, the data register is filled again and again:    *)
(* what was accepted is sent, also when nobody prints after it.            *)
BytesLeave == (~IsEmpty /\ txe) ~> ~txe

(* The bytes inside, the oldest first.                                     *)
Slot(i) == IF rdptr + i > Size THEN rdptr + i - Size - 1 ELSE rdptr + i - 1
Content == [i \in 1 .. Size - counter |-> buffer[Slot(i)]]

(* Lines of two threads may mix, but whatever waits, timeouts and          *)
(* interrupts do, the queue is a first-in first-out buffer of Size bytes.  *)
F == INSTANCE Fifo WITH Bytes <- Threads, content <- Content
ImplementsFifo == F!Spec
=============================================================================
