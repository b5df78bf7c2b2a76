------------------------------- MODULE Flight -------------------------------
(***************************************************************************)
(* The three application threads on one processor: the main thread with    *)
(* the control loop (main.c, control.c), the attitude estimator thread     *)
(* (dcm_update.c) and the shell thread with its sensor commands            *)
(* (shellCommands.c), which share                                          *)
(*   - the I2C buses, taken with i2cAcquireBus and given back with         *)
(*     i2cReleaseBus, mutexes with priority inheritance (chmtx.c);         *)
(*   - current_attitude, written and read field by field with no lock;     *)
(*   - the output queue of the serial port, on which chprintf blocks.      *)
(*                                                                         *)
(* The kernel runs a ready thread of the highest current priority; threads *)
(* of one priority share the processor in quanta, so any of them may take  *)
(* the next step.  An action is one step between two points at which an    *)
(* interrupt can change the running thread.                                *)
(***************************************************************************)
EXTENDS Integers

CONSTANTS
  Fields,       (* the fields of current_attitude that control() reads      *)
  OutputSize,   (* bytes, here whole messages, the output queue can hold    *)
  NoThread      (* m_owner of a free mutex                                  *)

Threads == {"main", "dcm", "shell"}
Buses   == {"I2CD1", "I2CD3"}

NORMALPRIO == 64
HIGHPRIO   == 127

(* Mutant: startDCMThread passes NORMALPRIO.                                *)
RealPrioEqual(t) == NORMALPRIO

(* p_realprio: main starts at NORMALPRIO, shellCreate is passed NORMALPRIO  *)
(* and startDCMThread passes HIGHPRIO.                                      *)
RealPrio(t) == IF t = "dcm" THEN HIGHPRIO ELSE NORMALPRIO

ASSUME FlightAssumption ==
  /\ NoThread \notin Threads
  /\ OutputSize \in Nat \ {0}

(***************************************************************************)
(* Program points.  A bus point stands for one acquire, transfer, release  *)
(* sequence; naps are chThdSleep calls, prints are chprintf calls.         *)
(***************************************************************************)
ImuPoints == {"imu"}
MagPoints == {"magMode", "magRead"}
BaroPoints == {"baroTemp", "baroUT", "baroPress", "baroUP"}
BusPoints == ImuPoints \cup MagPoints \cup BaroPoints
Naps == {"napImu", "napModeWrite", "napMag", "napServo", "napCommand",
         "napTemp", "napPress"}
Prints == {"printMotors", "printPass", "printResult"}
Points == BusPoints \cup Naps \cup Prints
          \cup {"readAttitude", "servos", "publish", "prompt"}

(* I2C_MPU is I2CD1, I2C_HMC and I2C_BMP are I2CD3.                        *)
BusOf(point) == IF point \in ImuPoints THEN "I2CD1" ELSE "I2CD3"

(* The lines of the shell: none, or a command that starts at this point.    *)
CommandStarts == {"imu", "magMode", "baroTemp", "printResult"}

(* Update: readAllIMUData, readMagnetometerData, the attitude.             *)
EstimatorFlow ==
  {<<"imu", "napImu">>, <<"napImu", "magMode">>, <<"magMode", "napModeWrite">>,
   <<"napModeWrite", "magRead">>, <<"magRead", "napMag">>, <<"napMag", "publish">>,
   <<"publish", "imu">>}

(* The main loop: control() and nothing else while the shell is alive.     *)
MainFlow ==
  {<<"readAttitude", "printMotors">>, <<"printMotors", "servos">>,
   <<"servos", "napServo">>, <<"napServo", "printPass">>,
   <<"printPass", "readAttitude">>}

(* The imu, magnetometer, barometer and attitude commands repeat a reading *)
(* or a print, with or without a sleep; getHeading reads both sensors.     *)
ShellFlow ==
  ({"prompt", "napCommand"} \X CommandStarts) \cup
  {<<"imu", "printResult">>, <<"imu", "magMode">>,
   <<"magMode", "napModeWrite">>, <<"napModeWrite", "magRead">>,
   <<"magRead", "printResult">>,
   <<"baroTemp", "napTemp">>, <<"napTemp", "baroUT">>, <<"baroUT", "printResult">>,
   <<"baroUT", "baroPress">>, <<"baroPress", "napPress">>, <<"napPress", "baroUP">>,
   <<"baroUP", "printResult">>,
   <<"printResult", "baroTemp">>, <<"printResult", "napCommand">>,
   <<"printResult", "prompt">>, <<"napCommand", "prompt">>}

Following(t, point) ==
  {next \in Points : <<point, next>> \in IF t = "dcm" THEN EstimatorFlow
                                         ELSE IF t = "main" THEN MainFlow
                                         ELSE ShellFlow}

VARIABLES
  at,        (* the point each thread has reached                            *)
  phase,     (* progress of its bus sequence                                 *)
  prio,      (* p_prio, the current priority                                 *)
  owner,     (* m_owner of each bus mutex                                    *)
  output,    (* messages in the serial output queue                          *)
  left,      (* fields the running loop of each thread has still to touch    *)
  attitude,  (* current_attitude: the publication each field belongs to      *)
  latest,    (* the publication the estimator wrote last, counted modulo 3   *)
  seen,      (* the publications control() has read in this pass             *)
  overlap    (* history: a publication came while the pass was reading       *)

vars == <<at, phase, prio, owner, output, left, attitude, latest, seen, overlap>>

Phases == {"want", "waiting", "held", "busy", "done"}
Versions == 0 .. 2
NextVersion == (latest + 1) % 3

TypeOK ==
  /\ at \in [Threads -> Points]
  /\ phase \in [Threads -> Phases]
  /\ prio \in [Threads -> {NORMALPRIO, HIGHPRIO}]
  /\ owner \in [Buses -> Threads \cup {NoThread}]
  /\ output \in 0 .. OutputSize
  /\ left \in [Threads -> SUBSET Fields]
  /\ attitude \in [Fields -> Versions]
  /\ latest \in Versions
  /\ seen \in [Fields -> Versions]
  /\ overlap \in BOOLEAN

Init ==
  /\ at = [t \in Threads |-> IF t = "main" THEN "readAttitude"
                             ELSE IF t = "dcm" THEN "imu" ELSE "prompt"]
  /\ phase = [t \in Threads |-> "want"]
  /\ prio = [t \in Threads |-> RealPrio(t)]
  /\ owner = [b \in Buses |-> NoThread]
  /\ output = 0
  /\ left = [t \in Threads |-> Fields]
  /\ attitude = [f \in Fields |-> 0]
  /\ latest = 0
  /\ seen = [f \in Fields |-> 0]
  /\ overlap = FALSE
-----------------------------------------------------------------------------
(* Mutant: the queue counts as full one place too early.                   *)
ReadyOneShort(t) ==
  /\ at[t] \notin Naps \cup {"prompt"}
  /\ phase[t] \notin {"waiting", "busy"}
  /\ at[t] \in Prints => output + 1 < OutputSize

(* A thread is ready unless it sleeps, waits for a mutex, for the end of a *)
(* transfer, for shell input or for room in the output queue.              *)
Ready(t) ==
  /\ at[t] \notin Naps \cup {"prompt"}
  /\ phase[t] \notin {"waiting", "busy"}
  /\ at[t] \in Prints => output < OutputSize

(* chSchReadyI keeps the ready list in priority order and the head runs.   *)
Running(t) == Ready(t) /\ \A u \in Threads : Ready(u) => prio[u] <= prio[t]

InBus(t, ph) == at[t] \in BusPoints /\ phase[t] = ph

(* The thread goes on to one of the following points, with its loop reset. *)
Advance(t) ==
  /\ \E point \in Following(t, at[t]) : at' = [at EXCEPT ![t] = point]
  /\ left' = [left EXCEPT ![t] = Fields]

Waiters(bus) == {t \in Threads : InBus(t, "waiting") /\ BusOf(at[t]) = bus}

(* Mutant: a mutex without priority inheritance.                           *)
AcquireNoBoost(t) ==
  /\ Running(t) /\ InBus(t, "want")
  /\ LET bus == BusOf(at[t])
     IN  IF owner[bus] = NoThread
         THEN /\ owner' = [owner EXCEPT ![bus] = t]
              /\ phase' = [phase EXCEPT ![t] = "held"]
         ELSE /\ phase' = [phase EXCEPT ![t] = "waiting"]
              /\ UNCHANGED owner
  /\ UNCHANGED <<at, prio, output, left, attitude, latest, seen, overlap>>

(***************************************************************************)
(* i2cAcquireBus: chMtxLock.  A free mutex is taken; otherwise the owner   *)
(* inherits the priority of the caller, which goes to sleep.  An owner     *)
(* never waits for another mutex here, so the inheritance chain of         *)
(* chMtxLockS has one link.                                                *)
(***************************************************************************)
Acquire(t) ==
  /\ Running(t) /\ InBus(t, "want")
  /\ LET bus == BusOf(at[t])
         own == owner[bus]
     IN  IF own = NoThread
         THEN /\ owner' = [owner EXCEPT ![bus] = t]
              /\ phase' = [phase EXCEPT ![t] = "held"]
              /\ UNCHANGED prio
         ELSE /\ phase' = [phase EXCEPT ![t] = "waiting"]
              /\ prio' = IF prio[own] < prio[t]
                         THEN [prio EXCEPT ![own] = prio[t]] ELSE prio
              /\ UNCHANGED owner
  /\ UNCHANGED <<at, output, left, attitude, latest, seen, overlap>>

(* i2cMasterTransmit starts the transfer and suspends the caller, with     *)
(* TIME_INFINITE, until the interrupt handler resumes it.                  *)
Transmit(t) ==
  /\ Running(t) /\ InBus(t, "held")
  /\ phase' = [phase EXCEPT ![t] = "busy"]
  /\ UNCHANGED <<at, prio, owner, output, left, attitude, latest, seen, overlap>>

(* The I2C interrupt ends the transfer, well or not, and wakes the thread. *)
TransferEnds(t) ==
  /\ InBus(t, "busy")
  /\ phase' = [phase EXCEPT ![t] = "done"]
  /\ UNCHANGED <<at, prio, owner, output, left, attitude, latest, seen, overlap>>

(* Mutant: the priority is not recomputed on unlock.                     *)
ReleaseKeepsPrio(t) ==
  /\ Running(t) /\ InBus(t, "done")
  /\ LET bus == BusOf(at[t])
     IN  \/ /\ Waiters(bus) = {}
            /\ owner' = [owner EXCEPT ![bus] = NoThread]
            /\ phase' = [phase EXCEPT ![t] = "want"]
            /\ UNCHANGED prio
         \/ \E w \in Waiters(bus) :
              /\ \A u \in Waiters(bus) : prio[u] <= prio[w]
              /\ owner' = [owner EXCEPT ![bus] = w]
              /\ phase' = [phase EXCEPT ![t] = "want", ![w] = "held"]
              /\ UNCHANGED prio
  /\ Advance(t)
  /\ UNCHANGED <<output, attitude, latest, seen, overlap>>

(* Mutant: the waiter is woken without being made the owner.             *)
ReleaseDropsOwner(t) ==
  /\ Running(t) /\ InBus(t, "done")
  /\ LET bus == BusOf(at[t])
     IN  \/ /\ Waiters(bus) = {}
            /\ owner' = [owner EXCEPT ![bus] = NoThread]
            /\ phase' = [phase EXCEPT ![t] = "want"]
            /\ UNCHANGED prio
         \/ \E w \in Waiters(bus) :
              /\ \A u \in Waiters(bus) : prio[u] <= prio[w]
              /\ owner' = [owner EXCEPT ![bus] = NoThread]
              /\ phase' = [phase EXCEPT ![t] = "want", ![w] = "held"]
              /\ prio' = [prio EXCEPT ![t] = RealPrio(t)]
  /\ Advance(t)
  /\ UNCHANGED <<output, attitude, latest, seen, overlap>>

(* Mutant: the mutex is freed and its waiters are forgotten.                *)
ReleaseForgetsWaiters(t) ==
  /\ Running(t) /\ InBus(t, "done")
  /\ owner' = [owner EXCEPT ![BusOf(at[t])] = NoThread]
  /\ phase' = [phase EXCEPT ![t] = "want"]
  /\ prio' = [prio EXCEPT ![t] = RealPrio(t)]
  /\ Advance(t)
  /\ UNCHANGED <<output, attitude, latest, seen, overlap>>

(***************************************************************************)
(* i2cReleaseBus: chMtxUnlock.  With a waiter the priority is recomputed,  *)
(* no other mutex being owned, and the mutex goes to the waiter of highest *)
(* priority; without one the priority is left alone.                       *)
(***************************************************************************)
Release(t) ==
  /\ Running(t) /\ InBus(t, "done")
  /\ LET bus == BusOf(at[t])
     IN  \/ /\ Waiters(bus) = {}
            /\ owner' = [owner EXCEPT ![bus] = NoThread]
            /\ phase' = [phase EXCEPT ![t] = "want"]
            /\ UNCHANGED prio
         \/ \E w \in Waiters(bus) :
              /\ \A u \in Waiters(bus) : prio[u] <= prio[w]
              /\ owner' = [owner EXCEPT ![bus] = w]
              /\ phase' = [phase EXCEPT ![t] = "want", ![w] = "held"]
              /\ prio' = [prio EXCEPT ![t] = RealPrio(t)]
  /\ Advance(t)
  /\ UNCHANGED <<output, attitude, latest, seen, overlap>>

(* A virtual timer ends a sleep.                                           *)
Wake(t) ==
  /\ at[t] \in Naps
  /\ Advance(t)
  /\ UNCHANGED <<phase, prio, owner, output, attitude, latest, seen, overlap>>

(* A line has been typed and the shell starts a command.                   *)
Command ==
  /\ at["shell"] = "prompt"
  /\ Advance("shell")
  /\ UNCHANGED <<phase, prio, owner, output, attitude, latest, seen, overlap>>

(* chprintf puts its text into the output queue.                           *)
Chprintf(t) ==
  /\ Running(t) /\ at[t] \in Prints
  /\ output' = output + 1
  /\ Advance(t)
  /\ UNCHANGED <<phase, prio, owner, attitude, latest, seen, overlap>>

(* The serial interrupt sends from the output queue.                       *)
Drain ==
  /\ output > 0
  /\ output' = output - 1
  /\ UNCHANGED <<at, phase, prio, owner, left, attitude, latest, seen, overlap>>

(* One assignment of the estimator to a field of current_attitude.  The    *)
(* fields are not volatile, so the compiler may order the accesses of      *)
(* either side as it likes.                                                *)
PublishField(f) ==
  /\ Running("dcm") /\ at["dcm"] = "publish" /\ f \in left["dcm"]
  /\ attitude' = [attitude EXCEPT ![f] = NextVersion]
  /\ left' = [left EXCEPT !["dcm"] = @ \ {f}]
  /\ overlap' = (overlap \/ left["main"] # Fields)
  /\ UNCHANGED <<at, phase, prio, owner, output, latest, seen>>

PublishDone ==
  /\ Running("dcm") /\ at["dcm"] = "publish" /\ left["dcm"] = {}
  /\ latest' = NextVersion
  /\ Advance("dcm")
  /\ UNCHANGED <<phase, prio, owner, output, attitude, seen, overlap>>

(* control() reads one field of current_attitude.                          *)
ReadField(f) ==
  /\ Running("main") /\ at["main"] = "readAttitude" /\ f \in left["main"]
  /\ seen' = [seen EXCEPT ![f] = attitude[f]]
  /\ left' = [left EXCEPT !["main"] = @ \ {f}]
  /\ overlap' = (overlap /\ left["main"] # Fields)
  /\ UNCHANGED <<at, phase, prio, owner, output, attitude, latest>>

(* The corrections are computed.                                           *)
ReadDone ==
  /\ Running("main") /\ at["main"] = "readAttitude" /\ left["main"] = {}
  /\ Advance("main")
  /\ UNCHANGED <<phase, prio, owner, output, attitude, latest, seen, overlap>>

(* The four startServo calls.                                              *)
Servos ==
  /\ Running("main") /\ at["main"] = "servos"
  /\ Advance("main")
  /\ UNCHANGED <<phase, prio, owner, output, attitude, latest, seen, overlap>>

Step(t) == Acquire(t) \/ Transmit(t) \/ Release(t) \/ Chprintf(t)

Estimate == (\E f \in Fields : PublishField(f)) \/ PublishDone
Control  == (\E f \in Fields : ReadField(f)) \/ ReadDone \/ Servos

Next ==
  \/ \E t \in Threads : Step(t) \/ TransferEnds(t) \/ Wake(t)
  \/ Estimate \/ Control \/ Command \/ Drain

Spec == Init /\ [][Next]_vars

(***************************************************************************)
(* Fairness.  Interrupts, timers and the serial line do their work; that a *)
(* transfer ends is an assumption on the devices, the code waits for it    *)
(* with TIME_INFINITE.  The estimator has the highest priority, so weak    *)
(* fairness is enough for it.  The other threads are preempted again and   *)
(* again: they progress because the estimator sleeps twice a cycle, the    *)
(* ready list is round robin within a priority and the threads blocked on  *)
(* the output queue are served first in, first out: strong fairness.       *)
(***************************************************************************)
Fairness ==
  /\ \A t \in Threads : WF_vars(TransferEnds(t)) /\ WF_vars(Wake(t))
  /\ WF_vars(Drain)
  /\ WF_vars(Step("dcm") \/ Estimate)
  /\ SF_vars(Step("main") \/ Control)
  /\ SF_vars(Step("shell"))

FairSpec == Spec /\ Fairness
-----------------------------------------------------------------------------
InTransaction(t) == at[t] \in BusPoints /\ phase[t] \in {"held", "busy", "done"}

(* Only the owner of a bus is between its acquire and release, whatever    *)
(* thread took, inherited or was handed the mutex: i2cMasterTransmit finds *)
(* the driver ready.                                                       *)
BusIsExclusive ==
  /\ \A t, u \in Threads :
       InTransaction(t) /\ InTransaction(u) /\ BusOf(at[t]) = BusOf(at[u]) => t = u
  /\ \A b \in Buses : owner[b] # NoThread
       => InTransaction(owner[b]) /\ BusOf(at[owner[b]]) = b

(* No lost wakeup: a mutex somebody waits for is owned by another thread.  *)
WaitersHaveAnOwner ==
  \A b \in Buses : Waiters(b) # {} => owner[b] \in Threads \ Waiters(b)

(* A priority is above the thread's own exactly while the estimator waits  *)
(* for a bus the thread owns: inheritance neither comes late nor outlives  *)
(* the release.                                                            *)
Boosted(t) == \E b \in Buses : owner[b] = t /\ "dcm" \in Waiters(b)
PriorityIsInherited ==
  \A t \in Threads : prio[t] = HIGHPRIO <=> t = "dcm" \/ Boosted(t)

(* While the estimator waits for a bus, the ready owner of the bus is not  *)
(* kept from the processor by a thread that has nothing to do with it.     *)
NoPriorityInversion ==
  \A b \in Buses, t \in Threads :
    "dcm" \in Waiters(b) /\ Ready(owner[b]) /\ Running(t) => t = owner[b]

(* current_attitude is written field by field and read without a lock, yet *)
(* no thread that could read it ever runs while it is half written: the    *)
(* scheduling priorities do the work of the lock.                          *)
ReadersSeeOnePublication ==
  \A t \in Threads \ {"dcm"} : Running(t) => \A f \in Fields : attitude[f] = latest

(* The attitude, rates and interval one control pass works with belong to  *)
(* one publication unless the estimator published while they were read,    *)
(* however long the pass then waits for the output queue.                  *)
ConsistentUnlessOverlapped ==
  at["main"] \in {"printMotors", "servos"} /\ ~overlap
    => \A f, g \in Fields : seen[f] = seen[g]

(* The estimator publishes again and again whatever the shell does with    *)
(* the buses.                                                              *)
EstimatorPublishes == []<>(at["dcm"] = "publish")

(* The control loop drives the servos again and again, although it prints  *)
(* on every pass and shares its priority with the shell.                   *)
ControlDrivesServos == []<>(at["main"] = "servos")

(* A shell command that asks for a bus gets it although the estimator is   *)
(* preferred whenever both wait.                                           *)
ShellGetsTheBus == InBus("shell", "waiting") ~> InBus("shell", "held")
=============================================================================
