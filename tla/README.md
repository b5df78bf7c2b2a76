# Formal models of the Pluto quadrotor base firmware

TLA+ models of the firmware in `src/`, the TLC configurations that check them on
small instances, and TLAPS proofs of their main results for every value of the
constants.  The firmware runs on an STM32F407 under the vendored ChibiOS/RT
kernel (`src/chibios`).  The models are about the application (`src/src`) and
about the kernel and driver code it stands on wherever a property needs it.  The
repository has no tests and no design document: the code is the reference, and
its comments and usage texts are the only claims it makes about itself.  Paths
below are relative to the directory that holds `src/` and `tla/`, as in
`PROJECT.json`, with `src/src/` left out where it is plain.

## The system

Three threads share one processor.

| Thread | Priority | Code | Loop |
|---|---|---|---|
| main | NORMALPRIO | `main.c`, `control.c` | `control()`: read the attitude, four loops per axis, print, drive four servos, sleep 20 ms, print; then create, watch or release the shell |
| DCMUpdate | HIGHPRIO | `DCM/dcm/dcm_update.c` | read the IMU, sleep 10 ms, read the magnetometer, sleep 10 ms, update the direction cosine matrix, publish `current_attitude` |
| shell | NORMALPRIO | `shell.c` of ChibiOS, `shellCommands.c` | read a line, run the command |

Beside them run the EXTI handlers that time the pulses of the RC receiver, the
I2C and DMA handlers that end bus transfers, the serial handler that drains the
output queue, and the system tick that ends sleeps.

### Components

| Component | State | Operations | What makes it correct |
|---|---|---|---|
| RC input `IO/Input/RCInput.c` | `start[4]`, `RCInput[4]`, EXTI pending bits | four edge callbacks, `InputValues` | a published width is the true width of one pulse; no legal pulse is lost; nothing stale is paired |
| Controller `control.c` | integrals, gains, limits | `control()`, gain commands | what reaches the motors is bounded whatever was measured or set; integrals without a lower limit do not overflow; a NaN integral gives no correction |
| Servo outputs `IO/Output/*`, `pwm_lld.c` | timer channels and compare registers | `startServo`, `stopServo` | a command reaches its servo and no other, with its width |
| Estimator `DCM/dcm/dcm_update.c` | `current_attitude` | the loop of `Update` | readers see one publication; what is published is what was used; it never stops |
| Filter `DCM/dcm/dcm.c` | matrix, step counter, latched field modulus | `dcmUpdate` | the matrix stays orthonormal numbers whatever fails on the way to it |
| Sensors `Sensors/*` | `IMUD1`, `MD1`, `BD1` | set-up, `readIMUData`, `readAllIMUData`, `readMagnetometerData`, `readBarometerData` | one reading at a time per bus; users see whole, recent readings |
| Shell and commands | the shell thread, gains, servos | commands | never disturbs the flight threads beyond what a command asks for |
| Shell management `main.c` | `shelltp`, heap blocks | create, notice the end, release | a shell comes back, no memory is lost, no dangling thread is touched |
| Kernel (scheduler, mutexes, queues, registry, references) | ready list, owners, priorities, counters | `chMtxLock`, `chMtxUnlock`, `chOQPut`, `chThdRelease`, `chRegNextThread` | mutual exclusion, no lost wakeup, exact priority inheritance, exact references |
| I2C driver `i2c_lld.c`, `i2c.c` | driver state, error flags, safety timer, the sleeping thread | start, stop, transmit, receive, interrupts | a caller is told what happened to its own transfer; nothing of a call outlives it; a call with a time limit ends |
| Timers `chvt.c` | the list of differences | set, reset, tick | every timer runs out at its deadline, none on a stack that is left |
| Output queue and USART `chqueues.c`, `serial_lld.c` | buffer, pointers, waiting threads, CR1 and SR | `chOQPutTimeout`, `chOQGetI`, the interrupt | a FIFO; no writer is forgotten; what is in leaves |
| Memory card `fsInit.c`, `mmc_spi.c`, FatFs | driver state, `block_addresses`, `fs_ready`, the known volume, `fbuff` | `mount`, `unmount`, `tree` | what is listed is the card's, at its place; a command comes back |

### Interactions

* The estimator and the shell take the bus mutexes (`i2cAcquireBus`), `I2CD1`
  for the IMU and `I2CD3` for magnetometer and barometer, and wait for transfers
  with no time limit.
* Both fill and read `IMUD1` and `MD1`; only the bus is locked, not the structures.
* The estimator writes `current_attitude` field by field, the control loop and
  `cmd_attitude` read it field by field, with no lock.
* The shell sets gains while the control loop reads them, and drives servos with
  the registers the control loop uses.
* The control loop and the shell print into one serial output queue, on which
  they block when it is full.
* The main loop reaps the shell, while the shell's `threads` command walks the
  registry the shell itself is in.

### What is hard

Interleavings of the three threads with no locks on the data; priorities that do
the work of locks; inheritance, and mutexes handed over on unlock; the wrapping
cycle counter and interrupts that merge edges; unsigned arithmetic, casts and NaN
between measurement and motor; failed transfers whose status is dropped; objects
released while somebody else looks at them.  `PROJECT.json` lists each hazard at
its line with the properties that cover it.

## Modules

Components are modelled by these modules; each `VARIABLE` and action names the C
object it stands for in a comment, and `PROJECT.json` maps it to its lines.

| Module | Models | Extended by |
|---|---|---|
| `RCInput` | pulse capture of the RC receiver | `InputProofs` |
| `Flight` | the three threads, the buses, priorities, the attitude, the output queue | `FlightProofs` |
| `Samples` | `IMUD1` and `MD1` between estimator and shell | `InputProofs` |
| `Estimate` | sensor set-up, readings and filter by kinds of values | `EstimateProofs` |
| `Float` | rounded arithmetic with overflow, infinities and NaN (external: the FPU) | `Cascade` |
| `Cascade` | one axis of the controller | `MCCascade`, `ControlProofs` |
| `Motors` | motor mix, servo calls, PWM registers, `pwm` command | `ControlProofs` |
| `ShellLife` | shell creation, exit, release, registry walk | `MCShellLife`, `KernelProofs` |
| `PriorityMutex` | `chmtx.c` and `chschd.c` in general: nested mutexes, chains of inheritance, the ready list | `MCPriorityMutex`, `KernelProofs` |
| `Lock` | what the mutexes promise, without queues, stacks and priorities | implemented by `PriorityMutex`, shown in `KernelProofs` |
| `I2CDriver` | one I2C bus, its driver, interrupts, peripheral and device | `I2CDriverProofs` |
| `Timers` | the list of `chvt.c` as operators | `SerialOut` |
| `SerialOut` | output queue, waits with timeouts, sleeps, ticks, USART | `IOProofs` |
| `Fifo` | what an output queue promises | implemented by `SerialOut`, shown in `IOProofs` |
| `MMC` | driver and card | `Card` |
| `Card` | `mount`, `unmount`, `tree`, what FatFs knows of a volume | `MCCard`, `IOProofs` |
| `ListFacts` | nothing of the code: lemmas about sequences, sets of naturals and the two places an ordered list inserts at | `KernelProofs`, `IOProofs` |

They meet at named points.  `Flight` decides who may run at what time; `Samples`
takes the two threads that meet at the sensor structures from it, with the same
rule for `Running`; `Cascade` lets the samples and gains change between any two
statements, which is what `Flight` shows can happen while `control()` runs;
`Motors` takes corrections in `0 .. CorrMax`, which is what is proved of `Cascade`
(`CorrectionBounded`).  `Flight` takes a transfer as one step
that ends and an output queue as a counter; `I2CDriver` and `SerialOut` have what is
inside.  `Flight` reads off its callers that a thread owns one mutex at a time;
`PriorityMutex` shows that the kernel's code keeps its promise beyond that.  Definitions whose comment begins with *Mutant* are not part
of a model: each is the form a definition would have with a plausible bug, and a
property must fail with it.

**RCInput.**  Time is counted in ticks.  An edge sets the line's pending bit;
`EnterHandler` takes the pending bits of the vector; the callback then reads the
pin twice, in two steps, since the level may change in between.  The four callbacks
are the same code on four elements, so one action with a channel stands for them.
`Latency` bounds how long an edge may wait for its callback: it stands for every
critical section of the kernel and every handler that runs first.

**Flight.**  An action is one step between two points where an interrupt can change
the running thread.  `Ready` is the kernel's state of a thread and `Running` its
scheduling rule: a ready thread of highest current priority, any one among equals
(round robin).  A bus point stands for acquire, transmit, wait, release, each a
step of its own.  `Acquire` and `Release` are `chMtxLockS` and `chMtxUnlock` with
inheritance; a thread here owns at most one mutex and never waits for a second,
which the model does not assume of the kernel but reads off the callers, so the
inheritance chain has one link.  A publication and a reading touch one field per
step, in any order, since the fields are not volatile.  The output queue counts
messages.

**Samples.**  A value is the number of the reading it came from.  A reading stores
one component per step; a failed one leaves the IMU structure alone and fills the
magnetometer's with `Junk`, since `readMagnetometerData` drops the status and its
buffer is uninitialised.  Each component is computed from the `RAW_` field just
stored, which the compiler may load again: `Store` allows both.

**Estimate.**  The set-up of the two sensors, transfer by transfer, then the passes of
the estimator with readings as single steps, since `Samples` has their interleavings.
A vector is zero, a number or bad (infinite or NaN in every component): all its
components are computed alike and divided by one scale factor or one modulus.  A
field also has a modulus, for the latch and the gate of `dcmUpdate`.  That a small
rotation leaves three independent rows is taken for granted (in exact arithmetic,
I + [w] is invertible); floating-point rounding is not modelled.

**Cascade.**  The statements of `control()` treat the axes alike and do not mix
them, so one axis is modelled.  Its numbers are those of module `Float`: a finite set
of floats (multiples of a smallest one, with gaps that grow with the size), the two
infinities and NaN.  An operation is exact, then rounded to a nearest float, either one
at a tie, or to an infinity beyond the largest; infinities of opposite sign added, or an
infinity times zero, give NaN, which every operation passes on and every comparison
rejects.  The compiler may fuse a product and a sum into one instruction that rounds
once (`-ffp-contract` is at its default and the FPU has `VFMA`): `Accumulated` and
`SumOfProducts` have both outcomes.  A gain may be of any size, infinite or NaN, since
`atof` reads such words, and the saturators limit the upper side only, so an integral
can reach minus infinity and then NaN: a zero `kii` is enough.  The conversion to
`uint32_t` is the one of the `vcvt.u32.f32` the Makefile's FPU options produce: 0 for a
negative number and for NaN, the largest for what is too large.

**Motors.**  `uint32_t` and `uint16_t` are remainders by `Word` and `HalfWord`.
`PinChannel` comes from the pin set-up of `initPWM` and `Active` from the four PWM
configurations, `ChannelOf` from the servo macros: that they agree is checked.  A
`ccr` is what `pwm_lld_enable_channel` writes.

**ShellLife.**  `decrement`, `unlink` and `free` are the three parts of
`chThdRelease`, of which only the first is done with the kernel locked.  The walk of
`cmd_threads` is two steps per thread, with the print between.  A heap block is the
size of a shell's working area.  `registry` is the list from its oldest thread on, so
a new one is appended and `REG_REMOVE` takes out the place a thread is at.

**PriorityMutex.**  A call runs with the kernel locked, so it is one action up to the
switch; the loop of `chMtxUnlockAll` is one action per mutex, and `unlocking` keeps
everybody else out until it ends.  A thread is `currp`, in one place of `ready`, in
the queue of one mutex, or sleeps.
`Behind` and `Ahead` are the two places the scheduler puts a thread of equal priority.
`Boosted` follows the chain of owners, `Reordered` moves each to its new place.  Idle
is a thread that only runs.  `Lock` has per mutex an owner and the threads that wait;
the heir is any of highest priority there, while `PriorityMutex` takes the head of
the queue.

**I2CDriver.**  The bus is in one of a few phases; `Hardware` moves it, moves bytes by
the DMA streams and raises flags, `Interrupts` are the handlers in the order their
flags allow, `SafetyTimeout` is the virtual timer's callback, `Caller` the code of the
call, whose busy-wait is a state of its own.  A device may refuse a byte, may raise an
error at any point and may stall.  `broken` marks that a bus error came into a
transfer, after which the driver does not stop the peripheral.

**SerialOut.**  A call of a thread is one action up to its wait.  The tick is three:
the countdown, taking off an expired timer, and its callback, between which the kernel
is unlocked and the USART may interrupt.  A timer is known by the thread on whose
stack it lies.  `due` is history: what the list of differences must amount to.

**Card.**  A call of the driver is one action up to the loops in which it waits for
the card; the card may fail at each.  The walk of `scan_files` is one action per
entry, with the calls under way as a stack and the path as a sequence of names and
separators.  Of FatFs it has which card the known volume came from, when it is
believed, and how it reads a path.  Cards are exchanged only while none is mounted.

## Runs

All properties of a run are checked together.  Bounds are constants of the modules
or named in the `.cfg`.

| Run | Configuration | Question and result |
|---|---|---|
| `rc` | `MCRCInput.cfg`: two channels on one vector, a counter of 6, pulses 2..4 legal, latency 1 | `PublishedIsTrueWidth`, `LegalPulseAccepted`, `NoPulseWhenSettled` hold, through the wrap and when edges meet |
| `flight` | `MCFlight.cfg`: two fields, a queue of one, `FairSpec` | bus exclusion, exact inheritance, no inversion, consistent attitude, and progress of estimator, control loop and shell: hold |
| `samples` | `MCSamples.cfg`: two components per vector, three readings | what is published is what was used, the shell prints no older reading than its own, one reading unless the shell stored: hold |
| `cascade` | `MCCascade.cfg`: floats of two significant bits up to 1536, a gain that overflows, an infinite rate, a NaN angle | moderate inputs never wind an integral up beyond a fixed size, a NaN integral gives no correction, whatever changes between the loops: hold |
| `motors` | `MCMotors.cfg`: 100-microsecond units | pins, range, held pass: hold |
| `estimate` | `MCEstimate.cfg`: fields 0, 2, 10, 11, 14 | every lost matrix has one of five causes: holds |
| `estimate_query` | `MCEstimateQuery.cfg`: fields 0, 10 | *violation*, see below |
| `shell_life` | `MCShellLife.cfg`: two blocks, three static threads | references, cursor, heap, `ShellComesBack`: hold |
| `priority_mutex` | `MCPriorityMutex.cfg`: four threads, three mutexes | one place for each thread and mutex, exact priorities along chains, the highest runs, `Lock` is implemented: hold |
| `i2c` | `MCI2CDriver.cfg`: two bytes, three faults | true answers, nothing left behind, calls end: hold |
| `serial` | `MCSerialOut.cfg`: two writers, a sleeper, two places | no writer forgotten, timers on time, waits end, bytes leave, `Fifo` is implemented: hold |
| `card` | `MCCard.cfg`: three cards, a tree of five directories | the listing is the card's and in place, commands end but one: hold |

Why the bounds are enough:

* `rc`: the counter is shorter than two legal pulses, so every pulse length starts at
  every counter value and straddles the wrap; two channels share the vector, so merged
  and late edges happen.
* `flight`: two fields make a half-written attitude possible; a queue of one is full
  whenever somebody printed; publications are compared for equality only, and a pass
  overlaps so few of them that numbers modulo 3 do not collide.  Three threads are all
  there are.
* `samples`: three readings are two of the estimator and one of the shell, or the
  other way round: enough for an old one to meet a newer one on both sides.
* `cascade`: passes are not bounded: the floats are finitely many, so the states are.
  The format is the shortest in which a float swallows an addition, and its range leaves
  room for the sizes of `SmallBound`; with moderate inputs the attitude integral winds up
  to -16 and the rate integral to -128, where they stay, and with a gain of 1024 the
  second overflows to minus infinity within one pass and makes the correction NaN.
  The limits are small enough that the samples reach each of them.
* `motors`: corrections at both ends, a width below, one above 16 bits and the
  width -1 of the command line; servo 2 and 5 are also driven by `control()`, 1 is not.
* `estimate`: the fields stand for none, a weak one, two within the gate of each
  other and one too strong for the gate after either; passes are not bounded.
* `shell_life`: with two blocks a second shell could exist beside the first, were
  one created too early.
* `priority_mutex`: four threads, two of one priority, and three mutexes give chains
  of two links, an owner that waits in the middle of a queue, a thread with two mutexes
  of which each has a waiter, and equal priorities in the ready list.  Threads nest
  mutexes in ascending order, as callers must to avoid waiting for each other.
* `i2c`: two bytes distinguish the first, the last and the end of a stream.  At most one
  bus error comes between two starts of the driver: `broken`
  stays true after the first, and the properties say no more then than that calls end.
* `serial`: two places make a queue that is neither full nor empty; with a sleep of two
  ticks and timeouts of one, timers are set before, after and between others and reset
  in front of others.
* `card`: one card of high capacity and two others; a directory between files, one
  inside it, an empty one and a hidden one.  At a wrong address at most two entries are
  read of a directory.

The run `i2c` and the run `card` do not check for deadlock: with a stalled device and
`TIME_INFINITE`, or an `unmount` after a failed read, the program does stop.

### Fairness

`FairSpec` of `Flight`: timers, transfers and the serial line do their work (weak
fairness); that a transfer ends is an assumption about the devices, since the code
waits with `TIME_INFINITE`.  The estimator has the highest priority, so its steps,
once possible, stay possible: weak fairness.  Main and shell are preempted again
and again, and compete for places in the queue: the ready list is round robin
within a priority and blocked writers are served first in, first out, which is
strong fairness.  `ShellLife`: weak fairness of the main loop only; the shell need
never exit.

`I2CDriver`: the peripheral goes on unless the device stalls it, pending interrupts are
served, the safety timer fires and the caller runs: weak fairness of each, since nothing
but the step itself disables it for good. A device that stalls is never forced to go on,
so a call without a time limit may stay on a bus that is stalled, or that a bus error
left busy; every other call must end, which is what `CallsEnd` says. `SerialOut`: the
tick, the interrupt once requested, the shift register, and every thread made ready.
Nobody has to call. That weak fairness is enough for a thread is so because nothing but
its own step takes it from the ready list; that it gets the processor is an assumption
about the threads above it, which `Flight` examines. `Card`: a command goes on; its
retries are counted in the code, and that no card keeps its line low for ever is an
assumption.

### Where comments and code differ

`estimate_query` is expected to end in a violation.  It checks one property that states
a comment, and its counterexample is what the code does: `MagnetometerData.c:17` has
the query write 0x01, a single measurement, and `main.c:58` asks for it; `HMC5883.c:66`
assigns the wrong way round, so `MD1` keeps mode 0 and each query asks for continuous
measurement.

Met while modelling, without a run of their own:

* `control.c:33` has `rate_curr` in degrees per second; it gets radians per second
  (`IMUData.c:109`).  With the gains as built no correction then reaches a whole
  microsecond.  By the same reading `control.c:5` has `att_err_int` in degree seconds,
  but the interval it is summed with is in milliseconds (`dcm_update.c:59`).
* `shellCommands.c:404` and `PWMEnable.c:41` give 1000 to 2000 as the range of a pulse,
  and no code checks it.
* `IMUData.c:82-83` has accelerations and rates read at the same time, but the shell's
  `imu` command may replace one of the two vectors before the update uses them
  (`OneReadingUnlessShell` says when not).
* `dcm.c:30-34` describes a limit for the accelerometer's error, `ACC_ERR_MAX`, which
  nothing reads; and the gate of `dcm.c:178` rejects fields that are too strong but none
  that are too weak, where `dcm.c:36-39` speaks of the error in general.
* The assertions of `mmc_spi.c`, which the build leaves out, want the states ACTIVE or
  READY in `mmcConnect` and `mmcDisconnect`.  After a failed read the state is READING:
  `mount` mends it, `unmount` waits for ever (`CommandsEnd` excepts just this).
* `mmc_spi.c:489` sets `block_addresses` and nothing resets it: a standard card after
  one of high capacity is read at wrong addresses.  `Card` lets the walk find anything
  on such a card.
* `mount` prints "Disk mounted." also when `mmcConnect` failed: `f_mount` only registers.
* `scan_files` leaves `fno.lfname` uninitialised, though `ffconf.h` asks for long names.

## Proofs

Every theorem is checked by `tlapm` from the assumptions on the constants that its
module names (`RCAssumption`, `FlightAssumption`, `FloatAssumption`, `BoundAssumption`,
`CascadeAssumption`, `MotorsAssumption`, `EstimateAssumption`, `DriverAssumption`, `SerialAssumption`,
`SamplesAssumption`, `MutexAssumption`, `ShellLifeAssumption`, `CardAssumption`,
`NamesAssumption`).  A conjunction of named parts is shown to hold initially and to be
kept by each action; the safety properties then follow from it.  Every invariant and
every action property of the passing runs is a theorem, and both refinements are.

* `InputProofs`, first part: all properties of `rc`, for any channels, counter width
  and latency.  `CaptureTypeOK` is inductive as it stands; that `RCinput` is 0 or a
  legal width is a part.  `NoPulseWhenSettled` needs `SecondReadInv`: a pin that changed
  between the two reads of the callback has raised its line again.
  `PublishedIsTrueWidth` and `LegalPulseAccepted` need `OneEdgeInv`: a line that waits
  for its callback has had a single edge, since the shortest phase is longer than the
  latency, so the level the callback reads is the one of that edge; and `StampInv`: the
  start stamp is the counter less the age of the pulse, up to the latency.  `MaxPhase` is
  not in the code: it is the bound above which the model does not tell the lengths of
  pulses apart.  The assumption `CounterMod <= MaxPhase + Latency` keeps every pulse that
  is shorter than a wrap, less the latency, below that bound, so the length compared with
  it is the true one.
* `FlightProofs`: all safety properties of `flight`, for any set of fields and
  any queue.  `BusIsExclusive` is not inductive: that a handed-over mutex has an owner
  inside its sequence needs `OwnerInv` (owner and transaction are the same, both
  ways), `PhaseInv` (no sequence in progress outside bus points) and `WaitInv` (a bus
  waited for is owned).  `PriorityIsInherited` joins them in `LockInv`, which is
  inductive.  `AttitudeInv` says which publication each field carries while the
  estimator writes; its step for the readers needs `PublishingAlone`: by `LockInv`,
  no other thread is at HIGHPRIO when the estimator is not waiting.  `OverlapInv`
  says what the history variable means.
* `ControlProofs`, first part: `WindUpIsBounded`, that a correction is bounded, that an
  axis with a NaN integral gives none, and that an integral that is NaN or minus infinity
  stays so, for every float format, gain, sample and limit.  `PoisonInv` follows a NaN integral
  through the later loops of the pass.  `ModerateInv` gives each variable a size while
  the inputs are moderate; its steps use that a rounded result is no larger than a float
  the exact one is no larger than (`RoundedWithin`), and that a float swallows the steps
  it is that much larger than (`Swallowing`): that is what takes the place of the
  saturators the code lacks.  `BoundAssumption` says that the format has room for the
  sizes.  Binary32 has: with angles up to 2^9 degrees, rates up to 2^12 degrees per second,
  intervals up to 2^15 ms (a wrap of the cycle counter is shorter) and gains up to
  2^16, take 2^10 for `error`, 2^25 for `step`, 2^50 for `integral`, 2^66 for
  `term`, 2^67 for `rate`, 2^7 for `rate_curr`, 2^68 for `rate_error`, 2^83 for
  `rate_step`, 2^108 for `rate_integral`, 2^124 for `corr_term` and 2^125 for `corr`,
  each times `Unit`, 2^149; the float after 2^50 is 2^27 larger, the one after 2^108
  2^85, more than two steps each.  So no sensor data overflows the
  controller while the gains are finite and at most 65536; beyond that, or with an
  infinity or NaN fed in, it may.
* `ControlProofs`, second part: the properties of `motors`, and that the sum of the motors
  does not depend on the corrections, for any correction set and any
  widths of the command.  `HeldInv` links the width asked for and the pass;
  `DivideBack` is the arithmetic of `PWM_FRACTION_TO_WIDTH`: multiplying by the
  period and dividing by it gives the width back when the product fits 32 bits.
* `EstimateProofs`: `BadHasACause`, that a failed set-up poisons the attitude and
  that a matrix once bad stays bad, for any fields.  `ScaleInv`
  says what the set-up has done at each point, `PoisonInv` follows a missing
  `ACCEL_SENS` to the matrix, and `HealthInv` says that without a mishap every operand
  of an update is a number: `HealthyRotation` is its main step.
* `InputProofs`, second part: the three properties of `samples`, for any number of
  readings and any axes.  None is inductive: `Newest` says that what the estimator holds
  between the end of a transfer and its next sleep is not older than anything stored,
  which is so because the shell cannot run then; `OwnOrNewer` and `OneReading` extend the
  properties to the moments in the middle of the stores, and `Unchanged` carries what was
  used to the publication.
* `I2CDriverProofs`: both safety properties of `i2c`, for any number of bytes.  `Sound`
  ties the driver's state, the sleeping thread and the timer to the program point;
  `OwnTransfer` says that what runs on the bus belongs to the call that sleeps, and
  `InOrder` which phase, stream and interrupt can meet.  The last two only hold until a
  bus error, which is why they are implied by `~broken`.
* `IOProofs`, first part: the safety properties and the refinement of `serial`, for any
  threads, timeouts and size.  `SerialInv` is inductive.  `Pointers` says where the write
  pointer is, given the read pointer and the counter; with it alone `SerialOut`
  implements `Fifo`: `StoreAppends` and `GetTakesHead` are the two steps of the buffer,
  and every other step leaves it alone.  `TimersRight` says that the list has exactly the
  timers that are armed, once each, that the differences add up to their deadlines, and
  which states of a thread go with an armed, a firing and no timer.  Its steps rest on
  what `chVTSetI`, `chVTResetI` and the tick do to any list (`TimerSetOnTime`,
  `TimerResetOnTime`, `TickedOnTime`, `TailOnTime`): a list is on time exactly when
  each difference is the step between two neighbouring deadlines (`OnTimeSteps`,
  `StepsOnTime`).  `WaitersRight` has the waiting queue hold exactly the threads in
  `WTQUEUE`, and at least as many woken threads on their way as there are free places
  while somebody waits: a wait that times out takes no wakeup with it, since a thread
  that was woken is not in the queue any more.
* `IOProofs`, second part: both safety properties of `card`, for any cards, names,
  contents, hidden entries and depths.  `ListingInv` says that a driver in READY
  has a card in the socket, that the volume FatFs takes for mounted is that card's or
  forgotten, and that the walk only goes on while the volume is known; it holds because
  `unmount` leaves READY before the socket may be touched and `mount` calls `f_mount`.
  `PathInv` is about the one path buffer: every call of `scan_files` on the stack was
  opened at the place the path led to at that call's `i`, those positions go up along the
  stack, and the innermost is the whole path; so cutting the path at a return leads back
  to where the caller is.  `WalksAgree` says that paths that agree up to a position lead
  to the same place there, `FileShown` that the separators left over lead nowhere.
* `KernelProofs`, first part: all properties of `priority_mutex`, for any threads,
  mutexes and priorities.  `KernelInv` is the inductive invariant.  `Dispatch` has one
  thread running, none ready above it and the ready list in order; `Queues` and `Stacks`
  have the waiting queues and the stacks of owned mutexes agree with the states of the
  threads; `Waits` has a waiting thread asleep for a mutex with an owner; `Ascending` is
  the callers' order; `Exact` is `PriorityIsExact` as a bound that is reached.  None can
  be spared: a queue is in order by priorities that `Exact` explains, and an unlock finds
  the maximum that `Exact` asks for at the heads of queues only because they are in
  order.  The step of `chMtxLockS` is the hard one.  `Boosted` is a least set closed
  under owners that wait below the caller's priority; since waits ascend it is a chain
  that meets each queue once (`OneBoostedPerQueue`), which is what lets one move per
  thread keep every queue in order (`ReorderedLine`), and every boosted thread has
  somebody of the new priority waiting for it (`BoostedHasCause`).  For the refinement
  each call is one `Get`, `Wait` or `Release` of `Lock`: the heir is the head of a queue
  in order, so it is of highest priority.
* `KernelProofs`, second part: the safety properties of `shell_life` and
  `UnlinkedAlone`, which is only proved, for any static threads and any number of heap blocks.  `ShellInv` is inductive: `RegistryRight` (the
  registry has exactly the static threads and the shell that was created and not
  unlinked), `OneShell` (at most one, which `shelltp` designates; only the main loop
  brings a count to zero, and the shell is then final), `WalksRight` (a walk stands at a
  registered thread and gives up another) and `CountsExact`.  The last is needed by the
  first two: that a walk never unlinks anything follows from the creator's reference,
  which the counter still holds.

`Place` and `Remaining` are recursive functions, and what they return for every
argument is proved without the induction theorems, which the provers cannot instantiate:
of the lengths for which a fact fails there would be a least one (`LeastNatural`, from
the well-foundedness of the naturals), and it can be neither zero nor a successor.

Only model-checked: the liveness properties (`EstimatorPublishes`, `ControlDrivesServos`,
`ShellGetsTheBus`, `ShellComesBack`, `CallsEnd`, `WaitsEnd`, `BytesLeave`,
`CommandsEnd`), since liveness under fairness is out of the prover's reach.

## Not modelled

* The numbers of the filter, `eulerAngles`, `getHeading` and calibration: floating
  point and trigonometry.
* Stacks; brown-outs and the watchdog.
* Of the barometer the compensation, whose products of 32 bits (some of them unsigned by
  a mixed factor, `BarometerData.c:39`) TLC's integers cannot hold.
* Of the kernel: `chMtxUnlockS`, `chThdSetPriority`, events, semaphores and messages, which
  the program does not use; splitting of heap blocks.
* Of the drivers: DMA errors, which halt the system; the input queue and the receiver of
  the USART; `sdStop` and `chOQResetI`; SPI transfers byte by byte; writing to the card.
* The insides of FatFs, the allocation of its semaphore, and what the uninitialised
  `fno.lfname` may destroy; the end of `fbuff`, which takes hundreds of sub-directories.
* MAVLink (third-party, and not even called); the disabled
  differential pressure sensor, input capture and `PWMThread`.
* Register set-up of the HAL and the context switch of the port layer.
* The text of messages.

## Plan

Done, in this order: `RCInput`, `Flight`, `Cascade` on `Float`, `Motors`, `ShellLife`,
`Samples`, `Estimate`, `PriorityMutex` with `Lock`, `I2CDriver`, `SerialOut` with `Timers` and
`Fifo`, `MMC` with `Card`, and the proofs above.  Next, most important first:

1. `Barometer` on widths scaled down together with its coefficients, and the other parts
   named under "Not modelled".
2. Theorems that join modules: that the pass of `Motors` takes what an axis of `Cascade`
   gives, and that `Flight`'s bus is an instance of `Lock`.
