------------------------------- MODULE Samples -------------------------------
(***************************************************************************)
(* The sensor structures IMUD1 and MD1, which the estimator thread         *)
(* (dcm_update.c) and the shell's imu and magnetometer commands            *)
(* (shellCommands.c) both fill by readIMUData, readAllIMUData and          *)
(* readMagnetometerData and both read, with a lock on the bus but none on  *)
(* the structures.                                                         *)
(*                                                                         *)
(* A value is the number of the reading it came from.  The temperature,    *)
(* which only the shell touches, is left out, and so are the sleeps inside *)
(* the magnetometer's reading; Flight has the buses and the priorities in  *)
(* full.                                                                   *)
(***************************************************************************)
EXTENDS Integers

CONSTANTS
  Axes,          (* components of a vector                                  *)
  MaxReadings    (* bound of the exploration: readings in all               *)

ASSUME SamplesAssumption == MaxReadings \in Nat

Threads == {"dcm", "shell"}

NORMALPRIO == 64
HIGHPRIO   == 127

(* Mutant: startDCMThread passes NORMALPRIO.                               *)
RealPrioEqual(t) == NORMALPRIO

(* p_realprio: startDCMThread passes HIGHPRIO, shellCreate NORMALPRIO.     *)
RealPrio(t) == IF t = "dcm" THEN HIGHPRIO ELSE NORMALPRIO

(* The sensor a reading asks, and the vectors it fills.                    *)
Sensors == {"accel", "gyro", "imu", "mag"}
Vectors == {"accel", "gyro", "mag"}
Fields  == Vectors \X Axes
Junk    == -1        (* what an uninitialised receive buffer holds         *)

(* Mutant: readAllIMUData does not store the angular rates.                *)
FilledAccelOnly(s) ==
  (IF s = "imu" THEN {"accel"} ELSE {s}) \X Axes

Filled(s) ==
  (IF s = "imu" THEN {"accel", "gyro"} ELSE {s}) \X Axes

BusOf(s) == IF s = "mag" THEN "I2CD3" ELSE "I2CD1"

VARIABLES
  at,         (* the point each thread has reached                          *)
  sensor,     (* the sensor it reads                                        *)
  got,        (* the reading, Junk, or 0 when there was an error            *)
  left,       (* the fields it has still to store                           *)
  sample,     (* IMUD1 and MD1                                              *)
  used,       (* the arguments of dcmUpdate while it runs, 0 otherwise      *)
  readings,   (* history: readings so far                                   *)
  touched     (* history: a shell's store since the last good IMU reading   *)

vars == <<at, sensor, got, left, sample, used, readings, touched>>

ReadPoints == {"want", "busy", "release", "store"}
Points == ReadPoints \cup {"nap", "update", "publish", "prompt", "print"}
Values == Junk .. MaxReadings

TypeOK ==
  /\ at \in [Threads -> Points]
  /\ sensor \in [Threads -> Sensors]
  /\ got \in [Threads -> Values]
  /\ left \in [Threads -> SUBSET Fields]
  /\ sample \in [Fields -> Values]
  /\ used \in [Fields -> Values]
  /\ readings \in 0 .. MaxReadings
  /\ touched \in BOOLEAN

(* The structures are zero at start-up, as if from a reading 0.            *)
Init ==
  /\ at = [t \in Threads |-> IF t = "dcm" THEN "want" ELSE "prompt"]
  /\ sensor = [t \in Threads |-> IF t = "dcm" THEN "imu" ELSE "accel"]
  /\ got = [t \in Threads |-> 0]
  /\ left = [t \in Threads |-> {}]
  /\ sample = [f \in Fields |-> 0]
  /\ used = sample
  /\ readings = 0
  /\ touched = FALSE
-----------------------------------------------------------------------------
(* Between i2cAcquireBus and i2cReleaseBus.                                *)
Holds(t, bus) == at[t] \in {"busy", "release"} /\ BusOf(sensor[t]) = bus

Ready(t) ==
  /\ at[t] \notin {"nap", "prompt", "busy"}
  /\ at[t] = "want" => \A u \in Threads : ~Holds(u, BusOf(sensor[t]))

Running(t) ==
  Ready(t) /\ \A u \in Threads : Ready(u) => RealPrio(u) <= RealPrio(t)

Go(t, from, to) == at[t] = from /\ at' = [at EXCEPT ![t] = to]

(* i2cAcquireBus and the start of i2cMasterTransmit.                       *)
Transmit(t) ==
  /\ Running(t) /\ Go(t, "want", "busy")
  /\ UNCHANGED <<sensor, got, left, sample, used, readings, touched>>

(* The interrupt that ends the transfer: with a reading, or with an error, *)
(* which readIMUData and readAllIMUData notice, leaving everything as it   *)
(* was, and readMagnetometerData does not.                                 *)
TransferEnds(t) ==
  /\ Go(t, "busy", "release")
  /\ \/ /\ readings < MaxReadings
        /\ readings' = readings + 1
        /\ got' = [got EXCEPT ![t] = readings']
        /\ left' = [left EXCEPT ![t] = Filled(sensor[t])]
     \/ /\ sensor[t] = "mag"
        /\ got' = [got EXCEPT ![t] = Junk]
        /\ left' = [left EXCEPT ![t] = Filled(sensor[t])]
        /\ UNCHANGED readings
     \/ /\ sensor[t] # "mag"
        /\ got' = [got EXCEPT ![t] = 0]
        /\ left' = [left EXCEPT ![t] = {}]
        /\ UNCHANGED readings
  /\ UNCHANGED <<sensor, sample, used, touched>>

(* i2cReleaseBus.                                                          *)
Release(t) ==
  /\ Running(t) /\ Go(t, "release", "store")
  /\ touched' = (touched /\ ~(sensor[t] = "imu" /\ left[t] # {}))
  /\ UNCHANGED <<sensor, got, left, sample, used, readings>>

(* One component is stored.  It is computed from the RAW_ field, which the *)
(* compiler may keep in a register or load again: then the component stays *)
(* what another thread has made of a newer reading.                        *)
Store(t, f) ==
  /\ Running(t) /\ at[t] = "store" /\ f \in left[t]
  /\ left' = [left EXCEPT ![t] = @ \ {f}]
  /\ \E v \in {got[t]} \cup {w \in {sample[f]} : w > got[t]} :
       sample' = [sample EXCEPT ![f] = v]
  /\ touched' = (touched \/ t = "shell")
  /\ UNCHANGED <<at, sensor, got, used, readings>>

(* readMagnetometerData or readAllIMUData returns and the estimator        *)
(* sleeps; the shell prints.                                               *)
Stored(t) ==
  /\ Running(t) /\ left[t] = {} /\ Go(t, "store", IF t = "dcm" THEN "nap" ELSE "print")
  /\ UNCHANGED <<sensor, got, left, sample, used, readings, touched>>

(* The estimator wakes: for the magnetometer, or for the update.           *)
Wake ==
  /\ IF sensor["dcm"] = "imu"
     THEN Go("dcm", "nap", "want") /\ sensor' = [sensor EXCEPT !["dcm"] = "mag"]
     ELSE Go("dcm", "nap", "update") /\ UNCHANGED sensor
  /\ UNCHANGED <<got, left, sample, used, readings, touched>>

(* The arguments of dcmUpdate are loaded and the attitude is computed.     *)
Update ==
  /\ Running("dcm") /\ Go("dcm", "update", "publish")
  /\ used' = sample
  /\ UNCHANGED <<sensor, got, left, sample, readings, touched>>

(* The structures are read once more, into current_attitude, which nobody  *)
(* reads here, and the next pass begins.                                   *)
Publish ==
  /\ Running("dcm") /\ Go("dcm", "publish", "want")
  /\ used' = [f \in Fields |-> 0]
  /\ sensor' = [sensor EXCEPT !["dcm"] = "imu"]
  /\ UNCHANGED <<got, left, sample, readings, touched>>

(* cmd_imu, cmd_magnetometer: a reading of one sensor.                     *)
Command ==
  /\ Go("shell", "prompt", "want")
  /\ \E s \in {"accel", "gyro", "mag"} : sensor' = [sensor EXCEPT !["shell"] = s]
  /\ UNCHANGED <<got, left, sample, used, readings, touched>>

(* The values are printed and the shell sleeps, or waits for a line.       *)
Chprintf ==
  /\ Running("shell") /\ Go("shell", "print", "prompt")
  /\ UNCHANGED <<sensor, got, left, sample, used, readings, touched>>

Next ==
  \/ \E t \in Threads :
       Transmit(t) \/ TransferEnds(t) \/ Release(t) \/ Stored(t)
       \/ \E f \in Fields : Store(t, f)
  \/ Wake \/ Update \/ Publish \/ Command \/ Chprintf

Spec == Init /\ [][Next]_vars
-----------------------------------------------------------------------------
(* Published with an attitude are the very measurements the attitude was   *)
(* computed from, although Update reads the shared structures twice.       *)
PublishedIsUsed == [][Publish => sample = used]_vars

(* The shell prints its own reading or a newer one of the estimator's,     *)
(* component by component: never an older one.                             *)
ShellPrintsOwnOrNewer ==
  at["shell"] = "print" =>
    \A f \in Filled(sensor["shell"]) :
      sample[f] # Junk => sample[f] >= got["shell"]

ImuFields == {"accel", "gyro"} \X Axes

(* The accelerations and rates an update uses come from one reading unless *)
(* the shell has stored since the estimator's last good one.               *)
OneReadingUnlessShell ==
  at["dcm"] = "publish" /\ ~touched =>
    \A f, g \in ImuFields : used[f] = used[g]
=============================================================================
