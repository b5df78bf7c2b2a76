------------------------------ MODULE Estimate ------------------------------
(***************************************************************************)
(* From the set-up of the sensors (set_mpu60X0, initialize_HMC) to the     *)
(* direction cosine matrix (dcmUpdate): which failed transfers and which   *)
(* measurements leave the attitude without a number, and for how long.     *)
(*                                                                         *)
(* Of a vector or a matrix only its kind is kept: "zero", "number", or     *)
(* "bad" when every component is infinite or not a number.  A field also   *)
(* has its modulus.  The three components of a vector are computed alike,  *)
(* from one scale factor or one modulus, so they are bad together.  The    *)
(* rotation of an orthonormal matrix by a number is taken to be a number:  *)
(* its rows grow longer and stay independent for every rate in the range   *)
(* of the gyroscope.  imu_step only chooses between weights that are not   *)
(* zero.  Samples has the interleavings of the readings.                   *)
(***************************************************************************)
EXTENDS Integers

CONSTANT Fields    (* moduli of the field a reading may give               *)

ASSUME EstimateAssumption == Fields \subseteq Nat

Kinds == {"zero", "number", "bad"}

OP_MODE_CONTINUOUS == 0
OP_MODE_SINGLE     == 1
Modes == {OP_MODE_CONTINUOUS, OP_MODE_SINGLE}
Unwritten          == 3     (* the register's value at power-up            *)

VARIABLES
  at,           (* the next transfer or step of main, then of Update       *)
  scaled,       (* IMUD1's scale factors that are not zero                 *)
  mode,         (* MEASUREMENT_MODE of the configuration and of MD1        *)
  opMode,       (* the magnetometer's mode register                        *)
  accel, gyro,  (* ACCEL_X to ACCEL_Z and GYRO_X to GYRO_Z of IMUD1        *)
  field,        (* the modulus of MAG_X to MAG_Z of MD1                    *)
  modulus,      (* mag_modulus                                             *)
  matrix,       (* dcmMatrix                                               *)
  updated,      (* history: dcmUpdate has run                              *)
  mishaps       (* history: what went wrong so far                         *)

device == <<scaled, mode, opMode>>
readings == <<accel, gyro, field>>
filter == <<modulus, matrix, updated>>
vars == <<at, scaled, mode, opMode, accel, gyro, field, modulus, matrix,
          updated, mishaps>>

SetUpPoints == {"power", "gyro", "accel", "rate", "hmc"}
LoopPoints  == {"imu", "query", "field", "update"}
Mishaps     == {"set-up", "first reading", "no acceleration", "no field",
                "field along gravity"}

TypeOK ==
  /\ at \in SetUpPoints \cup LoopPoints
  /\ scaled \subseteq {"accel", "gyro"}
  /\ mode \in [config : Modes, data : Modes]
  /\ opMode \in Modes \cup {Unwritten}
  /\ accel \in Kinds /\ gyro \in Kinds
  /\ field \in Fields \cup {0} /\ modulus \in Fields \cup {0}
  /\ matrix \in {"number", "bad"}
  /\ updated \in BOOLEAN
  /\ mishaps \subseteq Mishaps

(* IMUD1, MD1 and mag_modulus are zero at start-up; main's configuration   *)
(* asks for single measurements.                                           *)
Init ==
  /\ at = "power"
  /\ scaled = {}
  /\ mode = [config |-> OP_MODE_SINGLE, data |-> OP_MODE_CONTINUOUS]
  /\ opMode = Unwritten
  /\ accel = "zero" /\ gyro = "zero" /\ field = 0
  /\ modulus = 0 /\ matrix = "number" /\ updated = FALSE
  /\ mishaps = {}
-----------------------------------------------------------------------------
Go(from, to) == at = from /\ at' = to

Note(happened, what) == mishaps' = mishaps \cup (IF happened THEN {what} ELSE {})

(* set_mpu60X0: the device is woken; it returns when that fails.           *)
SetUpPower(ok) ==
  /\ Go("power", IF ok THEN "gyro" ELSE "hmc")
  /\ Note(~ok, "set-up")
  /\ UNCHANGED <<device, readings, filter>>

(* GYRO_SENS is set before the status of the transfer is looked at.        *)
SetUpGyro(ok) ==
  /\ Go("gyro", IF ok THEN "accel" ELSE "hmc")
  /\ scaled' = scaled \cup {"gyro"}
  /\ Note(~ok, "set-up")
  /\ UNCHANGED <<mode, opMode, readings, filter>>

(* Mutant: the scale factor is set when the transfer has worked.           *)
SetUpAccelChecked(ok) ==
  /\ Go("accel", IF ok THEN "rate" ELSE "hmc")
  /\ scaled' = scaled \cup (IF ok THEN {"accel"} ELSE {})
  /\ UNCHANGED <<mode, opMode, readings, filter, mishaps>>

(* So is ACCEL_SENS: from here on a failure does no harm.                  *)
SetUpAccel(ok) ==
  /\ Go("accel", IF ok THEN "rate" ELSE "hmc")
  /\ scaled' = scaled \cup {"accel"}
  /\ UNCHANGED <<mode, opMode, readings, filter, mishaps>>

(* The sample rate; with it the measurements are set to zero.              *)
SetUpRate(ok) ==
  /\ Go("rate", "hmc")
  /\ accel' = IF ok THEN "zero" ELSE accel
  /\ gyro' = IF ok THEN "zero" ELSE gyro
  /\ UNCHANGED <<device, field, filter, mishaps>>

(* initialize_HMC: three transfers whose status is dropped, the last for   *)
(* the mode register; then the mode is copied from the data into the       *)
(* configuration.                                                          *)
InitializeHMC(ok) ==
  /\ Go("hmc", "imu")
  /\ opMode' = IF ok THEN mode.config ELSE opMode
  /\ mode' = [mode EXCEPT !.config = mode.data]
  /\ UNCHANGED <<scaled, readings, filter, mishaps>>
-----------------------------------------------------------------------------
(* A raw value over its scale factor: x / 0 is infinite, 0 / 0 no number.  *)
Scaled(raw, sensor) == IF sensor \in scaled THEN raw ELSE "bad"

(* vector3d_normalize: divides by the modulus, also when that is 0.        *)
Normalized(v) == IF v = "number" THEN "number" ELSE "bad"

(* vector3d_cross and the sums and products around it, of operands that    *)
(* are not zero: one that is bad makes the result bad.                     *)
Combined(kinds) == IF "bad" \in kinds THEN "bad" ELSE "number"

(* readAllIMUData; after an error the old measurements stay.               *)
ReadAllIMUData(ok, a, g) ==
  /\ Go("imu", "query")
  /\ accel' = IF ok THEN Scaled(a, "accel") ELSE accel
  /\ gyro' = IF ok THEN Scaled(g, "gyro") ELSE gyro
  /\ IF ok THEN Note(a = "zero", "no acceleration")
           ELSE Note(accel = "zero", "first reading")
  /\ UNCHANGED <<device, field, filter>>

(* readMagnetometerData: the query for a measurement ...                   *)
QueryField(ok) ==
  /\ Go("query", "field")
  /\ opMode' = IF ok THEN mode.data ELSE opMode
  /\ UNCHANGED <<scaled, mode, readings, filter, mishaps>>

(* ... and the answer, or what an uninitialised buffer holds: any field.   *)
ReadField(f) ==
  /\ Go("field", "update")
  /\ field' = f
  /\ Note(f = 0 /\ modulus # 0, "no field")
  /\ UNCHANGED <<device, accel, gyro, filter>>

(* The shell's imu and magnetometer commands fill the same structures at   *)
(* any time once the threads run.                                          *)
CommandAccel(a) ==
  /\ at \in LoopPoints
  /\ accel' = Scaled(a, "accel")
  /\ Note(a = "zero", "no acceleration")
  /\ UNCHANGED <<at, device, gyro, field, filter>>

CommandGyro(g) ==
  /\ at \in LoopPoints
  /\ gyro' = Scaled(g, "gyro")
  /\ UNCHANGED <<at, device, accel, field, filter, mishaps>>

CommandField(ok, f) ==
  /\ at \in LoopPoints
  /\ opMode' = IF ok THEN mode.data ELSE opMode
  /\ field' = f
  /\ Note(f = 0 /\ modulus # 0, "no field")
  /\ UNCHANGED <<at, scaled, mode, accel, gyro, filter>>
-----------------------------------------------------------------------------
Latched == IF modulus = 0 THEN field ELSE modulus

(* field / Latched - 1 < MAG_ERR_MAX, in tenths; 0 / 0 is less than nothing.*)
FieldAccepted == Latched # 0 /\ 10 * field - 10 * Latched < 2 * Latched

(* The correction by the field, which the gravity's direction is taken out *)
(* of: nothing is left of a field along gravity.                           *)
FieldCorrection(along) ==
  IF ~FieldAccepted THEN "zero"
  ELSE IF field = 0 \/ along THEN "bad"
  ELSE Combined({Normalized(accel), matrix})

Rotation(along) ==
  Combined({gyro, matrix, Normalized(accel), FieldCorrection(along)})

(* dcmUpdate.  Roll and pitch, arc sines of elements of the matrix, are    *)
(* published bad exactly when it is; yaw is a number even then, since      *)
(* my_atan2f answers -32768 when all its comparisons are false.            *)
Update(along) ==
  /\ Go("update", "imu")
  /\ modulus' = Latched
  /\ matrix' = Combined({matrix, Rotation(along)})
  /\ updated' = TRUE
  /\ Note(along /\ FieldAccepted, "field along gravity")
  /\ UNCHANGED <<device, readings>>

Next ==
  \/ \E ok \in BOOLEAN :
       \/ SetUpPower(ok) \/ SetUpGyro(ok) \/ SetUpAccel(ok) \/ SetUpRate(ok)
       \/ InitializeHMC(ok) \/ QueryField(ok)
       \/ \E a, g \in {"zero", "number"} : ReadAllIMUData(ok, a, g)
       \/ \E f \in Fields : CommandField(ok, f)
  \/ \E a \in {"zero", "number"} : CommandAccel(a) \/ CommandGyro(a)
  \/ \E f \in Fields : ReadField(f)
  \/ \E along \in BOOLEAN : Update(along)

Spec == Init /\ [][Next]_vars
-----------------------------------------------------------------------------
(* The matrix loses its numbers only when the IMU could not be woken or    *)
(* its gyroscope not configured, the first reading of it failed, it        *)
(* measured no acceleration at all, or the field vanished after it had     *)
(* been there or lay along gravity.  No other failed transfer does it: not *)
(* the accelerometer's configuration, not the sample rate, no reading of   *)
(* the IMU after a good one, no field missing from the start.              *)
BadHasACause == matrix = "bad" => mishaps # {}

(* A set-up that failed before the accelerometer had its scale factor is   *)
(* felt in the first update and never repaired.                            *)
SetUpFailurePoisons == updated /\ "set-up" \in mishaps => matrix = "bad"

(* A matrix without numbers never gets them back, however good the later   *)
(* measurements are.                                                       *)
MatrixStaysBad == [][matrix = "bad" => matrix' = "bad"]_vars

(* MagnetometerData.c:17 says that readMagnetometerData sends a single     *)
(* measurement query, 0x01 in the mode register: nothing else is ever      *)
(* written there.                                                          *)
QueriesSingle == opMode \in {Unwritten, OP_MODE_SINGLE}
=============================================================================
