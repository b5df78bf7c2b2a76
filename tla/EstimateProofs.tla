--------------------------- MODULE EstimateProofs ---------------------------
(***************************************************************************)
(* Machine-checked facts about Estimate, for any set of fields.            *)
(***************************************************************************)
EXTENDS Estimate, TLAPS

(* What the set-up has done at each of its points, and what it leaves to   *)
(* the loop: both scale factors, or a mishap and no ACCEL_SENS.            *)
ScaleInv ==
  /\ at \in SetUpPoints \ {"hmc"} => "set-up" \notin mishaps
  /\ at \in {"power", "gyro", "accel"} => "accel" \notin scaled
  /\ at \in {"accel", "rate"} => "gyro" \in scaled
  /\ at = "rate" => "accel" \in scaled
  /\ "set-up" \in mishaps => "accel" \notin scaled
  /\ at \in {"hmc"} \cup LoopPoints /\ "set-up" \notin mishaps =>
       {"accel", "gyro"} \subseteq scaled

(* Without a scale factor the acceleration is never a number, and one      *)
(* update is enough.                                                       *)
PoisonInv ==
  /\ at \in SetUpPoints => accel = "zero" /\ gyro = "zero" /\ ~updated
  /\ "accel" \notin scaled => accel # "number"
  /\ "accel" \notin scaled /\ updated => matrix = "bad"

(* Without a mishap everything an update uses is a number.                 *)
HealthInv ==
  mishaps = {} =>
    /\ matrix = "number" /\ accel # "bad" /\ gyro # "bad"
    /\ at \in LoopPoints \ {"imu"} => accel = "number"
    /\ modulus # 0 => field # 0

IInv == TypeOK /\ ScaleInv /\ PoisonInv /\ HealthInv

(* The initial state.                                                      *)
LEMMA InitInv == Init => IInv
<1> SUFFICES ASSUME Init PROVE IInv
  OBVIOUS
<1>1. TypeOK
  BY DEF Init, TypeOK, SetUpPoints, Kinds, Modes
<1>2. ScaleInv /\ PoisonInv /\ HealthInv
  BY DEF Init, ScaleInv, PoisonInv, HealthInv, SetUpPoints, LoopPoints
<1> QED BY <1>1, <1>2 DEF IInv

(* A transfer of the set-up keeps the invariant.                           *)
LEMMA SetUpStep ==
  ASSUME IInv, NEW ok \in BOOLEAN,
         SetUpPower(ok) \/ SetUpGyro(ok) \/ SetUpAccel(ok) \/ SetUpRate(ok)
         \/ InitializeHMC(ok)
  PROVE  IInv'
<1> USE DEF IInv, Go, Note, device, readings, filter, SetUpPoints, LoopPoints
<1>1. CASE SetUpPower(ok)
  BY <1>1 DEF SetUpPower, TypeOK, ScaleInv, PoisonInv, HealthInv, Mishaps, Kinds
<1>2. CASE SetUpGyro(ok)
  BY <1>2 DEF SetUpGyro, TypeOK, ScaleInv, PoisonInv, HealthInv, Mishaps, Kinds
<1>3. CASE SetUpAccel(ok)
  BY <1>3 DEF SetUpAccel, TypeOK, ScaleInv, PoisonInv, HealthInv, Mishaps, Kinds
<1>4. CASE SetUpRate(ok)
  BY <1>4 DEF SetUpRate, TypeOK, ScaleInv, PoisonInv, HealthInv, Mishaps, Kinds
<1>5. CASE InitializeHMC(ok)
  <2>1. mode \in [config : Modes, data : Modes] /\ opMode \in Modes \cup {Unwritten}
    BY DEF TypeOK
  <2>2. mode' \in [config : Modes, data : Modes] /\ opMode' \in Modes \cup {Unwritten}
    BY <1>5, <2>1 DEF InitializeHMC
  <2>3. TypeOK'
    BY <1>5, <2>2 DEF InitializeHMC, TypeOK
  <2>4. ScaleInv'
    BY <1>5 DEF InitializeHMC, ScaleInv
  <2>5. PoisonInv' /\ HealthInv'
    BY <1>5 DEF InitializeHMC, PoisonInv, HealthInv
  <2> QED BY <2>3, <2>4, <2>5
<1> QED BY <1>1, <1>2, <1>3, <1>4, <1>5

(* So does a reading of the IMU by the estimator ...                       *)
LEMMA ReadStep ==
  ASSUME IInv, NEW ok \in BOOLEAN, NEW a \in {"zero", "number"},
         NEW g \in {"zero", "number"}, ReadAllIMUData(ok, a, g)
  PROVE  IInv'
<1> USE DEF IInv, Go, Note, device, filter, SetUpPoints, LoopPoints
<1>1. /\ accel' = IF ok THEN Scaled(a, "accel") ELSE accel
      /\ gyro' = IF ok THEN Scaled(g, "gyro") ELSE gyro
      /\ at = "imu" /\ at' = "query"
      /\ UNCHANGED <<scaled, mode, opMode, field, modulus, matrix, updated>>
  BY DEF ReadAllIMUData
<1>2. mishaps' = mishaps \cup
        (IF ok THEN IF a = "zero" THEN {"no acceleration"} ELSE {}
               ELSE IF accel = "zero" THEN {"first reading"} ELSE {})
  BY DEF ReadAllIMUData
<1>3. TypeOK'
  BY <1>1, <1>2 DEF TypeOK, Scaled, Kinds, Mishaps
<1>4. ScaleInv'
  BY <1>1, <1>2 DEF ScaleInv
<1>5. PoisonInv'
  BY <1>1 DEF PoisonInv, Scaled
<1>6. HealthInv'
  <2> SUFFICES ASSUME mishaps' = {} PROVE HealthInv'
    BY DEF HealthInv
  <2>1. mishaps = {} /\ (ok => a = "number") /\ (~ok => accel # "zero")
    BY <1>2
  <2>2. accel \in Kinds /\ accel # "bad" /\ gyro # "bad" /\ (modulus # 0 => field # 0)
        /\ matrix = "number"
    BY <2>1 DEF TypeOK, HealthInv
  <2>3. "accel" \in scaled /\ "gyro" \in scaled
    BY <1>1, <2>1 DEF ScaleInv
  <2>4. accel' = "number" /\ gyro' # "bad"
    BY <1>1, <2>1, <2>2, <2>3 DEF Scaled, Kinds
  <2> QED BY <1>1, <2>2, <2>4 DEF HealthInv
<1> QED BY <1>3, <1>4, <1>5, <1>6

(* ... the query for the field ...                                         *)
LEMMA QueryStep ==
  ASSUME IInv, NEW ok \in BOOLEAN, QueryField(ok)
  PROVE  IInv'
<1> USE DEF IInv, Go, readings, filter, SetUpPoints, LoopPoints
<1>1. TypeOK'
  BY DEF QueryField, TypeOK
<1>2. ScaleInv' /\ PoisonInv' /\ HealthInv'
  BY DEF QueryField, ScaleInv, PoisonInv, HealthInv
<1> QED BY <1>1, <1>2

(* ... its answer ...                                                      *)
LEMMA FieldStep ==
  ASSUME IInv, NEW f \in Fields, ReadField(f)
  PROVE  IInv'
BY DEF IInv, Go, Note, device, filter, SetUpPoints, LoopPoints, ReadField, TypeOK,
       ScaleInv, PoisonInv, HealthInv, Mishaps

(* ... a reading of the IMU by the shell, or of the field ...              *)
LEMMA CommandStep ==
  ASSUME IInv, NEW a \in {"zero", "number"}, CommandAccel(a) \/ CommandGyro(a)
  PROVE  IInv'
<1> USE DEF IInv, Note, device, filter, SetUpPoints, LoopPoints
<1>1. CASE CommandAccel(a)
  <2>1. /\ at \in LoopPoints /\ accel' = Scaled(a, "accel")
        /\ mishaps' = mishaps \cup (IF a = "zero" THEN {"no acceleration"} ELSE {})
        /\ UNCHANGED <<at, scaled, mode, opMode, gyro, field, modulus, matrix, updated>>
    BY <1>1 DEF CommandAccel
  <2>2. TypeOK'
    BY <2>1 DEF Scaled, TypeOK, Mishaps, Kinds
  <2>3. ScaleInv' /\ PoisonInv'
    BY <2>1 DEF Scaled, ScaleInv, PoisonInv
  <2>4. HealthInv'
    <3> SUFFICES ASSUME mishaps' = {} PROVE HealthInv'
      BY DEF HealthInv
    <3>1. mishaps = {} /\ a = "number"
      BY <2>1
    <3>2. accel' = "number"
      BY <2>1, <3>1 DEF Scaled, ScaleInv
    <3> QED BY <2>1, <3>1, <3>2 DEF HealthInv
  <2> QED BY <2>2, <2>3, <2>4
<1>2. CASE CommandGyro(a)
  BY <1>2 DEF CommandGyro, Scaled, TypeOK, ScaleInv, PoisonInv, HealthInv, Kinds
<1> QED BY <1>1, <1>2

LEMMA CommandFieldStep ==
  ASSUME IInv, NEW ok \in BOOLEAN, NEW f \in Fields, CommandField(ok, f)
  PROVE  IInv'
<1> USE DEF IInv, Note, filter, SetUpPoints, LoopPoints
<1>1. TypeOK'
  BY DEF CommandField, TypeOK, Mishaps
<1>2. ScaleInv' /\ PoisonInv' /\ HealthInv'
  BY DEF CommandField, ScaleInv, PoisonInv, HealthInv
<1> QED BY <1>1, <1>2

(* A rotation without a mishap is by a number.                             *)
LEMMA HealthyRotation ==
  ASSUME IInv, at = "update", mishaps = {}, NEW along \in BOOLEAN,
         ~(along /\ FieldAccepted)
  PROVE  Combined({matrix, Rotation(along)}) = "number"
<1>1. matrix = "number" /\ accel = "number" /\ gyro # "bad"
  BY DEF IInv, HealthInv, LoopPoints
<1>2. FieldAccepted => field # 0
  BY DEF IInv, HealthInv, FieldAccepted, Latched
<1>3. FieldCorrection(along) # "bad"
  BY <1>1, <1>2 DEF FieldCorrection, Combined, Normalized
<1> QED BY <1>1, <1>3 DEF Rotation, Combined, Normalized

(* ... and the update.                                                     *)
LEMMA UpdateStep ==
  ASSUME IInv, NEW along \in BOOLEAN, Update(along)
  PROVE  IInv'
<1> USE DEF Update, Go, Note, device, readings
<1>1. TypeOK'
  BY DEF IInv, TypeOK, LoopPoints, Latched, Combined, Mishaps
<1>2. ScaleInv'
  BY DEF IInv, ScaleInv, SetUpPoints, LoopPoints
<1>3. PoisonInv'
  <2>1. accel # "number" => matrix' = "bad"
    BY DEF Rotation, Combined, Normalized
  <2> QED BY <2>1 DEF IInv, PoisonInv, SetUpPoints
<1>4. HealthInv'
  <2> SUFFICES ASSUME mishaps' = {} PROVE HealthInv'
    BY DEF HealthInv
  <2>1. mishaps = {} /\ ~(along /\ FieldAccepted)
    OBVIOUS
  <2>2. matrix' = "number"
    BY <2>1, HealthyRotation
  <2>3. modulus' # 0 => field # 0
    BY <2>1 DEF IInv, HealthInv, Latched
  <2> QED BY <2>1, <2>2, <2>3 DEF IInv, HealthInv, LoopPoints
<1> QED BY <1>1, <1>2, <1>3, <1>4 DEF IInv

(* Every step keeps the invariant.                                         *)
LEMMA NextInv == IInv /\ [Next]_vars => IInv'
<1> SUFFICES ASSUME IInv, [Next]_vars PROVE IInv'
  OBVIOUS
<1>1. CASE UNCHANGED vars
  BY <1>1 DEF vars, IInv, TypeOK, ScaleInv, PoisonInv, HealthInv
<1>2. CASE Next
  <2>1. ASSUME NEW ok \in BOOLEAN,
               SetUpPower(ok) \/ SetUpGyro(ok) \/ SetUpAccel(ok) \/ SetUpRate(ok)
               \/ InitializeHMC(ok)
        PROVE  IInv'
    BY <2>1, SetUpStep
  <2>2. ASSUME NEW ok \in BOOLEAN, QueryField(ok) PROVE IInv'
    BY <2>2, QueryStep
  <2>3. ASSUME NEW ok \in BOOLEAN, NEW a \in {"zero", "number"},
               NEW g \in {"zero", "number"}, ReadAllIMUData(ok, a, g)
        PROVE  IInv'
    BY <2>3, ReadStep
  <2>4. ASSUME NEW f \in Fields, ReadField(f) PROVE IInv'
    BY <2>4, FieldStep
  <2>5. ASSUME NEW a \in {"zero", "number"}, CommandAccel(a) \/ CommandGyro(a)
        PROVE  IInv'
    BY <2>5, CommandStep
  <2>6. ASSUME NEW ok \in BOOLEAN, NEW f \in Fields, CommandField(ok, f) PROVE IInv'
    BY <2>6, CommandFieldStep
  <2>7. ASSUME NEW along \in BOOLEAN, Update(along) PROVE IInv'
    BY <2>7, UpdateStep
  <2> QED BY <1>2, <2>1, <2>2, <2>3, <2>4, <2>5, <2>6, <2>7 DEF Next
<1> QED BY <1>1, <1>2

(* The invariant holds throughout.                                         *)
LEMMA Invariance == Spec => []IInv
BY InitInv, NextInv, PTL DEF Spec

(* The kinds and points keep their types.                                  *)
THEOREM TypeCorrect == Spec => []TypeOK
<1>1. IInv => TypeOK
  BY DEF IInv
<1> QED BY <1>1, Invariance, PTL

(* The list of causes in BadHasACause is complete.                         *)
THEOREM CausesComplete == Spec => []BadHasACause
<1>1. IInv => BadHasACause
  BY DEF IInv, HealthInv, BadHasACause
<1> QED BY <1>1, Invariance, PTL

(* A failed set-up of the IMU takes the attitude with the first update.    *)
THEOREM SetUpMatters == Spec => []SetUpFailurePoisons
<1>1. IInv => SetUpFailurePoisons
  BY DEF IInv, ScaleInv, PoisonInv, SetUpFailurePoisons
<1> QED BY <1>1, Invariance, PTL

(* Nothing makes the matrix whole again.                                   *)
THEOREM BadForEver == Spec => MatrixStaysBad
<1>1. ASSUME matrix = "bad", [Next]_vars PROVE matrix' = "bad"
  <2>1. ASSUME NEW along \in BOOLEAN, Update(along) PROVE matrix' = "bad"
    BY <1>1, <2>1 DEF Update, Combined
  <2>2. CASE UNCHANGED vars
    BY <1>1, <2>2 DEF vars
  <2> QED BY <1>1, <2>1, <2>2 DEF Next, SetUpPower, SetUpGyro, SetUpAccel, SetUpRate,
               InitializeHMC, QueryField, ReadAllIMUData, CommandField, CommandAccel,
               CommandGyro, ReadField, filter
<1>2. [Next]_vars => [matrix = "bad" => matrix' = "bad"]_vars
  BY <1>1
<1> QED BY <1>2, PTL DEF Spec, MatrixStaysBad
=============================================================================
