------------------------------ MODULE Cascade ------------------------------
(***************************************************************************)
(* One axis of the cascaded controller (control(), src/src/control.c).     *)
(* The four loops of control() treat roll, pitch and yaw alike and never   *)
(* mix them; the axes meet again in the motor mix (module Motors), which   *)
(* reads Truncated(corr) of each.                                          *)
(*                                                                         *)
(* The estimator may publish and the shell may change a gain between any   *)
(* two statements of control(): control() reads current_attitude and the   *)
(* gains in place, loop after loop.                                        *)
(*                                                                         *)
(* Numbers are floats (module Float), over Unit: a gain set by the shell   *)
(* may be of any size, infinite or NaN (atof), and no saturator limits the *)
(* lower side.                                                             *)
(***************************************************************************)
EXTENDS Float

CONSTANTS
  Gains,           (* gains the shell may set                               *)
  InitialGains,    (* kpo, kio, kpi, kii at start-up, one record per axis   *)
  Samples,         (* what the estimator may publish for the axis           *)
  Desired,         (* att_des                                               *)
  MaxAttErrInt,    (* max_att_err_int                                       *)
  MaxRateErrInt,   (* max_rate_err_int                                      *)
  MaxRateDes,      (* max_rate_des                                          *)
  MaxCorr,         (* max_corr                                              *)
  UintMax,         (* the largest uint32_t                                  *)
  Bound            (* sizes of moderate inputs, and what they lead to       *)

GainNames == {"kpo", "kio", "kpi", "kii"}

(* What a publication comes from: attitude[i], the angular rate of the     *)
(* device in degrees per second, and the milliseconds since the last.      *)
(* Angle and rate may be NaN: module Estimate shows when.                  *)
Sample == [angle : Number, turned : Number, interval : {f \in Floats : f >= 0}]

BoundNames ==
  {"angle", "turned", "interval", "gain",
   "error", "step", "integral", "term", "rate",
   "rate_curr", "rate_error", "rate_step", "rate_integral", "corr_term", "corr"}

(* Adding at most step to a float of at least integral cannot pass it:     *)
(* the next float beyond is more than two steps away.                      *)
Swallows(integral, step) ==
  /\ integral + step < Overflow
  /\ \A f \in Floats : f > integral => f - integral > 2 * step

(* The sizes follow each other through the four loops, product by product. *)
(* Binary32 has such sizes: see README.md.                                 *)
ASSUME BoundAssumption ==
  /\ Bound \in [BoundNames -> {f \in Floats : f >= 0}]
  /\ Bound.angle + Desired <= Bound.error /\ Bound.angle - Desired <= Bound.error
  /\ Bound.error * Bound.interval <= Bound.step * Unit
  /\ Swallows(Bound.integral, Bound.step)
  /\ Bound.error * Bound.gain <= Bound.term * Unit
  /\ Bound.integral * Bound.gain <= Bound.term * Unit
  /\ 2 * Bound.term <= Bound.rate
  /\ Bound.turned * 355 <= Bound.rate_curr * (113 * 180)
  /\ Bound.rate + Bound.rate_curr <= Bound.rate_error
  /\ Bound.rate_error * Bound.interval <= Bound.rate_step * Unit
  /\ Swallows(Bound.rate_integral, Bound.rate_step)
  /\ Bound.rate_error * Bound.gain <= Bound.corr_term * Unit
  /\ Bound.rate_integral * Bound.gain <= Bound.corr_term * Unit
  /\ 2 * Bound.corr_term <= Bound.corr

ASSUME CascadeAssumption ==
  /\ Gains \subseteq Number
  /\ InitialGains \subseteq [GainNames -> Number]
  /\ Samples \subseteq Sample
  /\ Desired \in Floats
  /\ MaxAttErrInt \in Within(Bound.integral) /\ MaxAttErrInt >= 0
  /\ MaxRateDes \in Within(Bound.rate) /\ MaxRateDes >= 0
  /\ MaxRateErrInt \in Within(Bound.rate_integral) /\ MaxRateErrInt >= 0
  /\ MaxCorr \in Within(Bound.corr) /\ MaxCorr >= 0
  /\ UintMax \in Nat

(* M_PI / 180 in readAllIMUData, to a part in ten million.                 *)
RadiansPerSecond(rate) ==
  Rounded(IF rate \in Floats THEN (rate * Unit * 355) \div (113 * 180) ELSE rate)

(* if (x > max) x = max; a NaN passes.                                     *)
Saturate(x, max) == IF x = PosInf \/ (x \in Floats /\ x > max) THEN max ELSE x

(* (uint32_t)x, which VCVT makes 0 of a negative number and of NaN, and    *)
(* the largest of one that is too large.                                   *)
Truncated(x) ==
  IF x = NaN \/ x = NegInf THEN 0
  ELSE IF x = PosInf THEN UintMax
  ELSE IF x < 0 THEN 0
  ELSE IF x \div Unit > UintMax THEN UintMax ELSE x \div Unit

(* What may become of a limited variable: all but plus infinity, and no    *)
(* float above the limit.                                                  *)
Limited(max) == {x \in Number : x # PosInf /\ (x \in Floats => x <= max)}

ModerateSample(s) ==
  /\ s.angle \in Within(Bound.angle)
  /\ s.turned \in Within(Bound.turned)
  /\ s.interval \in Within(Bound.interval)

VARIABLES
  at,            (* the statement control() has reached                     *)
  current,       (* current_attitude, the axis' share                       *)
  gain,          (* kpo, kio, kpi, kii                                      *)
  rate_curr, att_err, att_err_int, rate_des, rate_err, rate_err_int, corr,
  moderate       (* history: all samples and gains were moderate so far     *)

vars == <<at, current, gain, rate_curr, att_err, att_err_int, rate_des, rate_err,
          rate_err_int, corr, moderate>>

Points == {"rates", "attitude", "desired", "rate", "correction", "mix"}

TypeOK ==
  /\ at \in Points
  /\ current \in Sample
  /\ gain \in [GainNames -> Number]
  /\ rate_curr \in Number /\ att_err \in Number /\ rate_err \in Number
  /\ att_err_int \in Limited(MaxAttErrInt)
  /\ rate_des \in Limited(MaxRateDes)
  /\ rate_err_int \in Limited(MaxRateErrInt)
  /\ corr \in Limited(MaxCorr)
  /\ moderate \in BOOLEAN

(* The zero-initialised statics; current_attitude is zero until the first  *)
(* publication.                                                            *)
Init ==
  /\ at = "rates"
  /\ current = [angle |-> 0, turned |-> 0, interval |-> 0]
  /\ gain \in InitialGains
  /\ rate_curr = 0 /\ att_err = 0 /\ att_err_int = 0 /\ rate_des = 0
  /\ rate_err = 0 /\ rate_err_int = 0 /\ corr = 0
  /\ moderate = (\A name \in GainNames : gain[name] \in Within(Bound.gain))
-----------------------------------------------------------------------------
(* One publication of the estimator.                                       *)
Publish(s) ==
  /\ current' = s
  /\ moderate' = (moderate /\ ModerateSample(s))
  /\ UNCHANGED <<at, gain, rate_curr, att_err, att_err_int, rate_des, rate_err,
                 rate_err_int, corr>>

(* cmd_set_gain_kpo, _kio, _kpi, _kii: one assignment of theirs.           *)
SetGain(name, value) ==
  /\ gain' = [gain EXCEPT ![name] = value]
  /\ moderate' = (moderate /\ value \in Within(Bound.gain))
  /\ UNCHANGED <<at, current, rate_curr, att_err, att_err_int, rate_des, rate_err,
                 rate_err_int, corr>>

Reads(statement, next) ==
  /\ at = statement
  /\ at' = next
  /\ UNCHANGED <<current, gain, moderate>>

(* rate_curr = raw_gyro_data.                                              *)
ReadRates ==
  /\ Reads("rates", "attitude")
  /\ rate_curr' \in RadiansPerSecond(current.turned)
  /\ UNCHANGED <<att_err, att_err_int, rate_des, rate_err, rate_err_int, corr>>

(* Mutant: += with the old integral once more in the sum.                  *)
AttitudeLoopTwice ==
  /\ Reads("attitude", "desired")
  /\ att_err' \in Difference(Desired, current.angle)
  /\ \E sum \in Accumulated(att_err_int, att_err', current.interval) :
       \E twice \in Rounded(Sum(Exact(att_err_int), Exact(sum))) :
         att_err_int' = Saturate(twice, MaxAttErrInt)
  /\ UNCHANGED <<rate_curr, rate_des, rate_err, rate_err_int, corr>>

(* First loop: the attitude error and its integral.                        *)
AttitudeLoop ==
  /\ Reads("attitude", "desired")
  /\ att_err' \in Difference(Desired, current.angle)
  /\ \E sum \in Accumulated(att_err_int, att_err', current.interval) :
       att_err_int' = Saturate(sum, MaxAttErrInt)
  /\ UNCHANGED <<rate_curr, rate_des, rate_err, rate_err_int, corr>>

(* Second loop: the desired rate.                                          *)
DesiredLoop ==
  /\ Reads("desired", "rate")
  /\ \E sum \in SumOfProducts(att_err, gain.kpo, att_err_int, gain.kio) :
       rate_des' = Saturate(sum, MaxRateDes)
  /\ UNCHANGED <<rate_curr, att_err, att_err_int, rate_err, rate_err_int, corr>>

(* Third loop: the rate error and its integral.                            *)
RateLoop ==
  /\ Reads("rate", "correction")
  /\ rate_err' \in Difference(rate_des, rate_curr)
  /\ \E sum \in Accumulated(rate_err_int, rate_err', current.interval) :
       rate_err_int' = Saturate(sum, MaxRateErrInt)
  /\ UNCHANGED <<rate_curr, att_err, att_err_int, rate_des, corr>>

(* Mutant: corr = fminf(corr, max_corr), which makes max_corr of NaN.      *)
CorrectionLoopMinimum ==
  /\ Reads("correction", "mix")
  /\ \E sum \in SumOfProducts(rate_err, gain.kpi, rate_err_int, gain.kii) :
       corr' = IF sum = NaN THEN MaxCorr ELSE Saturate(sum, MaxCorr)
  /\ UNCHANGED <<rate_curr, att_err, att_err_int, rate_des, rate_err, rate_err_int>>

(* Fourth loop: the correction.                                            *)
CorrectionLoop ==
  /\ Reads("correction", "mix")
  /\ \E sum \in SumOfProducts(rate_err, gain.kpi, rate_err_int, gain.kii) :
       corr' = Saturate(sum, MaxCorr)
  /\ UNCHANGED <<rate_curr, att_err, att_err_int, rate_des, rate_err, rate_err_int>>

(* The corrections go to the motors, control() returns and is called again *)
(* with fresh locals.                                                      *)
EndPass ==
  /\ Reads("mix", "rates")
  /\ rate_curr' = 0 /\ att_err' = 0 /\ rate_des' = 0 /\ rate_err' = 0 /\ corr' = 0
  /\ UNCHANGED <<att_err_int, rate_err_int>>

Next ==
  \/ \E s \in Samples : Publish(s)
  \/ \E name \in GainNames, value \in Gains : SetGain(name, value)
  \/ ReadRates \/ AttitudeLoop \/ DesiredLoop \/ RateLoop \/ CorrectionLoop
  \/ EndPass

Spec == Init /\ [][Next]_vars
-----------------------------------------------------------------------------
(* Nothing limits the integrals below.  Yet as long as every sample and    *)
(* every gain was moderate, and however long the error stays on one side,  *)
(* they wind up to a bound and no further, where an addition is rounded    *)
(* away; so nothing overflows and the correction is finite, too.           *)
WindUpIsBounded ==
  moderate => /\ att_err_int \in Within(Bound.integral)
              /\ rate_err_int \in Within(Bound.rate_integral)
              /\ corr \in Within(Bound.corr)

(* An axis whose attitude integral was NaN at the desired rate, or whose   *)
(* rate integral is, has no correction: it is flown open loop, never with  *)
(* a correction of full size.                                              *)
PoisonedIsNeutral ==
  at = "mix" /\ NaN \in {att_err_int, rate_err_int} => Truncated(corr) = 0

(* What the motor mix gets is between 0 and max_corr, whatever was         *)
(* published, whatever gains were set and at whatever moment: although the *)
(* saturators limit one side only and let NaN through.                     *)
CorrectionInRange == at = "mix" => Truncated(corr) \in 0 .. MaxCorr \div Unit

(* An integral once NaN or minus infinity is never finite again: no later  *)
(* sample and no later gain brings it back.                                *)
PoisonLasts ==
  [][/\ att_err_int \in {NaN, NegInf} => att_err_int' \in {NaN, NegInf}
     /\ rate_err_int \in {NaN, NegInf} => rate_err_int' \in {NaN, NegInf}]_vars
=============================================================================
