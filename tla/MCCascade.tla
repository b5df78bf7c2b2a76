----------------------------- MODULE MCCascade -----------------------------
(***************************************************************************)
(* A float format, samples and gains for model checking Cascade.  Floats   *)
(* have a significand of two bits: 0, 1, 2, 3, 4, 6, 8, 12, ... to 1536.   *)
(***************************************************************************)
EXTENDS Cascade

SmallPositive == UNION {{2 ^ e, 3 * 2 ^ e} : e \in 0 .. 9} \cup {1024}
SmallFloats   == SmallPositive \cup {-f : f \in SmallPositive} \cup {0}

Gain(p_outer, i_outer, p_inner, i_inner) ==
  [kpo |-> p_outer, kio |-> i_outer, kpi |-> p_inner, kii |-> i_inner]

(* The integral gains are zero at start-up; a gain of 1024 overflows.      *)
SmallInitial == {Gain(1, 0, 1, 0)}
SmallGains   == {1, 1024}

(* An error on either side; a bad matrix and an infinite rate.             *)
SmallSamples ==
  {[angle |-> 2, turned |-> 64, interval |-> 1],
   [angle |-> -1, turned |-> 0, interval |-> 1],
   [angle |-> NaN, turned |-> NegInf, interval |-> 1]}

SmallBound ==
  [angle |-> 2, turned |-> 64, interval |-> 1, gain |-> 1,
   error |-> 2, step |-> 2, integral |-> 16, term |-> 16, rate |-> 32,
   rate_curr |-> 2, rate_error |-> 48, rate_step |-> 48, rate_integral |-> 256,
   corr_term |-> 256, corr |-> 512]
=============================================================================
