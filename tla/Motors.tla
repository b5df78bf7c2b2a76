------------------------------- MODULE Motors -------------------------------
(***************************************************************************)
(* From the corrections to the pins: the motor mix at the end of control() *)
(* (src/src/control.c), startServo and stopServo (PWMEnable.c), the PWM    *)
(* channels they use (PWMInit.h, pwm_lld.c) and the shell's pwm command    *)
(* (shellCommands.c), which may drive any servo between two statements of  *)
(* control(): the shell and the control loop have the same priority.       *)
(*                                                                         *)
(* The corrections are those of module Cascade, 0 .. CorrMax.              *)
(***************************************************************************)
EXTENDS Integers

CONSTANTS
  BaseVal,      (* base_val                                                 *)
  CorrMax,      (* max_corr                                                 *)
  Corrections,  (* corrections the cascades may give                        *)
  Period,       (* PWM_PERIOD                                               *)
  Word,         (* number of values of uint32_t                             *)
  HalfWord,     (* number of values of uint16_t                             *)
  ShellServos,  (* servos the shell drives                                  *)
  ShellWidths   (* pulse_width arguments of the shell, after (uint32_t)     *)

Servos == 1 .. 6
Axes   == {"roll", "pitch", "yaw"}

ASSUME MotorsAssumption ==
  /\ BaseVal \in Nat /\ CorrMax \in Nat /\ 2 * CorrMax <= BaseVal
  /\ Corrections \subseteq 0 .. CorrMax
  /\ Period \in Nat \ {0} /\ Word \in Nat /\ HalfWord \in Nat
  /\ HalfWord <= Word
  /\ BaseVal + 2 * CorrMax < HalfWord
  /\ (BaseVal + 2 * CorrMax) * Period < Word
  /\ ShellServos \subseteq Servos
  /\ ShellWidths \subseteq 0 .. Word - 1

(* The timer and the channel, from 0, whose output each servo's pin is.    *)
PinChannel == << <<3, 1>>, <<1, 2>>, <<8, 2>>, <<2, 3>>, <<3, 3>>, <<3, 2>> >>

(* Mutant: servos 5 and 6 both on channel 3 of timer 3.                    *)
ChannelOfTwice == << <<3, 1>>, <<1, 2>>, <<8, 2>>, <<2, 3>>, <<3, 3>>, <<3, 3>> >>

(* The timer and channel startServo and stopServo address.                 *)
ChannelOf == << <<3, 1>>, <<1, 2>>, <<8, 2>>, <<2, 3>>, <<3, 3>>, <<3, 2>> >>

Channels == {1, 2, 3, 8} \X (0 .. 3)

(* The channels the PWM configurations make active, the others are off.    *)
Active == {<<1, 2>>, <<2, 3>>, <<3, 1>>, <<3, 2>>, <<3, 3>>, <<8, 2>>}

(* Mutant: the product in 16 bits.                                         *)
FractionNarrow(wid) == ((Period * wid) % HalfWord) \div Period

(* PWM_FRACTION_TO_WIDTH(pwmp, PWM_PERIOD, wid).                           *)
FractionToWidth(wid) == (((Period * wid) % Word) \div Period) % HalfWord

(* The order of the startServo calls of control().                         *)
MotorServos == <<2, 4, 5, 6>>

VARIABLES
  point,  (* 0: mix, k in 1 .. 4: the k-th startServo call, 5: sleep        *)
  motor,  (* motor[]                                                        *)
  ccr,    (* compare register of each channel                               *)
  asked,  (* history: width last asked for of each servo, 0 when stopped    *)
  held    (* history: servos set by this pass and not by the shell since    *)

mixVars == <<point, motor, ccr, asked, held>>

MixTypeOK ==
  /\ point \in 0 .. 5
  /\ motor \in [1 .. 4 -> 0 .. Word - 1]
  /\ ccr \in [Channels -> 0 .. HalfWord - 1]
  /\ asked \in [Servos -> 0 .. Word - 1]
  /\ held \subseteq Servos

(* initPWM: the timers run with zero compare registers.                    *)
MixInit ==
  /\ point = 0
  /\ motor = [k \in 1 .. 4 |-> BaseVal]
  /\ ccr = [c \in Channels |-> 0]
  /\ asked = [s \in Servos |-> 0]
  /\ held = {}
-----------------------------------------------------------------------------
(* Mutant: roll and pitch both on one pair of motors.                      *)
MixOnePair(u) ==
  << (BaseVal + u["roll"] + u["pitch"] + u["yaw"]) % Word,
     (BaseVal - u["yaw"]) % Word,
     (BaseVal - u["roll"] - u["pitch"] + u["yaw"]) % Word,
     (BaseVal - u["yaw"]) % Word >>

(* The four motor values of control(), on uint32_t.                        *)
MotorValues(u) ==
  << (BaseVal + u["pitch"] + u["yaw"]) % Word,
     (BaseVal + u["roll"] - u["yaw"]) % Word,
     (BaseVal - u["pitch"] + u["yaw"]) % Word,
     (BaseVal - u["roll"] - u["yaw"]) % Word >>

Mix(u) ==
  /\ point = 0
  /\ motor' = MotorValues(u)
  /\ point' = 1 /\ held' = {}
  /\ UNCHANGED <<ccr, asked>>

(* startServo: pwm_lld_enable_channel.                                     *)
StartServo(s, wid) ==
  /\ ccr' = [ccr EXCEPT ![ChannelOf[s]] = FractionToWidth(wid)]
  /\ asked' = [asked EXCEPT ![s] = wid]

(* The next startServo call of control().                                  *)
DriveMotor ==
  /\ point \in 1 .. 4
  /\ StartServo(MotorServos[point], motor[point])
  /\ point' = point + 1
  /\ held' = held \cup {MotorServos[point]}
  /\ UNCHANGED motor

(* The sleep is over and control() is called again.                        *)
EndSleep ==
  /\ point = 5
  /\ point' = 0
  /\ UNCHANGED <<motor, ccr, asked, held>>

(* pwm --enable: the servo number has been checked, the width is not.      *)
EnableCommand(s, wid) ==
  /\ StartServo(s, wid)
  /\ held' = held \ {s}
  /\ UNCHANGED <<point, motor>>

(* pwm --disable: stopServo, pwm_lld_disable_channel.                      *)
DisableCommand(s) ==
  /\ ccr' = [ccr EXCEPT ![ChannelOf[s]] = 0]
  /\ asked' = [asked EXCEPT ![s] = 0]
  /\ held' = held \ {s}
  /\ UNCHANGED <<point, motor>>

MixNext ==
  \/ \E u \in [Axes -> Corrections] : Mix(u)
  \/ DriveMotor \/ EndSleep
  \/ \E s \in ShellServos : DisableCommand(s)
                            \/ \E wid \in ShellWidths : EnableCommand(s, wid)

MixSpec == MixInit /\ [][MixNext]_mixVars
-----------------------------------------------------------------------------
(* The pulse on the pin of a servo.                                        *)
Pulse(s) == IF PinChannel[s] \in Active THEN ccr[PinChannel[s]] ELSE 0

(* Every servo's pin shows what was last asked of that servo: no command   *)
(* to one servo is lost, or seen on the pin of another.                    *)
PinShowsLastCommand == \A s \in Servos : Pulse(s) = FractionToWidth(asked[s])

(* The motors stay within twice max_corr of base_val: no unsigned          *)
(* subtraction wraps, no cast narrows a motor value.                       *)
MotorsInServoRange ==
  \A k \in 1 .. 4 : motor[k] \in BaseVal - 2 * CorrMax .. BaseVal + 2 * CorrMax

(* Corrections turn and tilt the craft and never lift it: the sum of the   *)
(* motors is four times base_val, whatever the corrections.                *)
ThrustConserved == motor[1] + motor[2] + motor[3] + motor[4] = 4 * BaseVal

(* While control() sleeps every motor pin has the pulse of the last pass,  *)
(* in full, unless the shell drove the servo after that pass did.          *)
MotorsHoldThePass ==
  /\ \A k \in 1 .. 4 : MotorServos[k] \in held => Pulse(MotorServos[k]) = motor[k]
  /\ point = 5 => \A k \in 1 .. 4 : MotorServos[k] \in held \cup ShellServos
=============================================================================
