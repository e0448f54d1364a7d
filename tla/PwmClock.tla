------------------------------ MODULE PwmClock -------------------------------
(***************************************************************************)
(* The arithmetic of src/PWM/src/pwm.c: how a wanted frequency becomes     *)
(* clock settings, how settings become a frequency again, and how a duty   *)
(* cycle in percent becomes register steps. Frequencies are in millihertz. *)
(***************************************************************************)
EXTENDS Integers

(* What the registers can be set to: a divider of the clock (PWMx_FREQ,    *)
(* four bits) and a reload value (PWM_ReloadV, eight bits).                *)
FreqValues   == 0..15
ReloadValues == 0..255
Sources      == {"RTC", "PERIPH"}

(* The settings get_optimal_clocks tries, in the order of its loops.       *)
Settings == (1..15) \X ReloadValues
TriedBefore(s, t) == s[1] < t[1] \/ (s[1] = t[1] /\ s[2] < t[2])

(* A reload value of 0 stands for 256.                                     *)
Normalized(reloadv) == IF reloadv = 0 THEN 256 ELSE reloadv

Divider(s) == s[1] * Normalized(s[2])

(* FREQ_LOW and FREQ_HIGH, times HERTZ_TO_MILLIHERTZ.                      *)
Base(source) == IF source = "RTC" THEN 128 * 1000 ELSE 50781 * 1000

(* get_pwm_frequency's formula, whose operands are positive; a stopped     *)
(* clock (divider 0) gives 0.                                              *)
Frequency(source, s) == IF s[1] = 0 THEN 0 ELSE Base(source) \div Divider(s)

(* What get_optimal_clocks minimizes: the remainder of the frequency       *)
(* itself, the same for both clock sources.                                *)
Distance(f, s) == f % Divider(s)

AbsoluteValue(n) == IF n < 0 THEN -n ELSE n

(* The setting the loops end up with: the first of those with the smallest *)
(* distance.                                                               *)
Best(f) ==
  CHOOSE s \in Settings :
    \A t \in Settings :
      \/ Distance(f, s) < Distance(f, t)
      \/ Distance(f, s) = Distance(f, t) /\ ~TriedBefore(t, s)

(* smallest_dist is never lowered, so that the last source tried wins. For *)
(* frequency 0 no setting is ever stored: the struct returned has a source *)
(* and the garbage the stack held.                                         *)
OptimalClocks(frequency, garbage) ==
  IF frequency = 0
    THEN {[source |-> "RTC", setting |-> s] : s \in garbage}
    ELSE {[source |-> "PERIPH", setting |-> Best(AbsoluteValue(frequency))]}

(* Mutant: the steps are not cut to the register's eight bits.             *)
DutyStepsUncut(percent) == (percent * 255) \div 100

(* Mutant: the conversion of the other direction.                          *)
DutyStepsSwapped(percent) == (percent * 100) \div 255

(* set_pwm_duty and get_pwm_duty: percent to steps of 1/255 and back.      *)
DutySteps(percent) == ((percent * 255) \div 100) % 256
DutyPercent(steps) == (steps * 100) \div 255
=============================================================================
