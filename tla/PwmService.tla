----------------------------- MODULE PwmService ------------------------------
(***************************************************************************)
(* What the PWM driver promises its users, without buffers, registers and  *)
(* steps in between: one process uses it at a time, through one file; a    *)
(* number written takes effect at once and on that file's setting only; a  *)
(* number read tells that setting. All of it ends for good when two        *)
(* processes open a file at the very same time.                            *)
(***************************************************************************)
EXTENDS PwmClock

CONSTANTS
  Procs,    \* the users
  Files,    \* the files: pairs of a PWM and a function
  Numbers,  \* what may be written to the files of each function
  Garbage   \* the clock settings that frequency 0 may give

VARIABLES
  phase,    \* of each process: "out", "in" or "writing"
  uses,     \* the file it uses, unless it is out
  wish,     \* the number it is writing, or Never: it may be any
  answer,   \* the number it read last, or Never: it wrote since, or is out
  enabled,  \* of each PWM
  duty,     \* of each PWM, in 255ths
  rate,     \* of each PWM: its source of clock, divider and reload value
  collided  \* two processes opened a file at the same time

settings == <<enabled, duty, rate>>
vars == <<phase, uses, wish, answer, settings, collided>>

PWMs == {1, 2}
Never == -1
NoFile == <<0, "none">>

Init ==
  /\ phase = [p \in Procs |-> "out"]
  /\ uses = [p \in Procs |-> NoFile]
  /\ wish = [p \in Procs |-> Never]
  /\ answer = [p \in Procs |-> Never]
  /\ enabled = [w \in PWMs |-> FALSE]
  /\ duty = [w \in PWMs |-> 0]
  /\ rate = [w \in PWMs |-> [source |-> "RTC", freq |-> 0, reloadv |-> 0]]
  /\ collided = FALSE

Goes(p, from, to) == phase[p] = from /\ phase' = [phase EXCEPT ![p] = to]

Enter(p) ==
  /\ \A q \in Procs : phase[q] = "out"
  /\ Goes(p, "out", "in")
  /\ \E f \in Files : uses' = [uses EXCEPT ![p] = f]
  /\ UNCHANGED <<wish, answer, settings>>

Leave(p) ==
  /\ Goes(p, "in", "out")
  /\ uses' = [uses EXCEPT ![p] = NoFile]
  /\ answer' = [answer EXCEPT ![p] = Never]
  /\ UNCHANGED <<wish, settings>>

Write(p) ==
  /\ Goes(p, "in", "writing")
  /\ \E n \in Numbers[uses[p][2]] \cup {Never} : wish' = [wish EXCEPT ![p] = n]
  /\ answer' = [answer EXCEPT ![p] = Never]
  /\ UNCHANGED <<uses, settings>>

-----------------------------------------------------------------------------
(* What a number means for each setting.                                   *)
Rates == [source : Sources, freq : FreqValues, reloadv : ReloadValues]

Means(n, exactly, anything) == IF n = Never THEN anything ELSE exactly

EnabledAs(n) == Means(n, {n # 0}, BOOLEAN)
DutyAs(n)    == Means(n, {DutySteps(n)}, 0..255)
RateAs(n)    == Means(n, {[source |-> o.source, freq |-> o.setting[1], reloadv |-> o.setting[2]] :
                            o \in OptimalClocks(n, Garbage)}, Rates)

(* A PWM's setting becomes one of those meant, and the other PWM's stays.  *)
Becomes(setting, new, w, meant) ==
  new[w] \in meant /\ new = [setting EXCEPT ![w] = new[w]]

SetEnabled(w, n) ==
  Becomes(enabled, enabled', w, EnabledAs(n)) /\ UNCHANGED <<duty, rate>>

SetDuty(w, n) ==
  Becomes(duty, duty', w, DutyAs(n)) /\ UNCHANGED <<enabled, rate>>

SetRate(w, n) ==
  Becomes(rate, rate', w, RateAs(n)) /\ UNCHANGED <<enabled, duty>>

Apply(p) ==
  /\ Goes(p, "writing", "in")
  /\ LET w == uses[p][1]  function == uses[p][2] IN
     \/ function = "enable"    /\ SetEnabled(w, wish[p])
     \/ function = "duty"      /\ SetDuty(w, wish[p])
     \/ function = "frequency" /\ SetRate(w, wish[p])
  /\ wish' = [wish EXCEPT ![p] = Never]
  /\ UNCHANGED <<uses, answer>>

(* A frequency is told with the divider of PWM 1, also that of PWM 2: the  *)
(* finding of the run pwm_readback (pwm.c:186).                            *)
Told(w, function) ==
  CASE function = "enable"    -> IF enabled[w] THEN 1 ELSE 0
    [] function = "duty"      -> DutyPercent(duty[w])
    [] function = "frequency" -> Frequency(rate[w].source, <<rate[1].freq, rate[w].reloadv>>)

Read(p) ==
  /\ phase[p] = "in"
  /\ answer' = [answer EXCEPT ![p] = Told(uses[p][1], uses[p][2])]
  /\ UNCHANGED <<phase, uses, wish, settings>>

Use(p) == Enter(p) \/ Leave(p) \/ Write(p) \/ Apply(p) \/ Read(p)

(* Nothing is promised of this step and of all that follow.                *)
Collide == collided'

Next == (\E p \in Procs : Use(p) /\ UNCHANGED collided) \/ Collide

Spec == Init /\ [][Next]_vars
=============================================================================
