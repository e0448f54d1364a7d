--------------------------- MODULE PwmDriverProofs ---------------------------
(***************************************************************************)
(* What the arithmetic of the PWM driver computes for every input, and the *)
(* driver's safety for any processes, device files, inputs and garbage.    *)
(* TypeCorrect is about every behaviour; the rest of the safety holds up   *)
(* to the first time that a process passes the test of dev_open while      *)
(* another has passed it and not set the flag.                             *)
(***************************************************************************)
EXTENDS PwmImplementsService, TLAPS

(* Every setting that is tried has a positive divider.                     *)
LEMMA DividerPositive ==
  ASSUME NEW s \in Settings
  PROVE  /\ s[1] \in 1..15 /\ s[2] \in 0..255 /\ s = <<s[1], s[2]>>
         /\ Normalized(s[2]) \in 1..256
         /\ Divider(s) \in Nat \ {0}
<1>1. s[1] \in 1..15 /\ s[2] \in 0..255 /\ s = <<s[1], s[2]>>
  BY DEF Settings, ReloadValues
<1>2. Normalized(s[2]) \in 1..256
  BY <1>1 DEF Normalized
<1>3. \A a, b \in Nat \ {0} : a * b \in Nat \ {0}
  OBVIOUS
<1> QED BY <1>1, <1>2, <1>3 DEF Divider

(* Distances are remainders: natural numbers.                              *)
LEMMA DistanceNat ==
  ASSUME NEW f \in Nat, NEW s \in Settings
  PROVE  Distance(f, s) \in Nat
<1>1. \A d \in Nat \ {0} : f % d \in Nat
  OBVIOUS
<1> QED BY <1>1, DividerPositive DEF Distance

(* The search of get_optimal_clocks (pwm.c:58-83) ends at divider 256 if   *)
(* the frequency is a multiple of 256, and at divider 1 for all others:    *)
(* the first divider in its order that divides the frequency.              *)
THEOREM SearchEndsAtOnce ==
  ASSUME NEW f \in Nat
  PROVE  Best(f) = IF f % 256 = 0 THEN <<1, 0>> ELSE <<1, 1>>
<1> DEFINE s0 == IF f % 256 = 0 THEN <<1, 0>> ELSE <<1, 1>>
           First(s) == \A t \in Settings :
                         \/ Distance(f, s) < Distance(f, t)
                         \/ Distance(f, s) = Distance(f, t) /\ ~TriedBefore(t, s)
<1>1. <<1, 0>> \in Settings /\ <<1, 1>> \in Settings
  BY DEF Settings, ReloadValues
<1>2. Distance(f, <<1, 0>>) = f % 256 /\ Distance(f, <<1, 1>>) = 0
  BY DEF Distance, Divider, Normalized
<1>3. Distance(f, s0) = 0
  BY <1>2
<1>4. ASSUME NEW t \in Settings, Distance(f, t) = 0
      PROVE  ~TriedBefore(t, s0)
  <2>1. CASE f % 256 = 0
    BY <2>1, DividerPositive DEF TriedBefore
  <2>2. CASE f % 256 # 0
    <3>1. t # <<1, 0>>
      BY <2>2, <1>2, <1>4
    <3>2. ASSUME TriedBefore(t, <<1, 1>>) PROVE t = <<1, 0>>
      <4>1. t[1] \in 1..15 /\ t[2] \in 0..255 /\ t = <<t[1], t[2]>>
        BY DividerPositive
      <4>2. t[1] = 1 /\ t[2] = 0
        BY <3>2, <4>1 DEF TriedBefore
      <4> QED BY <4>1, <4>2
    <3> QED BY <2>2, <3>1, <3>2
  <2> QED BY <2>1, <2>2
<1>5. First(s0)
  <2> SUFFICES ASSUME NEW t \in Settings
               PROVE  \/ Distance(f, s0) < Distance(f, t)
                      \/ Distance(f, s0) = Distance(f, t) /\ ~TriedBefore(t, s0)
    OBVIOUS
  <2>1. Distance(f, t) \in Nat
    BY DistanceNat
  <2> HIDE DEF s0
  <2>2. CASE Distance(f, t) = 0
    BY <2>2, <1>3, <1>4
  <2>3. CASE Distance(f, t) # 0
    BY <2>1, <2>3, <1>3
  <2> QED BY <2>2, <2>3
<1>6. ASSUME NEW s \in Settings, First(s) PROVE s = s0
  <2>1. s0 \in Settings
    BY <1>1
  <2>2. Distance(f, s) = 0 /\ ~TriedBefore(s0, s)
    <3>1. Distance(f, s) \in Nat
      BY DistanceNat
    <3> HIDE DEF s0
    <3> QED BY <2>1, <3>1, <1>3, <1>6
  <2>3. ~TriedBefore(s, s0)
    BY <2>2, <1>4
  <2>4. /\ s[1] \in Int /\ s[2] \in Int /\ s = <<s[1], s[2]>>
        /\ s0[1] \in Int /\ s0[2] \in Int /\ s0 = <<s0[1], s0[2]>>
    <3>1. \A t \in Settings : t[1] \in Int /\ t[2] \in Int /\ t = <<t[1], t[2]>>
      BY DividerPositive
    <3> HIDE DEF s0
    <3> QED BY <2>1, <3>1
  <2> HIDE DEF s0
  <2>5. s[1] = s0[1] /\ s[2] = s0[2]
    BY <2>2, <2>3, <2>4 DEF TriedBefore
  <2> QED BY <2>4, <2>5
<1>7. s0 \in Settings
  BY <1>1
<1>8. Best(f) = CHOOSE s \in Settings : First(s)
  BY DEF Best
<1> HIDE DEF s0, First
<1>9. Best(f) = s0
  BY <1>5, <1>6, <1>7, <1>8
<1> QED BY <1>9 DEF s0

(* So every frequency but 0 that is asked for, positive or negative, makes *)
(* the PWM run at the peripheral clock, or at a 256th of it: never at      *)
(* anything else, however far that is from the request (pwm.c:18-86).      *)
THEOREM TwoFrequencies ==
  ASSUME NEW f \in Int \ {0}, NEW garbage,
         NEW optimal \in OptimalClocks(f, garbage)
  PROVE  /\ optimal.source = "PERIPH"
         /\ optimal.setting \in {<<1, 0>>, <<1, 1>>}
         /\ Frequency(optimal.source, optimal.setting) \in {198363, 50781000}
<1>1. AbsoluteValue(f) \in Nat
  BY DEF AbsoluteValue
<1>2. Best(AbsoluteValue(f)) \in {<<1, 0>>, <<1, 1>>}
  BY <1>1, SearchEndsAtOnce
<1>3. optimal = [source |-> "PERIPH", setting |-> Best(AbsoluteValue(f))]
  BY DEF OptimalClocks
<1>4. /\ Frequency("PERIPH", <<1, 0>>) = 198363
      /\ Frequency("PERIPH", <<1, 1>>) = 50781000
  BY DEF Frequency, Base, Divider, Normalized
<1> QED BY <1>2, <1>3, <1>4

(* "We just brute force the best approximation" (pwm.c:20-21), but it is   *)
(* not the best: for the frequencies below 163 Hz the other clock source,  *)
(* and for those between 12.8 and 38 kHz divider 2, would come nearer than *)
(* what is chosen.                                                         *)
THEOREM NotTheNearest ==
  ASSUME NEW f \in Nat \ {0}, f <= 163181 \/ (12794432 <= f /\ f <= 38085749), NEW garbage,
         NEW optimal \in OptimalClocks(f, garbage)
  PROVE  \E source \in Sources, s \in Settings :
           AbsoluteValue(Frequency(source, s) - f)
             < AbsoluteValue(Frequency(optimal.source, optimal.setting) - f)
<1> DEFINE chosen == Frequency(optimal.source, optimal.setting)
<1>1. f \in Int \ {0} /\ chosen \in {198363, 50781000}
  BY TwoFrequencies
<1> HIDE DEF chosen
<1>2. CASE f <= 163181
  <2>1. Frequency("RTC", <<1, 1>>) = 128000 /\ "RTC" \in Sources /\ <<1, 1>> \in Settings
    BY DEF Frequency, Base, Divider, Normalized, Sources, Settings, ReloadValues
  <2>2. AbsoluteValue(128000 - f) < AbsoluteValue(chosen - f)
    BY <1>1, <1>2 DEF AbsoluteValue
  <2> QED BY <2>1, <2>2 DEF chosen
<1>3. CASE 12794432 <= f /\ f <= 38085749
  <2>1. Frequency("PERIPH", <<2, 1>>) = 25390500 /\ "PERIPH" \in Sources /\ <<2, 1>> \in Settings
    BY DEF Frequency, Base, Divider, Normalized, Sources, Settings, ReloadValues
  <2>2. AbsoluteValue(25390500 - f) < AbsoluteValue(chosen - f)
    BY <1>1, <1>3 DEF AbsoluteValue
  <2> QED BY <2>1, <2>2 DEF chosen
<1> QED BY <1>2, <1>3

(* The settings are always values the registers have room for.             *)
LEMMA OptimalFits ==
  ASSUME NEW f \in Int, NEW garbage, garbage \subseteq FreqValues \X ReloadValues,
         NEW optimal \in OptimalClocks(f, garbage)
  PROVE  /\ optimal.source \in Sources
         /\ optimal.setting[1] \in FreqValues
         /\ optimal.setting[2] \in ReloadValues
<1>1. CASE f = 0
  BY <1>1 DEF OptimalClocks, Sources, FreqValues, ReloadValues
<1>2. CASE f # 0
  <2>1. optimal.source = "PERIPH" /\ optimal.setting \in {<<1, 0>>, <<1, 1>>}
    BY <1>2, TwoFrequencies
  <2> QED BY <2>1 DEF Sources, FreqValues, ReloadValues
<1> QED BY <1>1, <1>2

(* A duty cycle in percent comes back exactly or one percent lower         *)
(* (pwm.c:126, 215).                                                       *)
THEOREM DutyRoundTrip ==
  ASSUME NEW percent \in 0..100
  PROVE  /\ DutySteps(percent) \in 0..255
         /\ DutyPercent(DutySteps(percent)) \in {percent, percent - 1}
<1> DEFINE steps == (percent * 255) \div 100
<1>1. steps \in 0..255 /\ 100 * steps <= 255 * percent /\ 255 * percent < 100 * steps + 100
  OBVIOUS
<1>2. DutySteps(percent) = steps
  BY <1>1 DEF DutySteps
<1> HIDE DEF steps
<1>3. (steps * 100) \div 255 \in {percent, percent - 1}
  BY <1>1
<1> QED BY <1>1, <1>2, <1>3 DEF DutyPercent

(* Whatever number is written, the steps fit in the register's eight bits. *)
LEMMA DutyFits ==
  ASSUME NEW percent \in Int
  PROVE  DutySteps(percent) \in 0..255
BY DEF DutySteps

LEMMA StepsFit ==
  ASSUME NEW percent \in Int, NEW steps \in StepsOf(percent)
  PROVE  steps \in 0..255
BY DutyFits DEF StepsOf

-----------------------------------------------------------------------------
(* No number read or asked for yet is a number, too.                       *)
LEMMA NeverInt == Never \in Int
BY DEF Never

(* The initial state has the right types.                                  *)
LEMMA TypeInit == Init => TypeOK
<1> SUFFICES ASSUME Init PROVE TypeOK
  OBVIOUS
<1>1. SomeFile \in Files
  BY PwmAssumption DEF SomeFile
<1>2. ResetControl \in Controls /\ ResetClock \in Clocks
  BY DEF ResetControl, Controls, ResetClock, Clocks, ReloadValues, Sources, FreqValues
<1>3. deviceOpened \in BOOLEAN /\ overlapped \in BOOLEAN
  BY DEF Init
<1>8. kernel_buffer \in Int
  BY DEF Init
<1>4. control \in [PWMs -> Controls] /\ clock \in Clocks
  BY <1>2 DEF Init
<1>5. pc \in [Procs -> Labels] /\ file \in [Procs -> Files] /\ offset \in [Procs -> 0..1]
  BY <1>1 DEF Init, Labels
<1>6. controlCopy \in [Procs -> Controls] /\ clockCopy \in [Procs -> Clocks]
  BY <1>2 DEF Init
<1>7. asked \in [Files -> Int] /\ answer \in [Procs -> Int]
  BY NeverInt DEF Init
<1> QED BY <1>3, <1>4, <1>5, <1>6, <1>7, <1>8 DEF TypeOK

(* Every step keeps the types.                                             *)
LEMMA TypeStep == TypeOK /\ [Next]_vars => TypeOK'
<1> SUFFICES ASSUME TypeOK, [Next]_vars PROVE TypeOK'
  OBVIOUS
<1> USE DEF TypeOK
<1>r. ResetControl \in Controls /\ ResetClock \in Clocks
  BY DEF ResetControl, Controls, ResetClock, Clocks, ReloadValues, Sources, FreqValues
<1>s. SomeFile \in Files
  BY PwmAssumption DEF SomeFile
<1>f. \A p \in Procs : PwmOf(p) \in PWMs /\ FunctionOf(p) \in Functions
  BY PwmAssumption DEF PwmOf, FunctionOf
<1>g. ASSUME NEW p \in Procs, NEW a, NEW b \in Labels, Goes(p, a, b)
      PROVE  pc' \in [Procs -> Labels]
  BY <1>g DEF Goes
<1>0. CASE UNCHANGED vars
  BY <1>0 DEF vars, buffers, registers, fileVars, locals, history
<1> SUFFICES ASSUME NEW p \in Procs,
                    \/ TestOpened(p) \/ SetOpened(p) \/ Release(p)
                    \/ Write(p) \/ LoadControl(p) \/ LoadClock(p)
                    \/ SetEnabled(p) \/ SetDuty(p) \/ SetFrequency(p) \/ StoreClock(p)
                    \/ Read(p) \/ GetControl(p) \/ GetClock(p) \/ PrintAnswer(p) \/ Copy(p)
             PROVE  TypeOK'
  BY <1>0 DEF Next
<1> USE DEF buffers, registers, fileVars, locals, history
<1>1. CASE TestOpened(p)
  <2>1. pc' \in [Procs -> Labels]
    BY <1>1, <1>g DEF TestOpened, Labels
  <2>2. overlapped' \in BOOLEAN
    BY <1>1, Zenon DEF TestOpened
  <2> QED BY <1>1, <2>1, <2>2 DEF TestOpened
<1>2. CASE SetOpened(p)
  BY <1>2, <1>g DEF SetOpened, Labels
<1>3. CASE Release(p)
  <2>1. pc' \in [Procs -> Labels]
    BY <1>3, <1>g DEF Release, Labels
  <2>2. deviceOpened' \in BOOLEAN
    BY <1>3 DEF Release
  <2>3. file' \in [Procs -> Files] /\ offset' \in [Procs -> 0..1]
    BY <1>3, <1>s DEF Release
  <2>4. answer' \in [Procs -> Int]
    BY <1>3, NeverInt DEF Release
  <2> QED BY <1>3, <2>1, <2>2, <2>3, <2>4 DEF Release
<1>4. CASE Write(p)
  <2>1. pc' \in [Procs -> Labels]
    BY <1>4, <1>g DEF Write, Labels
  <2>2. PICK n \in Inputs(FunctionOf(p)) :
          IF offset[p] = 0
            THEN /\ kernel_buffer' = n
                 /\ offset' = [offset EXCEPT ![p] = 1]
                 /\ asked' = [asked EXCEPT ![file[p]] = n]
            ELSE /\ UNCHANGED <<kernel_buffer, offset>>
                 /\ asked' = [asked EXCEPT ![file[p]] = Never]
    BY <1>4 DEF Write
  <2>3. n \in Int
    BY <1>f, PwmAssumption DEF Inputs, Functions
  <2>4. /\ kernel_buffer' \in Int
        /\ offset' \in [Procs -> 0..1]
        /\ asked' \in [Files -> Int]
    BY <2>2, <2>3, NeverInt
  <2> QED BY <1>4, <2>1, <2>4, NeverInt DEF Write
<1>5. CASE LoadControl(p)
  <2>1. pc' \in [Procs -> Labels]
    BY <1>5, <1>g DEF LoadControl, Labels
  <2> QED BY <1>5, <1>f, <2>1 DEF LoadControl
<1>6. CASE LoadClock(p)
  BY <1>6, <1>g DEF LoadClock, Labels
<1>7. CASE SetEnabled(p)
  <2>1. pc' \in [Procs -> Labels]
    BY <1>7, <1>g DEF SetEnabled, Labels
  <2>2. [controlCopy[p] EXCEPT !.enabled = kernel_buffer # 0] \in Controls
    <3> DEFINE on == kernel_buffer # 0
    <3>1. on \in BOOLEAN
      OBVIOUS
    <3>2. controlCopy[p] \in Controls
      OBVIOUS
    <3> HIDE DEF on, TypeOK
    <3>3. [controlCopy[p] EXCEPT !.enabled = on] \in Controls
      BY <3>1, <3>2 DEF Controls
    <3> QED BY <3>3 DEF on
  <2>3. control' \in [PWMs -> Controls]
    BY <1>7, <1>f, <2>2 DEF SetEnabled, StoreControl
  <2> QED BY <1>7, <1>r, <2>1, <2>3 DEF SetEnabled
<1>8. CASE SetDuty(p)
  <2>1. pc' \in [Procs -> Labels]
    BY <1>8, <1>g DEF SetDuty, Labels
  <2>2. PICK steps \in StepsOf(kernel_buffer) :
          StoreControl(p, [controlCopy[p] EXCEPT !.duty = steps])
    BY <1>8 DEF SetDuty
  <2>3. [controlCopy[p] EXCEPT !.duty = steps] \in Controls
    <3>1. controlCopy[p] \in Controls /\ steps \in 0..255
      BY StepsFit
    <3> HIDE DEF TypeOK
    <3> QED BY <3>1 DEF Controls
  <2>4. control' \in [PWMs -> Controls]
    BY <2>2, <1>f, <2>3 DEF StoreControl
  <2> QED BY <1>8, <1>r, <2>1, <2>4 DEF SetDuty
<1>9. CASE SetFrequency(p)
  <2>1. pc' \in [Procs -> Labels]
    BY <1>9, <1>g DEF SetFrequency, Labels
  <2>2. PICK optimal \in OptimalClocks(kernel_buffer, Garbage) :
          /\ StoreControl(p, [controlCopy[p] EXCEPT !.reloadv = optimal.setting[2]])
          /\ clockCopy' = [clockCopy EXCEPT ![p][PwmOf(p)] =
                             [source |-> optimal.source, freq |-> optimal.setting[1]]]
    BY <1>9 DEF SetFrequency
  <2>3. /\ optimal.source \in Sources
        /\ optimal.setting[1] \in FreqValues /\ optimal.setting[2] \in ReloadValues
    BY OptimalFits, PwmAssumption
  <2>4. [controlCopy[p] EXCEPT !.reloadv = optimal.setting[2]] \in Controls
    <3>1. controlCopy[p] \in Controls
      OBVIOUS
    <3> HIDE DEF TypeOK
    <3> QED BY <2>3, <3>1 DEF Controls
  <2>5. control' \in [PWMs -> Controls]
    BY <2>2, <1>f, <2>4 DEF StoreControl
  <2>6. clockCopy' \in [Procs -> Clocks]
    BY <2>2, <2>3, <1>f DEF Clocks
  <2> QED BY <1>9, <1>r, <2>1, <2>5, <2>6 DEF SetFrequency
<1>10. CASE StoreClock(p)
  <2>1. pc' \in [Procs -> Labels]
    BY <1>10, <1>g DEF StoreClock, Labels
  <2> QED BY <1>10, <1>r, <2>1 DEF StoreClock
<1>11. CASE Read(p)
  BY <1>11, <1>g DEF Read, Labels
<1>12. CASE GetControl(p)
  <2>1. pc' \in [Procs -> Labels]
    BY <1>12, <1>g DEF GetControl, Labels
  <2> QED BY <1>12, <1>f, <2>1 DEF GetControl
<1>13. CASE GetClock(p)
  BY <1>13, <1>g DEF GetClock, Labels
<1>14. CASE PrintAnswer(p)
  <2>1. pc' \in [Procs -> Labels]
    BY <1>14, <1>g DEF PrintAnswer, Labels
  <2>2. Printed(p) \in Int
    <3>1. DutyPercent(controlCopy[p].duty) \in Int
      <4>1. controlCopy[p].duty \in 0..255
        BY DEF Controls
      <4> HIDE DEF TypeOK
      <4> QED BY <4>1 DEF DutyPercent
    <3>2. PrintedFrequency(PwmOf(p), controlCopy[p], clockCopy[p]) \in Int
      <4>1. /\ clockCopy[p][1].freq \in 0..15
            /\ controlCopy[p].reloadv \in 0..255
        BY DEF Controls, Clocks, PWMs, FreqValues, ReloadValues
      <4> DEFINE s == <<clockCopy[p][1].freq, controlCopy[p].reloadv>>
      <4>2. CASE s[1] = 0
        BY <4>2 DEF PrintedFrequency, Frequency
      <4>3. CASE s[1] # 0
        <5>1. s \in Settings
          BY <4>1, <4>3 DEF Settings, ReloadValues
        <5>2. Divider(s) \in Nat \ {0}
          BY <5>1, DividerPositive
        <5>3. Base(clockCopy[p][PwmOf(p)].source) \in Nat
          BY DEF Base
        <5>4. \A a \in Nat : \A d \in Nat \ {0} : a \div d \in Int
          OBVIOUS
        <5> QED BY <4>3, <5>2, <5>3, <5>4 DEF PrintedFrequency, Frequency
      <4> QED BY <4>2, <4>3
    <3> QED BY <1>f, <3>1, <3>2 DEF Printed, Functions
  <2> QED BY <1>14, <1>r, <2>1, <2>2 DEF PrintAnswer
<1>15. CASE Copy(p)
  <2>1. pc' \in [Procs -> Labels]
    BY <1>15, <1>g DEF Copy, Labels
  <2> QED BY <1>15, <2>1 DEF Copy
<1> QED BY <1>1, <1>2, <1>3, <1>4, <1>5, <1>6, <1>7, <1>8, <1>9, <1>10, <1>11,
           <1>12, <1>13, <1>14, <1>15

(* Type correctness, under any preemption: in particular what is stored in *)
(* a register always fits its fields (pwm.c:88-140).                       *)
THEOREM TypeCorrect == Spec => []TypeOK
<1> QED BY TypeInit, TypeStep, PTL DEF Spec

-----------------------------------------------------------------------------
(* A process that has a device file open, or is opening one, is alone and  *)
(* stays so.                                                               *)
LEMMA Alone ==
  ASSUME TypeOK, AtMostOne, NEW p \in Procs, NEW a, NEW b, a # "closed", Goes(p, a, b)
  PROVE  AtMostOne' /\ pc'[p] = b /\ \A q \in Procs \ {p} : pc[q] = "closed" /\ pc'[q] = "closed"
BY DEF TypeOK, AtMostOne, Goes

(* While it uses the file, the flag stays set.                             *)
LEMMA FlagKept ==
  ASSUME TypeOK, FlagInv, NEW p \in Procs, NEW a, NEW b, Goes(p, a, b),
         a \notin {"closed", "opening"}, b \notin {"closed", "opening"},
         UNCHANGED deviceOpened
  PROVE  FlagInv'
<1>1. deviceOpened
  BY DEF FlagInv, Goes
<1>2. pc'[p] = b
  BY DEF TypeOK, Goes
<1> QED BY <1>1, <1>2 DEF FlagInv

(* The copies of the others do not matter: they are outside.               *)
LEMMA CopiesOfOne ==
  ASSUME NEW p \in Procs, \A q \in Procs \ {p} : pc'[q] = "closed",
         (/\ pc[p] \in {"loadClock", "store"} => controlCopy[p] = control[PwmOf(p)]
          /\ pc[p] = "store" /\ FunctionOf(p) = "frequency" => clockCopy[p] = clock
          /\ pc[p] \in {"loadClock", "storeClock"} => FunctionOf(p) = "frequency"
          /\ pc[p] = "storeClock" =>
               \A w \in PWMs \ {PwmOf(p)} : clockCopy[p][w] = clock[w])'
  PROVE  CopiesInv'
BY DEF CopiesInv

(* An overlap is never forgotten.                                          *)
LEMMA OverlapStays ==
  ASSUME [Next]_vars, ~overlapped'
  PROVE  ~overlapped
<1>1. CASE UNCHANGED vars
  BY <1>1 DEF vars, history
<1>2. CASE Next
  BY <1>2 DEF Next, TestOpened, SetOpened, Release, Write, LoadControl, LoadClock, SetEnabled,
              SetDuty, SetFrequency, StoreClock, Read, GetControl, GetClock, PrintAnswer, Copy,
              history
<1> QED BY <1>1, <1>2

(* Every step that is not an overlap in dev_open keeps the processes apart.*)
LEMMA ApartStep ==
  ASSUME Apart, [Next]_vars, ~overlapped'
  PROVE  Apart'
<1>t. TypeOK'
  BY TypeStep DEF Apart
<1> SUFFICES (AtMostOne /\ FlagInv /\ CopiesInv)'
  BY <1>t DEF Apart
<1> USE DEF Apart
<1>0. CASE UNCHANGED vars
  BY <1>0 DEF vars, buffers, registers, fileVars, locals, history,
              AtMostOne, FlagInv, CopiesInv, PwmOf, FunctionOf
<1> SUFFICES ASSUME NEW p \in Procs,
                    \/ TestOpened(p) \/ SetOpened(p) \/ Release(p)
                    \/ Write(p) \/ LoadControl(p) \/ LoadClock(p)
                    \/ SetEnabled(p) \/ SetDuty(p) \/ SetFrequency(p) \/ StoreClock(p)
                    \/ Read(p) \/ GetControl(p) \/ GetClock(p) \/ PrintAnswer(p) \/ Copy(p)
             PROVE  (AtMostOne /\ FlagInv /\ CopiesInv)'
  BY <1>0 DEF Next
<1> USE DEF buffers, registers, fileVars, locals, history
<1>f. PwmOf(p) \in PWMs /\ FunctionOf(p) \in Functions
  BY PwmAssumption DEF TypeOK, PwmOf, FunctionOf
<1>1. CASE TestOpened(p)
  <2>1. \A q \in Procs \ {p} : pc[q] = "closed"
    <3>1. ~deviceOpened
      BY <1>1 DEF TestOpened, MayOpen
    <3>2. \A q \in Procs \ {p} : pc[q] # "opening"
      BY <1>1 DEF TestOpened
    <3> QED BY <3>1, <3>2 DEF FlagInv
  <2>2. pc' = [pc EXCEPT ![p] = "opening"] /\ ~deviceOpened' /\ pc \in [Procs -> Labels]
    BY <1>1 DEF TestOpened, Goes, MayOpen, TypeOK
  <2>3. pc'[p] = "opening" /\ \A q \in Procs \ {p} : pc'[q] = "closed"
    BY <2>1, <2>2
  <2> QED BY <2>2, <2>3 DEF AtMostOne, FlagInv, CopiesInv
<1>2. CASE SetOpened(p)
  <2>1. Goes(p, "opening", "open")
    BY <1>2 DEF SetOpened
  <2>2. AtMostOne' /\ pc'[p] = "open" /\ \A q \in Procs \ {p} : pc'[q] = "closed"
    BY <2>1, Alone
  <2>3. deviceOpened'
    BY <1>2 DEF SetOpened
  <2> QED BY <2>2, <2>3 DEF FlagInv, CopiesInv
<1>3. CASE Release(p)
  <2>1. Goes(p, "open", "closed")
    BY <1>3 DEF Release
  <2>2. AtMostOne' /\ pc'[p] = "closed" /\ \A q \in Procs \ {p} : pc'[q] = "closed"
    BY <2>1, Alone
  <2>3. ~deviceOpened'
    BY <1>3 DEF Release
  <2> QED BY <2>2, <2>3 DEF FlagInv, CopiesInv
<1>4. CASE Write(p)
  <2>1. Goes(p, "open", "load") /\ UNCHANGED deviceOpened
    BY <1>4 DEF Write
  <2>2. AtMostOne' /\ pc'[p] = "load" /\ \A q \in Procs \ {p} : pc'[q] = "closed"
    BY <2>1, Alone
  <2>3. FlagInv'
    BY <2>1, FlagKept
  <2> QED BY <2>2, <2>3, CopiesOfOne
<1>5. CASE LoadControl(p)
  <2> DEFINE next == IF FunctionOf(p) = "frequency" THEN "loadClock" ELSE "store"
  <2>1. Goes(p, "load", next) /\ UNCHANGED <<deviceOpened, file, control>>
    BY <1>5 DEF LoadControl
  <2>2. next \in {"loadClock", "store"} /\ (next = "loadClock" <=> FunctionOf(p) = "frequency")
    OBVIOUS
  <2> HIDE DEF next
  <2>3. AtMostOne' /\ pc'[p] = next /\ \A q \in Procs \ {p} : pc'[q] = "closed"
    BY <2>1, Alone
  <2>4. FlagInv'
    BY <2>1, <2>2, FlagKept
  <2>5. controlCopy'[p] = control[PwmOf(p)]
    BY <1>5 DEF LoadControl, TypeOK
  <2>6. PwmOf(p)' = PwmOf(p) /\ FunctionOf(p)' = FunctionOf(p)
    BY <2>1 DEF PwmOf, FunctionOf
  <2> QED BY <2>1, <2>2, <2>3, <2>4, <2>5, <2>6, CopiesOfOne
<1>6. CASE LoadClock(p)
  <2>1. Goes(p, "loadClock", "store") /\ UNCHANGED <<deviceOpened, file, registers, controlCopy>>
    BY <1>6 DEF LoadClock
  <2>2. AtMostOne' /\ pc'[p] = "store" /\ \A q \in Procs \ {p} : pc'[q] = "closed"
    BY <2>1, Alone
  <2>3. FlagInv'
    BY <2>1, FlagKept
  <2>4. clockCopy'[p] = clock /\ controlCopy[p] = control[PwmOf(p)]
    BY <1>6, <2>1 DEF LoadClock, TypeOK, CopiesInv, Goes
  <2>5. PwmOf(p)' = PwmOf(p)
    BY <2>1 DEF PwmOf
  <2> QED BY <2>1, <2>2, <2>3, <2>4, <2>5, CopiesOfOne
<1>7. CASE SetEnabled(p) \/ SetDuty(p)
  <2>1. Goes(p, "store", "open") /\ UNCHANGED deviceOpened
    BY <1>7 DEF SetEnabled, SetDuty
  <2>2. AtMostOne' /\ pc'[p] = "open" /\ \A q \in Procs \ {p} : pc'[q] = "closed"
    BY <2>1, Alone
  <2>3. FlagInv'
    BY <2>1, FlagKept
  <2> QED BY <2>2, <2>3, CopiesOfOne
<1>9. CASE SetFrequency(p)
  <2>1. Goes(p, "store", "storeClock") /\ UNCHANGED <<deviceOpened, file, clock>>
    BY <1>9 DEF SetFrequency
  <2>2. AtMostOne' /\ pc'[p] = "storeClock" /\ \A q \in Procs \ {p} : pc'[q] = "closed"
    BY <2>1, Alone
  <2>3. FlagInv'
    BY <2>1, FlagKept
  <2>4. PwmOf(p)' = PwmOf(p) /\ FunctionOf(p)' = FunctionOf(p) /\ FunctionOf(p) = "frequency"
    BY <1>9, <2>1 DEF PwmOf, FunctionOf, SetFrequency
  <2>5. clockCopy[p] = clock
    BY <2>1, <2>4 DEF CopiesInv, Goes
  <2>6. \A w \in PWMs \ {PwmOf(p)} : clockCopy'[p][w] = clock[w]
    <3>1. PICK optimal \in OptimalClocks(kernel_buffer, Garbage) :
            clockCopy' = [clockCopy EXCEPT ![p][PwmOf(p)] =
                            [source |-> optimal.source, freq |-> optimal.setting[1]]]
      BY <1>9 DEF SetFrequency
    <3> QED BY <3>1, <2>5 DEF TypeOK, Clocks
  <2> QED BY <2>1, <2>2, <2>3, <2>4, <2>6, CopiesOfOne
<1>10. CASE StoreClock(p)
  <2>1. Goes(p, "storeClock", "open") /\ UNCHANGED deviceOpened
    BY <1>10 DEF StoreClock
  <2>2. AtMostOne' /\ pc'[p] = "open" /\ \A q \in Procs \ {p} : pc'[q] = "closed"
    BY <2>1, Alone
  <2>3. FlagInv'
    BY <2>1, FlagKept
  <2> QED BY <2>2, <2>3, CopiesOfOne
<1>11. CASE Read(p) \/ GetControl(p) \/ GetClock(p) \/ PrintAnswer(p) \/ Copy(p)
  <2>1. PICK a \in {"open", "get", "getClock", "print", "copy"},
             b \in {"open", "get", "getClock", "print", "copy"} : Goes(p, a, b)
    BY <1>11 DEF Read, GetControl, GetClock, PrintAnswer, Copy
  <2>2. UNCHANGED deviceOpened
    BY <1>11 DEF Read, GetControl, GetClock, PrintAnswer, Copy
  <2>3. AtMostOne' /\ pc'[p] = b /\ \A q \in Procs \ {p} : pc'[q] = "closed"
    BY <2>1, Alone
  <2>4. FlagInv'
    BY <2>1, <2>2, FlagKept
  <2> QED BY <2>3, <2>4, CopiesOfOne
<1> QED BY <1>1, <1>2, <1>3, <1>4, <1>5, <1>6, <1>7, <1>9, <1>10, <1>11

(* The invariant is inductive.                                             *)
THEOREM Inductive == Spec => []IInv
<1>1. Init => IInv
  <2> SUFFICES ASSUME Init PROVE AtMostOne /\ FlagInv /\ CopiesInv
    BY TypeInit DEF IInv, Apart
  <2>1. ~deviceOpened /\ \A p \in Procs : pc[p] = "closed"
    BY DEF Init
  <2> QED BY <2>1 DEF AtMostOne, FlagInv, CopiesInv
<1>2. IInv /\ [Next]_vars => IInv'
  <2> SUFFICES ASSUME IInv, [Next]_vars PROVE IInv'
    OBVIOUS
  <2>1. TypeOK'
    BY TypeStep DEF IInv
  <2>2. ~overlapped' => Apart'
    BY OverlapStays, ApartStep DEF IInv
  <2> QED BY <2>1, <2>2 DEF IInv
<1> QED BY <1>1, <1>2, PTL DEF Spec

(* Two processes are in the driver only after one passed the test of       *)
(* deviceOpened while another was between test and set (file.c:30, 36):    *)
(* the flag keeps all but one process out in every other interleaving of   *)
(* opening, failing to open and closing (file.c:24-51).                    *)
THEOREM Exclusive == Spec => []OneOpener
<1>1. IInv => OneOpener
  BY DEF IInv, Apart, OneOpener
<1> QED BY <1>1, Inductive, PTL

(* Up to an overlap no store undoes another setting in the same registers  *)
(* (pwm.c:88-140).                                                         *)
THEOREM SettingsKept == Spec => OnlyOwnSetting
<1> DEFINE Kept ==
      \A w \in PWMs :
        /\ control'[w].enabled # control[w].enabled => Storing(<<w, "enable">>)
        /\ control'[w].duty # control[w].duty => Storing(<<w, "duty">>)
        /\ control'[w].reloadv # control[w].reloadv => Storing(<<w, "frequency">>)
        /\ clock'[w] # clock[w] => Storing(<<w, "frequency">>)
<1>1. ASSUME Apart, [Next]_vars PROVE [Kept]_vars
  <2>0. CASE UNCHANGED <<control, clock>>
    BY <2>0
  <2>1. CASE \E p \in Procs : SetEnabled(p) \/ SetDuty(p) \/ SetFrequency(p)
    <3>1. PICK p \in Procs : SetEnabled(p) \/ SetDuty(p) \/ SetFrequency(p)
      BY <2>1
    <3>2. pc[p] = "store" /\ UNCHANGED clock
      BY <3>1 DEF SetEnabled, SetDuty, SetFrequency, Goes
    <3>3. PwmOf(p) \in PWMs /\ file[p] = <<PwmOf(p), FunctionOf(p)>>
      BY <1>1, PwmAssumption DEF Apart, TypeOK, PwmOf, FunctionOf
    <3>4. Storing(<<PwmOf(p), FunctionOf(p)>>)
      BY <3>2, <3>3 DEF Storing
    <3>5. controlCopy[p] = control[PwmOf(p)] /\ control \in [PWMs -> Controls]
      BY <1>1, <3>2 DEF Apart, CopiesInv, TypeOK
    <3>6. ASSUME NEW w \in PWMs, w # PwmOf(p) PROVE control'[w] = control[w]
      BY <3>1, <3>5, <3>6 DEF SetEnabled, SetDuty, SetFrequency, StoreControl
    <3>7. CASE SetEnabled(p)
      <4>1. /\ control'[PwmOf(p)].duty = control[PwmOf(p)].duty
            /\ control'[PwmOf(p)].reloadv = control[PwmOf(p)].reloadv
        BY <3>7, <3>3, <3>5 DEF SetEnabled, StoreControl, Controls
      <4> QED BY <3>7, <3>2, <3>4, <3>6, <4>1 DEF SetEnabled
    <3>8. CASE SetDuty(p)
      <4>1. /\ control'[PwmOf(p)].enabled = control[PwmOf(p)].enabled
            /\ control'[PwmOf(p)].reloadv = control[PwmOf(p)].reloadv
        <5>1. PICK steps \in StepsOf(kernel_buffer) :
                StoreControl(p, [controlCopy[p] EXCEPT !.duty = steps])
          BY <3>8 DEF SetDuty
        <5> QED BY <5>1, <3>3, <3>5 DEF StoreControl, Controls
      <4> QED BY <3>8, <3>2, <3>4, <3>6, <4>1 DEF SetDuty
    <3>9. CASE SetFrequency(p)
      <4>1. /\ control'[PwmOf(p)].enabled = control[PwmOf(p)].enabled
            /\ control'[PwmOf(p)].duty = control[PwmOf(p)].duty
        <5>1. PICK optimal \in OptimalClocks(kernel_buffer, Garbage) :
                StoreControl(p, [controlCopy[p] EXCEPT !.reloadv = optimal.setting[2]])
          BY <3>9 DEF SetFrequency
        <5> QED BY <5>1, <3>3, <3>5 DEF StoreControl, Controls
      <4> QED BY <3>9, <3>2, <3>4, <3>6, <4>1 DEF SetFrequency
    <3> QED BY <3>1, <3>7, <3>8, <3>9
  <2>2. CASE \E p \in Procs : StoreClock(p)
    <3>1. PICK p \in Procs : StoreClock(p)
      BY <2>2
    <3>2. pc[p] = "storeClock" /\ clock' = clockCopy[p] /\ UNCHANGED control
      BY <3>1 DEF StoreClock, Goes
    <3>3. /\ file[p] = <<PwmOf(p), "frequency">>
          /\ \A w \in PWMs \ {PwmOf(p)} : clockCopy[p][w] = clock[w]
      BY <1>1, <3>2, PwmAssumption DEF Apart, CopiesInv, TypeOK, PwmOf, FunctionOf
    <3>4. Storing(<<PwmOf(p), "frequency">>)
      BY <3>2, <3>3 DEF Storing
    <3> QED BY <3>2, <3>3, <3>4
  <2> QED
    BY <1>1, <2>0, <2>1, <2>2
    DEF Next, vars, registers, TestOpened, SetOpened, Release, Write, LoadControl,
        LoadClock, Read, GetControl, GetClock, PrintAnswer, Copy
<1>2. IInv /\ [Next]_vars => [~overlapped => Kept]_vars
  BY <1>1 DEF IInv
<1>3. Spec => [][~overlapped => Kept]_vars
  BY <1>2, Inductive, PTL DEF Spec
<1> QED BY <1>3 DEF OnlyOwnSetting

-----------------------------------------------------------------------------
(* What is read back.                                                      *)

Step(p) ==
  \/ TestOpened(p) \/ SetOpened(p) \/ Release(p)
  \/ Write(p) \/ LoadControl(p) \/ LoadClock(p)
  \/ SetEnabled(p) \/ SetDuty(p) \/ SetFrequency(p) \/ StoreClock(p)
  \/ Read(p) \/ GetControl(p) \/ GetClock(p) \/ PrintAnswer(p) \/ Copy(p)

(* Whoever takes a step is alone with the driver.                          *)
LEMMA StepAlone ==
  ASSUME Apart, Apart', NEW p \in Procs, Step(p)
  PROVE  \A q \in Procs \ {p} : pc[q] = "closed" /\ pc'[q] = "closed"
<1>1. PICK a \in Labels, b \in Labels : Goes(p, a, b) /\ (a # "closed" \/ b # "closed")
  BY DEF Step, TestOpened, SetOpened, Release, Write, LoadControl, LoadClock, SetEnabled,
         SetDuty, SetFrequency, StoreClock, Read, GetControl, GetClock, PrintAnswer, Copy, Labels
<1>2. pc[p] = a /\ pc' = [pc EXCEPT ![p] = b] /\ pc \in [Procs -> Labels]
  BY <1>1 DEF Goes, Apart, TypeOK
<1>3. pc'[p] = b /\ \A q \in Procs \ {p} : pc'[q] = pc[q]
  BY <1>2
<1> QED
  BY <1>1, <1>2, <1>3 DEF Apart, AtMostOne

(* The others neither read nor have an answer.                             *)
LEMMA AnswerOfOne ==
  ASSUME AnswerInv, NEW p \in Procs, Answering(p)',
         \A q \in Procs \ {p} : pc[q] = "closed" /\ pc'[q] = "closed" /\ answer'[q] = answer[q]
  PROVE  AnswerInv'
<1>1. ASSUME NEW q \in Procs \ {p} PROVE Answering(q)'
  BY <1>1 DEF AnswerInv, Answering
<1> QED
  BY <1>1 DEF AnswerInv

LEMMA HeldKept ==
  ASSUME NEW p \in Procs, UNCHANGED <<control, clock, file>>
  PROVE  Held(p)' = Held(p) /\ PwmOf(p)' = PwmOf(p) /\ FunctionOf(p)' = FunctionOf(p)
BY DEF Held, PwmOf, FunctionOf

LEMMA AnswerStep ==
  ASSUME Apart, Apart', AnswerInv, NEW p \in Procs, Step(p)
  PROVE  AnswerInv'
<1> USE DEF buffers, registers, fileVars, locals, history
<1>t. TypeOK /\ Answering(p)
  BY DEF Apart, AnswerInv
<1>a. \A q \in Procs \ {p} : pc[q] = "closed" /\ pc'[q] = "closed"
  BY StepAlone
<1>b. \A q \in Procs \ {p} : answer'[q] = answer[q]
  BY <1>t DEF Step, TestOpened, SetOpened, Release, Write, LoadControl, LoadClock, SetEnabled,
              SetDuty, SetFrequency, StoreClock, Read, GetControl, GetClock, PrintAnswer, Copy, TypeOK
<1> SUFFICES Answering(p)'
  BY <1>a, <1>b, AnswerOfOne
<1>g. ASSUME NEW a, NEW b, Goes(p, a, b) PROVE pc[p] = a /\ pc'[p] = b
  BY <1>g, <1>t DEF Goes, TypeOK
<1>1. CASE TestOpened(p) \/ SetOpened(p)
  <2>1. pc[p] \in {"closed", "opening"} /\ pc'[p] \in {"opening", "open"} /\ answer' = answer
    BY <1>1, <1>g DEF TestOpened, SetOpened
  <2> QED
    BY <1>t, <2>1 DEF Answering
<1>2. CASE Release(p) \/ Write(p)
  <2>1. pc'[p] \in {"closed", "load"} /\ answer' = [answer EXCEPT ![p] = Never]
    BY <1>2, <1>g DEF Release, Write
  <2>2. answer'[p] = Never
    BY <1>t, <2>1 DEF TypeOK
  <2> QED
    BY <2>1, <2>2 DEF Answering
<1>3. CASE LoadControl(p) \/ LoadClock(p) \/ SetEnabled(p) \/ SetDuty(p) \/ SetFrequency(p)
             \/ StoreClock(p)
  <2> DEFINE next == IF FunctionOf(p) = "frequency" THEN "loadClock" ELSE "store"
  <2>1. \/ Goes(p, "load", next) \/ Goes(p, "loadClock", "store") \/ Goes(p, "store", "open")
        \/ Goes(p, "store", "storeClock") \/ Goes(p, "storeClock", "open")
    BY <1>3 DEF LoadControl, LoadClock, SetEnabled, SetDuty, SetFrequency, StoreClock
  <2>2. next \in {"loadClock", "store"}
    OBVIOUS
  <2> HIDE DEF next
  <2>3. /\ pc[p] \in {"load", "loadClock", "store", "storeClock"}
        /\ pc'[p] \in {"loadClock", "store", "storeClock", "open"}
    BY <1>g, <2>1, <2>2
  <2>4. answer' = answer
    BY <1>3 DEF LoadControl, LoadClock, SetEnabled, SetDuty, SetFrequency, StoreClock
  <2> QED
    BY <1>t, <2>3, <2>4 DEF Answering
<1>4. CASE Read(p)
  <2>1. pc[p] = "open" /\ pc'[p] = "get" /\ UNCHANGED <<control, clock, file, answer>>
    BY <1>4, <1>g DEF Read
  <2> QED
    BY <1>t, <2>1, HeldKept DEF Answering
<1>5. CASE GetControl(p)
  <2> DEFINE next == IF FunctionOf(p) = "frequency" THEN "getClock" ELSE "print"
  <2>1. Goes(p, "get", next) /\ UNCHANGED <<control, clock, file, answer>>
    BY <1>5 DEF GetControl
  <2>2. next \in {"getClock", "print"} /\ (next = "getClock" <=> FunctionOf(p) = "frequency")
    OBVIOUS
  <2> HIDE DEF next
  <2>3. pc[p] = "get" /\ pc'[p] = next
    BY <1>g, <2>1
  <2>4. controlCopy'[p] = control[PwmOf(p)]
    BY <1>t, <1>5 DEF GetControl, TypeOK
  <2> QED
    BY <1>t, <2>1, <2>2, <2>3, <2>4, HeldKept DEF Answering
<1>6. CASE GetClock(p)
  <2>1. pc[p] = "getClock" /\ pc'[p] = "print" /\ UNCHANGED <<control, clock, file, answer, controlCopy>>
    BY <1>6, <1>g DEF GetClock
  <2>2. clockCopy'[p] = clock
    BY <1>t, <1>6 DEF GetClock, TypeOK
  <2> QED
    BY <1>t, <2>1, <2>2, HeldKept DEF Answering
<1>7. CASE PrintAnswer(p)
  <2>1. /\ pc[p] = "print" /\ pc'[p] = "copy" /\ UNCHANGED <<control, clock, file, answer>>
        /\ kernel_buffer' = Printed(p)
    BY <1>7, <1>g DEF PrintAnswer
  <2>2. Printed(p) = Held(p)
    <3>1. FunctionOf(p) \in Functions
      BY <1>t, PwmAssumption DEF TypeOK, FunctionOf
    <3>2. controlCopy[p] = control[PwmOf(p)]
      BY <1>t, <2>1 DEF Answering
    <3>3. FunctionOf(p) = "frequency" => clockCopy[p] = clock
      BY <1>t, <2>1 DEF Answering
    <3>4. CASE FunctionOf(p) = "enable"
      BY <3>2, <3>4 DEF Printed, Held
    <3>5. CASE FunctionOf(p) = "duty"
      BY <3>2, <3>5 DEF Printed, Held
    <3>6. CASE FunctionOf(p) = "frequency"
      BY <3>2, <3>3, <3>6 DEF Printed, Held
    <3> QED
      BY <3>1, <3>4, <3>5, <3>6 DEF Functions
  <2> QED
    BY <1>t, <2>1, <2>2, HeldKept DEF Answering
<1>8. CASE Copy(p)
  <2>1. /\ pc[p] = "copy" /\ pc'[p] = "open" /\ UNCHANGED <<control, clock, file>>
        /\ answer' = [answer EXCEPT ![p] = kernel_buffer] \/ answer' = answer
    BY <1>8, <1>g DEF Copy
  <2>2. answer'[p] \in {kernel_buffer, answer[p]}
    BY <1>t, <2>1 DEF TypeOK
  <2> QED
    BY <1>t, <2>1, <2>2, HeldKept DEF Answering
<1> QED
  BY <1>1, <1>2, <1>3, <1>4, <1>5, <1>6, <1>7, <1>8 DEF Step

(* A step that changes no setting and nothing that is on its way.          *)
LEMMA SettingKept ==
  ASSUME SettingInv, NEW p \in Procs, UNCHANGED <<control, asked>>,
         \A q \in Procs \ {p} : pc[q] = "closed" /\ pc'[q] = "closed",
         \/ ~Writing(p) /\ ~Writing(p)'
         \/ Writing(p) /\ Writing(p)' /\ UNCHANGED <<file, kernel_buffer>>
  PROVE  SettingInv'
<1>1. \A q \in Procs \ {p} : ~Writing(q) /\ ~Writing(q)'
  BY DEF Writing
<1>2. ASSUME NEW f \in Files, asked'[f] # Never
      PROVE  /\ asked'[f] \in Inputs(f[2])
             /\ (\A q \in Procs : file'[q] = f => ~Writing(q)') => IsSet(f)'
  <2>1. asked[f] \in Inputs(f[2])
    BY <1>2 DEF SettingInv
  <2>2. ASSUME \A q \in Procs : file'[q] = f => ~Writing(q)' PROVE IsSet(f)
    <3>1. \A q \in Procs : file[q] = f => ~Writing(q)
      BY <1>1, <2>2
    <3> QED
      BY <1>2, <3>1 DEF SettingInv
  <2>3. IsSet(f) => IsSet(f)'
    BY DEF IsSet
  <2> QED
    BY <2>1, <2>2, <2>3
<1>3. ASSUME NEW q \in Procs, Writing(q)', asked'[file'[q]] # Never
      PROVE  kernel_buffer' = asked'[file'[q]]
  <2>1. q = p
    BY <1>1, <1>3
  <2> QED
    BY <1>3, <2>1 DEF SettingInv
<1>4. \A q \in Procs : (file[q])' = file'[q]
  OBVIOUS
<1> QED
  BY <1>2, <1>3 DEF SettingInv

(* The last store of a setting.                                            *)
LEMMA SettingStored ==
  ASSUME SettingInv, NEW p \in Procs, UNCHANGED <<asked, file>>,
         \A q \in Procs \ {p} : pc[q] = "closed" /\ pc'[q] = "closed",
         Writing(p), ~Writing(p)',
         asked[file[p]] # Never => IsSet(file[p])',
         \A f \in Files \ {file[p]} : IsSet(f) => IsSet(f)'
  PROVE  SettingInv'
<1>1. \A q \in Procs : ~Writing(q)'
  BY DEF Writing
<1>2. \A q \in Procs \ {p} : ~Writing(q)
  BY DEF Writing
<1>3. ASSUME NEW f \in Files, asked[f] # Never
      PROVE  asked[f] \in Inputs(f[2]) /\ IsSet(f)'
  <2>1. CASE f = file[p]
    BY <1>3, <2>1 DEF SettingInv
  <2>2. CASE f # file[p]
    <3>1. \A q \in Procs : file[q] = f => ~Writing(q)
      BY <1>2, <2>2
    <3>2. IsSet(f)
      BY <1>3, <3>1 DEF SettingInv
    <3> QED
      BY <1>3, <2>2, <3>2 DEF SettingInv
  <2> QED
    BY <2>1, <2>2
<1> QED
  BY <1>1, <1>3 DEF SettingInv

LEMMA SettingStep ==
  ASSUME Apart, Apart', SettingInv, NEW p \in Procs, Step(p)
  PROVE  SettingInv'
<1> USE DEF buffers, registers, fileVars, locals, history
<1>t. TypeOK /\ CopiesInv
  BY DEF Apart
<1>a. \A q \in Procs \ {p} : pc[q] = "closed" /\ pc'[q] = "closed"
  BY StepAlone
<1>g. ASSUME NEW a, NEW b, Goes(p, a, b) PROVE pc[p] = a /\ pc'[p] = b
  BY <1>g, <1>t DEF Goes, TypeOK
<1>f. file[p] \in Files /\ PwmOf(p) \in PWMs /\ file[p] = <<PwmOf(p), FunctionOf(p)>>
  BY <1>t, PwmAssumption DEF TypeOK, PwmOf, FunctionOf
<1>p. \A f \in Files : f = <<f[1], f[2]>> /\ f[1] \in PWMs
  BY PwmAssumption
<1>1. CASE \/ TestOpened(p) \/ SetOpened(p) \/ Release(p)
           \/ Read(p) \/ GetControl(p) \/ GetClock(p) \/ PrintAnswer(p) \/ Copy(p)
  <2>1. PICK a \in Labels, b \in Labels :
          /\ Goes(p, a, b)
          /\ a \notin {"load", "loadClock", "store", "storeClock"}
          /\ b \notin {"load", "loadClock", "store", "storeClock"}
    BY <1>1 DEF TestOpened, SetOpened, Release, Read, GetControl, GetClock, PrintAnswer, Copy, Labels
  <2>2. ~Writing(p) /\ ~Writing(p)'
    BY <1>g, <2>1 DEF Writing
  <2>3. UNCHANGED <<control, asked>>
    BY <1>1 DEF TestOpened, SetOpened, Release, Read, GetControl, GetClock, PrintAnswer, Copy
  <2> QED
    BY <1>a, <2>2, <2>3, SettingKept
<1>2. CASE LoadControl(p) \/ LoadClock(p)
  <2> DEFINE next == IF FunctionOf(p) = "frequency" THEN "loadClock" ELSE "store"
  <2>1. Goes(p, "load", next) \/ Goes(p, "loadClock", "store")
    BY <1>2 DEF LoadControl, LoadClock
  <2>2. next \in {"loadClock", "store"}
    OBVIOUS
  <2> HIDE DEF next
  <2>3. Writing(p) /\ Writing(p)'
    BY <1>g, <2>1, <2>2 DEF Writing
  <2>4. UNCHANGED <<control, asked, file, kernel_buffer>>
    BY <1>2 DEF LoadControl, LoadClock
  <2> QED
    BY <1>a, <2>3, <2>4, SettingKept
<1>3. CASE Write(p)
  <2>1. pc[p] = "open" /\ pc'[p] = "load" /\ UNCHANGED <<control, file>>
    BY <1>g, <1>3 DEF Write
  <2>2. PICK n \in Inputs(FunctionOf(p)) :
          \/ kernel_buffer' = n /\ asked' = [asked EXCEPT ![file[p]] = n]
          \/ asked' = [asked EXCEPT ![file[p]] = Never]
    BY <1>3 DEF Write
  <2>3. /\ asked'[file[p]] # Never => asked'[file[p]] = n /\ kernel_buffer' = n
        /\ \A f \in Files \ {file[p]} : asked'[f] = asked[f]
    BY <1>t, <1>f, <2>2 DEF TypeOK
  <2>4. \A q \in Procs : ~Writing(q)
    BY <1>a, <2>1 DEF Writing
  <2>5. Writing(p)' /\ \A q \in Procs \ {p} : ~Writing(q)'
    BY <1>a, <2>1 DEF Writing
  <2>6. ASSUME NEW f \in Files, asked'[f] # Never
        PROVE  /\ asked'[f] \in Inputs(f[2])
               /\ (\A q \in Procs : file'[q] = f => ~Writing(q)') => IsSet(f)'
    <3>1. CASE f = file[p]
      BY <2>1, <2>3, <2>5, <2>6, <3>1 DEF FunctionOf
    <3>2. CASE f # file[p]
      <4>1. asked[f] # Never /\ IsSet(f) /\ asked[f] \in Inputs(f[2])
        BY <2>3, <2>4, <2>6, <3>2 DEF SettingInv
      <4>2. IsSet(f)'
        BY <2>1, <2>3, <3>2, <4>1 DEF IsSet
      <4> QED
        BY <2>3, <3>2, <4>1, <4>2
    <3> QED
      BY <3>1, <3>2
  <2>7. ASSUME NEW q \in Procs, Writing(q)', asked'[file'[q]] # Never
        PROVE  kernel_buffer' = asked'[file'[q]]
    BY <2>1, <2>3, <2>5, <2>7
  <2> QED
    BY <2>6, <2>7 DEF SettingInv
<1>4. CASE SetEnabled(p) \/ SetDuty(p) \/ SetFrequency(p)
  <2>1. pc[p] = "store" /\ pc'[p] \in {"open", "storeClock"} /\ UNCHANGED <<file, asked, kernel_buffer>>
    BY <1>g, <1>4 DEF SetEnabled, SetDuty, SetFrequency
  <2>2. controlCopy[p] = control[PwmOf(p)] /\ control \in [PWMs -> Controls]
    BY <1>t, <2>1 DEF CopiesInv, TypeOK
  <2>3. Writing(p)
    BY <2>1 DEF Writing
  <2>4. asked[file[p]] # Never => kernel_buffer = asked[file[p]]
    BY <2>3 DEF SettingInv
  <2>5. ASSUME NEW w \in PWMs, w # PwmOf(p) PROVE control'[w] = control[w]
    BY <1>4, <2>2, <2>5 DEF SetEnabled, SetDuty, SetFrequency, StoreControl
  <2>6. CASE SetEnabled(p)
    <3>1. /\ control'[PwmOf(p)].duty = control[PwmOf(p)].duty
          /\ control'[PwmOf(p)].enabled = (kernel_buffer # 0)
          /\ FunctionOf(p) = "enable"
      BY <2>6, <1>f, <2>2 DEF SetEnabled, StoreControl, Controls
    <3>2. asked[file[p]] # Never => IsSet(file[p])'
      BY <1>f, <2>1, <2>4, <3>1 DEF IsSet
    <3>3. ASSUME NEW f \in Files \ {file[p]}, IsSet(f) PROVE IsSet(f)'
      <4>1. f[1] = PwmOf(p) => f[2] # "enable"
        BY <1>f, <1>p, <3>1
      <4> QED
        BY <1>p, <2>1, <2>5, <3>1, <3>3, <4>1 DEF IsSet
    <3>4. ~Writing(p)'
      BY <1>g, <2>6 DEF SetEnabled, Writing
    <3> QED
      BY <1>a, <2>1, <2>3, <3>2, <3>3, <3>4, SettingStored
  <2>7. CASE SetDuty(p)
    <3>1. /\ control'[PwmOf(p)].enabled = control[PwmOf(p)].enabled
          /\ control'[PwmOf(p)].duty \in StepsOf(kernel_buffer)
          /\ FunctionOf(p) = "duty"
      <4>1. PICK steps \in StepsOf(kernel_buffer) :
              StoreControl(p, [controlCopy[p] EXCEPT !.duty = steps])
        BY <2>7 DEF SetDuty
      <4> QED
        BY <4>1, <2>7, <1>f, <2>2 DEF SetDuty, StoreControl, Controls
    <3>2. ASSUME asked[file[p]] # Never PROVE IsSet(file[p])'
      <4>1. kernel_buffer \in Percents /\ kernel_buffer = asked[file[p]]
        BY <1>f, <2>4, <3>1, <3>2 DEF SettingInv, Inputs
      <4>2. control'[PwmOf(p)].duty = DutySteps(asked[file[p]])
        BY <3>1, <4>1, PwmAssumption DEF StepsOf
      <4> QED
        BY <1>f, <2>1, <3>1, <4>2 DEF IsSet
    <3>3. ASSUME NEW f \in Files \ {file[p]}, IsSet(f) PROVE IsSet(f)'
      <4>1. f[1] = PwmOf(p) => f[2] # "duty"
        BY <1>f, <1>p, <3>1
      <4> QED
        BY <1>p, <2>1, <2>5, <3>1, <3>3, <4>1 DEF IsSet
    <3>4. ~Writing(p)'
      BY <1>g, <2>7 DEF SetDuty, Writing
    <3> QED
      BY <1>a, <2>1, <2>3, <3>2, <3>3, <3>4, SettingStored
  <2>8. CASE SetFrequency(p)
    <3>1. /\ control'[PwmOf(p)].enabled = control[PwmOf(p)].enabled
          /\ control'[PwmOf(p)].duty = control[PwmOf(p)].duty
      <4>1. PICK optimal \in OptimalClocks(kernel_buffer, Garbage) :
              StoreControl(p, [controlCopy[p] EXCEPT !.reloadv = optimal.setting[2]])
        BY <2>8 DEF SetFrequency
      <4> QED
        BY <4>1, <1>f, <2>2 DEF StoreControl, Controls
    <3>2. \A f \in Files : IsSet(f) => IsSet(f)'
      BY <1>p, <2>1, <2>5, <3>1 DEF IsSet
    <3>3. Writing(p)'
      BY <1>g, <2>8 DEF SetFrequency, Writing
    <3>4. \A q \in Procs \ {p} : ~Writing(q) /\ ~Writing(q)'
      BY <1>a DEF Writing
    <3>5. ASSUME NEW f \in Files, asked'[f] # Never
          PROVE  /\ asked'[f] \in Inputs(f[2])
                 /\ (\A q \in Procs : file'[q] = f => ~Writing(q)') => IsSet(f)'
      <4>1. asked[f] # Never
        BY <2>1, <3>5
      <4>2. ASSUME \A q \in Procs : file'[q] = f => ~Writing(q)' PROVE IsSet(f)
        <5>1. \A q \in Procs : file[q] = f => ~Writing(q)
          BY <2>1, <3>3, <3>4, <4>2
        <5> QED
          BY <4>1, <5>1 DEF SettingInv
      <4> QED
        BY <2>1, <3>2, <4>1, <4>2 DEF SettingInv
    <3>6. ASSUME NEW q \in Procs, Writing(q)', asked'[file'[q]] # Never
          PROVE  kernel_buffer' = asked'[file'[q]]
      BY <2>1, <2>4, <3>4, <3>6
    <3> QED
      BY <3>5, <3>6 DEF SettingInv
  <2> QED
    BY <1>4, <2>6, <2>7, <2>8
<1>5. CASE StoreClock(p)
  <2>1. pc[p] = "storeClock" /\ pc'[p] = "open" /\ UNCHANGED <<file, asked, control>>
    BY <1>g, <1>5 DEF StoreClock
  <2>2. FunctionOf(p) = "frequency"
    BY <1>t, <2>1 DEF CopiesInv
  <2>3. IsSet(file[p])'
    BY <1>f, <2>1, <2>2 DEF IsSet
  <2>4. \A f \in Files : IsSet(f) => IsSet(f)'
    BY <2>1 DEF IsSet
  <2>5. Writing(p) /\ ~Writing(p)'
    BY <2>1 DEF Writing
  <2> QED
    BY <1>a, <2>1, <2>3, <2>4, <2>5, SettingStored
<1> QED
  BY <1>1, <1>2, <1>3, <1>4, <1>5 DEF Step

LEMMA InitBack == Init => AnswerInv /\ SettingInv
BY DEF Init, AnswerInv, Answering, SettingInv, Writing

LEMMA BackStep ==
  ASSUME Back, [Next]_vars, ~overlapped'
  PROVE  Back'
<1>1. Apart /\ AnswerInv /\ SettingInv /\ Apart'
  BY ApartStep DEF Back
<1>2. CASE UNCHANGED vars
  <2> USE DEF vars, buffers, registers, fileVars, locals, history
  <2>1. \A p \in Procs : Answering(p) => Answering(p)'
    BY <1>2, HeldKept DEF Answering
  <2>2. \A p \in Procs : Writing(p)' = Writing(p)
    BY <1>2 DEF Writing
  <2>3. \A f \in Files : IsSet(f)' = IsSet(f)
    BY <1>2 DEF IsSet
  <2>4. AnswerInv'
    BY <1>1, <2>1 DEF AnswerInv
  <2>5. SettingInv'
    BY <1>1, <1>2, <2>2, <2>3 DEF SettingInv
  <2> QED
    BY <1>1, <2>4, <2>5 DEF Back
<1>3. CASE Next
  <2>1. PICK p \in Procs : Step(p)
    BY <1>3 DEF Next, Step
  <2> QED
    BY <1>1, <2>1, AnswerStep, SettingStep DEF Back
<1> QED
  BY <1>2, <1>3

LEMMA PercentsNatural == Percents \subseteq Nat
<1>1. Percents \subseteq 0..MaxPercent
  BY PwmAssumption
<1>2. \A m \in Int : 0..m \subseteq Nat
  OBVIOUS
<1>3. MaxPercent \in Int
  BY DEF MaxPercent
<1> QED
  BY <1>1, <1>2, <1>3

LEMMA SpecBack == Spec => []BackInv
<1>1. ASSUME Init PROVE BackInv
  <2>1. ~overlapped /\ AnswerInv /\ SettingInv
    BY <1>1, InitBack DEF Init
  <2>2. ~deviceOpened /\ \A p \in Procs : pc[p] = "closed"
    BY <1>1 DEF Init
  <2>3. Apart
    BY <1>1, <2>2, TypeInit DEF Apart, AtMostOne, FlagInv, CopiesInv
  <2> QED
    BY <1>1, <2>1, <2>3, TypeInit DEF BackInv, Back
<1>2. ASSUME BackInv, [Next]_vars PROVE BackInv'
  BY <1>2, TypeStep, OverlapStays, BackStep DEF BackInv
<1> QED
  BY <1>1, <1>2, PTL DEF Spec

(* Reading enable or the duty cycle gives what was last written to the     *)
(* same file, whoever used the shared buffer and the shared registers for  *)
(* other files in between (pwm.c:120-140, 209-227; file.c:53-150).         *)
THEOREM SettingsReadBack == Spec => []ReadsBack
<1>1. BackInv => ReadsBack
  <2> SUFFICES ASSUME Back, NEW p \in Procs, answer[p] # Never, asked[file[p]] # Never
               PROVE  /\ FunctionOf(p) = "enable" => answer[p] = asked[file[p]]
                      /\ FunctionOf(p) = "duty" /\ asked[file[p]] <= 100
                           => answer[p] \in {asked[file[p]], asked[file[p]] - 1}
    BY DEF ReadsBack, BackInv
  <2> DEFINE n == asked[file[p]]
  <2>1. TypeOK /\ AtMostOne /\ Answering(p) /\ SettingInv
    BY DEF Back, Apart, AnswerInv
  <2>2. file[p] \in Files /\ file[p][1] = PwmOf(p) /\ file[p][2] = FunctionOf(p)
    BY <2>1 DEF TypeOK, PwmOf, FunctionOf
  <2>3. pc[p] \in {"open", "get", "getClock", "print", "copy"} /\ answer[p] = Held(p)
    BY <2>1 DEF Answering
  <2>4. \A q \in Procs : ~Writing(q)
    BY <2>1, <2>3 DEF AtMostOne, Writing
  <2>5. n \in Inputs(FunctionOf(p)) /\ IsSet(file[p])
    BY <2>1, <2>2, <2>4 DEF SettingInv
  <2>6. CASE FunctionOf(p) = "enable"
    <3>1. n \in {0, 1} /\ control[PwmOf(p)].enabled = (n # 0)
      BY <2>2, <2>5, <2>6 DEF Inputs, IsSet
    <3>2. answer[p] = IF control[PwmOf(p)].enabled THEN 1 ELSE 0
      BY <2>3, <2>6 DEF Held
    <3> QED
      BY <2>6, <3>1, <3>2
  <2>7. CASE FunctionOf(p) = "duty"
    <3>1. n \in Percents /\ control[PwmOf(p)].duty = DutySteps(n)
      BY <2>2, <2>5, <2>7 DEF Inputs, IsSet
    <3>2. answer[p] = DutyPercent(DutySteps(n))
      BY <2>3, <2>7, <3>1 DEF Held
    <3>3. n \in Nat
      BY <3>1, PercentsNatural
    <3>4. n <= 100 => answer[p] \in {n, n - 1}
      BY <3>2, <3>3, DutyRoundTrip
    <3> QED
      BY <2>7, <3>4
  <2> QED
    BY <2>6, <2>7
<1> QED
  BY <1>1, SpecBack, PTL

(* What is read from PWM 1's frequency file is the frequency it runs at    *)
(* (pwm.c:142-207); for PWM 2's it is not (FrequencyReadsBack).            *)
THEOREM FirstFrequency == Spec => []FirstFrequencyReadsBack
<1>1. BackInv => FirstFrequencyReadsBack
  <2> SUFFICES ASSUME Back, NEW p \in Procs, answer[p] # Never, file[p] = <<1, "frequency">>
               PROVE  answer[p] = RunsAt(1)
    BY DEF FirstFrequencyReadsBack, BackInv
  <2>1. answer[p] = Held(p) /\ PwmOf(p) = 1 /\ FunctionOf(p) = "frequency"
    BY DEF Back, AnswerInv, Answering, PwmOf, FunctionOf
  <2> QED
    BY <2>1 DEF Held, PrintedFrequency, RunsAt
<1> QED
  BY <1>1, SpecBack, PTL

-----------------------------------------------------------------------------
(* The driver implements the service.                                      *)

(* What the service sees of a step from label a to label b.                *)
LEMMA Moves ==
  ASSUME Apart, Apart', NEW p \in Procs, Step(p), NEW a, NEW b, Goes(p, a, b)
  PROVE  /\ pc[p] = a /\ pc'[p] = b
         /\ Phase[p] = PhaseOf(a) /\ Phase' = [Phase EXCEPT ![p] = PhaseOf(b)]
         /\ \A q \in Procs \ {p} : Phase[q] = "out"
         /\ Uses[p] = IF PhaseOf(a) = "out" THEN <<0, "none">> ELSE file[p]
         /\ Uses' = [Uses EXCEPT ![p] =
                       IF PhaseOf(b) = "out" THEN <<0, "none">> ELSE file'[p]]
         /\ Wish[p] = IF PhaseOf(a) = "writing" THEN asked[file[p]] ELSE Never
         /\ Wish' = [Wish EXCEPT ![p] =
                       IF PhaseOf(b) = "writing" THEN asked'[file'[p]] ELSE Never]
         /\ ClockToCome = IF a = "storeClock" THEN clockCopy[p] ELSE clock
         /\ ClockToCome' = IF b = "storeClock" THEN clockCopy'[p] ELSE clock'
<1>1. \A q \in Procs \ {p} : pc[q] = "closed" /\ pc'[q] = "closed"
  BY StepAlone
<1>2. pc[p] = a /\ pc'[p] = b
  BY DEF Goes, Apart, TypeOK
<1>3. PhaseOf("closed") = "out"
  BY DEF PhaseOf
<1> DEFINE here == PhaseOf(a)  there == PhaseOf(b)
<1>4. /\ Phase = [q \in Procs |-> IF q = p THEN here ELSE "out"]
      /\ Phase' = [q \in Procs |-> IF q = p THEN there ELSE "out"]
  BY <1>1, <1>2, <1>3 DEF Phase
<1> HIDE DEF here, there
<1>5. /\ Uses = [q \in Procs |-> IF q = p /\ here # "out" THEN file[p] ELSE <<0, "none">>]
      /\ Uses' = [q \in Procs |-> IF q = p /\ there # "out" THEN file'[p] ELSE <<0, "none">>]
  BY <1>4 DEF Uses
<1>6. /\ Wish = [q \in Procs |-> IF q = p /\ here = "writing" THEN asked[file[p]] ELSE Never]
      /\ Wish' = [q \in Procs |-> IF q = p /\ there = "writing" THEN asked'[file'[p]] ELSE Never]
  BY <1>4 DEF Wish
<1>7. ClockToCome = IF a = "storeClock" THEN clockCopy[p] ELSE clock
  <2>1. \A q \in Procs : pc[q] = "storeClock" <=> q = p /\ a = "storeClock"
    BY <1>1, <1>2
  <2> QED BY <2>1 DEF ClockToCome
<1>8. ClockToCome' = IF b = "storeClock" THEN clockCopy'[p] ELSE clock'
  <2>1. \A q \in Procs : pc'[q] = "storeClock" <=> q = p /\ b = "storeClock"
    BY <1>1, <1>2
  <2> QED BY <2>1 DEF ClockToCome
<1>9. Phase[p] = here /\ Phase' = [Phase EXCEPT ![p] = there]
      /\ \A q \in Procs \ {p} : Phase[q] = "out"
  BY <1>4
<1>10. /\ Uses[p] = IF here = "out" THEN <<0, "none">> ELSE file[p]
       /\ Uses' = [Uses EXCEPT ![p] = IF there = "out" THEN <<0, "none">> ELSE file'[p]]
  BY <1>5
<1>11. /\ Wish[p] = IF here = "writing" THEN asked[file[p]] ELSE Never
       /\ Wish' = [Wish EXCEPT ![p] = IF there = "writing" THEN asked'[file'[p]] ELSE Never]
  BY <1>6
<1> QED BY <1>2, <1>7, <1>8, <1>9, <1>10, <1>11 DEF here, there

(* The settings stay if the registers do and the clock to come.            *)
LEMMA SettingsStay ==
  ASSUME UNCHANGED control, ClockToCome' = ClockToCome
  PROVE  UNCHANGED <<Enabled, Duty, Rate>>
BY DEF Enabled, Duty, Rate

(* A step within one phase that changes nothing the service knows.         *)
LEMMA Unseen ==
  ASSUME Apart, Apart', NEW p \in Procs, Step(p), NEW a, NEW b, Goes(p, a, b),
         PhaseOf(a) = PhaseOf(b), PhaseOf(a) # "out" => file' = file,
         UNCHANGED <<control, asked, answer, overlapped>>,
         b = "storeClock" => a = "storeClock",
         IF a # "storeClock" THEN clock' = clock
         ELSE IF b = "storeClock" THEN clockCopy' = clockCopy ELSE clock' = clockCopy[p]
  PROVE  UNCHANGED Service!vars
<1>1. ClockToCome' = ClockToCome
  BY Moves
<1>2. UNCHANGED <<Enabled, Duty, Rate>>
  BY <1>1, SettingsStay
<1>3. Phase' = Phase /\ Uses' = Uses /\ Wish' = Wish
  <2>1. /\ Phase \in [Procs -> {Phase[q] : q \in Procs}]
        /\ Uses \in [Procs -> {Uses[q] : q \in Procs}]
        /\ Wish \in [Procs -> {Wish[q] : q \in Procs}]
    BY DEF Phase, Uses, Wish
  <2>2. Phase' = [Phase EXCEPT ![p] = Phase[p]] /\ Uses' = [Uses EXCEPT ![p] = Uses[p]]
        /\ Wish' = [Wish EXCEPT ![p] = Wish[p]]
    BY Moves
  <2> QED BY <2>1, <2>2
<1> QED BY <1>2, <1>3 DEF Service!vars, Service!settings

(* Steps that the service does not see: into dev_open, and up to the first *)
(* store of a write and the copy of a read.                                *)
LEMMA QuietStep ==
  ASSUME Apart, Apart', NEW p \in Procs,
         overlapped' = overlapped,
         \/ TestOpened(p) \/ LoadControl(p) \/ LoadClock(p) \/ StoreClock(p)
         \/ Read(p) \/ GetControl(p) \/ GetClock(p) \/ PrintAnswer(p)
  PROVE  UNCHANGED Service!vars
<1> USE DEF buffers, registers, fileVars, locals, history
<1>1. Step(p)
  BY DEF Step
<1>2. CASE TestOpened(p)
  <2>1. Goes(p, "closed", "opening") /\ UNCHANGED <<control, clock, file, asked, answer, overlapped>>
    BY <1>2 DEF TestOpened
  <2>2. PhaseOf("closed") = PhaseOf("opening")
    BY DEF PhaseOf
  <2> QED BY <1>1, <2>1, <2>2, Unseen
<1>3. CASE LoadControl(p)
  <2>1. PICK b \in {"loadClock", "store"} : Goes(p, "load", b)
    BY <1>3 DEF LoadControl
  <2>2. UNCHANGED <<control, clock, file, asked, answer, overlapped>>
    BY <1>3 DEF LoadControl
  <2>3. PhaseOf("load") = PhaseOf(b) /\ b # "storeClock"
    BY DEF PhaseOf
  <2> QED BY <1>1, <2>1, <2>2, <2>3, Unseen
<1>4. CASE LoadClock(p)
  <2>1. Goes(p, "loadClock", "store") /\ UNCHANGED <<control, clock, file, asked, answer, overlapped>>
    BY <1>4 DEF LoadClock
  <2>2. PhaseOf("loadClock") = PhaseOf("store")
    BY DEF PhaseOf
  <2> QED BY <1>1, <2>1, <2>2, Unseen
<1>5. CASE StoreClock(p)
  <2>1. /\ Goes(p, "storeClock", "open") /\ UNCHANGED <<control, file, asked, answer, overlapped>>
        /\ clock' = clockCopy[p]
    BY <1>5 DEF StoreClock
  <2>2. PhaseOf("storeClock") = PhaseOf("open")
    BY DEF PhaseOf
  <2> QED BY <1>1, <2>1, <2>2, Unseen
<1>6. CASE Read(p) \/ GetControl(p) \/ GetClock(p) \/ PrintAnswer(p)
  <2>1. PICK a, b \in {"open", "get", "getClock", "print", "copy"} : Goes(p, a, b)
    BY <1>6 DEF Read, GetControl, GetClock, PrintAnswer
  <2>2. UNCHANGED <<control, clock, file, asked, answer, overlapped>>
    BY <1>6 DEF Read, GetControl, GetClock, PrintAnswer
  <2>3. PhaseOf(a) = "in" /\ PhaseOf(b) = "in" /\ a # "storeClock" /\ b # "storeClock"
    BY DEF PhaseOf
  <2> QED BY <1>1, <2>1, <2>2, <2>3, Unseen
<1> QED BY <1>2, <1>3, <1>4, <1>5, <1>6

(* The flag lets one process in at a time.                                 *)
LEMMA OpenEnters ==
  ASSUME Apart, Apart', NEW p \in Procs, SetOpened(p)
  PROVE  Service!Enter(p)
<1> USE DEF buffers, registers, fileVars, locals, history
<1>1. Step(p) /\ Goes(p, "opening", "open")
  BY DEF Step, SetOpened
<1>2. PICK f \in Files : file' = [file EXCEPT ![p] = f]
  BY DEF SetOpened
<1>3. PhaseOf("opening") = "out" /\ PhaseOf("open") = "in"
  BY DEF PhaseOf
<1>4. /\ Phase[p] = "out" /\ Phase' = [Phase EXCEPT ![p] = "in"]
      /\ \A q \in Procs \ {p} : Phase[q] = "out"
      /\ Uses' = [Uses EXCEPT ![p] = file'[p]]
      /\ Wish' = [Wish EXCEPT ![p] = Never] /\ Wish[p] = Never
      /\ ClockToCome' = clock' /\ ClockToCome = clock
  BY <1>1, <1>3, Moves
<1>5. Wish' = Wish
  BY <1>4 DEF Wish
<1>6. file'[p] = f
  BY <1>2 DEF Apart, TypeOK
<1>7. UNCHANGED <<answer, Enabled, Duty, Rate>>
  BY <1>4, SettingsStay DEF SetOpened
<1> QED
  BY <1>4, <1>5, <1>6, <1>7 DEF Service!Enter, Service!Goes, Service!settings

LEMMA ReleaseLeaves ==
  ASSUME Apart, Apart', NEW p \in Procs, Release(p)
  PROVE  Service!Leave(p)
<1> USE DEF buffers, registers, fileVars, locals, history
<1>1. Step(p) /\ Goes(p, "open", "closed")
  BY DEF Step, Release
<1>2. PhaseOf("open") = "in" /\ PhaseOf("closed") = "out"
  BY DEF PhaseOf
<1>3. /\ Phase[p] = "in" /\ Phase' = [Phase EXCEPT ![p] = "out"]
      /\ Uses' = [Uses EXCEPT ![p] = <<0, "none">>]
      /\ Wish' = [Wish EXCEPT ![p] = Never] /\ Wish[p] = Never
      /\ ClockToCome' = clock' /\ ClockToCome = clock
  BY <1>1, <1>2, Moves
<1>4. Wish' = Wish
  BY <1>3 DEF Wish
<1>5. UNCHANGED <<Enabled, Duty, Rate>> /\ answer' = [answer EXCEPT ![p] = Never]
  BY <1>3, SettingsStay DEF Release
<1> QED
  BY <1>3, <1>4, <1>5 DEF Service!Leave, Service!Goes, Service!settings, Service!NoFile,
                          Service!Never, Never

(* The number comes from the user, or from the buffer, which may hold any. *)
LEMMA WriteWrites ==
  ASSUME Apart, Apart', NEW p \in Procs, Write(p)
  PROVE  Service!Write(p)
<1> USE DEF buffers, registers, fileVars, locals, history
<1>1. Step(p) /\ Goes(p, "open", "load")
  BY DEF Step, Write
<1>2. PhaseOf("open") = "in" /\ PhaseOf("load") = "writing"
  BY DEF PhaseOf
<1>3. file[p] \in Files /\ FunctionOf(p) = file[p][2] /\ file[p][2] \in Functions
  BY PwmAssumption DEF Apart, TypeOK, FunctionOf
<1>4. /\ Phase[p] = "in" /\ Phase' = [Phase EXCEPT ![p] = "writing"]
      /\ Uses[p] = file[p] /\ Uses' = [Uses EXCEPT ![p] = file'[p]]
      /\ Wish' = [Wish EXCEPT ![p] = asked'[file'[p]]]
      /\ ClockToCome' = clock' /\ ClockToCome = clock
  BY <1>1, <1>2, Moves
<1>5. Uses' = Uses
  BY <1>4 DEF Uses, Write
<1>6. asked'[file'[p]] \in Inputs(file[p][2]) \cup {Never}
  BY <1>3 DEF Write, Apart, TypeOK
<1>7. UNCHANGED <<Enabled, Duty, Rate>> /\ answer' = [answer EXCEPT ![p] = Never]
  BY <1>4, SettingsStay DEF Write
<1>8. [function \in Functions |-> Inputs(function)][Uses[p][2]] = Inputs(file[p][2])
  BY <1>3, <1>4
<1> QED
  BY <1>4, <1>5, <1>6, <1>7, <1>8 DEF Service!Write, Service!Goes, Service!settings,
                                      Service!Never, Never

(* What a process that stores sees and knows.                              *)
LEMMA Storer ==
  ASSUME Back, Apart', NEW p \in Procs, Step(p), NEW b, Goes(p, "store", b),
         PhaseOf(b) = "in", file' = file
  PROVE  /\ Service!Goes(p, "writing", "in")
         /\ Uses[p] = file[p] /\ Uses' = Uses
         /\ Wish[p] = asked[file[p]] /\ Wish' = [Wish EXCEPT ![p] = Never]
         /\ Wish[p] # Never => kernel_buffer = Wish[p]
         /\ kernel_buffer \in Int
         /\ controlCopy[p] = control[PwmOf(p)]
         /\ PwmOf(p) = Uses[p][1] /\ FunctionOf(p) = Uses[p][2] /\ PwmOf(p) \in PWMs
<1>1. PhaseOf("store") = "writing"
  BY DEF PhaseOf
<1>2. Apart /\ TypeOK /\ CopiesInv /\ SettingInv
  BY DEF Back, Apart
<1>3. file[p] \in Files /\ PwmOf(p) = file[p][1] /\ FunctionOf(p) = file[p][2]
  BY <1>2 DEF TypeOK, PwmOf, FunctionOf
<1>4. /\ pc[p] = "store"
      /\ Phase[p] = "writing" /\ Phase' = [Phase EXCEPT ![p] = "in"]
      /\ Uses[p] = file[p] /\ Uses' = [Uses EXCEPT ![p] = file[p]]
      /\ Wish[p] = asked[file[p]] /\ Wish' = [Wish EXCEPT ![p] = Never]
  BY <1>1, <1>2, Moves
<1>5. Uses' = Uses
  BY <1>4 DEF Uses
<1>6. Wish[p] # Never => kernel_buffer = Wish[p]
  BY <1>2, <1>4 DEF SettingInv, Writing
<1>7. controlCopy[p] = control[PwmOf(p)] /\ PwmOf(p) \in PWMs
  BY <1>2, <1>3, <1>4, PwmAssumption DEF CopiesInv
<1>8. kernel_buffer \in Int
  BY <1>2 DEF TypeOK
<1> QED BY <1>3, <1>4, <1>5, <1>6, <1>7, <1>8 DEF Service!Goes

(* What is on its way to a register is a number users may write.           *)
LEMMA Wished ==
  ASSUME Back, NEW p \in Procs, pc[p] = "store", Wish[p] # Never
  PROVE  kernel_buffer = Wish[p] /\ Wish[p] \in Inputs(FunctionOf(p))
<1>1. TypeOK /\ SettingInv /\ file[p] \in Files
  BY DEF Back, Apart, TypeOK
<1>2. Wish[p] = asked[file[p]] /\ Writing(p)
  BY DEF Wish, Phase, PhaseOf, Writing
<1> QED BY <1>1, <1>2 DEF SettingInv, FunctionOf

LEMMA EnableApplies ==
  ASSUME Back, Apart', NEW p \in Procs, SetEnabled(p)
  PROVE  Service!Apply(p)
<1> USE DEF buffers, registers, fileVars, locals, history
<1>1. Apart /\ TypeOK
  BY DEF Back, Apart
<1>2. Step(p) /\ Goes(p, "store", "open") /\ file' = file /\ FunctionOf(p) = "enable"
  BY DEF Step, SetEnabled
<1>3. PhaseOf("open") = "in"
  BY DEF PhaseOf
<1>4. PICK w \in PWMs : w = PwmOf(p)
  BY <1>2, <1>3, Storer
<1>5. /\ Service!Goes(p, "writing", "in") /\ Uses' = Uses
      /\ Wish' = [Wish EXCEPT ![p] = Never]
      /\ Wish[p] # Never => kernel_buffer = Wish[p]
      /\ Uses[p][1] = w /\ Uses[p][2] = "enable"
  BY <1>2, <1>3, <1>4, Storer
<1>6. control' = [control EXCEPT ![w] = [control[w] EXCEPT !.enabled = kernel_buffer # 0]]
  BY <1>2, <1>3, <1>4, Storer DEF SetEnabled, StoreControl
<1>7. /\ control \in [PWMs -> Controls] /\ control[w] \in Controls
  BY <1>1 DEF TypeOK
<1>8. /\ control'[w].enabled = (kernel_buffer # 0)
      /\ control'[w].duty = control[w].duty /\ control'[w].reloadv = control[w].reloadv
      /\ \A v \in PWMs \ {w} : control'[v] = control[v]
  BY <1>6, <1>7 DEF Controls
<1>9. Enabled' = [Enabled EXCEPT ![w] = (kernel_buffer # 0)] /\ Enabled'[w] = (kernel_buffer # 0)
  BY <1>8 DEF Enabled
<1>10. Duty' = Duty
  BY <1>8 DEF Duty
<1>11. Rate' = Rate
  <2>1. ClockToCome' = ClockToCome
    BY <1>1, <1>2, Moves DEF SetEnabled
  <2> QED BY <1>8, <2>1 DEF Rate
<1>12. Enabled'[w] \in Service!EnabledAs(Wish[p])
  <2>1. PICK on \in BOOLEAN : on = (kernel_buffer # 0)
    OBVIOUS
  <2>2. Enabled'[w] = on
    BY <1>9, <2>1, Zenon
  <2>3. Service!Never = Never
    BY DEF Service!Never, Never
  <2>4. CASE Wish[p] = Never
    BY <2>2, <2>3, <2>4, Zenon DEF Service!EnabledAs, Service!Means
  <2>5. CASE Wish[p] # Never
    <3>1. Service!EnabledAs(Wish[p]) = {Wish[p] # 0}
      BY <2>3, <2>5, Zenon DEF Service!EnabledAs, Service!Means
    <3>2. on = (Wish[p] # 0)
      BY <1>5, <2>1, <2>5, Zenon
    <3> QED BY <2>2, <3>1, <3>2, Zenon
  <2> QED BY <2>4, <2>5
<1>13. Service!SetEnabled(w, Wish[p])
  BY <1>9, <1>10, <1>11, <1>12 DEF Service!SetEnabled, Service!Becomes
<1>14. answer' = answer
  BY DEF SetEnabled
<1> QED BY <1>5, <1>13, <1>14 DEF Service!Apply, Service!Never, Never

LEMMA DutyApplies ==
  ASSUME Back, Apart', NEW p \in Procs, SetDuty(p)
  PROVE  Service!Apply(p)
<1> USE DEF buffers, registers, fileVars, locals, history
<1>1. Apart /\ TypeOK
  BY DEF Back, Apart
<1>2. Step(p) /\ Goes(p, "store", "open") /\ file' = file /\ FunctionOf(p) = "duty"
  BY DEF Step, SetDuty
<1>3. PhaseOf("open") = "in"
  BY DEF PhaseOf
<1>4. PICK w \in PWMs : w = PwmOf(p)
  BY <1>2, <1>3, Storer
<1>5. /\ Service!Goes(p, "writing", "in") /\ Uses' = Uses
      /\ Wish' = [Wish EXCEPT ![p] = Never]
      /\ Wish[p] # Never => kernel_buffer = Wish[p]
      /\ Uses[p][1] = w /\ Uses[p][2] = "duty" /\ kernel_buffer \in Int
  BY <1>2, <1>3, <1>4, Storer
<1>6. PICK steps \in StepsOf(kernel_buffer) :
        StoreControl(p, [controlCopy[p] EXCEPT !.duty = steps])
  BY DEF SetDuty
<1>7. control' = [control EXCEPT ![w] = [control[w] EXCEPT !.duty = steps]]
  BY <1>2, <1>3, <1>4, <1>6, Storer DEF StoreControl
<1>8. /\ control \in [PWMs -> Controls] /\ control[w] \in Controls
  BY <1>1 DEF TypeOK
<1>9. /\ control'[w].enabled = control[w].enabled
      /\ control'[w].duty = steps /\ control'[w].reloadv = control[w].reloadv
      /\ \A v \in PWMs \ {w} : control'[v] = control[v]
  BY <1>7, <1>8 DEF Controls
<1>10. Duty' = [Duty EXCEPT ![w] = steps] /\ Duty'[w] = steps
  BY <1>9 DEF Duty
<1>11. Enabled' = Enabled
  BY <1>9 DEF Enabled
<1>12. Rate' = Rate
  <2>1. ClockToCome' = ClockToCome
    BY <1>1, <1>2, Moves DEF SetDuty
  <2> QED BY <1>9, <2>1 DEF Rate
<1>13. Duty'[w] \in Service!DutyAs(Wish[p])
  <2>1. steps \in 0..255
    BY <1>5, <1>6, StepsFit
  <2>2. Service!Never = Never
    BY DEF Service!Never, Never
  <2>3. CASE Wish[p] = Never
    BY <1>10, <2>1, <2>2, <2>3 DEF Service!DutyAs, Service!Means
  <2>4. CASE Wish[p] # Never
    <3>1. Service!DutyAs(Wish[p]) = {Service!DutySteps(Wish[p])}
      BY <2>2, <2>4, Zenon DEF Service!DutyAs, Service!Means
    <3>2. steps = Service!DutySteps(Wish[p])
      <4>1. kernel_buffer \in Percents /\ kernel_buffer = Wish[p]
        <5>1. kernel_buffer = Wish[p] /\ Wish[p] \in Inputs(FunctionOf(p))
          BY <1>2, <2>4, Wished DEF Goes
        <5> QED BY <1>2, <5>1 DEF Inputs
      <4> QED BY <1>6, <4>1, PwmAssumption DEF StepsOf, Service!DutySteps, DutySteps
    <3> QED BY <1>10, <3>1, <3>2, Zenon
  <2> QED BY <2>3, <2>4
<1>14. Service!SetDuty(w, Wish[p])
  BY <1>10, <1>11, <1>12, <1>13 DEF Service!SetDuty, Service!Becomes
<1>15. answer' = answer
  BY DEF SetDuty
<1> QED BY <1>5, <1>14, <1>15 DEF Service!Apply, Service!Never, Never

(* The store of the reload value counts as that of the clock, too.         *)
LEMMA FrequencyApplies ==
  ASSUME Back, Apart', NEW p \in Procs, SetFrequency(p)
  PROVE  Service!Apply(p)
<1> USE DEF buffers, registers, fileVars, locals, history
<1>1. Apart /\ TypeOK /\ CopiesInv
  BY DEF Back, Apart
<1>2. Step(p) /\ Goes(p, "store", "storeClock") /\ file' = file /\ FunctionOf(p) = "frequency"
  BY DEF Step, SetFrequency
<1>3. PhaseOf("storeClock") = "in"
  BY DEF PhaseOf
<1>4. PICK w \in PWMs : w = PwmOf(p)
  BY <1>2, <1>3, Storer
<1>5. /\ Service!Goes(p, "writing", "in") /\ Uses' = Uses
      /\ Wish' = [Wish EXCEPT ![p] = Never]
      /\ Wish[p] # Never => kernel_buffer = Wish[p]
      /\ Uses[p][1] = w /\ Uses[p][2] = "frequency" /\ kernel_buffer \in Int
  BY <1>2, <1>3, <1>4, Storer
<1>6. PICK optimal \in OptimalClocks(kernel_buffer, Garbage) :
        /\ control' = [control EXCEPT ![w] = [control[w] EXCEPT !.reloadv = optimal.setting[2]]]
        /\ clockCopy' = [clockCopy EXCEPT ![p][w] =
                            [source |-> optimal.source, freq |-> optimal.setting[1]]]
  <2>1. controlCopy[p] = control[w] /\ PwmOf(p) = w
    BY <1>2, <1>3, <1>4, Storer
  <2>2. PICK optimal \in OptimalClocks(kernel_buffer, Garbage) :
          /\ StoreControl(p, [controlCopy[p] EXCEPT !.reloadv = optimal.setting[2]])
          /\ clockCopy' = [clockCopy EXCEPT ![p][PwmOf(p)] =
                              [source |-> optimal.source, freq |-> optimal.setting[1]]]
    BY DEF SetFrequency
  <2> QED BY <2>1, <2>2, Zenon DEF StoreControl
<1>7. /\ control \in [PWMs -> Controls] /\ control[w] \in Controls
      /\ clockCopy \in [Procs -> Clocks] /\ clock \in Clocks
  BY <1>1 DEF TypeOK
<1>8. /\ control'[w].enabled = control[w].enabled /\ control'[w].duty = control[w].duty
      /\ control'[w].reloadv = optimal.setting[2]
      /\ \A v \in PWMs \ {w} : control'[v] = control[v]
  BY <1>6, <1>7 DEF Controls
<1>9. clockCopy[p] = clock
  BY <1>1, <1>2 DEF CopiesInv, Goes
<1>10. clockCopy'[p] = [clock EXCEPT ![w] = [source |-> optimal.source, freq |-> optimal.setting[1]]]
  BY <1>6, <1>7, <1>9
<1>11. ClockToCome = clock /\ ClockToCome' = clockCopy'[p]
  BY <1>1, <1>2, Moves
<1> DEFINE new == [source |-> optimal.source, freq |-> optimal.setting[1],
                   reloadv |-> optimal.setting[2]]
<1>12. Rate'[w] = new /\ Rate' = [Rate EXCEPT ![w] = new]
  <2>1. /\ ClockToCome'[w] = [source |-> optimal.source, freq |-> optimal.setting[1]]
        /\ \A v \in PWMs \ {w} : ClockToCome'[v] = ClockToCome[v]
    BY <1>7, <1>10, <1>11 DEF Clocks
  <2>2. Rate'[w] = new
    BY <1>8, <2>1 DEF Rate
  <2>3. \A v \in PWMs \ {w} : Rate'[v] = Rate[v]
    BY <1>8, <2>1 DEF Rate
  <2> QED BY <2>2, <2>3 DEF Rate
<1>13. Enabled' = Enabled /\ Duty' = Duty
  BY <1>8 DEF Enabled, Duty
<1>14. Rate'[w] \in Service!RateAs(Wish[p])
  <2>1. new \in {[source |-> o.source, freq |-> o.setting[1], reloadv |-> o.setting[2]] :
                   o \in OptimalClocks(kernel_buffer, Garbage)}
    OBVIOUS
  <2>2. new \in Service!Rates
    <3>1. /\ optimal.source \in Sources /\ optimal.setting[1] \in FreqValues
          /\ optimal.setting[2] \in ReloadValues
      BY <1>5, OptimalFits, PwmAssumption
    <3> QED BY <3>1 DEF Service!Rates, Service!Sources, Service!FreqValues,
                        Service!ReloadValues, Sources, FreqValues, ReloadValues
  <2>3. Service!Never = Never
    BY DEF Service!Never, Never
  <2>4. CASE Wish[p] = Never
    <3>1. Service!RateAs(Wish[p]) = Service!Rates
      BY <2>3, <2>4, Zenon DEF Service!RateAs, Service!Means
    <3> QED BY <1>12, <2>2, <3>1, Zenon
  <2>5. CASE Wish[p] # Never
    <3>1. Service!OptimalClocks(Wish[p], Garbage) = OptimalClocks(Wish[p], Garbage)
      BY DEF Service!OptimalClocks, OptimalClocks, Service!Best, Best, Service!Distance, Distance,
             Service!Divider, Divider, Service!Normalized, Normalized, Service!TriedBefore,
             TriedBefore, Service!Settings, Settings, Service!AbsoluteValue, AbsoluteValue,
             Service!ReloadValues, ReloadValues
    <3>2. Service!RateAs(Wish[p]) =
            {[source |-> o.source, freq |-> o.setting[1], reloadv |-> o.setting[2]] :
               o \in Service!OptimalClocks(Wish[p], Garbage)}
      BY <2>3, <2>5, Zenon DEF Service!RateAs, Service!Means
    <3> QED BY <1>5, <1>12, <2>1, <2>5, <3>1, <3>2, Zenon
  <2> QED BY <2>4, <2>5
<1>15. Service!SetRate(w, Wish[p])
  BY <1>12, <1>13, <1>14 DEF Service!SetRate, Service!Becomes
<1>16. answer' = answer
  BY DEF SetFrequency
<1> QED BY <1>5, <1>15, <1>16 DEF Service!Apply, Service!Never, Never

(* The copy of an answer tells what the file's setting is at this moment.  *)
LEMMA CopyReads ==
  ASSUME Back, Apart', NEW p \in Procs, Copy(p)
  PROVE  Service!Read(p) \/ UNCHANGED Service!vars
<1> USE DEF buffers, registers, fileVars, locals, history
<1>1. Apart /\ TypeOK /\ Answering(p)
  BY DEF Back, Apart, AnswerInv
<1>2. Step(p) /\ Goes(p, "copy", "open") /\ UNCHANGED <<control, clock, file, asked, overlapped>>
  BY DEF Step, Copy
<1>3. PhaseOf("copy") = "in" /\ PhaseOf("open") = "in"
  BY DEF PhaseOf
<1>4. CASE answer' = answer
  BY <1>1, <1>2, <1>3, <1>4, Unseen
<1>5. CASE answer' = [answer EXCEPT ![p] = kernel_buffer]
  <2>1. /\ pc[p] = "copy" /\ Phase[p] = "in" /\ Phase' = [Phase EXCEPT ![p] = "in"]
        /\ Uses[p] = file[p] /\ Uses' = [Uses EXCEPT ![p] = file[p]]
        /\ Wish[p] = Never /\ Wish' = [Wish EXCEPT ![p] = Never]
        /\ ClockToCome = clock /\ ClockToCome' = clock
    BY <1>1, <1>2, <1>3, Moves
  <2>2. Phase' = Phase /\ Uses' = Uses /\ Wish' = Wish
    BY <2>1 DEF Phase, Uses, Wish
  <2>3. UNCHANGED <<Enabled, Duty, Rate>>
    BY <1>2, <2>1, SettingsStay
  <2>4. kernel_buffer = Held(p)
    BY <1>1, <2>1 DEF Answering
  <2>5. file[p] \in Files /\ PwmOf(p) = file[p][1] /\ FunctionOf(p) = file[p][2]
        /\ PwmOf(p) \in PWMs /\ FunctionOf(p) \in Functions /\ 1 \in PWMs
    BY <1>1, PwmAssumption DEF TypeOK, PwmOf, FunctionOf, PWMs
  <2>6. /\ Enabled[PwmOf(p)] = control[PwmOf(p)].enabled
        /\ Duty[PwmOf(p)] = control[PwmOf(p)].duty
        /\ Rate[PwmOf(p)].source = clock[PwmOf(p)].source
        /\ Rate[PwmOf(p)].reloadv = control[PwmOf(p)].reloadv
        /\ Rate[1].freq = clock[1].freq
    BY <2>1, <2>5 DEF Enabled, Duty, Rate
  <2>7. Held(p) = Service!Told(Uses[p][1], Uses[p][2])
    <3>1. CASE FunctionOf(p) = "enable"
      BY <2>1, <2>5, <2>6, <3>1 DEF Held, Service!Told
    <3>2. CASE FunctionOf(p) = "duty"
      BY <2>1, <2>5, <2>6, <3>2 DEF Held, Service!Told
    <3>3. CASE FunctionOf(p) = "frequency"
      BY <2>1, <2>5, <2>6, <3>3 DEF Held, Service!Told, PrintedFrequency
    <3> QED BY <2>5, <3>1, <3>2, <3>3 DEF Functions
  <2> QED BY <1>5, <2>1, <2>2, <2>3, <2>4, <2>7 DEF Service!Read, Service!settings
<1> QED BY <1>4, <1>5 DEF Copy

(* The initial states are the service's.                                   *)
LEMMA InitMaps == Init => Service!Init
<1> SUFFICES ASSUME Init PROVE Service!Init
  OBVIOUS
<1>1. \A p \in Procs : pc[p] = "closed"
  BY DEF Init
<1>2. PhaseOf("closed") = "out"
  BY DEF PhaseOf
<1>3. Phase = [p \in Procs |-> "out"]
  BY <1>1, <1>2 DEF Phase
<1>4. Uses = [p \in Procs |-> <<0, "none">>] /\ Wish = [p \in Procs |-> Never]
  BY <1>3 DEF Uses, Wish
<1>5. ClockToCome = ResetClock /\ control = [w \in PWMs |-> ResetControl]
  BY <1>1 DEF Init, ClockToCome
<1>6. /\ Enabled = [w \in PWMs |-> FALSE] /\ Duty = [w \in PWMs |-> 0]
      /\ Rate = [w \in PWMs |-> [source |-> "RTC", freq |-> 0, reloadv |-> 0]]
  BY <1>5 DEF Enabled, Duty, Rate, ResetClock, ResetControl
<1>7. answer = [p \in Procs |-> Never]
  BY DEF Init
<1> QED
  BY <1>3, <1>4, <1>6, <1>7 DEF Init, Service!Init, Service!PWMs, PWMs, Service!NoFile,
                                Service!Never, Never

(* Steps without an overlap are steps of the service, or stutter.          *)
LEMMA StepMaps ==
  ASSUME Back, Apart', NEW p \in Procs, Step(p), overlapped' = overlapped
  PROVE  (Service!Use(p) /\ UNCHANGED overlapped) \/ UNCHANGED Service!vars
<1>1. Apart
  BY DEF Back
<1> QED
  BY <1>1, QuietStep, OpenEnters, ReleaseLeaves, WriteWrites, EnableApplies, DutyApplies,
     FrequencyApplies, CopyReads DEF Step, Service!Use

(* Every step of the driver is one of the service or a stutter: from an    *)
(* overlap on, any step is.                                                *)
LEMMA NextMaps ==
  BackInv /\ BackInv' /\ [Next]_vars => [Service!Next]_Service!vars
<1> SUFFICES ASSUME BackInv, BackInv', [Next]_vars PROVE [Service!Next]_Service!vars
  OBVIOUS
<1>1. CASE UNCHANGED vars
  <2>1. UNCHANGED <<pc, file, asked, answer, control, clock, clockCopy, overlapped>>
    BY <1>1 DEF vars, registers, fileVars, locals, history
  <2>2. Phase' = Phase /\ Uses' = Uses /\ Wish' = Wish
    BY <2>1 DEF Phase, Uses, Wish
  <2>3. UNCHANGED <<Enabled, Duty, Rate>>
    BY <2>1 DEF ClockToCome, Enabled, Duty, Rate
  <2> QED BY <2>1, <2>2, <2>3 DEF Service!vars, Service!settings
<1>2. CASE overlapped'
  BY <1>2 DEF Service!Next, Service!Collide
<1>3. CASE ~overlapped' /\ Next
  <2>1. ~overlapped /\ Back /\ Apart'
    BY <1>3, OverlapStays DEF BackInv, Back
  <2>2. overlapped' = overlapped
    BY <1>3, <2>1 DEF BackInv, TypeOK
  <2>3. PICK p \in Procs : Step(p)
    BY <1>3 DEF Next, Step
  <2> QED BY <2>1, <2>2, <2>3, StepMaps DEF Service!Next
<1> QED BY <1>1, <1>2, <1>3

(* Up to an overlap in dev_open the driver implements the service: its six *)
(* files are six settings, each changed and told in one step and by nobody *)
(* else, whatever buffer and registers they share (file.c:24-150,          *)
(* pwm.c:88-227).                                                          *)
THEOREM ServiceKept == Spec => ServiceSpec
<1>1. Spec => []BackInv
  BY SpecBack
<1> QED
  BY <1>1, InitMaps, NextMaps, PTL DEF Spec, ServiceSpec, Service!Spec
=============================================================================
