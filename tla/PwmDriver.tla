------------------------------ MODULE PwmDriver ------------------------------
(***************************************************************************)
(* The PWM character driver, src/PWM/src/file.c and pwm.c: three device    *)
(* files for each of two PWMs, used by processes that can be preempted     *)
(* between any two steps. All calls share one buffer and one clock         *)
(* register, and the registers are changed by reading, modifying and       *)
(* writing them; the flag deviceOpened is to keep the processes apart, and *)
(* does unless one overlaps another in dev_open.                           *)
(* Messages are numbers of one length, all copied or none: *offset is 0    *)
(* or at the end of the message.                                           *)
(***************************************************************************)
EXTENDS PwmClock

CONSTANTS
  Procs,       \* the processes that use the device files
  Files,       \* the device files they use: pairs of a PWM and a function
  Percents,    \* bound: the duty cycles they write
  Requests,    \* bound: the frequencies they write, in millihertz
  Garbage      \* bound: settings uninitialized memory may hold

PWMs == {1, 2}
Functions == {"enable", "frequency", "duty"}

(* bound: 255 times it is 2^32 - 1, so that the product in set_pwm_duty,   *)
(* an unsigned long, does not wrap.                                        *)
MaxPercent == 257 * (256 * 256 + 1)

ASSUME PwmAssumption ==
  /\ Files # {} /\ Files \subseteq PWMs \X Functions
  /\ Percents \subseteq 0..MaxPercent
  /\ Requests \subseteq Int
  /\ Garbage # {} /\ Garbage \subseteq FreqValues \X ReloadValues

Inputs(function) ==
  CASE function = "enable"    -> {0, 1}
    [] function = "frequency" -> Requests
    [] function = "duty"      -> Percents

VARIABLES
  deviceOpened,  \* the flag
  kernel_buffer, \* the number in the buffer
  control,       \* each PWM's register: [enabled, duty, reloadv]
  clock,         \* register PWMCLK_CTRL: each PWM's [source, freq]
  pc,            \* where each process is
  file,          \* the device file each process has open
  offset,        \* *offset of the file: 0, or 1 for the end of a message
  controlCopy,   \* control.value: the process's copy of its PWM's register
  clockCopy,     \* clock.value: its copy of the clock register
  asked,         \* history: the number last written to each device file, or
                 \*   Never (also when the last write copied nothing)
  answer,        \* history: what the process read since its last write
  overlapped     \* history: whether a process ever passed the test of
                 \*   deviceOpened while another had passed it and not set it

buffers   == <<deviceOpened, kernel_buffer>>
registers == <<control, clock>>
fileVars  == <<file, offset>>
locals    == <<controlCopy, clockCopy>>
history   == <<asked, answer, overlapped>>
vars == <<buffers, registers, pc, fileVars, locals, history>>

Never == -1
Labels == {"closed", "opening", "open",
           "load", "loadClock", "store", "storeClock",
           "get", "getClock", "print", "copy"}

Controls == [enabled : BOOLEAN, duty : 0..255, reloadv : ReloadValues]
Clocks == [PWMs -> [source : Sources, freq : FreqValues]]

(* The registers after reset: off, and the clocks stopped.                 *)
ResetControl == [enabled |-> FALSE, duty |-> 0, reloadv |-> 0]
ResetClock == [w \in PWMs |-> [source |-> "RTC", freq |-> 0]]

TypeOK ==
  /\ deviceOpened \in BOOLEAN
  /\ kernel_buffer \in Int
  /\ control \in [PWMs -> Controls]
  /\ clock \in Clocks
  /\ pc \in [Procs -> Labels]
  /\ file \in [Procs -> Files]
  /\ offset \in [Procs -> 0..1]
  /\ controlCopy \in [Procs -> Controls]
  /\ clockCopy \in [Procs -> Clocks]
  /\ asked \in [Files -> Int]
  /\ answer \in [Procs -> Int]
  /\ overlapped \in BOOLEAN

SomeFile == CHOOSE f \in Files : TRUE

Init ==
  /\ deviceOpened = FALSE
  /\ kernel_buffer = 0
  /\ control = [w \in PWMs |-> ResetControl]
  /\ clock = ResetClock
  /\ pc = [p \in Procs |-> "closed"]
  /\ file = [p \in Procs |-> SomeFile]
  /\ offset = [p \in Procs |-> 0]
  /\ controlCopy = [p \in Procs |-> ResetControl]
  /\ clockCopy = [p \in Procs |-> ResetClock]
  /\ asked = [f \in Files |-> Never]
  /\ answer = [p \in Procs |-> Never]
  /\ overlapped = FALSE

PwmOf(p) == file[p][1]
FunctionOf(p) == file[p][2]

Goes(p, from, to) == pc[p] = from /\ pc' = [pc EXCEPT ![p] = to]

-----------------------------------------------------------------------------
(* Opening and closing. A process that finds the flag set gets -EBUSY.     *)

(* Mutant: the flag is not looked at.                                      *)
MayOpenAlways == TRUE

MayOpen == ~deviceOpened

TestOpened(p) ==
  /\ Goes(p, "closed", "opening")
  /\ MayOpen
  /\ overlapped' = (overlapped \/ \E q \in Procs : pc[q] = "opening")
  /\ UNCHANGED <<buffers, registers, fileVars, locals, asked, answer>>

SetOpened(p) ==
  /\ Goes(p, "opening", "open")
  /\ deviceOpened' = TRUE
  /\ \E f \in Files : file' = [file EXCEPT ![p] = f]
  /\ UNCHANGED <<kernel_buffer, registers, offset, locals, history>>

(* The file's data goes; the model forgets it. The buffer stays.           *)
Release(p) ==
  /\ Goes(p, "open", "closed")
  /\ deviceOpened' = FALSE
  /\ file' = [file EXCEPT ![p] = SomeFile]
  /\ offset' = [offset EXCEPT ![p] = 0]
  /\ answer' = [answer EXCEPT ![p] = Never]
  /\ UNCHANGED <<kernel_buffer, registers, locals, asked, overlapped>>

-----------------------------------------------------------------------------
(* dev_write: the message goes behind *offset, then the set function runs. *)

(* At the end of a message nothing is copied, but *offset >= len holds and *)
(* the buffer is processed again, whatever the last call left in it.       *)
Write(p) ==
  /\ Goes(p, "open", "load")
  /\ \E n \in Inputs(FunctionOf(p)) :
       IF offset[p] = 0
         THEN /\ kernel_buffer' = n
              /\ offset' = [offset EXCEPT ![p] = 1]
              /\ asked' = [asked EXCEPT ![file[p]] = n]
         ELSE /\ UNCHANGED <<kernel_buffer, offset>>
              /\ asked' = [asked EXCEPT ![file[p]] = Never]
  /\ answer' = [answer EXCEPT ![p] = Never]
  /\ UNCHANGED <<deviceOpened, registers, file, locals, overlapped>>

LoadControl(p) ==
  /\ Goes(p, "load", IF FunctionOf(p) = "frequency" THEN "loadClock" ELSE "store")
  /\ controlCopy' = [controlCopy EXCEPT ![p] = control[PwmOf(p)]]
  /\ UNCHANGED <<buffers, registers, fileVars, clockCopy, history>>

(* Mutant: the copy of the process's last call is used again.              *)
LoadClockSkipped(p) ==
  /\ Goes(p, "loadClock", "store")
  /\ UNCHANGED <<buffers, registers, fileVars, locals, history>>

LoadClock(p) ==
  /\ Goes(p, "loadClock", "store")
  /\ clockCopy' = [clockCopy EXCEPT ![p] = clock]
  /\ UNCHANGED <<buffers, registers, fileVars, controlCopy, history>>

(* Mutant: every setting goes to the register of PWM 1.                    *)
StoreControlOfFirst(p, modified) == control' = [control EXCEPT ![1] = modified]

(* iowrite32 of the modified copy to the PWM's control register.           *)
StoreControl(p, modified) == control' = [control EXCEPT ![PwmOf(p)] = modified]

SetEnabled(p) ==
  /\ FunctionOf(p) = "enable"
  /\ Goes(p, "store", "open")
  /\ StoreControl(p, [controlCopy[p] EXCEPT !.enabled = kernel_buffer # 0])
  /\ controlCopy' = [controlCopy EXCEPT ![p] = ResetControl]
  /\ UNCHANGED <<buffers, clock, fileVars, clockCopy, history>>

(* Of a number outside the bound, which only another process that          *)
(* overlapped in dev_open can leave in the buffer, the model takes any     *)
(* result: the product may wrap, or the text be no unsigned number.        *)
StepsOf(percent) == IF percent \in 0..MaxPercent THEN {DutySteps(percent)} ELSE 0..255

SetDuty(p) ==
  /\ FunctionOf(p) = "duty"
  /\ Goes(p, "store", "open")
  /\ \E steps \in StepsOf(kernel_buffer) :
       StoreControl(p, [controlCopy[p] EXCEPT !.duty = steps])
  /\ controlCopy' = [controlCopy EXCEPT ![p] = ResetControl]
  /\ UNCHANGED <<buffers, clock, fileVars, clockCopy, history>>

(* set_pwm_frequency: the reload value now, the clock register next.       *)
SetFrequency(p) ==
  /\ FunctionOf(p) = "frequency"
  /\ Goes(p, "store", "storeClock")
  /\ \E optimal \in OptimalClocks(kernel_buffer, Garbage) :
       /\ StoreControl(p, [controlCopy[p] EXCEPT !.reloadv = optimal.setting[2]])
       /\ clockCopy' = [clockCopy EXCEPT ![p][PwmOf(p)] =
                          [source |-> optimal.source, freq |-> optimal.setting[1]]]
  /\ controlCopy' = [controlCopy EXCEPT ![p] = ResetControl]
  /\ UNCHANGED <<buffers, clock, fileVars, history>>

StoreClock(p) ==
  /\ Goes(p, "storeClock", "open")
  /\ clock' = clockCopy[p]
  /\ clockCopy' = [clockCopy EXCEPT ![p] = ResetClock]
  /\ UNCHANGED <<buffers, control, fileVars, controlCopy, history>>

-----------------------------------------------------------------------------
(* dev_read at offset 0: the get function prints into the buffer, from     *)
(* where it is copied. At another offset nothing is left to copy.          *)

Read(p) ==
  /\ Goes(p, "open", "get")
  /\ offset[p] = 0
  /\ UNCHANGED <<buffers, registers, fileVars, locals, history>>

GetControl(p) ==
  /\ Goes(p, "get", IF FunctionOf(p) = "frequency" THEN "getClock" ELSE "print")
  /\ controlCopy' = [controlCopy EXCEPT ![p] = control[PwmOf(p)]]
  /\ UNCHANGED <<buffers, registers, fileVars, clockCopy, history>>

GetClock(p) ==
  /\ Goes(p, "getClock", "print")
  /\ clockCopy' = [clockCopy EXCEPT ![p] = clock]
  /\ UNCHANGED <<buffers, registers, fileVars, controlCopy, history>>

(* Mutant: the reload value keeps its initial value of 256.                *)
FrequencyOfFullReload(w, ctrl, clk) == Frequency(clk[w].source, <<clk[1].freq, 256>>)

(* get_pwm_frequency takes the divider of PWM 1 for either PWM.            *)
PrintedFrequency(w, ctrl, clk) == Frequency(clk[w].source, <<clk[1].freq, ctrl.reloadv>>)

Printed(p) ==
  CASE FunctionOf(p) = "enable" -> IF controlCopy[p].enabled THEN 1 ELSE 0
    [] FunctionOf(p) = "duty"   -> DutyPercent(controlCopy[p].duty)
    [] FunctionOf(p) = "frequency" -> PrintedFrequency(PwmOf(p), controlCopy[p], clockCopy[p])

PrintAnswer(p) ==
  /\ Goes(p, "print", "copy")
  /\ kernel_buffer' = Printed(p)
  /\ controlCopy' = [controlCopy EXCEPT ![p] = ResetControl]
  /\ clockCopy' = [clockCopy EXCEPT ![p] = ResetClock]
  /\ UNCHANGED <<deviceOpened, registers, fileVars, history>>

(* copy_to_user delivers the answer, or faults and leaves *offset at 0.    *)
Copy(p) ==
  /\ Goes(p, "copy", "open")
  /\ \/ /\ answer' = [answer EXCEPT ![p] = kernel_buffer]
        /\ offset' = [offset EXCEPT ![p] = 1]
     \/ UNCHANGED <<answer, offset>>
  /\ UNCHANGED <<buffers, registers, file, locals, asked, overlapped>>

Next ==
  \E p \in Procs :
    \/ TestOpened(p) \/ SetOpened(p) \/ Release(p)
    \/ Write(p) \/ LoadControl(p) \/ LoadClock(p)
    \/ SetEnabled(p) \/ SetDuty(p) \/ SetFrequency(p) \/ StoreClock(p)
    \/ Read(p) \/ GetControl(p) \/ GetClock(p) \/ PrintAnswer(p) \/ Copy(p)

Spec == Init /\ [][Next]_vars

-----------------------------------------------------------------------------
(* At most one process has a device file open or is opening one.           *)
AtMostOne == \A p, q \in Procs : pc[p] # "closed" /\ pc[q] # "closed" => p = q

(* Two processes have device files open, or are opening them, only after a *)
(* process passed the test of deviceOpened while another was between test  *)
(* and set: no other order of opening, failing to open and closing lets    *)
(* two in (file.c:24-51). Everything below rests on it.                    *)
OneOpener == ~overlapped => AtMostOne

(* A process is about to store what was written to device file f.          *)
Storing(f) == \E p \in Procs : file[p] = f /\ pc[p] \in {"store", "storeClock"}

(* A setting changes only by the store of a process that wrote to the      *)
(* device file of this setting: the others in the same registers, which    *)
(* are read, modified and written back, are never lost (pwm.c:88-140).     *)
OnlyOwnSetting ==
  [][~overlapped => \A w \in PWMs :
       /\ control'[w].enabled # control[w].enabled => Storing(<<w, "enable">>)
       /\ control'[w].duty # control[w].duty => Storing(<<w, "duty">>)
       /\ control'[w].reloadv # control[w].reloadv => Storing(<<w, "frequency">>)
       /\ clock'[w] # clock[w] => Storing(<<w, "frequency">>)]_vars

(* "Reading this file will return the current duty cycle" (PWM.pdf), also  *)
(* of enable: a read returns what was last written to the same file, the   *)
(* duty cycle rounded down by at most one percent (pwm.c:120-140,          *)
(* 209-227), whoever used the other files in between.                      *)
ReadsBack ==
  ~overlapped => \A p \in Procs :
    LET wanted == asked[file[p]] IN
    answer[p] # Never /\ wanted # Never =>
      /\ FunctionOf(p) = "enable" => answer[p] = wanted
      /\ FunctionOf(p) = "duty" /\ wanted <= 100 => answer[p] \in {wanted, wanted - 1}

(* The frequency a PWM runs at.                                            *)
RunsAt(w) == Frequency(clock[w].source, <<clock[w].freq, control[w].reloadv>>)

(* "Reading from this file will return the actual ... frequency at which   *)
(* the PWM is running" (PWM.pdf): a read of a frequency file does.         *)
FrequencyReadsBack ==
  ~overlapped => \A p \in Procs :
    answer[p] # Never /\ FunctionOf(p) = "frequency" => answer[p] = RunsAt(PwmOf(p))

(* So does one of PWM 1's file.                                            *)
FirstFrequencyReadsBack ==
  ~overlapped => \A p \in Procs :
    answer[p] # Never /\ file[p] = <<1, "frequency">> => answer[p] = RunsAt(1)
=============================================================================
