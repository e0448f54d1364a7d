---------------------------- MODULE PwmInvariant -----------------------------
(***************************************************************************)
(* The inductive invariant behind the safety of the PWM driver as long as  *)
(* no process overlapped another in dev_open.                              *)
(***************************************************************************)
EXTENDS PwmDriver

(* The flag is set exactly while a process has a device file open.         *)
FlagInv == deviceOpened <=> \E p \in Procs : pc[p] \notin {"closed", "opening"}

(* What the process that stores has copied is still in the registers: all  *)
(* of its control register and, for a frequency, of the clock register;    *)
(* after SetFrequency, what belongs to the other PWM.                      *)
CopiesInv ==
  \A p \in Procs :
    /\ pc[p] \in {"loadClock", "store"} => controlCopy[p] = control[PwmOf(p)]
    /\ pc[p] = "store" /\ FunctionOf(p) = "frequency" => clockCopy[p] = clock
    /\ pc[p] \in {"loadClock", "storeClock"} => FunctionOf(p) = "frequency"
    /\ pc[p] = "storeClock" =>
         \A w \in PWMs \ {PwmOf(p)} : clockCopy[p][w] = clock[w]

(* As long as no process overlapped another, the one that uses the driver  *)
(* is alone with the flag and the registers.                               *)
Apart == TypeOK /\ AtMostOne /\ FlagInv /\ CopiesInv

IInv == TypeOK /\ (~overlapped => Apart)

-----------------------------------------------------------------------------
(* What a read of the process's device file would answer now.              *)
Held(p) ==
  CASE FunctionOf(p) = "enable" -> IF control[PwmOf(p)].enabled THEN 1 ELSE 0
    [] FunctionOf(p) = "duty"   -> DutyPercent(control[PwmOf(p)].duty)
    [] FunctionOf(p) = "frequency" -> PrintedFrequency(PwmOf(p), control[PwmOf(p)], clock)

(* A read copies the registers as they are, and nobody changes them before *)
(* the process writes itself.                                              *)
Answering(p) ==
  /\ pc[p] \in {"getClock", "print"} => controlCopy[p] = control[PwmOf(p)]
  /\ pc[p] = "getClock" => FunctionOf(p) = "frequency"
  /\ pc[p] = "print" /\ FunctionOf(p) = "frequency" => clockCopy[p] = clock
  /\ pc[p] = "copy" => kernel_buffer = Held(p)
  /\ answer[p] # Never =>
       pc[p] \in {"open", "get", "getClock", "print", "copy"} /\ answer[p] = Held(p)

AnswerInv == \A p \in Procs : Answering(p)

(* The setting a device file asked for is on its way in the buffer, or it  *)
(* is in its register.                                                     *)
Writing(p) == pc[p] \in {"load", "loadClock", "store", "storeClock"}

IsSet(f) ==
  /\ f[2] = "enable" => control[f[1]].enabled = (asked[f] # 0)
  /\ f[2] = "duty"   => control[f[1]].duty = DutySteps(asked[f])

SettingInv ==
  /\ \A f \in Files : asked[f] # Never =>
       /\ asked[f] \in Inputs(f[2])
       /\ (\A p \in Procs : file[p] = f => ~Writing(p)) => IsSet(f)
  /\ \A p \in Procs :
       Writing(p) /\ asked[file[p]] # Never => kernel_buffer = asked[file[p]]

Back == Apart /\ AnswerInv /\ SettingInv

BackInv == TypeOK /\ (~overlapped => Back)
=============================================================================
