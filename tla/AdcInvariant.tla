---------------------------- MODULE AdcInvariant -----------------------------
(***************************************************************************)
(* The inductive invariants behind the safety of the ADC driver: IInv when *)
(* no signal interrupts a read (MaxSignals = 0), whose parts say what each *)
(* piece of shared state means while the semaphore protects it; SignalInv  *)
(* for any number of signals, without the button.                          *)
(***************************************************************************)
EXTENDS AdcDriver

NoSignals == \A r \in Readers : ~sigPending[r]

(* A waiter waits in one place of the line.                                *)
QueueInv ==
  /\ \A i \in 1..Len(semQ) : pc[semQ[i]] = "waiting"
  /\ \A i, j \in 1..Len(semQ) : semQ[i] = semQ[j] => i = j

(* Whatever the signals do, the semaphore is never free while a reader     *)
(* waits for it.                                                           *)
LineInv == QueueInv /\ (sem > 0 => semQ = <<>>)

(* SemaphoreBalance, spelled out.                                          *)
MutexInv ==
  /\ sem \in {0, 1}
  /\ sem = 1 => semQ = <<>> /\ ~gpHeld /\ \A r \in Readers : pc[r] \notin Inside
  /\ sem = 0 => gpHeld \/ \E r \in Readers : pc[r] \in Inside
  /\ gpHeld => \A r \in Readers : pc[r] \notin Inside
  /\ \A r, s \in Readers : pc[r] \in Inside /\ pc[s] \in Inside => r = s

(* Only a reader asleep in schedule() or the button has a conversion in    *)
(* flight, and only one.                                                   *)
FlightInv ==
  /\ InFlight => gpHeld \/ \E r \in Readers : pc[r] = "schedule"
  /\ gpHeld => InFlight
  /\ ~(irq /\ converting # Idle)

(* current_task is the reader that is about to sleep or asleep, and it is  *)
(* cleared with the wake-up.                                               *)
TaskInv ==
  \A r \in Readers :
    /\ current_task = r <=> \/ pc[r] \in {"state", "select", "channel", "strobe"}
                            \/ pc[r] = "schedule" /\ InFlight
    /\ pc[r] \in {"select", "channel", "strobe"} => taskState[r] = "INTERRUPTIBLE"
    /\ pc[r] = "schedule" => (taskState[r] = "RUNNING" <=> ~InFlight)

(* The converter and adc_channel agree with the reader inside.             *)
ChannelInv ==
  \A r \in Readers :
    /\ pc[r] \in {"channel", "strobe"} => select = channel[r]
    /\ pc[r] \in {"strobe", "schedule"} => adc_channel = channel[r]
    /\ pc[r] = "schedule" => converting \in {channel[r], Idle}

(* Where the answer is on its way from the input to the reader.            *)
ValueInv ==
  \A r \in Readers :
    /\ pc[r] = "schedule" /\ converting # Idle => analog[channel[r]] \in seen[r]
    /\ pc[r] = "schedule" /\ irq => result \in seen[r]
    /\ \/ pc[r] = "value"
       \/ pc[r] = "schedule" /\ ~InFlight
       => adc_values[channel[r]] \in seen[r]
    /\ pc[r] \in {"up", "copy"} => value[r] \in seen[r]

IInv ==
  /\ TypeOK /\ NoSignals /\ QueueInv /\ MutexInv
  /\ FlightInv /\ TaskInv /\ ChannelInv /\ ValueInv

(* current_task may name a reader that a signal has taken out of dev_read, *)
(* but only until the semaphore it gave back is taken and the one who took *)
(* it sets current_task.                                                   *)
GoneInv ==
  current_task # NULL /\ pc[current_task] \notin Inside \ {"task"} =>
    sem > 0 \/ \E r \in Readers : pc[r] = "task"

SignalInv == TypeOK /\ LineInv /\ GoneInv /\ NeverWedged
=============================================================================
