------------------------------ MODULE AdcDriver ------------------------------
(***************************************************************************)
(* The LPC3250 ADC character driver, src/ADC/src/adc.c: three device files *)
(* (one per channel) read by processes, the end-of-conversion interrupt    *)
(* and the interrupt of the button EINT0, which share one converter, one   *)
(* semaphore and the globals adc_channel, adc_values and current_task.     *)
(*                                                                         *)
(* The processor has one core and both handlers are registered with        *)
(* IRQF_DISABLED, so a handler is one atomic action; dev_read runs in      *)
(* process context and can be interrupted or preempted between any two of  *)
(* its statements, so each statement that touches shared state is a step.  *)
(* The semaphore is the kernel's: first come first served, and up() hands  *)
(* the semaphore to the first waiter without raising the count.            *)
(***************************************************************************)
EXTENDS Integers, Sequences

CONSTANTS
  Readers,      \* the processes that open and read the device files
  NumChannels,  \* ADC_NUMCHANNELS
  Levels,       \* the levels an analog input can have (ADC_VALUE, masked)
  MsgLength,    \* data->length: the bytes of one answer
  MaxSignals,   \* bound: signals delivered to readers inside dev_read
  Buttons,      \* whether EINT0 may fire
  NULL,         \* current_task: no task
  Idle          \* the converter: no conversion in progress

Channels == 0..(NumChannels - 1)

ASSUME ConstantsAssumption ==
  /\ NumChannels \in Nat \ {0}
  /\ MsgLength \in Nat \ {0}
  /\ MaxSignals \in Nat
  /\ Buttons \in BOOLEAN
  /\ Levels # {} /\ 0 \in Levels
  /\ NULL \notin Readers
  /\ Idle \notin Channels

VARIABLES
  sem,           \* channel_conversion: its count ...
  semQ,          \* ... and the tasks waiting for it, first come first
  adc_channel,   \* the channel the next interrupt stores its value under
  adc_values,    \* the last value stored for each channel
  current_task,  \* the task the end-of-conversion interrupt wakes
  select,        \* the channel field of register ADC_SELECT
  converting,    \* the channel under conversion, or Idle
  result,        \* register ADC_VALUE
  irq,           \* an end-of-conversion interrupt is pending
  pc,            \* where each reader is in the driver
  taskState,     \* each reader's task state
  sigPending,    \* whether a signal is pending for the reader
  signals,       \* how many signals were delivered
  channel,       \* data->channel of each reader's open file
  offset,        \* *offset of each reader's open file
  value,         \* the answer in data->buffer of each reader's open file
  analog,        \* the level at each analog input
  gpHeld,        \* history: gp_interrupt took the semaphore, nobody gave it back
  seen           \* history: the levels of the channel since the read's AD_START

semaphore == <<sem, semQ>>
globals   == <<adc_channel, adc_values, current_task>>
converter == <<select, converting, result, irq>>
signalled == <<sigPending, signals>>
files     == <<channel, offset, value>>
vars == <<semaphore, globals, converter, pc, taskState, signalled, files,
          analog, gpHeld, seen>>

-----------------------------------------------------------------------------
(* The labels of a reader: outside the driver it has the file "closed" or  *)
(* "open"; the others name the statement of dev_read it executes next.     *)

Inside == {"task", "state", "select", "channel", "strobe", "schedule",
           "value", "up"}                       \* between down() and up()
Reading == {"down", "waiting"} \cup Inside
Labels == {"closed", "open", "copy"} \cup Reading

Goes(r, from, to) == pc[r] = from /\ pc' = [pc EXCEPT ![r] = to]

TypeOK ==
  /\ sem \in Nat /\ semQ \in Seq(Readers)
  /\ adc_channel \in Channels
  /\ adc_values \in [Channels -> Levels]
  /\ current_task \in Readers \cup {NULL}
  /\ select \in Channels
  /\ converting \in Channels \cup {Idle}
  /\ result \in Levels
  /\ irq \in BOOLEAN
  /\ pc \in [Readers -> Labels]
  /\ taskState \in [Readers -> {"RUNNING", "INTERRUPTIBLE"}]
  /\ sigPending \in [Readers -> BOOLEAN]
  /\ signals \in 0..MaxSignals
  /\ channel \in [Readers -> Channels]
  /\ offset \in [Readers -> 0..MsgLength]
  /\ value \in [Readers -> Levels]
  /\ analog \in [Channels -> Levels]
  /\ gpHeld \in BOOLEAN
  /\ seen \in [Readers -> SUBSET Levels]

(* The state init_adc_module leaves behind when it succeeds.               *)
Init ==
  /\ sem = 1 /\ semQ = <<>>
  /\ adc_channel = 0
  /\ adc_values = [c \in Channels |-> 0]
  /\ current_task = NULL
  /\ select = 0 /\ converting = Idle /\ result = 0 /\ irq = FALSE
  /\ pc = [r \in Readers |-> "closed"]
  /\ taskState = [r \in Readers |-> "RUNNING"]
  /\ sigPending = [r \in Readers |-> FALSE] /\ signals = 0
  /\ channel = [r \in Readers |-> 0]
  /\ offset = [r \in Readers |-> 0]
  /\ value = [r \in Readers |-> 0]
  /\ analog = [c \in Channels |-> 0]
  /\ gpHeld = FALSE
  /\ seen = [r \in Readers |-> {}]

-----------------------------------------------------------------------------
(* Opening and closing a device file; the minor number is the channel.     *)

Open(r) ==
  /\ Goes(r, "closed", "open")
  /\ \E c \in Channels : channel' = [channel EXCEPT ![r] = c]
  /\ UNCHANGED <<semaphore, globals, converter, taskState, signalled, offset,
                 value, analog, gpHeld, seen>>

(* release frees the file's data; the model forgets it.                    *)
Release(r) ==
  /\ Goes(r, "open", "closed")
  /\ channel' = [channel EXCEPT ![r] = 0]
  /\ offset' = [offset EXCEPT ![r] = 0]
  /\ value' = [value EXCEPT ![r] = 0]
  /\ seen' = [seen EXCEPT ![r] = {}]
  /\ UNCHANGED <<semaphore, globals, converter, taskState, signalled, analog,
                 gpHeld>>

-----------------------------------------------------------------------------
(* dev_read, statement by statement.                                       *)

(* Mutant: the copy runs one byte past the end of the answer.              *)
CopyToUserPastEnd(r) ==
  \E n \in offset[r]..(MsgLength + 1) : offset' = [offset EXCEPT ![r] = n]

(* copy_to_user may fault and copy only a part of the answer, or nothing.  *)
CopyToUser(r) == \E n \in offset[r]..MsgLength : offset' = [offset EXCEPT ![r] = n]

(* A read at offset 0 measures.                                            *)
Read(r) ==
  /\ Goes(r, "open", "down")
  /\ offset[r] = 0
  /\ UNCHANGED <<semaphore, globals, converter, taskState, signalled, files,
                 analog, gpHeld, seen>>

(* A read at another offset copies the rest of the last answer.            *)
ReadRest(r) ==
  /\ pc[r] = "open" /\ offset[r] # 0
  /\ CopyToUser(r)
  /\ UNCHANGED <<semaphore, globals, converter, pc, taskState, signalled,
                 channel, value, analog, gpHeld, seen>>

(* down: takes the semaphore, or waits in line. A waiter ignores signals.  *)
Down(r) ==
  /\ IF sem > 0
       THEN Goes(r, "down", "task") /\ sem' = sem - 1 /\ semQ' = semQ
       ELSE Goes(r, "down", "waiting") /\ sem' = sem /\ semQ' = Append(semQ, r)
  /\ UNCHANGED <<globals, converter, taskState, signalled, files, analog,
                 gpHeld, seen>>

SetCurrentTask(r) ==
  /\ Goes(r, "task", "state")
  /\ current_task' = r
  /\ UNCHANGED <<semaphore, adc_channel, adc_values, converter, taskState,
                 signalled, files, analog, gpHeld, seen>>

SetCurrentState(r) ==
  /\ Goes(r, "state", "select")
  /\ taskState' = [taskState EXCEPT ![r] = "INTERRUPTIBLE"]
  /\ UNCHANGED <<semaphore, globals, converter, signalled, files, analog,
                 gpHeld, seen>>

(* Mutant: off by one, the last channel is refused too.                    *)
ClampOffByOne(c) == IF c >= NumChannels - 1 THEN 0 ELSE c

(* adc_start refuses no channel: one out of range becomes channel 0.       *)
Clamp(c) == IF c >= NumChannels THEN 0 ELSE c

(* AD_START with channel c selected. What the converter does with a start  *)
(* while it converts is not documented: it goes on, or it starts again.    *)
Started(c) == IF converting = Idle THEN {c} ELSE {converting, c}

(* Mutant: the field keeps the channel of the last conversion.             *)
SelectForgotten(r) ==
  /\ Goes(r, "select", "channel")
  /\ UNCHANGED <<semaphore, globals, converter, taskState, signalled, files,
                 analog, gpHeld, seen>>

SelectChannel(r) ==
  /\ Goes(r, "select", "channel")
  /\ select' = Clamp(channel[r])
  /\ UNCHANGED <<semaphore, globals, converting, result, irq, taskState,
                 signalled, files, analog, gpHeld, seen>>

(* Mutant: the interrupt is not told the channel.                          *)
AdcChannelForgotten(r) ==
  /\ Goes(r, "channel", "strobe")
  /\ UNCHANGED <<semaphore, globals, converter, taskState, signalled, files,
                 analog, gpHeld, seen>>

SetAdcChannel(r) ==
  /\ Goes(r, "channel", "strobe")
  /\ adc_channel' = Clamp(channel[r])
  /\ UNCHANGED <<semaphore, adc_values, current_task, converter, taskState,
                 signalled, files, analog, gpHeld, seen>>

Strobe(r) ==
  /\ Goes(r, "strobe", "schedule")
  /\ converting' \in Started(select)
  /\ seen' = [seen EXCEPT ![r] = {analog[channel[r]]}]
  /\ UNCHANGED <<semaphore, globals, select, result, irq, taskState,
                 signalled, files, analog, gpHeld>>

MayReturn(r) == taskState[r] = "RUNNING" \/ sigPending[r]

(* Mutant: an interrupted read returns at once and keeps the semaphore.    *)
ScheduleAborts(r) ==
  /\ MayReturn(r)
  /\ Goes(r, "schedule", IF sigPending[r] THEN "copy" ELSE "value")
  /\ taskState' = [taskState EXCEPT ![r] = "RUNNING"]
  /\ UNCHANGED <<semaphore, globals, converter, signalled, files, analog,
                 gpHeld, seen>>

(* schedule() returns once the task is running again: because the          *)
(* interrupt woke it or because a signal is pending.                       *)
Schedule(r) ==
  /\ Goes(r, "schedule", "value")
  /\ MayReturn(r)
  /\ taskState' = [taskState EXCEPT ![r] = "RUNNING"]
  /\ UNCHANGED <<semaphore, globals, converter, signalled, files, analog,
                 gpHeld, seen>>

ReadValue(r) ==
  /\ Goes(r, "value", "up")
  /\ value' = [value EXCEPT ![r] = adc_values[channel[r]]]
  /\ UNCHANGED <<semaphore, globals, converter, taskState, signalled, channel,
                 offset, analog, gpHeld, seen>>

(* up: a waiter, if there is one, gets the semaphore; else the count grows.*)
Up(nextpc) ==
  IF semQ = <<>>
    THEN sem' = sem + 1 /\ semQ' = semQ /\ pc' = nextpc
    ELSE /\ sem' = sem
         /\ semQ' = Tail(semQ)
         /\ pc' = [nextpc EXCEPT ![Head(semQ)] = "task"]

(* Mutant: the reader keeps the semaphore.                                 *)
UpForgotten(r) ==
  /\ Goes(r, "up", "copy")
  /\ UNCHANGED <<semaphore, globals, converter, taskState, signalled, files,
                 analog, gpHeld, seen>>

UpAfterRead(r) ==
  /\ pc[r] = "up"
  /\ Up([pc EXCEPT ![r] = "copy"])
  /\ UNCHANGED <<globals, converter, taskState, signalled, files, analog,
                 gpHeld, seen>>

(* The answer is formatted and copied; on the way back to user mode the    *)
(* process takes its pending signal.                                       *)
Copy(r) ==
  /\ Goes(r, "copy", "open")
  /\ CopyToUser(r)
  /\ sigPending' = [sigPending EXCEPT ![r] = FALSE]
  /\ UNCHANGED <<semaphore, globals, converter, taskState, signals, channel,
                 value, analog, gpHeld, seen>>

-----------------------------------------------------------------------------
(* The interrupt handlers.                                                 *)

(* Mutant: the semaphore is given back for readers as well.                *)
WakeAndUp ==
  /\ taskState' = [r \in Readers |-> IF r = current_task THEN "RUNNING" ELSE taskState[r]]
  /\ current_task' = NULL
  /\ Up(pc) /\ gpHeld' = FALSE

(* Mutant: current_task is not cleared after the wake-up.                  *)
WakeOrUpKeepsTask ==
  /\ UNCHANGED current_task
  /\ IF current_task # NULL
       THEN /\ taskState' = [taskState EXCEPT ![current_task] = "RUNNING"]
            /\ UNCHANGED <<semaphore, pc, gpHeld>>
       ELSE Up(pc) /\ gpHeld' = FALSE /\ UNCHANGED taskState

(* Mutant: without a reader to wake, the handler does nothing.             *)
WakeOnly ==
  /\ taskState' = [r \in Readers |-> IF r = current_task THEN "RUNNING" ELSE taskState[r]]
  /\ current_task' = NULL
  /\ UNCHANGED <<semaphore, pc, gpHeld>>

(* Wake the reader, or give back the semaphore gp_interrupt took. Waking a *)
(* task that already runs is harmless.                                     *)
WakeOrUp ==
  IF current_task # NULL
    THEN /\ taskState' = [taskState EXCEPT ![current_task] = "RUNNING"]
         /\ current_task' = NULL
         /\ UNCHANGED <<semaphore, pc, gpHeld>>
    ELSE /\ Up(pc)
         /\ gpHeld' = FALSE
         /\ UNCHANGED <<taskState, current_task>>

(* adc_interrupt stores the value and then wakes or gives back.            *)
AdcInterrupt ==
  /\ irq
  /\ irq' = FALSE
  /\ adc_values' = [adc_values EXCEPT ![adc_channel] = result]
  /\ WakeOrUp
  /\ UNCHANGED <<adc_channel, select, converting, result, signalled, files,
                 analog, seen>>

(* Mutant: whether the semaphore was taken is not looked at.               *)
DownTrylockIgnored == sem' = IF sem > 0 THEN sem - 1 ELSE 0

DownTrylock == sem > 0 /\ sem' = sem - 1

(* gp_interrupt: down_trylock, then the whole of adc_start(0). A failing   *)
(* trylock changes nothing.                                                *)
GpInterrupt ==
  /\ Buttons
  /\ DownTrylock
  /\ select' = Clamp(0)
  /\ adc_channel' = Clamp(0)
  /\ converting' \in Started(Clamp(0))
  /\ gpHeld' = TRUE
  /\ UNCHANGED <<semQ, adc_values, current_task, result, irq, pc, taskState,
                 signalled, files, analog, seen>>

-----------------------------------------------------------------------------
(* The environment: the converter, the analog inputs, signals.             *)

ConversionDone ==
  /\ converting # Idle
  /\ converting' = Idle
  /\ result' = analog[converting]
  /\ irq' = TRUE
  /\ UNCHANGED <<semaphore, globals, select, pc, taskState, signalled, files,
                 analog, gpHeld, seen>>

AnalogChanges ==
  \E c \in Channels : \E v \in Levels \ {analog[c]} :
    /\ analog' = [analog EXCEPT ![c] = v]
    /\ seen' = [r \in Readers |->
                  IF pc[r] \in {"schedule", "value"} /\ channel[r] = c
                    THEN seen[r] \cup {v} ELSE seen[r]]
    /\ UNCHANGED <<semaphore, globals, converter, pc, taskState, signalled,
                   files, gpHeld>>

(* A signal for a process inside dev_read; schedule() notices it.          *)
Signal(r) ==
  /\ signals < MaxSignals
  /\ pc[r] \in Reading
  /\ ~sigPending[r]
  /\ sigPending' = [sigPending EXCEPT ![r] = TRUE]
  /\ signals' = signals + 1
  /\ UNCHANGED <<semaphore, globals, converter, pc, taskState, files, analog,
                 gpHeld, seen>>

-----------------------------------------------------------------------------
(* A process inside dev_read keeps running; opening, reading and closing   *)
(* are its own decisions.                                                  *)
DevRead(r) ==
  \/ Down(r) \/ SetCurrentTask(r) \/ SetCurrentState(r)
  \/ SelectChannel(r) \/ SetAdcChannel(r) \/ Strobe(r)
  \/ Schedule(r) \/ ReadValue(r) \/ UpAfterRead(r) \/ Copy(r)

User(r) == Open(r) \/ Read(r) \/ ReadRest(r) \/ Release(r)

Next ==
  \/ \E r \in Readers : User(r) \/ DevRead(r) \/ Signal(r)
  \/ AdcInterrupt \/ GpInterrupt
  \/ ConversionDone \/ AnalogChanges

Spec == Init /\ [][Next]_vars

(* The scheduler runs every runnable task, a conversion ends, and a        *)
(* pending interrupt is taken. Nobody has to press the button or to read.  *)
Fairness ==
  /\ \A r \in Readers : WF_vars(DevRead(r))
  /\ WF_vars(ConversionDone)
  /\ WF_vars(AdcInterrupt)

FairSpec == Spec /\ Fairness

-----------------------------------------------------------------------------
(* Properties.                                                             *)

InsideReaders == {r \in Readers : pc[r] \in Inside}

(* A conversion is running or its interrupt has not been handled yet.      *)
InFlight == converting # Idle \/ irq

(* The semaphore is exclusive and never lost or duplicated: it is free     *)
(* with nobody waiting, or the button's conversion holds it, or exactly    *)
(* one reader is between its down and its up (adc.c:197-205, 145-153,      *)
(* 162-165: the three ways it is given back pair with the two ways it is   *)
(* taken).                                                                 *)
SemaphoreBalance ==
  \/ sem = 1 /\ semQ = <<>> /\ ~gpHeld /\ InsideReaders = {}
  \/ sem = 0 /\ gpHeld /\ InsideReaders = {}
  \/ sem = 0 /\ ~gpHeld /\ \E r \in Readers : InsideReaders = {r}

(* "Only one conversion is possible at a time" (ADC.pdf, Concurrency): no  *)
(* reader and no button press starts the converter while a conversion is   *)
(* running or its interrupt still has to be handled.                       *)
OneConversionAtATime ==
  [][(GpInterrupt \/ \E r \in Readers : Strobe(r)) => ~InFlight]_vars

(* The answer a reader copies out is a level its own channel had between   *)
(* this read's start of the converter and its look at adc_values: never    *)
(* another channel's, never that of an earlier conversion (adc.c:201-203). *)
FreshValue ==
  \A r \in Readers : pc[r] \in {"up", "copy"} => value[r] \in seen[r]

(* The interrupt wakes only a reader that has started the converter and    *)
(* waits for it, and gives back only what the button took (adc.c:145-153). *)
WakesTheOwner ==
  [][AdcInterrupt => IF current_task # NULL
                       THEN pc[current_task] = "schedule" /\ ~gpHeld
                       ELSE gpHeld]_vars

(* First come first served: neither a reader that arrives nor a button     *)
(* press gets the semaphore while a reader waits for it.                   *)
NobodyOvertakes ==
  [][(\/ gpHeld' /\ ~gpHeld
      \/ \E r \in Readers : pc[r] = "down" /\ pc'[r] = "task") => semQ = <<>>]_vars

(* A signal ends schedule() early and leaves a conversion whose interrupt  *)
(* belongs to nobody. That can strand the reader it confuses, but without  *)
(* the button it cannot wedge the driver: the semaphore is free, or an     *)
(* interrupt is due, or a reader inside can run on (adc.c:145-153,         *)
(* 197-205).                                                               *)
NeverWedged ==
  \/ sem > 0
  \/ InFlight
  \/ \E r \in InsideReaders :
       pc[r] = "schedule" => taskState[r] = "RUNNING" \/ sigPending[r]

(* Every read at offset 0 returns to its caller (adc.c:197-217).           *)
EveryReadReturns == \A r \in Readers : pc[r] = "down" ~> pc[r] = "open"

(* "When the conversion finishes the semaphore is increased in value by    *)
(* using 'up' again in the adc interrupt" (ADC.pdf): a conversion started  *)
(* by the button always ends with the semaphore given back.                *)
ButtonGivesBack == gpHeld ~> ~gpHeld
=============================================================================
