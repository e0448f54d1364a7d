--------------------------- MODULE AdcDriverProofs ---------------------------
(***************************************************************************)
(* Proofs about the ADC driver, for any readers, channels and levels.      *)
(***************************************************************************)
EXTENDS AdcInvariant, TLAPS

USE DEF Channels, Labels, Reading, Inside

(* up() keeps the types of the semaphore and of the labels.                *)
LEMMA UpType ==
  ASSUME TypeOK,
         NEW nextpc \in [Readers -> Labels], Up(nextpc)
  PROVE  sem' \in Nat /\ semQ' \in Seq(Readers) /\ pc' \in [Readers -> Labels]
<1>1. CASE semQ = <<>>
  BY <1>1 DEF TypeOK, Up
<1>2. CASE semQ # <<>>
  <2>1. Head(semQ) \in Readers /\ Tail(semQ) \in Seq(Readers)
    BY <1>2 DEF TypeOK
  <2> QED
    BY <1>2, <2>1 DEF TypeOK, Up
<1> QED
  BY <1>1, <1>2

(* The handlers and dev_read keep every variable in its type, with signals *)
(* and the button or without (adc.c:119-252).                              *)
LEMMA TypeStep == TypeOK /\ [Next]_vars => TypeOK'
<1> SUFFICES ASSUME TypeOK, [Next]_vars PROVE TypeOK'
  OBVIOUS
<1> USE ConstantsAssumption DEF ConstantsAssumption, TypeOK, Goes
<1>1. ASSUME NEW r \in Readers, User(r) PROVE TypeOK'
  <2>1. CASE Open(r)
    BY <2>1 DEF Open, semaphore, globals, converter, signalled
  <2>2. CASE Read(r)
    BY <2>2 DEF Read, semaphore, globals, converter, signalled, files
  <2>3. CASE ReadRest(r)
    BY <2>3 DEF ReadRest, CopyToUser, semaphore, globals, converter, signalled
  <2>4. CASE Release(r)
    BY <2>4 DEF Release, semaphore, globals, converter, signalled
  <2> QED
    BY <1>1, <2>1, <2>2, <2>3, <2>4 DEF User
<1>2. ASSUME NEW r \in Readers, DevRead(r) PROVE TypeOK'
  <2>1. CASE Down(r)
    <3>1. CASE sem > 0
      <4>1. sem' = sem - 1 /\ semQ' = semQ /\ Goes(r, "down", "task")
        BY <2>1, <3>1 DEF Down
      <4>2. sem' \in Nat
        BY <3>1, <4>1
      <4> QED
        BY <2>1, <4>1, <4>2 DEF Down, globals, converter, signalled, files
    <3>2. CASE ~(sem > 0)
      <4>1. semQ' = Append(semQ, r) /\ sem' = sem /\ Goes(r, "down", "waiting")
        BY <2>1, <3>2 DEF Down
      <4>2. semQ' \in Seq(Readers)
        BY <4>1
      <4> QED
        BY <2>1, <4>1, <4>2 DEF Down, globals, converter, signalled, files
    <3> QED
      BY <3>1, <3>2
  <2>2. CASE SetCurrentTask(r)
    BY <2>2 DEF SetCurrentTask, semaphore, converter, signalled, files
  <2>3. CASE SetCurrentState(r)
    BY <2>3 DEF SetCurrentState, semaphore, globals, converter, signalled, files
  <2>4. CASE SelectChannel(r)
    BY <2>4 DEF SelectChannel, Clamp, semaphore, globals, signalled, files
  <2>5. CASE SetAdcChannel(r)
    BY <2>5 DEF SetAdcChannel, Clamp, semaphore, converter, signalled, files
  <2>6. CASE Strobe(r)
    BY <2>6 DEF Strobe, Started, semaphore, globals, signalled, files
  <2>7. CASE Schedule(r)
    BY <2>7 DEF Schedule, MayReturn, semaphore, globals, converter, signalled, files
  <2>8. CASE ReadValue(r)
    BY <2>8 DEF ReadValue, semaphore, globals, converter, signalled
  <2>9. CASE UpAfterRead(r)
    BY <2>9, UpType DEF UpAfterRead, globals, converter, signalled, files
  <2>10. CASE Copy(r)
    BY <2>10 DEF Copy, CopyToUser, semaphore, globals, converter
  <2> QED
    BY <1>2, <2>1, <2>2, <2>3, <2>4, <2>5, <2>6, <2>7, <2>8, <2>9, <2>10
    DEF DevRead
<1>3. ASSUME NEW r \in Readers, Signal(r) PROVE TypeOK'
  BY <1>3 DEF Signal, semaphore, globals, converter, files
<1>4. CASE AdcInterrupt
  <2>1. CASE current_task # NULL
    BY <1>4, <2>1 DEF AdcInterrupt, WakeOrUp, semaphore, signalled, files
  <2>2. CASE current_task = NULL
    BY <1>4, <2>2, UpType DEF AdcInterrupt, WakeOrUp, signalled, files
  <2> QED
    BY <2>1, <2>2
<1>5. CASE GpInterrupt
  BY <1>5 DEF GpInterrupt, DownTrylock, Clamp, Started, signalled, files
<1>6. CASE ConversionDone
  BY <1>6 DEF ConversionDone, semaphore, globals, signalled, files
<1>7. CASE AnalogChanges
  BY <1>7 DEF AnalogChanges, semaphore, globals, converter, signalled, files
<1>8. CASE UNCHANGED vars
  BY <1>8 DEF vars, semaphore, globals, converter, signalled, files
<1> QED
  BY <1>1, <1>2, <1>3, <1>4, <1>5, <1>6, <1>7, <1>8 DEF Next

(* The state after loading the driver has the right types.                 *)
LEMMA TypeInit == Init => TypeOK
<1> SUFFICES ASSUME Init PROVE TypeOK
  OBVIOUS
<1> USE ConstantsAssumption DEF ConstantsAssumption, Init
<1>1. sem \in Nat /\ semQ \in Seq(Readers)
  OBVIOUS
<1>2. adc_channel \in Channels /\ adc_values \in [Channels -> Levels]
  OBVIOUS
<1>3. select \in Channels /\ converting \in Channels \cup {Idle} /\ result \in Levels
  OBVIOUS
<1>4. signals \in 0..MaxSignals /\ offset \in [Readers -> 0..MsgLength]
  OBVIOUS
<1> QED
  BY <1>1, <1>2, <1>3, <1>4 DEF TypeOK

(* TypeOK is an invariant for all values of the constants, signals and     *)
(* button presses included (adc.c:54-60, 119-252).                         *)
THEOREM TypeCorrect == Spec => []TypeOK
<1> QED
  BY TypeInit, TypeStep, PTL DEF Spec

-----------------------------------------------------------------------------
(* What the operations of the semaphore do to its line of waiters.         *)

(* A reader that does not wait can move without disturbing the line.       *)
LEMMA QueueKept ==
  ASSUME TypeOK, QueueInv, NEW r \in Readers, pc[r] # "waiting",
         NEW l, pc' = [pc EXCEPT ![r] = l], semQ' = semQ
  PROVE  QueueInv'
<1>1. pc \in [Readers -> Labels] /\ semQ \in Seq(Readers)
  BY DEF TypeOK
<1>2. \A i \in 1..Len(semQ) : semQ[i] \in Readers /\ pc[semQ[i]] = "waiting"
  BY <1>1 DEF QueueInv
<1>3. \A i \in 1..Len(semQ) : pc'[semQ[i]] = "waiting"
  BY <1>1, <1>2
<1> QED
  BY <1>3 DEF QueueInv

(* Joining the line keeps its places distinct.                             *)
LEMMA QueueJoined ==
  ASSUME TypeOK, QueueInv, NEW r \in Readers, pc[r] # "waiting",
         pc' = [pc EXCEPT ![r] = "waiting"], semQ' = Append(semQ, r)
  PROVE  QueueInv'
<1>1. pc \in [Readers -> Labels] /\ semQ \in Seq(Readers)
  BY DEF TypeOK
<1>2. semQ' \in Seq(Readers) /\ Len(semQ') = Len(semQ) + 1 /\ semQ'[Len(semQ) + 1] = r
  BY <1>1
<1>3. \A i \in 1..Len(semQ) : semQ[i] \in Readers /\ pc[semQ[i]] = "waiting" /\ semQ[i] # r
  BY <1>1 DEF QueueInv
<1>4. \A i \in 1..Len(semQ) : semQ'[i] = semQ[i]
  BY <1>1
<1>5. \A i \in 1..Len(semQ') : i \in 1..Len(semQ) \/ i = Len(semQ) + 1
  BY <1>1, <1>2
<1>6. \A i \in 1..Len(semQ') : pc'[semQ'[i]] = "waiting"
  BY <1>1, <1>2, <1>3, <1>4, <1>5
<1>7. \A i, j \in 1..Len(semQ') : semQ'[i] = semQ'[j] => i = j
  BY <1>2, <1>3, <1>4, <1>5 DEF QueueInv
<1> QED
  BY <1>6, <1>7 DEF QueueInv

(* up() with waiters: the first one, and nobody else, leaves the line.     *)
LEMMA QueueServed ==
  ASSUME TypeOK, QueueInv, semQ # <<>>,
         NEW nextpc \in [Readers -> Labels], Up(nextpc),
         \A s \in Readers : pc[s] = "waiting" => nextpc[s] = "waiting"
  PROVE  /\ QueueInv'
         /\ Head(semQ) \in Readers /\ pc[Head(semQ)] = "waiting"
<1>1. /\ semQ \in Seq(Readers) /\ Len(semQ) \in Nat \ {0}
      /\ Head(semQ) = semQ[1] /\ Head(semQ) \in Readers
  BY DEF TypeOK
<1>2. /\ semQ' = Tail(semQ) /\ Len(semQ') = Len(semQ) - 1
      /\ \A i \in 1..Len(semQ') : semQ'[i] = semQ[i + 1]
  BY <1>1 DEF Up
<1>3. pc' = [nextpc EXCEPT ![Head(semQ)] = "task"]
  BY DEF Up
<1>4. \A i \in 1..Len(semQ) : semQ[i] \in Readers /\ pc[semQ[i]] = "waiting"
  BY <1>1 DEF QueueInv
<1>5. \A i \in 1..Len(semQ') : pc'[semQ'[i]] = "waiting"
  <2> TAKE i \in 1..Len(semQ')
  <2>1. i + 1 \in 1..Len(semQ) /\ i + 1 # 1
    BY <1>1, <1>2
  <2>2. semQ'[i] = semQ[i + 1] /\ semQ[i + 1] # Head(semQ)
    BY <1>1, <1>2, <2>1 DEF QueueInv
  <2> QED
    BY <1>3, <1>4, <2>1, <2>2
<1>6. \A i, j \in 1..Len(semQ') : semQ'[i] = semQ'[j] => i = j
  BY <1>1, <1>2 DEF QueueInv
<1> QED
  BY <1>1, <1>4, <1>5, <1>6 DEF QueueInv

-----------------------------------------------------------------------------
(* Every step keeps the line of waiters in order, for any number of        *)
(* signals: each waiter once, and the semaphore not free.                  *)
LEMMA LineStep == TypeOK /\ LineInv /\ [Next]_vars => LineInv'
<1> SUFFICES ASSUME TypeOK, LineInv, [Next]_vars PROVE LineInv'
  OBVIOUS
<1> USE DEF LineInv
<1>1. ASSUME UNCHANGED <<semaphore, pc>> PROVE LineInv'
  BY <1>1 DEF semaphore, QueueInv
<1>2. ASSUME NEW r \in Readers, pc[r] # "waiting", UNCHANGED semaphore,
             NEW l, pc' = [pc EXCEPT ![r] = l]
      PROVE  LineInv'
  BY <1>2, QueueKept DEF semaphore
<1>3. ASSUME NEW nextpc \in [Readers -> Labels], Up(nextpc),
             NEW r \in Readers, pc[r] # "waiting",
             \A s \in Readers : s # r => nextpc[s] = pc[s]
      PROVE  LineInv'
  <2>1. CASE semQ = <<>>
    BY <1>3, <2>1 DEF Up, QueueInv
  <2>2. CASE semQ # <<>>
    <3>1. QueueInv'
      BY <1>3, <2>2, QueueServed
    <3>2. sem' = sem /\ sem = 0
      BY <1>3, <2>2 DEF Up, TypeOK
    <3> QED
      BY <3>1, <3>2
  <2> QED
    BY <2>1, <2>2
<1>4. ASSUME NEW r \in Readers, User(r) PROVE LineInv'
  <2>1. CASE Open(r)
    BY <1>2, <2>1 DEF Open, Goes
  <2>2. CASE Read(r)
    BY <1>2, <2>2 DEF Read, Goes
  <2>3. CASE ReadRest(r)
    BY <1>1, <2>3 DEF ReadRest
  <2>4. CASE Release(r)
    BY <1>2, <2>4 DEF Release, Goes
  <2> QED
    BY <1>4, <2>1, <2>2, <2>3, <2>4 DEF User
<1>5. ASSUME NEW r \in Readers, Down(r) PROVE LineInv'
  <2>1. CASE sem > 0
    <3>1. semQ' = <<>>
      BY <1>5, <2>1 DEF Down
    <3> QED
      BY <3>1 DEF QueueInv
  <2>2. CASE ~(sem > 0)
    BY <1>5, <2>2, QueueJoined DEF Down, Goes
  <2> QED
    BY <2>1, <2>2
<1>6. ASSUME NEW r \in Readers, UpAfterRead(r) PROVE LineInv'
  <2> DEFINE next == [pc EXCEPT ![r] = "copy"]
  <2>1. next \in [Readers -> Labels] /\ pc[r] # "waiting" /\ Up(next)
    BY <1>6 DEF UpAfterRead, TypeOK
  <2>2. \A s \in Readers : s # r => next[s] = pc[s]
    BY DEF TypeOK
  <2> QED
    BY <1>3, <2>1, <2>2
<1>7. ASSUME NEW r \in Readers,
             \/ SetCurrentTask(r) \/ SetCurrentState(r) \/ SelectChannel(r)
             \/ SetAdcChannel(r) \/ Strobe(r) \/ Schedule(r) \/ ReadValue(r)
             \/ Copy(r)
      PROVE  LineInv'
  <2>1. /\ UNCHANGED semaphore /\ pc[r] # "waiting"
        /\ \E l \in Labels : pc' = [pc EXCEPT ![r] = l]
    BY <1>7 DEF SetCurrentTask, SetCurrentState, SelectChannel, SetAdcChannel,
       Strobe, Schedule, MayReturn, ReadValue, Copy, Goes, semaphore
  <2> QED
    BY <1>2, <2>1
<1>8. CASE AdcInterrupt
  <2>1. CASE current_task # NULL
    BY <1>1, <1>8, <2>1 DEF AdcInterrupt, WakeOrUp
  <2>2. CASE current_task = NULL /\ semQ = <<>>
    BY <1>8, <2>2 DEF AdcInterrupt, WakeOrUp, Up, QueueInv
  <2>3. CASE current_task = NULL /\ semQ # <<>>
    <3>1. Up(pc) /\ pc \in [Readers -> Labels]
      BY <1>8, <2>3 DEF AdcInterrupt, WakeOrUp, TypeOK
    <3>2. QueueInv'
      BY <2>3, <3>1, QueueServed
    <3>3. sem' = sem /\ sem = 0
      BY <2>3, <3>1 DEF Up, TypeOK
    <3> QED
      BY <3>2, <3>3
  <2> QED
    BY <2>1, <2>2, <2>3
<1>9. CASE GpInterrupt
  <2>1. semQ' = <<>>
    BY <1>9 DEF GpInterrupt, DownTrylock
  <2> QED
    BY <2>1 DEF QueueInv
<1>10. CASE UNCHANGED vars \/ ConversionDone \/ AnalogChanges \/ \E r \in Readers : Signal(r)
  BY <1>1, <1>10 DEF vars, ConversionDone, AnalogChanges, Signal
<1> QED
  BY <1>4, <1>5, <1>6, <1>7, <1>8, <1>9, <1>10 DEF Next, DevRead

(* Nobody gets the semaphore before a reader that waits for it, however    *)
(* many signals and button presses there are (adc.c:162, 197).             *)
THEOREM FirstComeFirstServed == Spec => NobodyOvertakes
<1> DEFINE Taken == \/ gpHeld' /\ ~gpHeld
                    \/ \E r \in Readers : pc[r] = "down" /\ pc'[r] = "task"
<1>1. Init => LineInv
  BY DEF Init, LineInv, QueueInv
<1>2. TypeOK /\ LineInv /\ [Next]_vars => [Taken => semQ = <<>>]_vars
  <2> SUFFICES ASSUME TypeOK, LineInv, Next, Taken, semQ # <<>>
               PROVE  FALSE
    OBVIOUS
  <2>1. sem = 0
    BY DEF TypeOK, LineInv
  <2>2. CASE gpHeld' /\ ~gpHeld
    <3>1. ~GpInterrupt
      BY <2>1 DEF GpInterrupt, DownTrylock
    <3>2. ASSUME NEW r \in Readers, User(r) \/ DevRead(r) \/ Signal(r)
          PROVE  gpHeld' = gpHeld
      BY <3>2 DEF User, DevRead, Open, Read, ReadRest, Release, Down,
         SetCurrentTask, SetCurrentState, SelectChannel, SetAdcChannel, Strobe,
         Schedule, MayReturn, ReadValue, UpAfterRead, Copy, Signal
    <3>3. AdcInterrupt \/ ConversionDone \/ AnalogChanges => gpHeld' = gpHeld \/ ~gpHeld'
      BY DEF AdcInterrupt, WakeOrUp, ConversionDone, AnalogChanges
    <3> QED
      BY <2>2, <3>1, <3>2, <3>3 DEF Next
  <2>3. ASSUME NEW r \in Readers, pc[r] = "down", pc'[r] = "task"
        PROVE  FALSE
    <3>1. ASSUME NEW nextpc \in [Readers -> Labels], Up(nextpc), nextpc[r] # "task",
                 \A s \in Readers : pc[s] = "waiting" => nextpc[s] = "waiting"
          PROVE  FALSE
      <4>1. Head(semQ) \in Readers /\ pc[Head(semQ)] = "waiting"
        BY <3>1, QueueServed DEF LineInv
      <4>2. pc'[r] = nextpc[r]
        BY <2>3, <3>1, <4>1 DEF Up
      <4> QED
        BY <2>3, <3>1, <4>2
    <3>2. ASSUME NEW q \in Readers, UpAfterRead(q) PROVE FALSE
      <4> DEFINE next == [pc EXCEPT ![q] = "copy"]
      <4>1. next \in [Readers -> Labels] /\ Up(next) /\ next[r] # "task"
        BY <2>3, <3>2 DEF UpAfterRead, TypeOK
      <4>2. \A s \in Readers : pc[s] = "waiting" => next[s] = "waiting"
        BY <3>2 DEF UpAfterRead, TypeOK
      <4> QED
        BY <3>1, <4>1, <4>2
    <3>3. ASSUME AdcInterrupt PROVE FALSE
      BY <2>3, <3>1, <3>3 DEF AdcInterrupt, WakeOrUp, TypeOK
    <3>4. ASSUME NEW q \in Readers, DevRead(q), ~UpAfterRead(q) PROVE FALSE
      <4>1. CASE Down(q)
        <5>1. Goes(q, "down", "waiting")
          BY <2>1, <4>1 DEF Down
        <5> QED
          BY <2>3, <5>1 DEF Goes, TypeOK
      <4>2. CASE ~Down(q)
        <5>1. \E l \in Labels : l # "task" /\ pc' = [pc EXCEPT ![q] = l]
          BY <3>4, <4>2 DEF DevRead, Goes, SetCurrentTask, SetCurrentState,
             SelectChannel, SetAdcChannel, Strobe, Schedule, MayReturn, ReadValue, Copy
        <5> QED
          BY <2>3, <5>1 DEF TypeOK
      <4> QED
        BY <4>1, <4>2
    <3>5. ASSUME NEW q \in Readers, User(q) PROVE FALSE
      BY <2>3, <3>5 DEF TypeOK, User, Goes, Open, Read, ReadRest, Release
    <3> QED
      BY <2>3, <3>2, <3>3, <3>4, <3>5
      DEF Next, Signal, GpInterrupt, DownTrylock, ConversionDone, AnalogChanges
  <2> QED
    BY <2>2, <2>3
<1> QED
  BY <1>1, <1>2, LineStep, TypeCorrect, PTL DEF Spec, NobodyOvertakes

-----------------------------------------------------------------------------
(* The critical section.                                                   *)

(* A step that moves nobody into or out of the critical section and leaves *)
(* the semaphore alone keeps the section exclusive.                        *)
LEMMA MutexKept ==
  ASSUME MutexInv, sem' = sem, gpHeld' = gpHeld, sem = 0 \/ semQ' = semQ,
         \A s \in Readers : pc'[s] \in Inside <=> pc[s] \in Inside
  PROVE  MutexInv'
<1> HIDE DEF Inside
<1> QED
  BY DEF MutexInv

(* The same for a step of one reader.                                      *)
LEMMA MutexSame ==
  ASSUME TypeOK, MutexInv, NEW r \in Readers, NEW a, NEW b, Goes(r, a, b),
         a \in Inside <=> b \in Inside, UNCHANGED <<semaphore, gpHeld>>
  PROVE  MutexInv'
<1>1. pc[r] = a /\ pc'[r] = b /\ \A s \in Readers : s # r => pc'[s] = pc[s]
  BY DEF TypeOK, Goes
<1> HIDE DEF Inside
<1>2. \A s \in Readers : pc'[s] \in Inside <=> pc[s] \in Inside
  BY <1>1
<1> QED
  BY <1>2, MutexKept DEF semaphore

(* A step that leaves the converter alone and wakes nobody who waits for   *)
(* it does not disturb the conversion in flight.                           *)
LEMMA FlightSame ==
  ASSUME FlightInv, UNCHANGED <<converting, irq, gpHeld>>,
         \A s \in Readers : pc[s] = "schedule" => pc'[s] = "schedule"
  PROVE  FlightInv'
BY DEF FlightInv, InFlight

(* Where the others are after a step of one reader: where they were.       *)
LEMMA OthersStay ==
  ASSUME TypeOK, NEW r \in Readers, NEW a, NEW b, Goes(r, a, b)
  PROVE  pc[r] = a /\ pc'[r] = b /\ \A s \in Readers : s # r => pc'[s] = pc[s]
BY DEF TypeOK, Goes

-----------------------------------------------------------------------------
(* Statements of dev_read outside the critical section, open and release.  *)
LEMMA OutsideStep ==
  ASSUME IInv, TypeOK', NEW r \in Readers,
         \/ Open(r) \/ Read(r) \/ ReadRest(r) \/ Release(r) \/ Down(r) \/ Copy(r)
  PROVE  IInv'
<1> USE ConstantsAssumption
    DEF ConstantsAssumption, Goes, IInv, InFlight, TypeOK
<1>1. CASE Open(r)
  <2>1. QueueInv'
    BY <1>1, QueueKept DEF Open, semaphore
  <2>2. (NoSignals /\ MutexInv /\ FlightInv)'
    <3>1. NoSignals'
      BY <1>1 DEF Open, signalled, NoSignals
    <3>2. Goes(r, "closed", "open") /\ UNCHANGED <<semaphore, converting, irq, gpHeld>>
      BY <1>1 DEF Open, semaphore, converter
    <3>3. \A s \in Readers : pc[s] = "schedule" => pc'[s] = "schedule"
      BY <3>2, OthersStay
    <3>4. MutexInv'
      BY <3>2, MutexSame DEF Inside
    <3> QED
      BY <3>1, <3>2, <3>3, <3>4, FlightSame
  <2>3. (TaskInv /\ ChannelInv /\ ValueInv)'
    BY <1>1 DEF Open, globals, converter, TaskInv, ChannelInv, ValueInv
  <2> QED
    BY <2>1, <2>2, <2>3
<1>2. CASE Read(r)
  <2>1. QueueInv'
    BY <1>2, QueueKept DEF Read, semaphore
  <2>2. (NoSignals /\ MutexInv /\ FlightInv)'
    <3>1. NoSignals'
      BY <1>2 DEF Read, signalled, NoSignals
    <3>2. Goes(r, "open", "down") /\ UNCHANGED <<semaphore, converting, irq, gpHeld>>
      BY <1>2 DEF Read, semaphore, converter
    <3>3. \A s \in Readers : pc[s] = "schedule" => pc'[s] = "schedule"
      BY <3>2, OthersStay
    <3>4. MutexInv'
      BY <3>2, MutexSame DEF Inside
    <3> QED
      BY <3>1, <3>2, <3>3, <3>4, FlightSame
  <2>3. (TaskInv /\ ChannelInv /\ ValueInv)'
    BY <1>2 DEF Read, globals, converter, files, TaskInv, ChannelInv, ValueInv
  <2> QED
    BY <2>1, <2>2, <2>3
<1>3. CASE ReadRest(r)
  <2>1. (NoSignals /\ QueueInv)' /\ MutexInv' /\ FlightInv'
    <3>1. (NoSignals /\ QueueInv /\ FlightInv)'
      BY <1>3 DEF ReadRest, semaphore, converter, signalled,
         NoSignals, QueueInv, FlightInv
    <3> QED
      BY <1>3, <3>1, MutexKept DEF ReadRest, semaphore
  <2>2. (TaskInv /\ ChannelInv /\ ValueInv)'
    BY <1>3 DEF ReadRest, globals, converter, TaskInv, ChannelInv, ValueInv
  <2> QED
    BY <2>1, <2>2
<1>4. CASE Release(r)
  <2>1. QueueInv'
    BY <1>4, QueueKept DEF Release, semaphore
  <2>2. (NoSignals /\ MutexInv /\ FlightInv)'
    <3>1. NoSignals'
      BY <1>4 DEF Release, signalled, NoSignals
    <3>2. Goes(r, "open", "closed") /\ UNCHANGED <<semaphore, converting, irq, gpHeld>>
      BY <1>4 DEF Release, semaphore, converter
    <3>3. \A s \in Readers : pc[s] = "schedule" => pc'[s] = "schedule"
      BY <3>2, OthersStay
    <3>4. MutexInv'
      BY <3>2, MutexSame DEF Inside
    <3> QED
      BY <3>1, <3>2, <3>3, <3>4, FlightSame
  <2>3. (TaskInv /\ ChannelInv /\ ValueInv)'
    BY <1>4 DEF Release, globals, converter, TaskInv, ChannelInv, ValueInv
  <2> QED
    BY <2>1, <2>2, <2>3
<1>5. CASE Down(r)
  <2>1. CASE sem > 0
    <3>1. sem' = 0 /\ semQ' = semQ /\ Goes(r, "down", "task")
      BY <1>5, <2>1 DEF Down, MutexInv
    <3>2. QueueInv'
      BY <3>1, QueueKept
    <3>3. MutexInv'
      BY <1>5, <2>1, <3>1 DEF Down, MutexInv
    <3>4. (NoSignals /\ FlightInv /\ TaskInv /\ ChannelInv /\ ValueInv)'
      BY <1>5, <3>1 DEF Down, globals, converter, signalled, files,
         NoSignals, FlightInv, TaskInv, ChannelInv, ValueInv
    <3> QED
      BY <3>2, <3>3, <3>4
  <2>2. CASE ~(sem > 0)
    <3>1. sem' = sem /\ semQ' = Append(semQ, r) /\ Goes(r, "down", "waiting")
      BY <1>5, <2>2 DEF Down
    <3>2. QueueInv'
      BY <3>1, QueueJoined
    <3>3. MutexInv'
      <4>1. sem = 0 /\ sem' = 0 /\ gpHeld' = gpHeld
        BY <1>5, <2>2, <3>1 DEF Down, MutexInv
      <4>2. \A s \in Readers : pc'[s] \in Inside <=> pc[s] \in Inside
        BY <3>1
      <4> QED
        BY <4>1, <4>2, MutexKept
    <3>4. (NoSignals /\ FlightInv /\ TaskInv /\ ChannelInv /\ ValueInv)'
      BY <1>5, <3>1 DEF Down, globals, converter, signalled, files,
         NoSignals, FlightInv, TaskInv, ChannelInv, ValueInv
    <3> QED
      BY <3>2, <3>3, <3>4
  <2> QED
    BY <2>1, <2>2
<1>6. CASE Copy(r)
  <2>1. QueueInv'
    BY <1>6, QueueKept DEF Copy, semaphore
  <2>2. (NoSignals /\ MutexInv /\ FlightInv)'
    <3>1. NoSignals'
      BY <1>6 DEF Copy, signalled, NoSignals
    <3>2. Goes(r, "copy", "open") /\ UNCHANGED <<semaphore, converting, irq, gpHeld>>
      BY <1>6 DEF Copy, semaphore, converter
    <3>3. \A s \in Readers : pc[s] = "schedule" => pc'[s] = "schedule"
      BY <3>2, OthersStay
    <3>4. MutexInv'
      BY <3>2, MutexSame DEF Inside
    <3> QED
      BY <3>1, <3>2, <3>3, <3>4, FlightSame
  <2>3. (TaskInv /\ ChannelInv /\ ValueInv)'
    BY <1>6 DEF Copy, globals, converter, TaskInv, ChannelInv, ValueInv
  <2> QED
    BY <2>1, <2>2, <2>3
<1> QED
  BY <1>1, <1>2, <1>3, <1>4, <1>5, <1>6

(* Statements of dev_read between its down and its up.                     *)
LEMMA InsideStep ==
  ASSUME IInv, TypeOK', NEW r \in Readers,
         \/ SetCurrentTask(r) \/ SetCurrentState(r) \/ SelectChannel(r)
         \/ SetAdcChannel(r) \/ Strobe(r) \/ Schedule(r) \/ ReadValue(r)
  PROVE  IInv'
<1> USE ConstantsAssumption
    DEF ConstantsAssumption, Goes, IInv, InFlight, TypeOK
<1>0. (NoSignals /\ QueueInv)'
  <2>1. /\ semQ' = semQ /\ sigPending' = sigPending
        /\ pc[r] # "waiting" /\ \E l \in Labels : pc' = [pc EXCEPT ![r] = l]
    BY DEF SetCurrentTask, SetCurrentState, SelectChannel, SetAdcChannel,
       Strobe, Schedule, MayReturn, ReadValue, semaphore, signalled
  <2> QED
    BY <2>1, QueueKept DEF NoSignals
<1>m. ASSUME NEW a \in Inside, NEW b \in Inside, Goes(r, a, b),
             a # "schedule", UNCHANGED <<semaphore, converting, irq, gpHeld>>
      PROVE  (MutexInv /\ FlightInv)'
  <2>1. \A s \in Readers : pc[s] = "schedule" => pc'[s] = "schedule"
    BY <1>m, OthersStay
  <2> QED
    BY <1>m, <2>1, MutexSame, FlightSame
<1>1. CASE SetCurrentTask(r)
  <2>1. (MutexInv /\ FlightInv)'
    BY <1>1, <1>m DEF SetCurrentTask, converter, Inside
  <2>2. TaskInv'
    BY <1>1 DEF SetCurrentTask, converter, MutexInv, FlightInv, TaskInv
  <2>3. (ChannelInv /\ ValueInv)'
    BY <1>1 DEF SetCurrentTask, converter, files, ChannelInv, ValueInv
  <2> QED
    BY <1>0, <2>1, <2>2, <2>3
<1>2. CASE SetCurrentState(r)
  <2>1. (MutexInv /\ FlightInv)'
    BY <1>2, <1>m DEF SetCurrentState, converter, Inside
  <2>2. TaskInv'
    BY <1>2 DEF SetCurrentState, globals, converter, TaskInv
  <2>3. ChannelInv'
    BY <1>2 DEF SetCurrentState, globals, converter, files, ChannelInv
  <2>4. ValueInv'
    BY <1>2 DEF SetCurrentState, globals, converter, files, ValueInv
  <2> QED
    BY <1>0, <2>1, <2>2, <2>3, <2>4
<1>3. CASE SelectChannel(r)
  <2>1. (MutexInv /\ FlightInv)'
    BY <1>3, <1>m DEF SelectChannel, Inside
  <2>2. TaskInv'
    BY <1>3 DEF SelectChannel, globals, TaskInv
  <2>3. ChannelInv'
    BY <1>3 DEF SelectChannel, Clamp, globals, files, MutexInv, ChannelInv
  <2>4. ValueInv'
    BY <1>3 DEF SelectChannel, globals, files, ValueInv
  <2> QED
    BY <1>0, <2>1, <2>2, <2>3, <2>4
<1>4. CASE SetAdcChannel(r)
  <2>1. (MutexInv /\ FlightInv)'
    BY <1>4, <1>m DEF SetAdcChannel, converter, Inside
  <2>2. TaskInv'
    BY <1>4 DEF SetAdcChannel, converter, TaskInv
  <2>3. ChannelInv'
    BY <1>4 DEF SetAdcChannel, Clamp, converter, files, MutexInv, ChannelInv
  <2>4. ValueInv'
    BY <1>4 DEF SetAdcChannel, converter, files, ValueInv
  <2> QED
    BY <1>0, <2>1, <2>2, <2>3, <2>4
<1>5. CASE Strobe(r)
  <2>1. ~InFlight /\ ~gpHeld /\ current_task = r
    BY <1>5 DEF Strobe, MutexInv, FlightInv, TaskInv
  <2>2. converting' = channel[r] /\ ~irq'
    BY <1>5, <2>1 DEF Strobe, Started, ChannelInv
  <2>3. MutexInv' /\ FlightInv'
    <3>1. MutexInv'
      <4>1. \A s \in Readers : pc'[s] \in Inside <=> pc[s] \in Inside
        BY <1>5 DEF Strobe
      <4> QED
        BY <1>5, <4>1, MutexKept DEF Strobe, semaphore
    <3>2. FlightInv'
      BY <1>5, <2>1, <2>2 DEF Strobe, FlightInv
    <3> QED
      BY <3>1, <3>2
  <2>4. TaskInv'
    <3>1. Goes(r, "strobe", "schedule") /\ UNCHANGED <<current_task, taskState>>
      BY <1>5 DEF Strobe, globals
    <3>2. ASSUME NEW s \in Readers, s # r
          PROVE  pc'[s] = pc[s] /\ pc[s] \notin Inside
      BY <3>1, <3>2, OthersStay DEF MutexInv
    <3>3. InFlight' /\ pc'[r] = "schedule" /\ taskState[r] = "INTERRUPTIBLE"
      BY <2>2, <3>1, OthersStay, ConstantsAssumption DEF TaskInv
    <3> QED
      BY <2>1, <3>1, <3>2, <3>3 DEF TaskInv
  <2>5. (ChannelInv /\ ValueInv)'
    BY <1>5, <2>1, <2>2 DEF Strobe, globals, files, MutexInv, ChannelInv, ValueInv
  <2> QED
    BY <1>0, <2>3, <2>4, <2>5
<1>6. CASE Schedule(r)
  <2>1. ~InFlight
    BY <1>6 DEF Schedule, MayReturn, NoSignals, TaskInv
  <2>2. Goes(r, "schedule", "value") /\ UNCHANGED <<semaphore, converting, irq, gpHeld>>
    BY <1>6 DEF Schedule, converter
  <2>3. MutexInv'
    BY <2>2, MutexSame DEF Inside
  <2>4. FlightInv'
    BY <2>1, <2>2 DEF FlightInv
  <2>5. TaskInv'
    BY <1>6, <2>1 DEF Schedule, globals, converter, TaskInv
  <2>6. ChannelInv'
    BY <1>6 DEF Schedule, globals, converter, files, ChannelInv
  <2>7. ValueInv'
    BY <1>6, <2>1 DEF Schedule, globals, converter, files, ValueInv
  <2> QED
    BY <1>0, <2>3, <2>4, <2>5, <2>6, <2>7
<1>7. CASE ReadValue(r)
  <2>1. (MutexInv /\ FlightInv)'
    BY <1>7, <1>m DEF ReadValue, converter, Inside
  <2>2. TaskInv'
    BY <1>7 DEF ReadValue, globals, converter, TaskInv
  <2>3. ChannelInv'
    BY <1>7 DEF ReadValue, globals, converter, ChannelInv
  <2>4. ValueInv'
    BY <1>7 DEF ReadValue, globals, converter, ValueInv
  <2> QED
    BY <1>0, <2>1, <2>2, <2>3, <2>4
<1> QED
  BY <1>1, <1>2, <1>3, <1>4, <1>5, <1>6, <1>7

(* The reader gives the semaphore back.                                    *)
LEMMA UpStep ==
  ASSUME IInv, TypeOK', NEW r \in Readers, UpAfterRead(r)
  PROVE  IInv'
<1> USE DEF IInv, InFlight, TypeOK
<1>1. /\ sem = 0 /\ ~gpHeld /\ ~InFlight
      /\ \A s \in Readers : s # r => pc[s] \notin Inside
  BY DEF UpAfterRead, MutexInv, FlightInv
<1>2. (NoSignals /\ FlightInv)'
  BY <1>1 DEF UpAfterRead, converter, signalled, NoSignals, FlightInv
<1>3. CASE semQ = <<>>
  <2>1. sem' = 1 /\ semQ' = semQ /\ pc' = [pc EXCEPT ![r] = "copy"]
    BY <1>1, <1>3 DEF UpAfterRead, Up
  <2>2. QueueInv' /\ MutexInv'
    BY <1>1, <1>3, <2>1 DEF UpAfterRead, QueueInv, MutexInv
  <2>3. (TaskInv /\ ChannelInv /\ ValueInv)'
    BY <2>1 DEF UpAfterRead, globals, converter, files, TaskInv, ChannelInv, ValueInv
  <2> QED
    BY <1>2, <2>2, <2>3
<1>4. CASE semQ # <<>>
  <2> DEFINE h == Head(semQ)
             next == [pc EXCEPT ![r] = "copy"]
  <2>1. next \in [Readers -> Labels] /\ Up(next)
    BY DEF UpAfterRead
  <2>2. \A s \in Readers : pc[s] = "waiting" => next[s] = "waiting"
    BY DEF UpAfterRead
  <2>3. QueueInv' /\ h \in Readers /\ pc[h] = "waiting"
    BY <1>4, <2>1, <2>2, QueueServed
  <2>4. sem' = 0 /\ pc' = [pc EXCEPT ![r] = "copy", ![h] = "task"] /\ h # r
    BY <1>1, <1>4, <2>3 DEF UpAfterRead, Up
  <2>5. MutexInv'
    <3>1. \A s \in Readers : pc'[s] \in Inside <=> s = h
      BY <1>1, <2>3, <2>4
    <3>2. sem' = 0 /\ ~gpHeld' /\ h \in Readers
      BY <1>1, <2>3, <2>4 DEF UpAfterRead
    <3> HIDE DEF h, Inside
    <3>3. \E s \in Readers : pc'[s] \in Inside
      BY <3>1, <3>2
    <3>4. \A s, t \in Readers : pc'[s] \in Inside /\ pc'[t] \in Inside => s = t
      BY <3>1
    <3> HIDE DEF IInv, TypeOK
    <3> QED
      BY <3>2, <3>3, <3>4 DEF MutexInv
  <2>6. (TaskInv /\ ChannelInv /\ ValueInv)'
    BY <2>3, <2>4 DEF UpAfterRead, globals, converter, files, TaskInv, ChannelInv, ValueInv
  <2> QED
    BY <1>2, <2>3, <2>5, <2>6
<1> QED
  BY <1>3, <1>4

(* The end-of-conversion interrupt, for a reader or for the button.        *)
LEMMA AdcInterruptStep ==
  ASSUME IInv, TypeOK', AdcInterrupt
  PROVE  IInv'
<1> USE ConstantsAssumption DEF ConstantsAssumption, IInv, InFlight, TypeOK
<1>1. irq /\ ~irq' /\ converting = Idle /\ converting' = Idle
  BY DEF AdcInterrupt, WakeOrUp, FlightInv
<1>2. (NoSignals /\ FlightInv)'
  BY <1>1 DEF AdcInterrupt, WakeOrUp, signalled, NoSignals, FlightInv, MutexInv, TaskInv
<1>3. CASE current_task # NULL
  <2>1. PICK r \in Readers : r = current_task
    BY <1>3
  <2>2. pc[r] = "schedule" /\ ~gpHeld /\ adc_channel = channel[r]
    BY <1>1, <2>1 DEF FlightInv, TaskInv, MutexInv, ChannelInv
  <2>3. /\ adc_values' = [adc_values EXCEPT ![adc_channel] = result]
        /\ taskState' = [taskState EXCEPT ![r] = "RUNNING"]
        /\ current_task' = NULL
        /\ UNCHANGED <<sem, semQ, pc, gpHeld, adc_channel, select, channel, value, analog, seen>>
    BY <1>3, <2>1 DEF AdcInterrupt, WakeOrUp, semaphore, files
  <2>4. QueueInv' /\ MutexInv'
    BY <2>3 DEF QueueInv, MutexInv
  <2>5. TaskInv'
    BY <1>1, <2>1, <2>2, <2>3 DEF TaskInv, MutexInv
  <2>6. (ChannelInv /\ ValueInv)'
    BY <1>1, <2>2, <2>3 DEF ChannelInv, ValueInv, MutexInv
  <2> QED
    BY <1>2, <2>4, <2>5, <2>6
<1>4. CASE current_task = NULL
  <2>1. gpHeld /\ sem = 0 /\ \A s \in Readers : pc[s] \notin Inside
    BY <1>1, <1>4 DEF FlightInv, TaskInv, MutexInv
  <2>2. /\ Up(pc) /\ ~gpHeld'
        /\ UNCHANGED <<taskState, current_task, adc_channel, select, channel, value, analog, seen>>
    BY <1>4 DEF AdcInterrupt, WakeOrUp, files
  <2>3. CASE semQ = <<>>
    <3>1. sem' = 1 /\ semQ' = semQ /\ pc' = pc
      BY <2>1, <2>2, <2>3 DEF Up
    <3>2. QueueInv' /\ MutexInv'
      BY <2>1, <2>2, <2>3, <3>1 DEF QueueInv, MutexInv
    <3>3. (TaskInv /\ ChannelInv /\ ValueInv)'
      BY <1>1, <2>1, <2>2, <3>1 DEF TaskInv, ChannelInv, ValueInv
    <3> QED
      BY <1>2, <3>2, <3>3
  <2>4. CASE semQ # <<>>
    <3> DEFINE h == Head(semQ)
    <3>1. QueueInv' /\ h \in Readers /\ pc[h] = "waiting"
      BY <2>2, <2>4, QueueServed
    <3>2. sem' = 0 /\ pc' = [pc EXCEPT ![h] = "task"]
      BY <2>1, <2>2, <2>4 DEF Up
    <3>3. \A s \in Readers : pc'[s] \in Inside <=> s = h
      BY <2>1, <3>1, <3>2
    <3>4. (TaskInv /\ ChannelInv /\ ValueInv)'
      BY <1>1, <1>4, <2>1, <2>2, <3>1, <3>2 DEF TaskInv, ChannelInv, ValueInv
    <3> HIDE DEF h, Inside
    <3>5. MutexInv'
      BY <2>2, <3>1, <3>2, <3>3 DEF MutexInv
    <3> QED
      BY <1>2, <3>1, <3>4, <3>5
  <2> QED
    BY <2>3, <2>4
<1> QED
  BY <1>3, <1>4

(* The button's interrupt, the converter, the inputs.                      *)
LEMMA EnvironmentStep ==
  ASSUME IInv, TypeOK', GpInterrupt \/ ConversionDone \/ AnalogChanges
  PROVE  IInv'
<1> USE ConstantsAssumption DEF ConstantsAssumption, IInv, InFlight, TypeOK
<1>1. CASE GpInterrupt
  <2>1. sem = 1 /\ ~InFlight /\ \A s \in Readers : pc[s] \notin Inside
    BY <1>1 DEF GpInterrupt, DownTrylock, MutexInv, FlightInv
  <2>2. converting' = 0 /\ ~irq' /\ sem' = 0 /\ gpHeld'
    BY <1>1, <2>1 DEF GpInterrupt, DownTrylock, Clamp, Started, FlightInv
  <2>3. (NoSignals /\ QueueInv /\ MutexInv /\ FlightInv)'
    BY <1>1, <2>1, <2>2 DEF GpInterrupt, DownTrylock, signalled,
       NoSignals, QueueInv, MutexInv, FlightInv
  <2>4. (TaskInv /\ ChannelInv /\ ValueInv)'
    BY <1>1, <2>1, <2>2 DEF GpInterrupt, DownTrylock, files, TaskInv, ChannelInv, ValueInv
  <2> QED
    BY <2>3, <2>4
<1>2. CASE ConversionDone
  <2>1. (NoSignals /\ QueueInv /\ FlightInv)' /\ MutexInv'
    <3>1. (NoSignals /\ QueueInv /\ FlightInv)'
      BY <1>2 DEF ConversionDone, semaphore, signalled, NoSignals, QueueInv, FlightInv
    <3> QED
      BY <1>2, <3>1, MutexKept DEF ConversionDone, semaphore
  <2>2. (TaskInv /\ ChannelInv /\ ValueInv)'
    BY <1>2 DEF ConversionDone, globals, files, TaskInv, ChannelInv, ValueInv
  <2> QED
    BY <2>1, <2>2
<1>3. CASE AnalogChanges
  <2>1. (NoSignals /\ QueueInv /\ MutexInv /\ FlightInv)'
    BY <1>3 DEF AnalogChanges, semaphore, converter, signalled,
       NoSignals, QueueInv, MutexInv, FlightInv
  <2>2. (TaskInv /\ ChannelInv)'
    BY <1>3 DEF AnalogChanges, globals, converter, files, TaskInv, ChannelInv
  <2>3. ValueInv'
    BY <1>3 DEF AnalogChanges, globals, converter, files, ValueInv
  <2> QED
    BY <2>1, <2>2, <2>3
<1> QED
  BY <1>1, <1>2, <1>3

(* Every step keeps the invariant, if no signal interrupts a read.         *)
LEMMA IndStep == MaxSignals = 0 /\ IInv /\ [Next]_vars => IInv'
<1> SUFFICES ASSUME MaxSignals = 0, IInv, [Next]_vars PROVE IInv'
  OBVIOUS
<1>0. TypeOK'
  BY TypeStep DEF IInv
<1>1. ASSUME NEW r \in Readers, User(r) \/ DevRead(r) PROVE IInv'
  BY <1>0, <1>1, OutsideStep, InsideStep, UpStep DEF User, DevRead
<1>2. ASSUME NEW r \in Readers, Signal(r) PROVE FALSE
  BY <1>2 DEF Signal, IInv, TypeOK
<1>3. CASE AdcInterrupt
  BY <1>0, <1>3, AdcInterruptStep
<1>4. CASE GpInterrupt \/ ConversionDone \/ AnalogChanges
  BY <1>0, <1>4, EnvironmentStep
<1>5. CASE UNCHANGED vars
  BY <1>0, <1>5 DEF vars, semaphore, globals, converter, signalled, files, IInv,
     InFlight, NoSignals, QueueInv, MutexInv, FlightInv, TaskInv, ChannelInv, ValueInv
<1> QED
  BY <1>1, <1>2, <1>3, <1>4, <1>5 DEF Next

-----------------------------------------------------------------------------
(* Theorems about the runs in which no signal interrupts a read.           *)

(* The inductive invariant holds (adc.c:140-218).                          *)
THEOREM Inductive == ASSUME MaxSignals = 0 PROVE Spec => []IInv
<1>1. Init => IInv
  <2> SUFFICES ASSUME Init PROVE IInv
    OBVIOUS
  <2>1. TypeOK
    BY TypeInit
  <2>2. NoSignals /\ QueueInv /\ MutexInv /\ FlightInv
    BY DEF Init, NoSignals, QueueInv, MutexInv, FlightInv, InFlight
  <2>3. TaskInv /\ ChannelInv /\ ValueInv
    BY ConstantsAssumption
    DEF ConstantsAssumption, Init, InFlight, TaskInv, ChannelInv, ValueInv
  <2> QED
    BY <2>1, <2>2, <2>3 DEF IInv
<1>2. IInv /\ [Next]_vars => IInv'
  BY IndStep
<1> QED
  BY <1>1, <1>2, PTL DEF Spec

(* The semaphore is exclusive, and never lost or given back twice          *)
(* (adc.c:145-153, 162-165, 197-205).                                      *)
THEOREM SemaphoreBalanced == ASSUME MaxSignals = 0 PROVE Spec => []SemaphoreBalance
<1>1. IInv => SemaphoreBalance
  <2> SUFFICES ASSUME IInv PROVE SemaphoreBalance
    OBVIOUS
  <2>1. CASE sem = 1
    BY <2>1 DEF IInv, MutexInv, SemaphoreBalance, InsideReaders
  <2>2. CASE sem = 0 /\ gpHeld
    BY <2>2 DEF IInv, MutexInv, SemaphoreBalance, InsideReaders
  <2>3. CASE sem = 0 /\ ~gpHeld
    <3>1. PICK r \in Readers : pc[r] \in Inside
      BY <2>3 DEF IInv, MutexInv
    <3>2. InsideReaders = {r}
      BY <3>1 DEF IInv, MutexInv, InsideReaders
    <3> QED
      BY <2>3, <3>2 DEF SemaphoreBalance
  <2> QED
    BY <2>1, <2>2, <2>3 DEF IInv, MutexInv
<1> QED
  BY <1>1, Inductive, PTL

(* Every answer is a level the reader's own channel had while it was       *)
(* converted for this reader (adc.c:201-203).                              *)
THEOREM AnswersFresh == ASSUME MaxSignals = 0 PROVE Spec => []FreshValue
<1>1. IInv => FreshValue
  BY DEF IInv, ValueInv, FreshValue
<1> QED
  BY <1>1, Inductive, PTL

(* The converter is only started when it is free and its last interrupt    *)
(* has been handled (adc.c:135-137, 162-165, 201).                         *)
THEOREM ConversionsExclusive == ASSUME MaxSignals = 0 PROVE Spec => OneConversionAtATime
<1>1. IInv /\ [Next]_vars =>
        [(GpInterrupt \/ \E r \in Readers : Strobe(r)) => ~InFlight]_vars
  <2> SUFFICES ASSUME IInv PROVE (GpInterrupt \/ \E r \in Readers : Strobe(r)) => ~InFlight
    OBVIOUS
  <2>1. ASSUME GpInterrupt PROVE ~InFlight
    BY <2>1 DEF GpInterrupt, DownTrylock, IInv, TypeOK, MutexInv, FlightInv
  <2>2. ASSUME NEW r \in Readers, Strobe(r) PROVE ~InFlight
    BY <2>2 DEF Strobe, Goes, IInv, MutexInv, FlightInv
  <2> QED
    BY <2>1, <2>2
<1> QED
  BY <1>1, Inductive, PTL DEF Spec, OneConversionAtATime

(* The interrupt wakes the reader asleep for it, or gives back what the    *)
(* button took, and never confuses the two (adc.c:145-153).                *)
THEOREM OwnerWoken == ASSUME MaxSignals = 0 PROVE Spec => WakesTheOwner
<1>1. IInv /\ [Next]_vars =>
        [AdcInterrupt => IF current_task # NULL
                           THEN pc[current_task] = "schedule" /\ ~gpHeld
                           ELSE gpHeld]_vars
  <2> SUFFICES ASSUME IInv, AdcInterrupt
               PROVE IF current_task # NULL
                       THEN pc[current_task] = "schedule" /\ ~gpHeld
                       ELSE gpHeld
    OBVIOUS
  <2>1. InFlight
    BY DEF AdcInterrupt, WakeOrUp, InFlight
  <2> QED
    BY <2>1, ConstantsAssumption
    DEF ConstantsAssumption, IInv, TypeOK, MutexInv, FlightInv, TaskInv
<1> QED
  BY <1>1, Inductive, PTL DEF Spec, WakesTheOwner
=============================================================================
