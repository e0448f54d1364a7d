--------------------------- MODULE AdcSignalProofs ---------------------------
(***************************************************************************)
(* Signals alone cannot wedge the ADC driver: without the button, and for  *)
(* any number of readers and signals, there is always a way on.            *)
(***************************************************************************)
EXTENDS AdcDriverProofs

USE DEF Channels, Labels, Reading, Inside

(* Somebody is about to set current_task, or may take the semaphore.       *)
WayOpen == sem > 0 \/ \E q \in Readers : pc[q] = "task"

(* After up() the semaphore is free or its next owner is at its first      *)
(* statement (adc.c:152, 205).                                             *)
LEMMA UpOpens ==
  ASSUME TypeOK, LineInv, NEW nextpc \in [Readers -> Labels], Up(nextpc),
         \A s \in Readers : pc[s] = "waiting" => nextpc[s] = "waiting"
  PROVE  WayOpen'
<1>1. CASE semQ = <<>>
  BY <1>1 DEF Up, TypeOK, WayOpen
<1>2. CASE semQ # <<>>
  <2>1. Head(semQ) \in Readers
    BY <1>2, QueueServed DEF LineInv
  <2> QED
    BY <1>2, <2>1 DEF Up, WayOpen
<1> QED
  BY <1>1, <1>2

(* With the way open there is nothing left to show.                        *)
LEMMA OpenSuffices == ASSUME WayOpen' PROVE (GoneInv /\ NeverWedged)'
BY DEF WayOpen, GoneInv, NeverWedged, InsideReaders

(* Steps of a reader outside the semaphore (adc.c:188-197, 207-252).       *)
LEMMA OutsideOpen ==
  ASSUME SignalInv, NEW r \in Readers,
         \/ Open(r) \/ Read(r) \/ ReadRest(r) \/ Release(r) \/ Copy(r) \/ Down(r)
  PROVE  (GoneInv /\ NeverWedged)'
<1>0. TypeOK /\ GoneInv /\ NeverWedged
  BY DEF SignalInv
<1>1. CASE Down(r) /\ sem > 0
  <2>1. Goes(r, "down", "task")
    BY <1>1 DEF Down
  <2> QED
    BY <1>0, <2>1, OthersStay, OpenSuffices DEF WayOpen
<1>2. CASE ~(Down(r) /\ sem > 0)
  <2>1. /\ pc[r] \notin Inside /\ pc'[r] \notin Inside
        /\ \A s \in Readers : s # r => pc'[s] = pc[s] /\ sigPending'[s] = sigPending[s]
        /\ UNCHANGED <<sem, converting, irq, taskState, current_task>>
    <3>1. CASE Open(r)
      BY <1>0, <3>1 DEF Open, Goes, TypeOK, semaphore, globals, converter, signalled
    <3>2. CASE Read(r)
      BY <1>0, <3>2 DEF Read, Goes, TypeOK, semaphore, globals, converter, signalled
    <3>3. CASE ReadRest(r)
      BY <1>0, <3>3 DEF ReadRest, TypeOK, semaphore, globals, converter, signalled
    <3>4. CASE Release(r)
      BY <1>0, <3>4 DEF Release, Goes, TypeOK, semaphore, globals, converter, signalled
    <3>5. CASE Copy(r)
      BY <1>0, <3>5 DEF Copy, Goes, TypeOK, semaphore, globals, converter
    <3>6. CASE Down(r)
      BY <1>0, <1>2, <3>6 DEF Down, Goes, TypeOK, globals, converter, signalled
    <3> QED
      BY <3>1, <3>2, <3>3, <3>4, <3>5, <3>6
  <2>2. GoneInv'
    <3>1. \A s \in Readers : pc'[s] = "task" <=> pc[s] = "task"
      BY <2>1
    <3>2. current_task # NULL =>
            (pc'[current_task] \in Inside \ {"task"} <=> pc[current_task] \in Inside \ {"task"})
      BY <1>0, <2>1 DEF TypeOK
    <3> QED
      BY <1>0, <2>1, <3>1, <3>2 DEF GoneInv
  <2>3. NeverWedged'
    BY <1>0, <2>1 DEF NeverWedged, InFlight, InsideReaders
  <2> QED
    BY <2>2, <2>3
<1> QED
  BY <1>1, <1>2

(* The statements between down and up: the reader itself can go on, or has *)
(* just started the converter (adc.c:199-203).                             *)
LEMMA InsideOpen ==
  ASSUME SignalInv, NEW r \in Readers,
         \/ SetCurrentTask(r) \/ SetCurrentState(r) \/ SelectChannel(r)
         \/ SetAdcChannel(r) \/ Strobe(r) \/ Schedule(r) \/ ReadValue(r)
  PROVE  (GoneInv /\ NeverWedged)'
<1>0. TypeOK /\ GoneInv /\ NeverWedged
  BY DEF SignalInv
<1>1. /\ pc'[r] \in Inside \ {"task"}
      /\ \A s \in Readers : s # r => pc'[s] = pc[s]
      /\ sem' = sem
      /\ \/ current_task' = r
         \/ current_task' = current_task /\ pc[r] \in Inside \ {"task"}
  BY <1>0 DEF SetCurrentTask, SetCurrentState, SelectChannel, SetAdcChannel, Strobe,
     Schedule, ReadValue, Goes, TypeOK, semaphore, globals
<1>2. GoneInv'
  BY <1>0, <1>1 DEF GoneInv, TypeOK
<1>3. NeverWedged'
  <2>1. CASE Strobe(r)
    <3>1. select \in Channels /\ converting' \in {converting, select}
      BY <1>0, <2>1 DEF Strobe, Started, TypeOK
    <3>2. converting' # Idle
      BY <2>1, <3>1, ConstantsAssumption DEF Strobe, Started, ConstantsAssumption
    <3> QED
      BY <3>2 DEF NeverWedged, InFlight
  <2>2. CASE ~Strobe(r)
    <3>1. pc'[r] # "schedule"
      BY <1>0, <2>2 DEF SetCurrentTask, SetCurrentState, SelectChannel, SetAdcChannel,
         Schedule, ReadValue, Goes, TypeOK
    <3> QED
      BY <1>1, <3>1 DEF NeverWedged, InsideReaders
  <2> QED
    BY <2>1, <2>2
<1> QED
  BY <1>2, <1>3

(* The interrupt gives the semaphore back, or wakes a reader that can go   *)
(* on, or wakes one that is gone: then GoneInv has the way on              *)
(* (adc.c:145-153).                                                        *)
LEMMA InterruptOpens ==
  ASSUME SignalInv, AdcInterrupt
  PROVE  (GoneInv /\ NeverWedged)'
<1>0. TypeOK /\ LineInv /\ GoneInv /\ WakeOrUp
  BY DEF SignalInv, AdcInterrupt
<1>1. CASE current_task = NULL
  <2>1. Up(pc) /\ pc \in [Readers -> Labels]
    BY <1>0, <1>1 DEF WakeOrUp, TypeOK
  <2> HIDE DEF Labels
  <2>2. WayOpen'
    BY <1>0, <2>1, UpOpens
  <2> QED
    BY <2>2, OpenSuffices
<1>2. CASE current_task # NULL
  <2>1. /\ UNCHANGED <<sem, pc>> /\ current_task' = NULL
        /\ current_task \in Readers /\ taskState'[current_task] = "RUNNING"
    BY <1>0, <1>2 DEF WakeOrUp, TypeOK, semaphore
  <2>2. GoneInv'
    BY <2>1 DEF GoneInv
  <2>3. CASE pc[current_task] \in Inside
    BY <2>1, <2>2, <2>3 DEF NeverWedged, InsideReaders
  <2>4. CASE pc[current_task] \notin Inside
    <3>1. WayOpen'
      BY <1>0, <1>2, <2>1, <2>4 DEF GoneInv, WayOpen
    <3> QED
      BY <3>1, OpenSuffices
  <2> QED
    BY <2>3, <2>4
<1> QED
  BY <1>1, <1>2

(* Every step keeps the invariant, as long as the button is left alone.    *)
LEMMA SignalStep ==
  ASSUME ~Buttons
  PROVE  SignalInv /\ [Next]_vars => SignalInv'
<1> SUFFICES ASSUME SignalInv, [Next]_vars PROVE SignalInv'
  OBVIOUS
<1>0. TypeOK /\ LineInv /\ GoneInv /\ NeverWedged
  BY DEF SignalInv
<1>1. TypeOK' /\ LineInv'
  BY <1>0, TypeStep, LineStep
<1>2. ASSUME NEW r \in Readers, User(r) \/ DevRead(r) PROVE (GoneInv /\ NeverWedged)'
  <2>1. CASE UpAfterRead(r)
    <3> DEFINE next == [pc EXCEPT ![r] = "copy"]
    <3>1. next \in [Readers -> Labels] /\ Up(next)
      BY <1>0, <2>1 DEF UpAfterRead, TypeOK
    <3>2. \A s \in Readers : pc[s] = "waiting" => next[s] = "waiting"
      BY <1>0, <2>1 DEF UpAfterRead, TypeOK
    <3> HIDE DEF next, Labels
    <3>3. WayOpen'
      BY <1>0, <3>1, <3>2, UpOpens
    <3> QED
      BY <3>3, OpenSuffices
  <2> QED
    BY <1>2, <2>1, OutsideOpen, InsideOpen DEF User, DevRead
<1>3. CASE AdcInterrupt
  BY <1>1, <1>3, InterruptOpens DEF SignalInv
<1>4. CASE ConversionDone \/ AnalogChanges \/ UNCHANGED vars
  <2>1. /\ UNCHANGED <<sem, current_task, pc, taskState, sigPending>>
        /\ InFlight => InFlight'
    BY <1>4 DEF ConversionDone, AnalogChanges, vars, semaphore, globals, converter,
       signalled, InFlight
  <2> QED
    BY <1>0, <1>1, <2>1 DEF SignalInv, GoneInv, NeverWedged, InsideReaders
<1>5. ASSUME NEW r \in Readers, Signal(r) PROVE (GoneInv /\ NeverWedged)'
  <2>1. /\ UNCHANGED <<sem, current_task, pc, taskState, converting, irq>>
        /\ \A s \in Readers : sigPending[s] => sigPending'[s]
    BY <1>0, <1>5 DEF Signal, TypeOK, semaphore, globals, converter
  <2> QED
    BY <1>0, <2>1 DEF GoneInv, NeverWedged, InsideReaders, InFlight
<1>6. ~GpInterrupt
  BY DEF GpInterrupt
<1> QED
  BY <1>1, <1>2, <1>3, <1>4, <1>5, <1>6 DEF Next, SignalInv

(* The invariant holds with any number of signals, without the button      *)
(* (adc.c:145-153, 197-217).                                               *)
THEOREM SignalInductive == ASSUME ~Buttons PROVE Spec => []SignalInv
<1>1. Init => SignalInv
  <2> SUFFICES ASSUME Init PROVE SignalInv
    OBVIOUS
  <2>1. TypeOK
    BY TypeInit
  <2>2. LineInv
    BY DEF Init, LineInv, QueueInv
  <2>3. GoneInv /\ NeverWedged
    BY DEF Init, GoneInv, NeverWedged
  <2> QED
    BY <2>1, <2>2, <2>3 DEF SignalInv
<1>2. SignalInv /\ [Next]_vars => SignalInv'
  BY SignalStep
<1> QED
  BY <1>1, <1>2, PTL DEF Spec

(* However many reads signals cut short, the semaphore is free, or an      *)
(* interrupt is due, or a reader inside can go on (adc.c:145-153, 197-205).*)
THEOREM SignalsNeverWedge == ASSUME ~Buttons PROVE Spec => []NeverWedged
<1>1. SignalInv => NeverWedged
  BY DEF SignalInv
<1> QED
  BY <1>1, SignalInductive, PTL
=============================================================================
