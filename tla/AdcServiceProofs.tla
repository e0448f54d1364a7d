-------------------------- MODULE AdcServiceProofs ---------------------------
(***************************************************************************)
(* The ADC driver implements its service when no signal interrupts a read, *)
(* for any readers, channels and levels: each step of the driver is a step *)
(* of the service or changes nothing the service knows.                    *)
(***************************************************************************)
EXTENDS AdcImplementsService, AdcDriverProofs

USE DEF Channels, Labels, Reading, Inside

(* The owner the mapping gives the semaphore (adc.c:145-153, 162, 197).    *)
LEMMA OwnerIs ==
  ASSUME MutexInv
  PROVE  /\ gpHeld => Owner = Button
         /\ \A r \in Readers : pc[r] \in Inside => Owner = r
         /\ sem > 0 => Owner = NULL
<1>1. gpHeld => Owner = Button
  BY DEF Owner
<1>2. ASSUME NEW r \in Readers, pc[r] \in Inside PROVE Owner = r
  <2>1. ~gpHeld /\ \A s \in Readers : s \in InsideReaders <=> s = r
    BY <1>2 DEF MutexInv, InsideReaders
  <2>2. InsideReaders # {} /\ r \in InsideReaders
    BY <2>1
  <2> QED
    BY <2>1, <2>2 DEF Owner
<1>3. sem > 0 => Owner = NULL
  <2>1. sem > 0 => InsideReaders = {} /\ ~gpHeld
    BY DEF MutexInv, InsideReaders
  <2> QED
    BY <2>1 DEF Owner
<1> QED
  BY <1>1, <1>2, <1>3

(* The same in the next state.                                             *)
LEMMA OwnerWillBe ==
  ASSUME MutexInv'
  PROVE  /\ gpHeld' => Owner' = Button
         /\ \A r \in Readers : pc'[r] \in Inside => Owner' = r
         /\ sem' > 0 => Owner' = NULL
<1>1. gpHeld' => Owner' = Button
  BY DEF Owner
<1>2. ASSUME NEW r \in Readers, pc'[r] \in Inside PROVE Owner' = r
  <2>1. ~gpHeld' /\ \A s \in Readers : s \in InsideReaders' <=> s = r
    BY <1>2 DEF MutexInv, InsideReaders
  <2>2. InsideReaders' # {} /\ r \in InsideReaders'
    BY <2>1
  <2> QED
    BY <2>1, <2>2 DEF Owner
<1>3. sem' > 0 => Owner' = NULL
  <2>1. sem' > 0 => InsideReaders' = {} /\ ~gpHeld'
    BY DEF MutexInv, InsideReaders
  <2> QED
    BY <2>1 DEF Owner
<1> QED
  BY <1>1, <1>2, <1>3

(* If the semaphore and everybody's side of it stay, so does the owner.    *)
LEMMA OwnerStays ==
  ASSUME UNCHANGED gpHeld,
         \A r \in Readers : pc'[r] \in Inside <=> pc[r] \in Inside
  PROVE  Owner' = Owner
<1>1. InsideReaders' = InsideReaders
  BY DEF InsideReaders
<1> QED
  BY <1>1 DEF Owner

(* If a reader stays in its phase and the data stay, the service sees      *)
(* nothing.                                                                *)
LEMMA Unseen ==
  ASSUME \A r \in Readers : PhaseOf(pc'[r]) = PhaseOf(pc[r]),
         \A r \in Readers : Phase[r] # "idle" => channel'[r] = channel[r],
         \A r \in Readers : Phase[r] = "answered" => value'[r] = value[r],
         \A r \in Readers : Phase[r] = "measured" => seen'[r] = seen[r],
         Owner' = Owner, UNCHANGED analog
  PROVE  UNCHANGED Service!vars
<1>1. Phase' = Phase
  BY DEF Phase
<1>2. Wish' = Wish /\ Answer' = Answer /\ Watched' = Watched
  BY <1>1 DEF Wish, Answer, Watched, During
<1> QED
  BY <1>1, <1>2 DEF Service!vars

(* What a step of one reader does to the phases.                           *)
LEMMA PhaseMoves ==
  ASSUME TypeOK, NEW r \in Readers, NEW a, NEW b, Goes(r, a, b)
  PROVE  /\ Phase[r] = PhaseOf(a) /\ Phase'[r] = PhaseOf(b)
         /\ \A s \in Readers : s # r => Phase'[s] = Phase[s]
         /\ Phase' = [Phase EXCEPT ![r] = PhaseOf(b)]
<1>1. pc[r] = a /\ pc'[r] = b /\ \A s \in Readers : s # r => pc'[s] = pc[s]
  BY OthersStay
<1> QED
  BY <1>1 DEF Phase

------------------------------------------------------------------------------
(* Steps the service does not see.                                         *)

(* A reader goes from one label to another of the same phase and changes   *)
(* nothing the service knows (adc.c:188-202, 220-252).                     *)
LEMMA SamePhase ==
  ASSUME TypeOK, NEW r \in Readers, NEW a, NEW b, Goes(r, a, b),
         PhaseOf(a) = PhaseOf(b), a \in Inside <=> b \in Inside,
         PhaseOf(a) # "idle" => UNCHANGED channel,
         \A s \in Readers : s # r => channel'[s] = channel[s],
         UNCHANGED value \/ PhaseOf(a) = "idle",
         \A s \in Readers : s # r => value'[s] = value[s],
         \A s \in Readers : Phase[s] = "measured" => seen'[s] = seen[s],
         UNCHANGED <<gpHeld, analog>>
  PROVE  UNCHANGED Service!vars
<1>1. pc[r] = a /\ pc'[r] = b /\ \A s \in Readers : s # r => pc'[s] = pc[s]
  BY OthersStay
<1>2. Phase[r] = PhaseOf(a)
  BY <1>1 DEF Phase
<1> HIDE DEF Inside
<1>3. Owner' = Owner
  BY <1>1, OwnerStays
<1>4. \A s \in Readers : PhaseOf(pc'[s]) = PhaseOf(pc[s])
  BY <1>1
<1> QED
  BY <1>2, <1>3, <1>4, Unseen

(* The statements of a reader that stay within a phase.                    *)
LEMMA QuietStep ==
  ASSUME IInv, NEW r \in Readers,
         \/ Open(r) \/ Release(r) \/ ReadRest(r)
         \/ SetCurrentTask(r) \/ SetCurrentState(r)
         \/ SelectChannel(r) \/ SetAdcChannel(r) \/ Schedule(r)
  PROVE  UNCHANGED Service!vars
<1>0. TypeOK
  BY DEF IInv
<1>1. CASE Open(r)
  <2>1. /\ Goes(r, "closed", "open") /\ UNCHANGED <<value, seen, gpHeld, analog>>
        /\ \A s \in Readers : s # r => channel'[s] = channel[s]
    BY <1>0, <1>1 DEF Open, TypeOK
  <2> QED
    BY <1>0, <2>1, SamePhase DEF PhaseOf
<1>2. CASE Release(r)
  <2>1. /\ Goes(r, "open", "closed") /\ UNCHANGED <<gpHeld, analog>>
        /\ \A s \in Readers :
             s # r => channel'[s] = channel[s] /\ value'[s] = value[s] /\ seen'[s] = seen[s]
    BY <1>0, <1>2 DEF Release, TypeOK
  <2>2. Phase[r] = "idle"
    BY <2>1 DEF Goes, Phase, PhaseOf
  <2> QED
    BY <1>0, <2>1, <2>2, SamePhase DEF PhaseOf
<1>3. CASE ReadRest(r)
  <2>1. UNCHANGED <<pc, channel, value, seen, gpHeld, analog>>
    BY <1>3 DEF ReadRest
  <2> QED
    BY <2>1, OwnerStays, Unseen
<1>4. CASE SetCurrentTask(r)
  BY <1>0, <1>4, SamePhase DEF SetCurrentTask, files, PhaseOf
<1>5. CASE SetCurrentState(r)
  BY <1>0, <1>5, SamePhase DEF SetCurrentState, files, PhaseOf
<1>6. CASE SelectChannel(r)
  BY <1>0, <1>6, SamePhase DEF SelectChannel, files, PhaseOf
<1>7. CASE SetAdcChannel(r)
  BY <1>0, <1>7, SamePhase DEF SetAdcChannel, files, PhaseOf
<1>8. CASE Schedule(r)
  BY <1>0, <1>8, SamePhase DEF Schedule, files, PhaseOf
<1> QED
  BY <1>1, <1>2, <1>3, <1>4, <1>5, <1>6, <1>7, <1>8

------------------------------------------------------------------------------
(* The reader's steps in the service.                                      *)

(* A read at offset 0 asks for the channel of the open file (adc.c:188-195).*)
LEMMA ReadAsks ==
  ASSUME IInv, NEW r \in Readers, Read(r)
  PROVE  Service!Ask(r)
<1>0. TypeOK
  BY DEF IInv
<1>1. Goes(r, "open", "down") /\ UNCHANGED <<channel, value, seen, gpHeld, analog>>
  BY DEF Read, files
<1>2. /\ Phase[r] = "idle" /\ Phase'[r] = "wants"
      /\ \A s \in Readers : s # r => Phase'[s] = Phase[s]
      /\ Phase' = [Phase EXCEPT ![r] = "wants"]
  BY <1>0, <1>1, PhaseMoves DEF PhaseOf
<1>3. Owner' = Owner
  BY <1>0, <1>1, OthersStay, OwnerStays
<1>4. Wish' = [Wish EXCEPT ![r] = channel[r]] /\ channel[r] \in Channels
  BY <1>0, <1>1, <1>2 DEF Wish, During, TypeOK
<1>5. Answer' = Answer /\ Watched' = Watched
  BY <1>1, <1>2 DEF Answer, Watched, During
<1> QED
  BY <1>1, <1>2, <1>3, <1>4, <1>5 DEF Service!Ask, Service!Goes

(* down serves the reader, or leaves it waiting (adc.c:197).               *)
LEMMA DownServes ==
  ASSUME IInv, IInv', NEW r \in Readers, Down(r)
  PROVE  Service!Serve(r) \/ UNCHANGED Service!vars
<1>0. TypeOK /\ MutexInv /\ MutexInv'
  BY DEF IInv
<1>1. UNCHANGED <<channel, value, seen, gpHeld, analog>>
  BY DEF Down, files
<1>2. CASE sem > 0
  <2>1. Goes(r, "down", "task")
    BY <1>2 DEF Down
  <2>2. /\ Phase[r] = "wants" /\ Phase'[r] = "served"
        /\ \A s \in Readers : s # r => Phase'[s] = Phase[s]
        /\ Phase' = [Phase EXCEPT ![r] = "served"]
    BY <1>0, <2>1, PhaseMoves DEF PhaseOf
  <2>3. Owner = NULL /\ Owner' = r
    BY <1>0, <1>2, <2>1, OthersStay, OwnerIs, OwnerWillBe
  <2>4. Wish' = Wish /\ Answer' = Answer /\ Watched' = Watched
    BY <1>1, <2>2 DEF Wish, Answer, Watched, During
  <2> QED
    BY <1>1, <2>2, <2>3, <2>4 DEF Service!Serve, Service!Goes
<1>3. CASE ~(sem > 0)
  <2>1. Goes(r, "down", "waiting")
    BY <1>3 DEF Down
  <2> QED
    BY <1>0, <1>1, <2>1, SamePhase DEF PhaseOf
<1> QED
  BY <1>2, <1>3

(* AD_START is the moment from which levels count (adc.c:135-137).         *)
LEMMA StrobeMeasures ==
  ASSUME IInv, NEW r \in Readers, Strobe(r)
  PROVE  Service!Measure(r)
<1>0. TypeOK /\ MutexInv
  BY DEF IInv
<1>1. /\ Goes(r, "strobe", "schedule") /\ UNCHANGED <<channel, value, gpHeld, analog>>
      /\ seen' = [seen EXCEPT ![r] = {analog[channel[r]]}]
  BY DEF Strobe, files
<1>2. /\ Phase[r] = "served" /\ Phase'[r] = "measured"
      /\ \A s \in Readers : s # r => Phase'[s] = Phase[s]
      /\ Phase' = [Phase EXCEPT ![r] = "measured"]
  BY <1>0, <1>1, PhaseMoves DEF PhaseOf
<1>3. Owner = r /\ Owner' = Owner
  BY <1>0, <1>1, OthersStay, OwnerIs, OwnerStays
<1>4. Wish' = Wish /\ Wish[r] = channel[r] /\ Answer' = Answer
  BY <1>1, <1>2 DEF Wish, Answer, During
<1>5. Watched' = [Watched EXCEPT ![r] = {analog[channel[r]]}]
  BY <1>0, <1>1, <1>2 DEF Watched, During, TypeOK
<1> QED
  BY <1>1, <1>2, <1>3, <1>4, <1>5 DEF Service!Measure, Service!Goes

(* The look at adc_values answers: ValueInv says that what is there was    *)
(* measured for this reader (adc.c:203).                                   *)
LEMMA ReadValueAnswers ==
  ASSUME IInv, NEW r \in Readers, ReadValue(r)
  PROVE  Service!Answer(r)
<1>0. TypeOK /\ MutexInv /\ ValueInv
  BY DEF IInv
<1>1. /\ Goes(r, "value", "up") /\ UNCHANGED <<channel, seen, gpHeld, analog>>
      /\ value' = [value EXCEPT ![r] = adc_values[channel[r]]]
  BY DEF ReadValue
<1>2. /\ Phase[r] = "measured" /\ Phase'[r] = "answered"
      /\ \A s \in Readers : s # r => Phase'[s] = Phase[s]
      /\ Phase' = [Phase EXCEPT ![r] = "answered"]
  BY <1>0, <1>1, PhaseMoves DEF PhaseOf
<1>3. Owner = r /\ Owner' = Owner
  BY <1>0, <1>1, OthersStay, OwnerIs, OwnerStays
<1>4. Wish' = Wish
  BY <1>1, <1>2 DEF Wish, During
<1>5. adc_values[channel[r]] \in Watched[r]
  BY <1>0, <1>1, <1>2 DEF ValueInv, Watched, During, Goes
<1>6. Answer' = [Answer EXCEPT ![r] = adc_values[channel[r]]]
  BY <1>0, <1>1, <1>2 DEF Answer, During, TypeOK
<1>7. Watched' = [Watched EXCEPT ![r] = {}]
  BY <1>1, <1>2 DEF Watched, During
<1> QED
  BY <1>1, <1>2, <1>3, <1>4, <1>5, <1>6, <1>7 DEF Service!Answer, Service!Goes

(* The answer is copied out after the semaphore is given back              *)
(* (adc.c:207-217).                                                        *)
LEMMA CopyReturns ==
  ASSUME IInv, IInv', NEW r \in Readers, Copy(r)
  PROVE  Service!Return(r)
<1>0. TypeOK /\ MutexInv
  BY DEF IInv
<1>1. Goes(r, "copy", "open") /\ UNCHANGED <<channel, value, seen, gpHeld, analog>>
  BY DEF Copy
<1>2. /\ Phase[r] = "answered" /\ Phase'[r] = "idle"
      /\ \A s \in Readers : s # r => Phase'[s] = Phase[s]
      /\ Phase' = [Phase EXCEPT ![r] = "idle"]
  BY <1>0, <1>1, PhaseMoves DEF PhaseOf
<1>3. Owner' = Owner
  BY <1>0, <1>1, OthersStay, OwnerStays
<1>4. Owner # r
  <2>1. CASE gpHeld
    BY <1>0, <2>1, OwnerIs, ButtonAssumption
  <2>2. CASE sem > 0
    BY <1>0, <2>2, OwnerIs, ConstantsAssumption DEF ConstantsAssumption
  <2>3. CASE \E s \in Readers : pc[s] \in Inside
    BY <1>0, <1>1, <2>3, OwnerIs DEF Goes
  <2> QED
    BY <1>0, <2>1, <2>2, <2>3 DEF MutexInv
<1>5. Wish' = [Wish EXCEPT ![r] = 0] /\ Answer' = [Answer EXCEPT ![r] = 0]
  BY <1>1, <1>2 DEF Wish, Answer, During
<1>6. Watched' = Watched
  BY <1>1, <1>2 DEF Watched, During
<1> QED
  BY <1>1, <1>2, <1>3, <1>4, <1>5, <1>6 DEF Service!Return, Service!Goes

------------------------------------------------------------------------------
(* Giving back the semaphore, and the handlers.                            *)

(* up leaves the service free, or to the reader first in line (adc.c:152,  *)
(* 205).                                                                   *)
LEMMA UpYields ==
  ASSUME IInv, IInv', NEW nextpc \in [Readers -> Labels], Up(nextpc),
         \A s \in Readers : PhaseOf(nextpc[s]) = PhaseOf(pc[s]),
         \A s \in Readers : pc[s] = "waiting" => nextpc[s] = "waiting",
         Owner = Button \/ \E r \in Readers : Owner = r /\ Phase[r] = "answered",
         UNCHANGED <<channel, value, seen, analog>>
  PROVE  Service!Yield
<1>0. TypeOK /\ QueueInv /\ MutexInv /\ MutexInv'
  BY DEF IInv
<1>1. CASE semQ = <<>>
  <2>1. sem' > 0 /\ pc' = nextpc
    BY <1>0, <1>1 DEF Up, TypeOK
  <2>2. Phase' = Phase
    BY <2>1 DEF Phase
  <2>3. Owner' = NULL
    BY <1>0, <2>1, OwnerWillBe
  <2>4. Wish' = Wish /\ Answer' = Answer /\ Watched' = Watched
    BY <2>2 DEF Wish, Answer, Watched, During
  <2> QED
    BY <2>2, <2>3, <2>4 DEF Service!Yield
<1>2. CASE semQ # <<>>
  <2> DEFINE s == Head(semQ)
  <2>1. s \in Readers /\ pc[s] = "waiting" /\ nextpc[s] = "waiting"
    BY <1>0, <1>2, QueueServed
  <2>2. pc' = [nextpc EXCEPT ![s] = "task"]
    BY <1>2 DEF Up
  <2> HIDE DEF s
  <2>3. pc'[s] = "task" /\ \A t \in Readers : t # s => pc'[t] = nextpc[t]
    BY <2>1, <2>2
  <2>4. /\ Phase[s] = "wants" /\ Phase'[s] = "served"
        /\ \A t \in Readers : t # s => Phase'[t] = Phase[t]
    <3>1. PhaseOf("waiting") = "wants" /\ PhaseOf("task") = "served"
      BY DEF PhaseOf
    <3>2. \A t \in Readers : t # s => PhaseOf(pc'[t]) = PhaseOf(pc[t])
      BY <2>3
    <3> QED
      BY <2>1, <2>3, <3>1, <3>2 DEF Phase
  <2>5. Phase' = [Phase EXCEPT ![s] = "served"]
    BY <2>4 DEF Phase
  <2>6. Owner' = s
    BY <1>0, <2>1, <2>3, OwnerWillBe
  <2>7. Wish' = Wish /\ Answer' = Answer /\ Watched' = Watched
    BY <2>4 DEF Wish, Answer, Watched, During
  <2> QED
    BY <2>1, <2>4, <2>5, <2>6, <2>7 DEF Service!Yield, Service!Goes
<1> QED
  BY <1>1, <1>2

(* A reader that has its answer (adc.c:205).                               *)
LEMMA UpAfterReadYields ==
  ASSUME IInv, IInv', NEW r \in Readers, UpAfterRead(r)
  PROVE  Service!Yield
<1>0. TypeOK /\ MutexInv
  BY DEF IInv
<1>1. /\ pc[r] = "up" /\ Up([pc EXCEPT ![r] = "copy"])
      /\ UNCHANGED <<channel, value, seen, analog>>
  BY DEF UpAfterRead, files
<1>2. /\ [pc EXCEPT ![r] = "copy"] \in [Readers -> Labels]
      /\ [pc EXCEPT ![r] = "copy"][r] = "copy"
      /\ \A s \in Readers : s # r => [pc EXCEPT ![r] = "copy"][s] = pc[s]
  BY <1>0 DEF TypeOK
<1>3. \A s \in Readers :
        /\ PhaseOf([pc EXCEPT ![r] = "copy"][s]) = PhaseOf(pc[s])
        /\ pc[s] = "waiting" => [pc EXCEPT ![r] = "copy"][s] = "waiting"
  <2>1. PhaseOf("copy") = PhaseOf("up")
    BY DEF PhaseOf
  <2> QED
    BY <1>1, <1>2, <2>1
<1>4. Owner = r /\ Phase[r] = "answered"
  BY <1>0, <1>1, OwnerIs DEF Phase, PhaseOf
<1> HIDE DEF Labels
<1> QED
  BY <1>1, <1>2, <1>3, <1>4, UpYields

(* The end of a conversion: the interrupt wakes a reader, of which the     *)
(* service knows nothing, or gives back for the button (adc.c:140-156).    *)
LEMMA InterruptYields ==
  ASSUME IInv, IInv', AdcInterrupt
  PROVE  Service!Yield \/ UNCHANGED Service!vars
<1>0. TypeOK /\ MutexInv /\ FlightInv /\ TaskInv
  BY DEF IInv
<1>1. irq /\ WakeOrUp /\ UNCHANGED <<channel, value, seen, analog>>
  BY DEF AdcInterrupt, files
<1>2. CASE current_task # NULL
  <2>1. UNCHANGED <<pc, gpHeld>>
    BY <1>1, <1>2 DEF WakeOrUp
  <2> QED
    BY <1>1, <2>1, OwnerStays, Unseen
<1>3. CASE current_task = NULL
  <2>1. Up(pc)
    BY <1>1, <1>3 DEF WakeOrUp
  <2>2. InFlight
    BY <1>1 DEF InFlight
  <2>3. gpHeld
    BY <1>0, <1>3, <2>2, ConstantsAssumption DEF FlightInv, TaskInv, ConstantsAssumption
  <2>4. Owner = Button
    BY <1>0, <2>3, OwnerIs
  <2>5. pc \in [Readers -> Labels]
    BY <1>0 DEF TypeOK
  <2> HIDE DEF Labels
  <2> QED
    BY <1>1, <2>1, <2>4, <2>5, UpYields
<1> QED
  BY <1>2, <1>3

(* A press that gets the semaphore is one of the service; any other does   *)
(* nothing (adc.c:158-168).                                                *)
LEMMA GpPresses ==
  ASSUME IInv, IInv', GpInterrupt
  PROVE  Service!Press
<1>0. TypeOK /\ MutexInv /\ MutexInv'
  BY DEF IInv
<1>1. sem > 0 /\ gpHeld' /\ UNCHANGED <<pc, channel, value, seen, analog>>
  BY DEF GpInterrupt, DownTrylock, files
<1>2. Owner = NULL /\ Owner' = Button
  BY <1>0, <1>1, OwnerIs, OwnerWillBe
<1>3. Phase' = Phase /\ Wish' = Wish /\ Answer' = Answer /\ Watched' = Watched
  BY <1>1 DEF Phase, Wish, Answer, Watched, During
<1> QED
  BY <1>1, <1>2, <1>3 DEF Service!Press

(* The inputs change in both (adc.c:142).                                  *)
LEMMA AnalogChangesToo ==
  ASSUME IInv, AnalogChanges
  PROVE  Service!AnalogChanges
<1>0. TypeOK
  BY DEF IInv
<1>1. PICK c \in Channels, v \in Levels :
        /\ analog' = [analog EXCEPT ![c] = v]
        /\ seen' = [r \in Readers |->
                      IF pc[r] \in {"schedule", "value"} /\ channel[r] = c
                        THEN seen[r] \cup {v} ELSE seen[r]]
        /\ UNCHANGED <<pc, channel, value, gpHeld>>
  BY DEF AnalogChanges, files
<1>2. Owner' = Owner
  BY <1>1, OwnerStays
<1>3. Phase' = Phase /\ Wish' = Wish /\ Answer' = Answer
  BY <1>1 DEF Phase, Wish, Answer, During
<1>4. \A r \in Readers : Phase[r] = "measured" <=> pc[r] \in {"schedule", "value"}
  BY <1>0 DEF Phase, PhaseOf, TypeOK
<1>5. Watched' = [r \in Readers |-> IF Phase[r] = "measured" /\ Wish[r] = c
                                     THEN Watched[r] \cup {v} ELSE Watched[r]]
  BY <1>1, <1>3, <1>4 DEF Wish, Watched, During
<1> QED
  BY <1>1, <1>2, <1>3, <1>5 DEF Service!AnalogChanges

------------------------------------------------------------------------------
(* The driver implements the service.                                      *)

(* The initial states are the service's (adc.c:254-286).                   *)
LEMMA InitMaps == Init => Service!Init
<1> SUFFICES ASSUME Init PROVE Service!Init
  OBVIOUS
<1> USE ConstantsAssumption DEF ConstantsAssumption
<1>1. /\ pc = [r \in Readers |-> "closed"] /\ ~gpHeld
      /\ \A r \in Readers : pc[r] = "closed"
  BY DEF Init
<1>2. Phase = [r \in Readers |-> "idle"]
  BY <1>1 DEF Phase, PhaseOf
<1>3. Owner = NULL
  BY <1>1 DEF Owner, InsideReaders
<1>4. /\ Wish = [r \in Readers |-> 0] /\ Answer = [r \in Readers |-> 0]
      /\ Watched = [r \in Readers |-> {}]
  BY <1>2 DEF Wish, Answer, Watched, During
<1>5. analog \in [Channels -> Levels]
  BY DEF Init
<1> QED
  BY <1>2, <1>3, <1>4, <1>5 DEF Service!Init

(* Every step of the driver is one of the service or a stutter.            *)
LEMMA StepMaps == IInv /\ IInv' /\ [Next]_vars => [Service!Next]_Service!vars
<1> SUFFICES ASSUME IInv, IInv', [Next]_vars PROVE [Service!Next]_Service!vars
  OBVIOUS
<1>1. ASSUME NEW r \in Readers, User(r) PROVE [Service!Next]_Service!vars
  BY <1>1, QuietStep, ReadAsks DEF User, Service!Next
<1>2. ASSUME NEW r \in Readers, DevRead(r) PROVE [Service!Next]_Service!vars
  BY <1>2, QuietStep, DownServes, StrobeMeasures, ReadValueAnswers, UpAfterReadYields,
     CopyReturns DEF DevRead, Service!Next
<1>3. CASE AdcInterrupt \/ GpInterrupt
  BY <1>3, InterruptYields, GpPresses DEF Service!Next
<1>4. CASE AnalogChanges
  BY <1>4, AnalogChangesToo DEF Service!Next
<1>5. CASE UNCHANGED vars \/ ConversionDone \/ \E r \in Readers : Signal(r)
  <2>1. UNCHANGED <<pc, channel, value, seen, gpHeld, analog>>
    BY <1>5 DEF vars, ConversionDone, Signal, files
  <2> QED
    BY <2>1, OwnerStays, Unseen
<1> QED
  BY <1>1, <1>2, <1>3, <1>4, <1>5 DEF Next

(* Without signals every behaviour of the driver is one of the service:    *)
(* clients are served one at a time, and each answer is a level measured   *)
(* for the reader that gets it (adc.c:140-218).                            *)
THEOREM ServiceKept == ASSUME MaxSignals = 0 PROVE Spec => ServiceSpec
<1>1. Spec => []IInv
  BY Inductive
<1> QED
  BY <1>1, InitMaps, StepMaps, PTL DEF Spec, ServiceSpec, Service!Spec
=============================================================================
