----------------------------- MODULE GpioService -----------------------------
(***************************************************************************)
(* What the GPIO driver gives its users, without registers, buffers and    *)
(* places in tables. An open file carries one character, the first that is *)
(* written or told through it: every write sets the direction or the latch *)
(* of one pin to that character at once, and a file that carries one is    *)
(* read no more. A read of a direction tells what it is, and a read of a   *)
(* value tells the level the pin has at one moment, unless its direction   *)
(* changed since the read began.                                           *)
(***************************************************************************)
CONSTANTS
  Procs,   \* the users
  Pins,    \* the pins
  Files    \* the files: pairs of a pin and a function

VARIABLES
  phase,   \* of each process: "out", "in", "writing", "reading" or "told"
  uses,    \* the file it uses, unless it is out
  carried, \* the character its file carries: one or none
  answer,  \* what it is being told: one or nothing
  steady,  \* the reading processes whose pin kept its direction
  outputs, \* the pins that are outputs
  high,    \* the pins whose latch is high
  level    \* the pins that the outside pulls high

pins == <<outputs, high>>
vars == <<phase, uses, carried, answer, steady, pins, level>>

NoFile == <<"none", "none">>

Init ==
  /\ phase = [p \in Procs |-> "out"]
  /\ uses = [p \in Procs |-> NoFile]
  /\ carried = [p \in Procs |-> {}] /\ answer = [p \in Procs |-> {}]
  /\ steady = {} /\ outputs = {} /\ high = {} /\ level = {}

Goes(p, from, to) == phase[p] = from /\ phase' = [phase EXCEPT ![p] = to]

Enter(p) ==
  /\ Goes(p, "out", "in")
  /\ \E f \in Files : uses' = [uses EXCEPT ![p] = f]
  /\ UNCHANGED <<carried, answer, steady, pins, level>>

Leave(p) ==
  /\ Goes(p, "in", "out")
  /\ uses' = [uses EXCEPT ![p] = NoFile]
  /\ carried' = [carried EXCEPT ![p] = {}]
  /\ UNCHANGED <<answer, steady, pins, level>>

(* Only a file that carries nothing takes what the user writes.            *)
Write(p) ==
  /\ Goes(p, "in", "writing")
  /\ \E on \in BOOLEAN :
       carried' = [carried EXCEPT ![p] = IF carried[p] = {} THEN {on} ELSE carried[p]]
  /\ UNCHANGED <<uses, answer, steady, pins, level>>

Switched(set, pin, on) == IF on THEN set \cup {pin} ELSE set \ {pin}

Apply(p) ==
  LET pin == uses[p][1] IN
  /\ Goes(p, "writing", "in")
  /\ \E on \in carried[p] :
       IF uses[p][2] = "direction"
         THEN outputs' = Switched(outputs, pin, on) /\ high' = high
         ELSE high' = Switched(high, pin, on) /\ outputs' = outputs
  /\ steady' = {q \in steady : uses[q][1] \in outputs' <=> uses[q][1] \in outputs}
  /\ UNCHANGED <<uses, carried, answer, level>>

TellDirection(p) ==
  /\ uses[p][2] = "direction" /\ carried[p] = {}
  /\ Goes(p, "in", "told")
  /\ answer' = [answer EXCEPT ![p] = {uses[p][1] \in outputs}]
  /\ UNCHANGED <<uses, carried, steady, pins, level>>

Look(p) ==
  /\ uses[p][2] = "value" /\ carried[p] = {}
  /\ Goes(p, "in", "reading")
  /\ steady' = steady \cup {p}
  /\ UNCHANGED <<uses, carried, answer, pins, level>>

LevelOf(pin) == IF pin \in outputs THEN pin \in high ELSE pin \in level

TellLevel(p) ==
  LET pin == uses[p][1] IN
  /\ Goes(p, "reading", "told")
  /\ \/ answer' = [answer EXCEPT ![p] = {LevelOf(pin)}]
     \/ p \notin steady /\ answer' = [answer EXCEPT ![p] = {(pin \in high)}]
  /\ steady' = steady \ {p}
  /\ UNCHANGED <<uses, carried, pins, level>>

(* The user has its answer, and its file carries it; or the answer is lost.*)
Take(p) ==
  /\ Goes(p, "told", "in")
  /\ \/ carried' = [carried EXCEPT ![p] = answer[p]]
     \/ UNCHANGED carried
  /\ answer' = [answer EXCEPT ![p] = {}]
  /\ UNCHANGED <<uses, steady, pins, level>>

LevelChanges ==
  /\ \E pin \in Pins : level' = Switched(level, pin, pin \notin level)
  /\ UNCHANGED <<phase, uses, carried, answer, steady, pins>>

Next ==
  \/ \E p \in Procs : \/ Enter(p) \/ Leave(p) \/ Write(p) \/ Apply(p)
                      \/ TellDirection(p) \/ Look(p) \/ TellLevel(p) \/ Take(p)
  \/ LevelChanges

Spec == Init /\ [][Next]_vars
=============================================================================
