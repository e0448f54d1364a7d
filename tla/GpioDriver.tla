----------------------------- MODULE GpioDriver ------------------------------
(***************************************************************************)
(* The GPIO character driver, src/GPIO/src/file.c and gpio.c: two device   *)
(* files per pin, its direction and its value, used by processes that can  *)
(* be preempted between any two register accesses.                         *)
(* Messages are one character ("0" or "1"), or none, and are copied as a   *)
(* whole or not at all: *offset is 0 or 1.                                 *)
(***************************************************************************)
EXTENDS GpioPorts

CONSTANTS
  Procs,  \* the processes that use the device files
  Minors  \* the device files they use

ASSUME MinorsAssumption == Minors # {} /\ Minors \subseteq DOMAIN mappings

Files == {mappings[m] : m \in Minors}
Pins == {f[1] : f \in Files}

VARIABLES
  dir,      \* the DIR registers: the bits that are outputs
  out,      \* the output latches (OUTP) of each port: the bits that are high
  level,    \* the pins that the outside pulls high
  pc,       \* where each process is: closed, open or inside a call
  file,     \* the pin and function of each process's open file
  offset,   \* *offset of the file
  buffer,   \* data->buffer[0] # '0', private to the file
  isInput,  \* get_port_state: the direction it has read
  asked,    \* history: what the process last asked to write
  first,    \* history: the character that has moved *offset, if it moved
  seen,     \* history: the levels of the pin since the read began
  calm      \* history: whether its direction stayed the same since then

registers == <<dir, out>>
fileVars  == <<file, offset, buffer>>
history   == <<asked, first, seen, calm>>
vars == <<registers, level, pc, fileVars, isInput, history>>

PinOf(p) == file[p][1]
FunctionOf(p) == file[p][2]
Labels == {"closed", "open", "apply", "direction", "state", "copy"}

IsOutput(pin) == Bit(pin) \in dir[DirRegister(PortOf(pin))]
Latch(pin) == Bit(pin) \in out[PortOf(pin)]

(* The level at a pin: the latch drives an output, the outside an input.   *)
PinLevel(pin) == IF IsOutput(pin) THEN Latch(pin) ELSE pin \in level

TypeOK ==
  /\ dir \in [DirRegisters -> SUBSET (0..31)]
  /\ out \in [Ports -> SUBSET (0..31)]
  /\ level \subseteq Pins
  /\ pc \in [Procs -> Labels]
  /\ file \in [Procs -> Files]
  /\ offset \in [Procs -> 0..1]
  /\ buffer \in [Procs -> BOOLEAN] /\ isInput \in [Procs -> BOOLEAN]
  /\ asked \in [Procs -> BOOLEAN] /\ first \in [Procs -> BOOLEAN]
  /\ seen \in [Procs -> SUBSET BOOLEAN] /\ calm \in [Procs -> BOOLEAN]

SomeFile == CHOOSE f \in Files : TRUE

(* After gpio_init; the registers come up as inputs with low latches.      *)
Init ==
  /\ dir = [r \in DirRegisters |-> {}]
  /\ out = [p \in Ports |-> {}]
  /\ level = {}
  /\ pc = [p \in Procs |-> "closed"]
  /\ file = [p \in Procs |-> SomeFile]
  /\ offset = [p \in Procs |-> 0]
  /\ buffer = [p \in Procs |-> FALSE] /\ isInput = [p \in Procs |-> FALSE]
  /\ asked = [p \in Procs |-> FALSE] /\ first = [p \in Procs |-> FALSE]
  /\ seen = [p \in Procs |-> {}] /\ calm = [p \in Procs |-> TRUE]

Goes(p, from, to) == pc[p] = from /\ pc' = [pc EXCEPT ![p] = to]

(* Processes in the middle of a read note every level their pin takes.     *)
Watching == {p \in Procs : pc[p] = "state"}
Observe ==
  /\ seen' = [p \in Procs |-> IF p \in Watching THEN seen[p] \cup {PinLevel(PinOf(p))'}
                                                ELSE seen[p]]
  /\ calm' = [p \in Procs |-> calm[p] /\ (p \in Watching => IsOutput(PinOf(p))' = IsOutput(PinOf(p)))]

-----------------------------------------------------------------------------
(* kmalloc leaves the buffer as it is: any content.                        *)
Open(p) ==
  /\ Goes(p, "closed", "open")
  /\ \E f \in Files, b \in BOOLEAN :
       file' = [file EXCEPT ![p] = f] /\ buffer' = [buffer EXCEPT ![p] = b]
  /\ UNCHANGED <<registers, level, offset, isInput, history>>

(* release frees the file's data; the model forgets it.                    *)
Release(p) ==
  /\ Goes(p, "open", "closed")
  /\ file' = [file EXCEPT ![p] = SomeFile]
  /\ offset' = [offset EXCEPT ![p] = 0]
  /\ buffer' = [buffer EXCEPT ![p] = FALSE]
  /\ first' = [first EXCEPT ![p] = FALSE]
  /\ UNCHANGED <<registers, level, isInput, asked, seen, calm>>

(* Mutant: one buffer for all files.                                       *)
StoreGlobal(p, b) == buffer' = [q \in Procs |-> b]

Store(p, b) == buffer' = [buffer EXCEPT ![p] = b]

(* Mutant: a copy moves the offset past the end.                           *)
AdvanceTwice(p) == offset' = [offset EXCEPT ![p] = offset[p] + 2]

Advance(p) == offset' = [offset EXCEPT ![p] = 1]

(* dev_write of a character. The user's bytes go behind *offset, which an  *)
(* earlier call, a write or a read, may have moved: then nothing is        *)
(* copied, but *offset >= len holds and the old buffer is processed again. *)
Write(p) ==
  /\ Goes(p, "open", "apply")
  /\ \E b \in BOOLEAN :
       /\ asked' = [asked EXCEPT ![p] = b]
       /\ IF offset[p] = 0
            THEN Store(p, b) /\ Advance(p) /\ first' = [first EXCEPT ![p] = b]
            ELSE UNCHANGED <<buffer, offset, first>>
  /\ UNCHANGED <<registers, level, file, isInput, seen, calm>>

(* dev_write of no bytes at offset 0, or of a character whose copy faults: *)
(* nothing is performed, but buffer[0] becomes a zero byte, by the         *)
(* terminator or by copy_from_user, and that is not a '0'.                 *)
WriteNothing(p) ==
  /\ pc[p] = "open" /\ offset[p] = 0
  /\ Store(p, TRUE)
  /\ UNCHANGED <<registers, level, pc, file, offset, isInput, history>>

(* One write to a SET or a CLR register.                                   *)
SetBit(register, bit, on) == IF on THEN register \cup {bit} ELSE register \ {bit}

(* perform_device_operation(set): set_port_direction or set_port_state.    *)
Apply(p) ==
  LET port == PortOf(PinOf(p))
      bit == Bit(PinOf(p))
  IN /\ Goes(p, "apply", "open")
     /\ IF FunctionOf(p) = "direction"
          THEN /\ dir' = [dir EXCEPT ![DirRegister(port)] = SetBit(@, bit, buffer[p])]
               /\ out' = out
          ELSE /\ out' = [out EXCEPT ![port] = SetBit(@, bit, buffer[p])]
               /\ dir' = dir
     /\ asked' = [asked EXCEPT ![p] = FALSE]
     /\ UNCHANGED <<level, fileVars, isInput, first>>
     /\ Observe

(* dev_read at offset 0 (at another offset it returns nothing).            *)
Read(p) ==
  /\ Goes(p, "open", "direction")
  /\ offset[p] = 0
  /\ UNCHANGED <<registers, level, fileVars, isInput, history>>

(* get_port_direction: the answer of a direction file ...                  *)
GetDirection(p) ==
  /\ FunctionOf(p) = "direction"
  /\ Goes(p, "direction", "copy")
  /\ Store(p, IsOutput(PinOf(p)))
  /\ UNCHANGED <<registers, level, file, offset, isInput, history>>

(* ... and the first register access of get_port_state.                    *)
ChooseRegister(p) ==
  /\ FunctionOf(p) = "value"
  /\ Goes(p, "direction", "state")
  /\ isInput' = [isInput EXCEPT ![p] = ~IsOutput(PinOf(p))]
  /\ seen' = [seen EXCEPT ![p] = {PinLevel(PinOf(p))}]
  /\ calm' = [calm EXCEPT ![p] = TRUE]
  /\ UNCHANGED <<registers, level, fileVars, asked, first>>

(* Mutant: the branches of get_port_state swapped.                         *)
StateSwapped(p) == IF isInput[p] THEN Latch(PinOf(p)) ELSE PinOf(p) \in level

(* The second one: INP_STATE shows the level at the pin, OUTP_STATE the    *)
(* latch.                                                                  *)
State(p) == IF isInput[p] THEN PinLevel(PinOf(p)) ELSE Latch(PinOf(p))

GetState(p) ==
  /\ Goes(p, "state", "copy")
  /\ Store(p, State(p))
  /\ UNCHANGED <<registers, level, file, offset, isInput, history>>

(* copy_to_user delivers the answer, or faults and leaves *offset at 0.    *)
Copy(p) ==
  /\ Goes(p, "copy", "open")
  /\ \/ Advance(p) /\ first' = [first EXCEPT ![p] = buffer[p]]
     \/ UNCHANGED <<offset, first>>
  /\ isInput' = [isInput EXCEPT ![p] = FALSE]
  /\ seen' = [seen EXCEPT ![p] = {}]
  /\ calm' = [calm EXCEPT ![p] = TRUE]
  /\ UNCHANGED <<registers, level, file, buffer, asked>>

(* The outside pulls a pin high or lets it go.                             *)
LevelChanges ==
  \E pin \in Pins :
    /\ level' = IF pin \in level THEN level \ {pin} ELSE level \cup {pin}
    /\ UNCHANGED <<registers, pc, fileVars, isInput, asked, first>>
    /\ Observe

Next ==
  \/ \E p \in Procs :
       \/ Open(p) \/ Release(p) \/ Write(p) \/ WriteNothing(p) \/ Apply(p) \/ Read(p)
       \/ GetDirection(p) \/ ChooseRegister(p) \/ GetState(p) \/ Copy(p)
  \/ LevelChanges

Spec == Init /\ [][Next]_vars

-----------------------------------------------------------------------------
(* Whatever the processes do, a pin's direction or latch changes only by a *)
(* write to that pin's own device file (gpio.c:180-234): ports 2 and 3     *)
(* share registers, but no two pins share a bit.                           *)
OnlyOwnPin ==
  [][\A pin \in AllPins :
       /\ IsOutput(pin)' # IsOutput(pin) =>
            \E p \in Procs : pc[p] = "apply" /\ file[p] = <<pin, "direction">>
       /\ Latch(pin)' # Latch(pin) =>
            \E p \in Procs : pc[p] = "apply" /\ file[p] = <<pin, "value">>]_vars

(* The register bit a write file stands for.                               *)
Target(p) == IF FunctionOf(p) = "direction" THEN IsOutput(PinOf(p)) ELSE Latch(PinOf(p))

(* Every write through an open file, the first and the later ones, sets    *)
(* the pin to the character that moved the file's *offset: the one this    *)
(* process wrote or was told first, never one of another process, however  *)
(* their calls interleave ("private data ... in order to avoid race        *)
(* conditions", GPIO.pdf, Concurrency; file.c:144-192).                    *)
OwnCharacterApplied ==
  [][\A p \in Procs : Apply(p) => Target(p)' = first[p]]_vars

(* Every write sets what it was asked to ("A '1' can be written to the     *)
(* value to make the pin high, and a '0' to make the pin low", GPIO.pdf,   *)
(* Design Decisions). It does not: see OwnCharacterApplied.                *)
EveryWriteApplied ==
  [][\A p \in Procs : Apply(p) => Target(p)' = asked[p]]_vars

(* "Reading value will output the current state" (GPIO.pdf): the answer is *)
(* a level the pin had while get_port_state looked (gpio.c:198-216) ...    *)
ReadsCurrent ==
  \A p \in Procs : pc[p] = "copy" /\ FunctionOf(p) = "value" => buffer[p] \in seen[p]

(* ... at least while nobody changes the direction between its two looks.  *)
(* (Where they differ, the pin was made an input and its latch was written *)
(* after that, both while the reader was preempted between the two.)       *)
CalmReadsCurrent ==
  \A p \in Procs :
    pc[p] = "copy" /\ FunctionOf(p) = "value" /\ calm[p] => buffer[p] \in seen[p]
=============================================================================
