------------------------------ MODULE I2cSlave -------------------------------
(***************************************************************************)
(* What the two I2C programs count on: a bus, and devices on it with       *)
(* registers and a register pointer. A message a process writes sets the   *)
(* pointer with its first byte, or its first two, and stores the bytes     *)
(* behind them; a message it reads comes from the pointer on. The kernel   *)
(* sends one message at a time and reports one that breaks off; by then    *)
(* the device may have taken any part of it.                               *)
(***************************************************************************)
EXTENDS Integers, Sequences

CONSTANTS
  Masters,       \* the processes that send messages
  Slaves,        \* the addresses at which a device answers
  PointerBytes,  \* how many bytes of a message set a device's pointer
  NumRegisters   \* the registers of a device

ASSUME SlaveAssumption ==
  /\ Slaves \subseteq Nat
  /\ PointerBytes \in [Slaves -> {1, 2}]
  /\ NumRegisters \in Nat \ {0}

VARIABLES
  registers,  \* of each device
  pointer,    \* of each device
  calm        \* history: <<m, s>> if since m's last selection at device s
              \*   nobody else used s and no message of m to s broke off

slaveVars == <<registers, pointer, calm>>

Byte      == 0..255
Registers == 0..(NumRegisters - 1)
Messages  == Seq(Byte)

SlaveTypeOK ==
  /\ registers \in [Slaves -> [Registers -> Byte]]
  /\ pointer \in [Slaves -> Registers]
  /\ calm \subseteq Masters \X Slaves

SlaveInit ==
  /\ registers = [s \in Slaves |-> [r \in Registers |-> 0]]
  /\ pointer = [s \in Slaves |-> 0]
  /\ calm = {}

-----------------------------------------------------------------------------
(* The register a message goes to, and the bytes it stores from there on.  *)
Target(s, message) ==
  (IF PointerBytes[s] = 1 THEN message[1] ELSE message[1] * 256 + message[2])
    % NumRegisters

Data(s, message) == SubSeq(message, PointerBytes[s] + 1, Len(message))

(* Registers after a row of bytes, which goes around at the last register. *)
Stored(content, from, bytes) ==
  [r \in Registers |->
     LET i == ((r - from) % NumRegisters) + 1
     IN IF i <= Len(bytes) THEN bytes[i] ELSE content[r]]

(* A device that gets too few bytes for its pointer leaves it alone.       *)
Receive(s, message) ==
  IF Len(message) < PointerBytes[s]
  THEN UNCHANGED <<registers, pointer>>
  ELSE LET from == Target(s, message)  bytes == Data(s, message)
       IN /\ registers' = [registers EXCEPT ![s] = Stored(@, from, bytes)]
          /\ pointer' = [pointer EXCEPT ![s] = (from + Len(bytes)) % NumRegisters]

Content(s, from, length) ==
  [i \in 1..length |-> registers[s][(from + i - 1) % NumRegisters]]

Send(s, length) ==
  /\ pointer' = [pointer EXCEPT ![s] = (@ + length) % NumRegisters]
  /\ UNCHANGED registers

-----------------------------------------------------------------------------
Others(m, s) == {<<q, s>> : q \in Masters \ {m}}

(* Master m writes a message that arrives whole ...                        *)
Written(m, s, message) ==
  /\ s \in Slaves
  /\ Receive(s, message)

Selected(m, s, message) ==
  Written(m, s, message) /\ calm' = (calm \ Others(m, s)) \cup {<<m, s>>}

Continued(m, s, message) ==
  Written(m, s, message) /\ calm' = calm \ Others(m, s)

(* ... or breaks off after some bytes, all of them at the latest, or at    *)
(* once if no device answers.                                              *)
BrokenOff(m, s, message) ==
  /\ IF s \in Slaves
     THEN \E n \in 0..Len(message) : Receive(s, SubSeq(message, 1, n))
     ELSE UNCHANGED <<registers, pointer>>
  /\ calm' = calm \ (Others(m, s) \cup {<<m, s>>})

(* Master m reads a message, or only the beginning of it.                  *)
WasRead(m, s, length) ==
  /\ s \in Slaves
  /\ Send(s, length)
  /\ calm' = calm \ Others(m, s)

ReadBrokenOff(m, s, length) ==
  /\ IF s \in Slaves
     THEN \E n \in 0..length : Send(s, n)
     ELSE UNCHANGED <<registers, pointer>>
  /\ calm' = calm \ (Others(m, s) \cup {<<m, s>>})
=============================================================================
