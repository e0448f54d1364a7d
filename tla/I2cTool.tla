------------------------------- MODULE I2cTool -------------------------------
(***************************************************************************)
(* The bus tool, I2C/assignment2-hw/main.c: each run takes one command     *)
(* from its arguments, "r <slave> <register> <length>" or "w <slave>       *)
(* <register> <bytes...>", and sends two messages, a selection and a       *)
(* transfer. Several runs may be under way at a time.                      *)
(***************************************************************************)
EXTENDS I2cSlave

CONSTANTS
  Tools,    \* processes, each of which runs the tool again and again
  Commands  \* bound: the command lines each of them is given

ASSUME ToolAssumption ==
  /\ Tools \subseteq Masters
  /\ \A t \in Tools : \A c \in Commands[t] :
       /\ c.command \in {"r", "w"}
       /\ c.address \in Nat /\ c.register \in Nat
       /\ c.length \in Nat /\ c.bytes \in Seq(Nat)

VARIABLES
  pc,       \* where each run is
  params,   \* its command, while there is a run
  printed   \* what the last run printed: nothing unless it read with success

toolVars == <<pc, params, printed>>

NoParams ==
  [command |-> "w", address |-> 0, register |-> 0, length |-> 0, bytes |-> <<>>]

ToolTypeOK ==
  /\ pc \in [Tools -> {"idle", "select", "transfer"}]
  /\ \A t \in Tools : params[t] \in Commands[t] \cup {NoParams}
  /\ printed \in [Tools -> Messages]

ToolInit ==
  /\ pc = [t \in Tools |-> "idle"]
  /\ params = [t \in Tools |-> NoParams]
  /\ printed = [t \in Tools |-> <<>>]

Goes(t, from, to) ==
  pc[t] = from /\ pc' = [pc EXCEPT ![t] = to] /\ UNCHANGED params

Ends(t, from) ==
  /\ pc[t] = from
  /\ pc' = [pc EXCEPT ![t] = "idle"]
  /\ params' = [params EXCEPT ![t] = NoParams]

-----------------------------------------------------------------------------
(* params->length is a char, which has eight bits and no sign on ARM.      *)
Length(c) == (IF c.command = "r" THEN c.length ELSE Len(c.bytes)) % 256

Accepted(c) ==
  /\ c.address <= 256 * 256 - 1
  /\ c.command = "w" => \A i \in 1..Length(c) : c.bytes[i] \in Byte

(* parseArguments and prepareDevice: of a command that is not accepted, or *)
(* for which open or ioctl fails, nothing is sent.                         *)
StartRun(t) ==
  /\ pc[t] = "idle"
  /\ \/ \E c \in Commands[t] :
          /\ Accepted(c)
          /\ pc' = [pc EXCEPT ![t] = "select"]
          /\ params' = [params EXCEPT ![t] = c]
     \/ UNCHANGED <<pc, params>>
  /\ printed' = [printed EXCEPT ![t] = <<>>]
  /\ UNCHANGED slaveVars

(* Mutant: one byte too many.                                              *)
SelectionTooLong(c) == <<c.address % 256, c.address \div 256, c.register>>

(* Mutant: the high byte forgotten.                                        *)
SelectionTooShort(c) == <<c.address % 256>>

(* The bytes of regAddress, for which processOperation passes the address  *)
(* of the slave; register_start is not used.                               *)
Selection(c) == <<c.address % 256, c.address \div 256>>

SelectRegister(t) ==
  /\ LET s == params[t].address  message == Selection(params[t])
     IN \/ Selected(t, s, message) /\ Goes(t, "select", "transfer")
        \/ BrokenOff(t, s, message) /\ Ends(t, "select")
  /\ UNCHANGED printed

WriteBytes(t) ==
  /\ params[t].command = "w"
  /\ Ends(t, "transfer")
  /\ LET s == params[t].address
         message == SubSeq(params[t].bytes, 1, Length(params[t]))
     IN Continued(t, s, message) \/ BrokenOff(t, s, message)
  /\ UNCHANGED printed

ReadBytes(t) ==
  /\ params[t].command = "r"
  /\ Ends(t, "transfer")
  /\ LET s == params[t].address  length == Length(params[t])
     IN \/ /\ WasRead(t, s, length)
           /\ printed' = [printed EXCEPT ![t] = Content(s, pointer[s], length)]
        \/ ReadBrokenOff(t, s, length) /\ UNCHANGED printed

ToolStep(t) ==
  StartRun(t) \/ SelectRegister(t) \/ WriteBytes(t) \/ ReadBytes(t)

ToolNext == \E t \in Tools : ToolStep(t)
=============================================================================
