-------------------------------- MODULE I2cBus -------------------------------
(***************************************************************************)
(* The bus tool, in several processes, and the LED blinker on one bus.     *)
(* They know nothing of each other: what they share are the devices.       *)
(***************************************************************************)
EXTENDS I2cTool, I2cBlink

ASSUME MastersAssumption == Blinker \notin Tools

vars == <<slaveVars, toolVars, blinkVars>>

TypeOK == SlaveTypeOK /\ ToolTypeOK /\ BlinkTypeOK

Init == SlaveInit /\ ToolInit /\ BlinkInit

Next ==
  \/ ToolNext /\ UNCHANGED blinkVars
  \/ BlinkNext /\ UNCHANGED toolVars

Spec == Init /\ [][Next]_vars

(* The scheduler runs the blinker, and nanosleep returns. Nobody has to    *)
(* start a program or to send a signal.                                    *)
Fairness == WF_vars(BlinkStep /\ UNCHANGED toolVars)

FairSpec == Spec /\ Fairness

-----------------------------------------------------------------------------
(* A tool is about to transfer bytes at a device with registers numbered   *)
(* by two bytes, where nobody else was since it selected.                  *)
Undisturbed(t) ==
  /\ pc[t] = "transfer"
  /\ <<t, params[t].address>> \in calm
  /\ PointerBytes[params[t].address] = 2

(* "reads 4 bytes ..., from regs 0x16, 0x17, 0x18 and 0x19" (usage,        *)
(* assignment2-hw/main.c:217-218): a read that succeeds and that nobody    *)
(* disturbed prints as many bytes as it was asked for, from the register   *)
(* it was asked for on.                                                    *)
ReadsAsked ==
  [][\A t \in Tools : LET c == params[t] IN
       Undisturbed(t) /\ printed'[t] # <<>>
         => printed'[t] = Content(c.address, c.register, c.length)]_vars

(* What it does print: bytes the device holds in a row, from the register  *)
(* that the address of the device names with its bytes swapped, whatever   *)
(* became of other runs and of earlier messages (main.c:82-119, 256).      *)
ReadsAtAddress ==
  [][\A t \in Tools : LET s == params[t].address IN
       Undisturbed(t) /\ printed'[t] # <<>>
         => printed'[t] =
              Content(s, (s % 256) * 256 + s \div 256, Len(printed'[t]))]_vars

(* A device with registers numbered by two bytes, as selectRegisterI2CBus  *)
(* sends them, is changed by the transfer of a write only (or by the       *)
(* blinker, at the dimmer): never by a selection, a read or a refused      *)
(* command, even one that breaks off (assignment2-hw/main.c:96-132).       *)
OnlyWritesChange ==
  [][\A s \in Slaves : PointerBytes[s] = 2 /\ registers'[s] # registers[s] =>
       \E t \in Tools : /\ pc[t] = "transfer" /\ pc'[t] = "idle"
                        /\ params[t].command = "w" /\ params[t].address = s]_vars

(* What the dimmer shows for an LED: two bits of its selector.             *)
Shown(led) ==
  (registers[Dimmer][PCA9532_REGISTER_LS2 + led \div 4]
     \div <<1, 4, 16, 64>>[(led % 4) + 1]) % 4

(* Between its passes, and after its end, the selected LEDs are all in the *)
(* mode the power asks for or all off, and the others off, unless the last *)
(* pass was disturbed (assignment2-app/main.c:148-179, 216-237): a pass    *)
(* repairs what a lost message or another process did before.              *)
LedsInStep ==
  /\ blinkPc \in {"sleep", "idle"}
  /\ <<Blinker, Dimmer>> \in calm
  => \A led \in 0..7 : Shown(led) = IF turn_on THEN 0 ELSE Mode(setting, led)

(* After a signal, or if it is not to blink, the blinker ends              *)
(* (main.c:62-66, 234), whatever becomes of its messages.                  *)
BlinkerEnds ==
  blinkPc # "idle" /\ (stop \/ ~setting.blinking) ~> blinkPc = "idle"
=============================================================================
