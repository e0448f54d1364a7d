------------------------------- MODULE MCI2cBus ------------------------------
(***************************************************************************)
(* An instance of the I2C bus for TLC: an EEPROM at 80 (0x50, the device   *)
(* of the tests in I2C.pdf) and the dimmer at 96 (0x60).                   *)
(***************************************************************************)
EXTENDS I2cBus, TLC

CONSTANTS t1, t2, blinker

AllMasters == {t1, t2, blinker}
BothSlaves == {80, 96}
PointerSize == (80 :> 2) @@ (96 :> 1)

Command(op, address, length, bytes) ==
  [command |-> op, address |-> address, register |-> 6, length |-> length,
   bytes |-> bytes]

(* One process reads a length that a char does not hold and tries a byte   *)
(* that is none; the other writes to the EEPROM and to an LED selector.    *)
SomeCommands ==
  (t1 :> {Command("r", 80, 257, <<>>), Command("w", 80, 0, <<256>>)}) @@
  (t2 :> {Command("w", 80, 0, <<0, 0, 7>>), Command("w", 96, 0, <<8, 0>>)})

SomeSettings ==
  {[power |-> 25, leds |-> {0, 5, 7}, blinking |-> TRUE],
   [power |-> 25, leds |-> {0, 5, 7}, blinking |-> FALSE]}
=============================================================================
