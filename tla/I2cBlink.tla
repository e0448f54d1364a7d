------------------------------- MODULE I2cBlink ------------------------------
(***************************************************************************)
(* The LED blinker, I2C/assignment2-app/main.c: it sets the brightness of  *)
(* a PCA9532 dimmer and then turns the selected LEDs on and off, two       *)
(* selector registers of four LEDs each at a time, until a signal comes.   *)
(* It never looks at what became of its messages.                          *)
(***************************************************************************)
EXTENDS I2cSlave

CONSTANTS
  Blinker,  \* the process
  Dimmer,   \* PCA9532_ADDRESS
  Settings  \* bound: what the arguments ask for

ASSUME BlinkAssumption ==
  /\ Blinker \in Masters
  /\ Dimmer \in Slaves /\ PointerBytes[Dimmer] = 1
  /\ NumRegisters > 9
  /\ Settings # {}
  /\ \A g \in Settings :
       g.power \in 0..100 /\ g.leds \subseteq 0..7 /\ g.blinking \in BOOLEAN

VARIABLES
  blinkPc,  \* where the blinker is
  setting,  \* struct Parameters
  turn_on,  \* whether the next pass turns the LEDs on
  selector, \* the selector register that is written next
  stop      \* set by the signal handler

blinkVars == <<blinkPc, setting, turn_on, selector, stop>>

BlinkTypeOK ==
  /\ blinkPc \in {"idle", "setup", "lights", "sleep"}
  /\ setting \in Settings
  /\ turn_on \in BOOLEAN
  /\ selector \in 0..1
  /\ stop \in BOOLEAN

BlinkInit ==
  /\ blinkPc = "idle"
  /\ setting = CHOOSE g \in Settings : TRUE   \* not used before the start
  /\ turn_on = TRUE
  /\ selector = 0
  /\ stop = FALSE

-----------------------------------------------------------------------------
PCA9532_REGISTER_PWM0 == 3
PCA9532_REGISTER_LS2  == 8   \* LEDs 0 to 3; LS3 follows, with LEDs 4 to 7

LedMode(power) == CASE power = 100 -> 1    \* on
                    [] power = 0   -> 0    \* off
                    [] OTHER       -> 2    \* PWM0

Mode(g, led) == IF led \in g.leds THEN LedMode(g.power) ELSE 0

(* Mutant: the LEDs of a selector in the opposite order.                   *)
SelectorValueReversed(g, k) ==
  64 * Mode(g, 4*k) + 16 * Mode(g, 4*k + 1) + 4 * Mode(g, 4*k + 2) + Mode(g, 4*k + 3)

(* Mutant: four bits for each LED.                                         *)
SelectorValueWide(g, k) ==
  Mode(g, 4*k) + 16 * Mode(g, 4*k + 1) + 256 * Mode(g, 4*k + 2) + 4096 * Mode(g, 4*k + 3)

(* PCA9532_SET_LED: two bits for each LED.                                 *)
SelectorValue(g, k) ==
  Mode(g, 4*k) + 4 * Mode(g, 4*k + 1) + 16 * Mode(g, 4*k + 2) + 64 * Mode(g, 4*k + 3)

(* 256ths in a byte. For 100 percent the conversion to unsigned char is    *)
(* undefined; the LEDs are then on without PWM0.                           *)
DutyCycles(power) == IF power = 100 THEN {0, 255} ELSE {(power * 256) \div 100}

-----------------------------------------------------------------------------
(* i2c_smbus_write_byte_data, whose result is ignored.                     *)
Sent(message) ==
  Continued(Blinker, Dimmer, message) \/ BrokenOff(Blinker, Dimmer, message)

(* parse_arguments and prepare_device; a run that fails there sends        *)
(* nothing.                                                                *)
StartBlinking ==
  /\ blinkPc = "idle"
  /\ blinkPc' = "setup"
  /\ setting' \in Settings
  /\ turn_on' = TRUE /\ selector' = 0 /\ stop' = FALSE
  /\ UNCHANGED slaveVars

PrepareLeds ==
  /\ blinkPc = "setup"
  /\ blinkPc' = "lights"
  /\ \E duty \in DutyCycles(setting.power) : Sent(<<PCA9532_REGISTER_PWM0, duty>>)
  /\ UNCHANGED <<setting, turn_on, selector, stop>>

WriteSelector ==
  /\ blinkPc = "lights"
  /\ LET message == <<PCA9532_REGISTER_LS2 + selector,
                      IF turn_on THEN SelectorValue(setting, selector) ELSE 0>>
     IN IF selector = 0
        THEN Selected(Blinker, Dimmer, message) \/ BrokenOff(Blinker, Dimmer, message)
        ELSE Sent(message)
  /\ selector' = 1 - selector
  /\ IF selector = 0
     THEN UNCHANGED <<blinkPc, turn_on>>
     ELSE blinkPc' = "sleep" /\ turn_on' = ~turn_on
  /\ UNCHANGED <<setting, stop>>

(* Mutant: the signal is not looked at.                                    *)
WakeUnstoppable ==
  /\ blinkPc = "sleep"
  /\ blinkPc' = IF setting.blinking THEN "lights" ELSE "idle"
  /\ UNCHANGED <<setting, turn_on, selector, stop, slaveVars>>

(* nanosleep ends, after the time or with a signal.                        *)
Wake ==
  /\ blinkPc = "sleep"
  /\ blinkPc' = IF setting.blinking /\ ~stop THEN "lights" ELSE "idle"
  /\ UNCHANGED <<setting, turn_on, selector, stop, slaveVars>>

(* SIGINT or SIGTERM, once the handlers are installed.                     *)
Inthand ==
  /\ blinkPc # "idle" /\ ~stop
  /\ stop' = TRUE
  /\ UNCHANGED <<blinkPc, setting, turn_on, selector, slaveVars>>

BlinkStep == PrepareLeds \/ WriteSelector \/ Wake

BlinkNext == StartBlinking \/ BlinkStep \/ Inthand
=============================================================================
