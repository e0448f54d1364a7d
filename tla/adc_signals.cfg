SPECIFICATION Spec
CONSTANTS
  Readers = {r1, r2, r3}
  NumChannels = 1
  Levels = {0}
  MsgLength = 1
  MaxSignals = 3
  Buttons = FALSE
  NULL = NULL
  Idle = Idle
  Button = Button
SYMMETRY Symmetry
INVARIANTS NeverWedged SignalInv
CHECK_DEADLOCK FALSE
