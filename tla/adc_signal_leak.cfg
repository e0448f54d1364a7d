SPECIFICATION FairSpec
CONSTANTS
  Readers = {r1, r2}
  NumChannels = 1
  Levels = {0, 1}
  MsgLength = 1
  MaxSignals = 1
  Buttons = TRUE
  NULL = NULL
  Idle = Idle
  Button = Button
PROPERTIES ButtonGivesBack
