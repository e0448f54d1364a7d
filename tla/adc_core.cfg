SPECIFICATION FairSpec
CONSTANTS
  Readers = {r1, r2}
  NumChannels = 2
  Levels = {0, 1}
  MsgLength = 2
  MaxSignals = 0
  Buttons = TRUE
  NULL = NULL
  Idle = Idle
  Button = Button
INVARIANTS TypeOK SemaphoreBalance FreshValue IInv
PROPERTIES OneConversionAtATime WakesTheOwner ServiceSpec NobodyOvertakes EveryReadReturns ButtonGivesBack
