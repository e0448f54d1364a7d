SPECIFICATION FairSpec
CONSTANTS
  t1 = t1
  t2 = t2
  blinker = blinker
  Tools = {t1, t2}
  Blinker = blinker
  Dimmer = 96
  NumRegisters = 10
  Masters <- AllMasters
  Slaves <- BothSlaves
  PointerBytes <- PointerSize
  Commands <- SomeCommands
  Settings <- SomeSettings
INVARIANTS TypeOK LedsInStep
PROPERTIES ReadsAtAddress OnlyWritesChange BlinkerEnds
