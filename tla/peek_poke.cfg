SPECIFICATION Spec
CONSTANTS
  Users = {u1, u2}
  NumAddresses = 5
  MaxRegisters = 3
  Words = {0, 1}
  Commands <- SomeCommands
  Preemptible = FALSE
SYMMETRY Symmetry
INVARIANTS TypeOK AloneAnswered
PROPERTIES OnlyCommandedWrites
