SPECIFICATION Spec
CONSTANTS
  Procs = {p1, p2}
  Percents = {2, 101}
  Requests = {0, 50000}
  Files <- SomeFiles
  Garbage <- SomeGarbage
SYMMETRY Symmetry
CONSTRAINT UpToOverlap
INVARIANTS TypeOK OneOpener ReadsBack FirstFrequencyReadsBack IInv
PROPERTIES OnlyOwnSetting ServiceSpec
