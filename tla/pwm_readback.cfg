SPECIFICATION Spec
CONSTANTS
  Procs = {p1, p2}
  Percents = {2}
  Requests = {0, 50000}
  Files <- SomeFiles
  Garbage <- SomeGarbage
SYMMETRY Symmetry
CONSTRAINT UpToOverlap
INVARIANT FrequencyReadsBack
