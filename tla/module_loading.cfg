SPECIFICATION Spec
CONSTANTS
  NumMajors = 2
  NumDevices = 2
  MaxFiles = 1
  InUse <- Pairs
INVARIANTS TypeOK NoDanglingCode AbsentHoldsNothing LoadedIsComplete CrashOnlyIfStale SemaphoreCounts
