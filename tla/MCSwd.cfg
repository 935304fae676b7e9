SPECIFICATION SwdSpec
CONSTANTS
  MaxFail = 1
  Words = 2
  MaxFaults = 3
INVARIANTS
  ReportIsTrue
  ReleasedIsComplete
PROPERTY
  InjectionEnds
