SPECIFICATION Spec
CONSTANTS
  Prio = {1, 2, 3, 63}
  OS_LO_PRIO = 63
  StatFlag = {"OS_STAT_CRIT"}
  Delays = {1}
  Timeouts = {0, 1}
  NewTicks = {}
  MaxNesting = 1
  MaxLock = 1
  Patient = {2}
  MaxDepth = 2
INVARIANTS
  MutualExclusion
  WaitersHaveOwner
  OwnerKnows
  PatientIsPending
