SPECIFICATION Spec
CONSTANTS
  Prio = {1, 2, 63}
  OS_LO_PRIO = 63
  StatFlag = {"OS_STAT_Q"}
  Delays = {1}
  Timeouts = {0, 1}
  NewTicks = {}
  MaxNesting = 1
  MaxLock = 1
  Msg = {m1, m2}
  NULL = NULL
  Size = 2
  Consumer = {2}
INVARIANTS
  RingIsConsistent
  NoMessageLeft
PROPERTY
  ImplementsMessageQueue
