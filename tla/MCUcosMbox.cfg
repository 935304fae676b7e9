SPECIFICATION Spec
CONSTANTS
  Prio = {1, 2, 3, 63}
  OS_LO_PRIO = 63
  StatFlag = {"OS_STAT_MBOX"}
  Delays = {1}
  Timeouts = {0, 1}
  NewTicks = {1}
  MaxNesting = 2
  MaxLock = 1
  Msg = {m1, m2}
  NULL = NULL
  Consumer = {2}
INVARIANTS
  TimeoutLosesNothing
  WokenFindsMessage
PROPERTY
  ImplementsMessageQueue
