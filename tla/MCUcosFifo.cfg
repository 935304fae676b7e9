SPECIFICATION Spec
CONSTANTS
  Prio = {1, 2, 63}
  OS_LO_PRIO = 63
  StatFlag = {"OS_STAT_FIFO"}
  Delays = {1}
  Timeouts = {0, 1}
  NewTicks = {}
  MaxNesting = 1
  MaxLock = 1
  Element = {e1, e2, e3}
  NULL = NULL
  Consumer = {2}
INVARIANTS
  PointersFormChain
  WokenFindsElement
PROPERTY
  ImplementsMessageQueue

