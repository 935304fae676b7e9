SPECIFICATION Spec
CONSTANTS
  Prio = {1, 2, 63}
  OS_LO_PRIO = 63
  StatFlag = {"OS_STAT_FIFO"}
  Delays = {1}
  Timeouts = {0, 1}
  NewTicks = {}
  MaxNesting = 1
  MaxLock = 0
  Element = {e1, e2}
  NULL = NULL
  Consumer = {1, 2}
INVARIANT
  WokenFindsElement
