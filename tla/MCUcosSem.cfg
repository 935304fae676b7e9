SPECIFICATION FairSpec
CONSTANTS
  Prio = {1, 2, 63}
  OS_LO_PRIO = 63
  StatFlag = {"OS_STAT_SEM"}
  Delays = {2}
  Timeouts = {0, 1}
  NewTicks = {}
  MaxNesting = 2
  MaxLock = 1
  Sem = {s1, s2}
  NoSem = NoSem
  InitCnt = {0, 1}
  MaxCnt = 1
INVARIANTS
  TypeOK
  CurIsHighestReady
  CountIsWaiters
  FlagIsWaiting
  TimeoutOnlyIfAsked
PROPERTIES
  ImplementsCountingSem
  SleeperBecomesReady
