SPECIFICATION Spec
CONSTANTS
  N = 4
  NIL = NIL
  Prios = {1, 8, 62}
  OS_LO_PRIO = 63
  Delays = {1, 2}
INVARIANTS
  ListsAreIntact
  PrioTblIsInverse
  TickVisitsEveryTask
  SleeperHasDelay
  LookupIsHighest
