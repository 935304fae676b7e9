------------------------------- MODULE UcosTask -------------------------------
(***************************************************************************)
(* The task control blocks of ucos.cpp: the doubly linked list of live     *)
(* ones that OSTimeTick walks, the list of free ones, the table that finds *)
(* a task by its priority, and the calls that change them: OSChangePrio,   *)
(* OSTaskDelete, OSTCBGetFree and (external) OSTaskCreate.  Here a task is *)
(* its TCB and its priority may change; UcosKernel, which names a task by  *)
(* its priority, is this system between two such calls.                    *)
(***************************************************************************)
EXTENDS RdyTable, Sequences, SequencesExt

CONSTANTS N,         \* how many TCBs OSTCBTbl has
          NIL,       \* the null pointer
          Prios,     \* the priorities tasks are given
          OS_LO_PRIO,\* the idle task's
          Delays     \* the delays OSTimeDly is called with

ASSUME TaskAssumption ==
  /\ N \in Nat /\ N >= 2
  /\ NIL \notin 1..N
  /\ OS_LO_PRIO \in 0..63
  /\ Prios \subseteq 0..OS_LO_PRIO-1
  /\ Delays \subseteq Nat \ {0}

VARIABLES
  tcbPrio, tcbNext, tcbPrev, \* fields of the TCBs
  tcbDly,                    \* OSTCBDly
  tcbList, freeList,         \* OSTCBList, OSTCBFreeList
  prioTbl,                   \* OSTCBPrioTbl
  rdy,                       \* OSRdyGrp and OSRdyTbl
  cur,                       \* OSTCBCur
  toSched,                   \* the TCBs of tasks about to call OSSched
  walk,                      \* ptcb of the OSTimeTick that runs, or NIL
  visited,                   \* history: the TCBs that OSTimeTick came to
  order, pool                \* history: live and free TCBs, as they are linked

linkVars == <<tcbNext, tcbPrev, tcbList, freeList, order, pool>>
tickVars == <<walk, visited>>
vars     == <<tcbPrio, tcbDly, prioTbl, rdy, cur, toSched, tickVars, linkVars>>

TCB      == 1..N \* in the order in which OSInit links them
AllPrios == Prios \cup {OS_LO_PRIO}
IdleTCB  == 1 \* OSInit takes the first TCB of the free list for the idle task
MainTCB  == 2
Live     == ToSet(order)

(* s without its k-th element, by the indices. *)
Without(s, k) == [i \in 1..Len(s)-1 |-> IF i < k THEN s[i] ELSE s[i + 1]]

(* What the scheduler finds. *)
HighTCB  == prioTbl[Lookup(rdy)]

(***************************************************************************)
(* After OSInit, which created the idle task, the start-up code created    *)
(* the main task, and OSStart gave it the processor.                       *)
(***************************************************************************)
Init ==
  \E p \in Prios :
    /\ order = <<MainTCB, IdleTCB>>
    /\ pool = [i \in 1..N-2 |-> i + 2]
    /\ tcbNext = [t \in TCB |-> CASE t = MainTCB -> IdleTCB
                                  [] t = IdleTCB -> NIL
                                  [] OTHER -> IF t + 1 \in TCB THEN t + 1 ELSE NIL]
    /\ tcbPrev = [t \in TCB |-> IF t = IdleTCB THEN MainTCB ELSE NIL]
    /\ tcbList = MainTCB
    /\ freeList = IF 3 \in TCB THEN 3 ELSE NIL
    /\ tcbPrio = [t \in TCB |-> CASE t = MainTCB -> p
                                  [] t = IdleTCB -> OS_LO_PRIO
                                  [] OTHER -> 0]
    /\ tcbDly = [t \in TCB |-> 0]
    /\ prioTbl = [q \in AllPrios |-> CASE q = p -> MainTCB
                                       [] q = OS_LO_PRIO -> IdleTCB
                                       [] OTHER -> NIL]
    /\ rdy = WithBit(WithBit(EmptyTable, OS_LO_PRIO), p)
    /\ cur = MainTCB
    /\ toSched = {}
    /\ walk = NIL
    /\ visited = {}

(* The current task executes, outside the kernel. *)
MayCall(t) == cur = t /\ walk = NIL /\ t \notin toSched /\ t # IdleTCB

OSSched(t) ==
  /\ cur = t /\ walk = NIL
  /\ t \in toSched
  /\ toSched' = toSched \ {t}
  /\ cur' = HighTCB
  /\ UNCHANGED <<tcbPrio, tcbDly, prioTbl, rdy, tickVars, linkVars>>

OSTimeDly(t) ==
  /\ MayCall(t)
  /\ \E d \in Delays : tcbDly' = [tcbDly EXCEPT ![t] = d]
  /\ rdy' = WithoutBit(rdy, tcbPrio[t])
  /\ toSched' = toSched \cup {t}
  /\ UNCHANGED <<tcbPrio, prioTbl, cur, tickVars, linkVars>>

(* Mutant of OSChangePrio: the old entry stays in OSTCBPrioTbl. *)
OSChangePrioKeepsOld(t, newp) ==
  /\ MayCall(t)
  /\ prioTbl[newp] = NIL
  /\ rdy' = WithBit(WithoutBit(rdy, tcbPrio[t]), newp)
  /\ tcbPrio' = [tcbPrio EXCEPT ![t] = newp]
  /\ prioTbl' = [prioTbl EXCEPT ![newp] = t]
  /\ toSched' = toSched \cup {t}
  /\ UNCHANGED <<tcbDly, cur, tickVars, linkVars>>
OSChangePrio(t, newp) ==
  /\ MayCall(t)
  /\ prioTbl[newp] = NIL
  /\ LET oldp == tcbPrio[t]
     IN  /\ rdy' = WithBit(WithoutBit(rdy, oldp), newp)
         /\ tcbPrio' = [tcbPrio EXCEPT ![t] = newp]
         /\ prioTbl' = [prioTbl EXCEPT ![newp] = t, ![oldp] = NIL]
  /\ toSched' = toSched \cup {t}
  /\ UNCHANGED <<tcbDly, cur, tickVars, linkVars>>

(* OS_PRIO_EXIST. *)
OSChangePrioExists(t, newp) ==
  /\ MayCall(t)
  /\ prioTbl[newp] # NIL
  /\ UNCHANGED vars

(* Mutant of UnlinkFirst: "Rev. A, This line was missing". *)
UnlinkFirstBeforeRevA(t) ==
  /\ tcbPrev[t] = NIL
  /\ tcbPrev' = [tcbPrev EXCEPT ![tcbNext[t]] = NIL]
  /\ tcbNext' = [tcbNext EXCEPT ![t] = freeList]
  /\ UNCHANGED tcbList

(* OSTaskDelete's two cases: the caller's TCB is first in the list, or not. *)
UnlinkFirst(t) ==
  /\ tcbPrev[t] = NIL
  /\ tcbPrev' = [tcbPrev EXCEPT ![tcbNext[t]] = NIL]
  /\ tcbList' = tcbNext[t]
  /\ tcbNext' = [tcbNext EXCEPT ![t] = freeList]

UnlinkInner(t) ==
  /\ tcbPrev[t] # NIL
  /\ tcbPrev' = [tcbPrev EXCEPT ![tcbNext[t]] = tcbPrev[t]]
  /\ tcbNext' = [tcbNext EXCEPT ![tcbPrev[t]] = tcbNext[t], ![t] = freeList]
  /\ UNCHANGED tcbList

OSTaskDelete(t) ==
  /\ MayCall(t)
  /\ prioTbl' = [prioTbl EXCEPT ![tcbPrio[t]] = NIL]
  /\ rdy' = WithoutBit(rdy, tcbPrio[t])
  /\ UnlinkFirst(t) \/ UnlinkInner(t)
  /\ freeList' = t
  /\ \E k \in 1..Len(order) : order[k] = t /\ order' = Without(order, k)
  /\ pool' = <<t>> \o pool
  /\ toSched' = toSched \cup {t}
  /\ UNCHANGED <<tcbPrio, tcbDly, cur, tickVars>>

(***************************************************************************)
(* OSTaskCreate, with the OSTCBGetFree it calls.  It is not in the         *)
(* repository: that the new TCB goes to the front of the list follows from *)
(* OSTimeTick, which ends at the idle task's, the first one created.       *)
(***************************************************************************)
OSTaskCreate(t, p) ==
  /\ MayCall(t)
  /\ prioTbl[p] = NIL
  /\ freeList # NIL
  /\ LET new == freeList
     IN  /\ freeList' = tcbNext[new]
         /\ tcbNext' = [tcbNext EXCEPT ![new] = tcbList]
         /\ tcbPrev' = [tcbPrev EXCEPT ![new] = NIL, ![tcbList] = new]
         /\ tcbList' = new
         /\ tcbPrio' = [tcbPrio EXCEPT ![new] = p]
         /\ tcbDly' = [tcbDly EXCEPT ![new] = 0]
         /\ prioTbl' = [prioTbl EXCEPT ![p] = new]
         /\ toSched' = (toSched \ {new}) \cup {t}
         /\ order' = <<new>> \o order
  /\ rdy' = WithBit(rdy, p)
  /\ pool' = Tail(pool)
  /\ UNCHANGED <<cur, tickVars>>

(* Mutant of TickEnter: the walk begins at the second TCB. *)
TickEnterSecond ==
  /\ walk = NIL
  /\ walk' = tcbNext[tcbList]
  /\ visited' = {}
  /\ UNCHANGED <<tcbPrio, tcbDly, prioTbl, rdy, cur, toSched, linkVars>>

(* OSTimeTick, in the timer interrupt: one action per TCB it comes to. *)
TickEnter ==
  /\ walk = NIL
  /\ walk' = tcbList
  /\ visited' = {}
  /\ UNCHANGED <<tcbPrio, tcbDly, prioTbl, rdy, cur, toSched, linkVars>>

(* Mutant of OSTimeTick: nobody is woken. *)
OSTimeTickPostDecrement ==
  /\ walk # NIL
  /\ tcbPrio[walk] # OS_LO_PRIO
  /\ tcbDly' = [tcbDly EXCEPT ![walk] = IF @ # 0 THEN @ - 1 ELSE 0]
  /\ visited' = visited \cup {walk}
  /\ walk' = tcbNext[walk]
  /\ UNCHANGED <<rdy, tcbPrio, prioTbl, cur, toSched, linkVars>>

OSTimeTick ==
  /\ walk # NIL
  /\ tcbPrio[walk] # OS_LO_PRIO
  /\ tcbDly' = [tcbDly EXCEPT ![walk] = IF @ # 0 THEN @ - 1 ELSE 0]
  /\ rdy' = IF tcbDly[walk] = 1 THEN WithBit(rdy, tcbPrio[walk]) ELSE rdy
  /\ visited' = visited \cup {walk}
  /\ walk' = tcbNext[walk]
  /\ UNCHANGED <<tcbPrio, prioTbl, cur, toSched, linkVars>>

(* The walk has come to the idle task: OSIntExit. *)
TickExit ==
  /\ walk # NIL
  /\ tcbPrio[walk] = OS_LO_PRIO
  /\ walk' = NIL
  /\ visited' = {}
  /\ cur' = HighTCB
  /\ UNCHANGED <<tcbPrio, tcbDly, prioTbl, rdy, toSched, linkVars>>

Next ==
  \/ \E t \in TCB : \/ OSSched(t)
                    \/ OSTimeDly(t)
                    \/ OSTaskDelete(t)
                    \/ \E p \in Prios : \/ OSChangePrio(t, p)
                                        \/ OSChangePrioExists(t, p)
                                        \/ OSTaskCreate(t, p)
  \/ TickEnter
  \/ OSTimeTick
  \/ TickExit

Spec == Init /\ [][Next]_vars

-------------------------------------------------------------------------------
TypeOK ==
  /\ order \in Seq(TCB) /\ pool \in Seq(TCB)
  /\ tcbPrio \in [TCB -> 0..OS_LO_PRIO]
  /\ tcbNext \in [TCB -> TCB \cup {NIL}]
  /\ tcbPrev \in [TCB -> TCB \cup {NIL}]
  /\ tcbDly \in [TCB -> Nat]
  /\ tcbList \in TCB
  /\ freeList \in TCB \cup {NIL}
  /\ prioTbl \in [AllPrios -> TCB \cup {NIL}]
  /\ rdy \in Table
  /\ cur \in TCB
  /\ toSched \subseteq TCB
  /\ walk \in TCB \cup {NIL}
  /\ visited \subseteq TCB

LinkedAs(first, seq) ==
  /\ first = IF seq = <<>> THEN NIL ELSE Head(seq)
  /\ \A i \in 1..Len(seq) :
       tcbNext[seq[i]] = IF i = Len(seq) THEN NIL ELSE seq[i + 1]

(***************************************************************************)
(* The two lists are intact and share the TCBs out: whichever tasks were   *)
(* created and deleted in whichever order, OSTCBList leads through every   *)
(* live TCB, forward and back, and OSTCBFreeList through all the others.   *)
(***************************************************************************)
ListsAreIntact ==
  /\ LinkedAs(tcbList, order)
  /\ LinkedAs(freeList, pool)
  /\ \A i \in 1..Len(order) :
       tcbPrev[order[i]] = IF i = 1 THEN NIL ELSE order[i - 1]
  /\ Live \cap ToSet(pool) = {}
  /\ Live \cup ToSet(pool) = TCB

(***************************************************************************)
(* OSTCBPrioTbl finds exactly the live tasks, each at its own priority,    *)
(* and only their priorities are ready: a lookup of the scheduler never    *)
(* follows a null or a stale pointer.                                      *)
(***************************************************************************)
PrioTblIsInverse ==
  /\ \A p \in AllPrios :
       prioTbl[p] # NIL => prioTbl[p] \in Live /\ tcbPrio[prioTbl[p]] = p
  /\ \A t \in Live : prioTbl[tcbPrio[t]] = t
  /\ \A p \in Members(rdy) : p \in AllPrios /\ prioTbl[p] # NIL

(***************************************************************************)
(* OSTimeTick comes to every live task but the idle one, so no sleeper is  *)
(* left out of a tick.                                                     *)
(***************************************************************************)
TickVisitsEveryTask ==
  walk # NIL /\ tcbPrio[walk] = OS_LO_PRIO => visited = Live \ {IdleTCB}

(***************************************************************************)
(* A live task is ready or has a delay running, and not both, through any  *)
(* change of its priority: no task is left that no tick will wake.         *)
(***************************************************************************)
SleeperHasDelay ==
  \A t \in Live : HasBit(rdy, tcbPrio[t]) <=> tcbDly[t] = 0

(***************************************************************************)
(* The two lookups in OSUnMapTbl and the one in OSTCBPrioTbl lead OSSched  *)
(* to the most urgent of the live tasks that no delay holds.               *)
(***************************************************************************)
LookupIsHighest ==
  /\ HighTCB \in Live /\ tcbDly[HighTCB] = 0
  /\ \A t \in Live : tcbDly[t] = 0 => tcbPrio[HighTCB] <= tcbPrio[t]
=============================================================================
