------------------------------- MODULE UcosQueue -------------------------------
(***************************************************************************)
(* The message queues of ucos.cpp: a ring of Size pointers, its next slot  *)
(* to fill, its next slot to empty, and the number of entries, a byte.     *)
(* A post makes the most urgent waiter ready; the message stays in the     *)
(* ring until that waiter runs and takes the oldest one.                   *)
(***************************************************************************)
EXTENDS UcosKernel, Sequences

CONSTANTS Msg, NULL, \* messages, and what an unused slot holds
          Size,      \* OSQSize
          Consumer   \* the tasks that receive from the queue

ASSUME QueueAssumption ==
  /\ NULL \notin Msg
  /\ Size \in 1..255
  /\ Consumer \subseteq UserTask
  /\ "OS_STAT_Q" \in StatFlag

VARIABLES
  slot,     \* OSQStart[0 .. Size - 1]
  qIn,      \* OSQIn - OSQStart
  qOut,     \* OSQOut - OSQStart
  entries,  \* OSQEntries
  qWait,    \* OSQGrp and OSQTbl
  got       \* history: the message of the last receive that returned OS_NO_ERR

ringVars  == <<slot, qIn, qOut, entries>>
queueVars == <<ringVars, qWait, got>>
vars      == <<kernelVars, queueVars>>

Init ==
  /\ KernelInit
  /\ slot = [i \in 0..Size-1 |-> NULL]
  /\ qIn = 0
  /\ qOut = 0
  /\ entries = 0
  /\ qWait = {}
  /\ got = NULL

(* Mutant: a pointer is not wrapped around the end of the ring. *)
PrevSlotNoWrap(i) == IF i = 0 THEN 0 ELSE i - 1

(* A pointer stepped past the last slot goes back to OSQStart. *)
NextSlot(i) == IF i + 1 = Size THEN 0 ELSE i + 1
PrevSlot(i) == IF i = 0 THEN Size - 1 ELSE i - 1

TakeMsg ==
  /\ got' = slot[qOut]
  /\ qOut' = NextSlot(qOut)
  /\ entries' = (entries - 1) % 256
  /\ UNCHANGED <<slot, qIn>>

PendTake(p) ==
  /\ MayCall(p) /\ p \in Consumer
  /\ entries # 0
  /\ TakeMsg
  /\ UNCHANGED <<kernelVars, qWait>>

(* Mutant of PendWait: it waits without looking for a message. *)
PendWaitBlindly(p, t) ==
  /\ MayBlock(p) /\ p \in Consumer
  /\ Block(p, "OS_STAT_Q", t)
  /\ qWait' = qWait \cup {p}
  /\ Goto(p, "pendSched")
  /\ UNCHANGED <<cur, lockNesting, isrVars, ringVars, got>>

PendWait(p, t) ==
  /\ MayBlock(p) /\ p \in Consumer
  /\ entries = 0
  /\ Block(p, "OS_STAT_Q", t)
  /\ qWait' = qWait \cup {p}
  /\ Goto(p, "pendSched")
  /\ UNCHANGED <<cur, lockNesting, isrVars, ringVars, got>>

PendNoWaitFails(p) ==
  /\ MayCall(p) /\ p \in Consumer
  /\ entries = 0
  /\ UNCHANGED vars

(* A woken task takes the slot at qOut and returns OS_NO_ERR. *)
PendServed(p) ==
  /\ Running(p)
  /\ pc[p] = "pendWake"
  /\ "OS_STAT_Q" \notin stat[p]
  /\ TakeMsg
  /\ Goto(p, "run")
  /\ UNCHANGED <<tcbVars, cur, lockNesting, isrVars, qWait>>

PendTimeout(p) ==
  /\ Running(p)
  /\ pc[p] = "pendWake"
  /\ "OS_STAT_Q" \in stat[p]
  /\ qWait' = qWait \ {p}
  /\ stat' = [stat EXCEPT ![p] = {}]
  /\ Goto(p, "run")
  /\ UNCHANGED <<rdy, dly, cur, lockNesting, isrVars, ringVars, got>>

PutBack(m) ==
  /\ slot' = [slot EXCEPT ![qIn] = m]
  /\ qIn' = NextSlot(qIn)
  /\ UNCHANGED qOut

(* Mutant of PutFront: it stores the message before it steps back. *)
PutFrontSwapped(m) ==
  /\ slot' = [slot EXCEPT ![qOut] = m]
  /\ qOut' = PrevSlot(qOut)
  /\ UNCHANGED qIn

PutFront(m) ==
  /\ qOut' = PrevSlot(qOut)
  /\ slot' = [slot EXCEPT ![qOut'] = m]
  /\ UNCHANGED qIn

(* OSQPost and OSQPostFirst differ in the end of the ring they fill. *)
Posted(m, woken) ==
  /\ entries < Size
  /\ PutBack(m) \/ PutFront(m)
  /\ entries' = entries + 1
  /\ IF qWait # {}
     THEN LET p == Min(qWait)
          IN  /\ woken = TRUE
              /\ Wake(p, "OS_STAT_Q")
              /\ qWait' = qWait \ {p}
     ELSE /\ woken = FALSE
          /\ UNCHANGED <<tcbVars, qWait>>

TaskPost(p, m) ==
  /\ MayCall(p)
  /\ \E woken \in BOOLEAN :
       /\ Posted(m, woken)
       /\ IF woken THEN Goto(p, "sched") ELSE pc' = pc
  /\ UNCHANGED <<cur, lockNesting, isrVars, got>>

ISRPost(m) ==
  /\ InISR
  /\ \E woken \in BOOLEAN : Posted(m, woken)
  /\ UNCHANGED <<cur, pc, lockNesting, isrVars, got>>

(* OS_Q_FULL. *)
PostFull ==
  /\ entries >= Size
  /\ InISR \/ \E p \in Prio : MayCall(p)
  /\ UNCHANGED vars

QueueNext ==
  \/ \E p \in Prio :
       \/ PendTake(p)
       \/ \E t \in Timeouts : PendWait(p, t)
       \/ PendNoWaitFails(p)
       \/ PendServed(p)
       \/ PendTimeout(p)
       \/ \E m \in Msg : TaskPost(p, m)
  \/ \E m \in Msg : ISRPost(m)
  \/ PostFull

Next == \/ KernelNext /\ UNCHANGED queueVars
        \/ QueueNext

Spec == Init /\ [][Next]_vars

-------------------------------------------------------------------------------
TypeOK ==
  /\ KernelTypeOK
  /\ slot \in [0..Size-1 -> Msg \cup {NULL}]
  /\ qIn \in 0..Size-1
  /\ qOut \in 0..Size-1
  /\ entries \in 0..255
  /\ qWait \subseteq Consumer
  /\ got \in Msg \cup {NULL}

(***************************************************************************)
(* The two pointers and the count describe the same ring: qIn is entries   *)
(* slots after qOut, around the end, and the entries fit.                  *)
(***************************************************************************)
RingIsConsistent ==
  /\ entries <= Size
  /\ qIn = (qOut + entries) % Size

(* The tasks that a post has made ready and that have not run since. *)
Woken == {p \in Consumer : pc[p] \in Pending /\ "OS_STAT_Q" \notin stat[p]}

(***************************************************************************)
(* No task waits while a message lies in the ring that no woken task is on *)
(* its way to take.                                                        *)
(***************************************************************************)
NoMessageLeft == qWait # {} => entries <= Cardinality(Woken)

(***************************************************************************)
(* The queue does what MessageQueue promises of a bounded sequence: what   *)
(* OSQPost and OSQPostFirst accept is received once, from the front, and   *)
(* nothing is accepted beyond Size messages.                               *)
(***************************************************************************)
Abstract == INSTANCE MessageQueue WITH
  Capacity <- Size,
  held     <- [i \in 1..entries |-> slot[(qOut + i - 1) % Size]]
ImplementsMessageQueue == Abstract!Spec
=============================================================================
