------------------------------- MODULE UcosFifo -------------------------------
(***************************************************************************)
(* The FIFOs of ucos.cpp: elements chained through their pNext, with a     *)
(* head and a tail pointer.  A post makes the most urgent waiter ready;    *)
(* the element stays in the chain until that waiter runs and takes the     *)
(* head.  The kernel does not copy elements: whoever posts one must own    *)
(* it, as the programs that use the FIFO take it from a pool.              *)
(***************************************************************************)
EXTENDS UcosKernel, Sequences, SequencesExt

CONSTANTS Element, NULL,
          Consumer   \* the tasks that receive from the FIFO

ASSUME FifoAssumption ==
  /\ IsFiniteSet(Element)
  /\ NULL \notin Element
  /\ Consumer \subseteq UserTask
  /\ "OS_STAT_FIFO" \in StatFlag

VARIABLES
  pHead, pTail,
  pNext,    \* of every element
  fifoWait, \* OSFifoGrp and OSFifoTbl
  chain,    \* history: the elements posted and not received, in their order
  got       \* history: the element received last

listVars == <<pHead, pTail, pNext, chain>>
fifoVars == <<listVars, fifoWait, got>>
vars     == <<kernelVars, fifoVars>>

Init ==
  /\ KernelInit
  /\ pHead = NULL
  /\ pTail = NULL
  /\ pNext = [e \in Element |-> NULL]
  /\ fifoWait = {}
  /\ chain = <<>>
  /\ got = NULL

(* Mutant of TakeHead: the tail still points at the last element taken. *)
TakeHeadKeepsTail ==
  /\ got' = pHead
  /\ pHead' = pNext[pHead]
  /\ pNext' = [pNext EXCEPT ![pHead] = NULL]
  /\ chain' = Tail(chain)
  /\ UNCHANGED pTail

TakeHead ==
  /\ got' = pHead
  /\ pHead' = pNext[pHead]
  /\ pTail' = IF pHead' = NULL THEN NULL ELSE pTail
  /\ pNext' = [pNext EXCEPT ![pHead] = NULL]
  /\ chain' = Tail(chain)

PendTake(p) ==
  /\ MayCall(p) /\ p \in Consumer
  /\ pHead # NULL
  /\ TakeHead
  /\ UNCHANGED <<kernelVars, fifoWait>>

PendWait(p, t) ==
  /\ MayBlock(p) /\ p \in Consumer
  /\ pHead = NULL
  /\ Block(p, "OS_STAT_FIFO", t)
  /\ fifoWait' = fifoWait \cup {p}
  /\ Goto(p, "pendSched")
  /\ UNCHANGED <<cur, lockNesting, isrVars, listVars, got>>

PendNoWaitFails(p) ==
  /\ MayCall(p) /\ p \in Consumer
  /\ pHead = NULL
  /\ UNCHANGED vars

(* A woken task takes the head, without asking whether there is one. *)
PendServed(p) ==
  /\ Running(p)
  /\ pc[p] = "pendWake"
  /\ "OS_STAT_FIFO" \notin stat[p]
  /\ TakeHead
  /\ Goto(p, "run")
  /\ UNCHANGED <<tcbVars, cur, lockNesting, isrVars, fifoWait>>

PendTimeout(p) ==
  /\ Running(p)
  /\ pc[p] = "pendWake"
  /\ "OS_STAT_FIFO" \in stat[p]
  /\ fifoWait' = fifoWait \ {p}
  /\ stat' = [stat EXCEPT ![p] = {}]
  /\ Goto(p, "run")
  /\ UNCHANGED <<rdy, dly, cur, lockNesting, isrVars, listVars, got>>

(* Mutant of LinkBack: the old tail is not linked to the new one. *)
LinkBackNoLink(e) ==
  /\ pHead' = IF pTail = NULL THEN e ELSE pHead
  /\ pNext' = [pNext EXCEPT ![e] = NULL]
  /\ pTail' = e
  /\ chain' = Append(chain, e)

LinkBack(e) ==
  /\ IF pTail = NULL
     THEN pHead' = e /\ pNext' = [pNext EXCEPT ![e] = NULL]
     ELSE pHead' = pHead /\ pNext' = [pNext EXCEPT ![e] = NULL, ![pTail] = e]
  /\ pTail' = e
  /\ chain' = Append(chain, e)

LinkFront(e) ==
  /\ pTail' = IF pTail = NULL THEN e ELSE pTail
  /\ pNext' = [pNext EXCEPT ![e] = pHead]
  /\ pHead' = e
  /\ chain' = <<e>> \o chain

(* OSFifoPost and OSFifoPostFirst differ in the end they link to. *)
Posted(e, woken) ==
  /\ e \notin ToSet(chain)
  /\ LinkBack(e) \/ LinkFront(e)
  /\ IF fifoWait # {}
     THEN LET p == Min(fifoWait)
          IN  /\ woken = TRUE
              /\ Wake(p, "OS_STAT_FIFO")
              /\ fifoWait' = fifoWait \ {p}
     ELSE /\ woken = FALSE
          /\ UNCHANGED <<tcbVars, fifoWait>>

TaskPost(p, e) ==
  /\ MayCall(p)
  /\ \E woken \in BOOLEAN :
       /\ Posted(e, woken)
       /\ IF woken THEN Goto(p, "sched") ELSE pc' = pc
  /\ UNCHANGED <<cur, lockNesting, isrVars, got>>

ISRPost(e) ==
  /\ InISR
  /\ \E woken \in BOOLEAN : Posted(e, woken)
  /\ UNCHANGED <<cur, pc, lockNesting, isrVars, got>>

FifoNext ==
  \/ \E p \in Prio :
       \/ PendTake(p)
       \/ \E t \in Timeouts : PendWait(p, t)
       \/ PendNoWaitFails(p)
       \/ PendServed(p)
       \/ PendTimeout(p)
       \/ \E e \in Element : TaskPost(p, e)
  \/ \E e \in Element : ISRPost(e)

Next == \/ KernelNext /\ UNCHANGED fifoVars
        \/ FifoNext

Spec == Init /\ [][Next]_vars

-------------------------------------------------------------------------------
TypeOK ==
  /\ KernelTypeOK
  /\ pHead \in Element \cup {NULL}
  /\ pTail \in Element \cup {NULL}
  /\ pNext \in [Element -> Element \cup {NULL}]
  /\ fifoWait \subseteq Consumer
  /\ chain \in Seq(Element)
  /\ got \in Element \cup {NULL}

(***************************************************************************)
(* The pointers form the chain of the elements posted and not received:    *)
(* the head is its first, each pNext the one after, the tail its last, and *)
(* an element that is in nobody's chain points nowhere.                    *)
(***************************************************************************)
PointersFormChain ==
  /\ pHead = IF chain = <<>> THEN NULL ELSE Head(chain)
  /\ pTail = IF chain = <<>> THEN NULL ELSE Last(chain)
  /\ \A i \in 1..Len(chain) :
       pNext[chain[i]] = IF i = Len(chain) THEN NULL ELSE chain[i + 1]
  /\ \A e \in Element \ ToSet(chain) : pNext[e] = NULL

(***************************************************************************)
(* A task that a post has woken finds an element at the head, which its    *)
(* OSFifoPend takes without another test: a call that gets none returns    *)
(* NULL, as its callers expect, and only from the branch for a timeout.    *)
(***************************************************************************)
WokenFindsElement ==
  \A p \in Consumer :
    pc[p] \in Pending /\ "OS_STAT_FIFO" \notin stat[p] => pHead # NULL

(***************************************************************************)
(* The FIFO does what MessageQueue promises: each element that OSFifoPost  *)
(* or OSFifoPostFirst links is received once, from the front of the chain. *)
(***************************************************************************)
Abstract == INSTANCE MessageQueue WITH
  Msg      <- Element,
  Capacity <- Cardinality(Element),
  held     <- chain
ImplementsMessageQueue == Abstract!Spec
=============================================================================
