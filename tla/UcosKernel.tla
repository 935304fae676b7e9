------------------------------ MODULE UcosKernel ------------------------------
(***************************************************************************)
(* The scheduler of the uC/OS kernel in MOD5441X_FlexBus/ucos.cpp: the set *)
(* of ready tasks, the running task, the delay counters counted down by    *)
(* the timer interrupt, OSLock/OSUnlock, and nested interrupts.            *)
(*                                                                         *)
(* A task is named by its priority (a smaller number is more urgent).      *)
(* UCOS_ENTER_CRITICAL masks every interrupt, so the code between it and   *)
(* UCOS_EXIT_CRITICAL is one atomic action; interrupts, and through        *)
(* OSIntExit a change of the running task, happen between any two actions. *)
(* A kernel call that needs several critical sections is cut into actions  *)
(* joined by pc.  The ready table is kept as the set of the priorities     *)
(* whose bit is set, as RdyTable and UcosTask_proofs justify.              *)
(*                                                                         *)
(* UcosSem, UcosCrit, UcosMbox, UcosQueue and UcosFifo add the objects     *)
(* that tasks wait for.                                                    *)
(***************************************************************************)
EXTENDS Integers, FiniteSets, FiniteSetsExt

CONSTANTS Prio,      \* the priorities that have a task
          OS_LO_PRIO,\* the idle task's, the largest of them
          StatFlag,  \* OS_STAT_SEM, OS_STAT_CRIT, ...: the wait flags in use
          Delays,    \* the delays OSTimeDly is called with, from 1 up
          Timeouts,  \* the timeouts of calls that wait; 0 is no timeout
          NewTicks,  \* the delays OSChangeTaskDly is called with, from 1 up
          MaxNesting,\* bound: interrupts nested at one time
          MaxLock    \* bound: OSLock calls not yet undone

ASSUME KernelAssumption ==
  /\ Prio \subseteq Nat
  /\ IsFiniteSet(Prio)
  /\ OS_LO_PRIO \in Prio
  /\ \A p \in Prio : p <= OS_LO_PRIO
  /\ Delays \subseteq Nat \ {0}
  /\ Timeouts \subseteq Nat
  /\ NewTicks \subseteq Nat \ {0}
  /\ MaxNesting \in Nat
  /\ MaxLock \in Nat

VARIABLES
  rdy,         \* OSRdyGrp and OSRdyTbl: the priorities that are ready
  cur,         \* OSTCBCur->OSTCBPrio
  dly,         \* OSTCBDly of each task
  stat,        \* OSTCBStat of each task, as its set of flags; {} is OS_STAT_RDY
  pc,          \* where in a kernel call each task is
  lockNesting, \* OSLockNesting
  intNesting,  \* OSIntNesting, the height of the stack of interrupt frames
  tickAt,      \* which of those frames runs OSTimeTick, 0 if none does
  tickTodo     \* the TCBs OSTimeTick has not come to yet

isrVars    == <<intNesting, tickAt, tickTodo>>
tcbVars    == <<rdy, dly, stat>>
kernelVars == <<rdy, cur, dly, stat, pc, lockNesting, isrVars>>

UserTask == Prio \ {OS_LO_PRIO}

(***************************************************************************)
(* Where a task is: outside the kernel, about to call OSSched at the end   *)
(* of a call, between the two lines of OSUnlock, or in a call that waits:  *)
(* before its OSSched and before its second critical section.              *)
(***************************************************************************)
AfterSched == [sched |-> "run", pendSched |-> "pendWake"]
Pending    == {"pendSched", "pendWake"}
Label      == {"run", "sched", "unlock"} \cup Pending

(* The OSUnMapTbl lookups of OSSched, OSIntExit and OSStart. *)
HighRdy == Min(rdy)

(* Only the current task executes, and only while no interrupt does. *)
Running(p) == cur = p /\ intNesting = 0

(* An interrupt handler other than the timer's executes. *)
InISR == intNesting > 0 /\ tickAt # intNesting

Goto(p, label) == pc' = [pc EXCEPT ![p] = label]

(* Mutant of Block: the wait flag is not set. *)
BlockNoFlag(p, flag, timeout) ==
  /\ UNCHANGED stat
  /\ dly'  = [dly EXCEPT ![p] = timeout]
  /\ rdy'  = rdy \ {p}

(* The first critical section of a call that waits, common to them all. *)
Block(p, flag, timeout) ==
  /\ stat' = [stat EXCEPT ![p] = @ \cup {flag}]
  /\ dly'  = [dly EXCEPT ![p] = timeout]
  /\ rdy'  = rdy \ {p}

(* Mutant of Wake: the waiter keeps its flag. *)
WakeKeepsFlag(p, flag) ==
  /\ dly'  = [dly EXCEPT ![p] = 0]
  /\ rdy'  = rdy \cup {p}
  /\ UNCHANGED stat

(* What a post does to the waiter it takes out of a wait table. *)
Wake(p, flag) ==
  /\ dly'  = [dly EXCEPT ![p] = 0]
  /\ stat' = [stat EXCEPT ![p] = @ \ {flag}]
  /\ rdy'  = rdy \cup {p}

KernelInit ==
  /\ rdy = Prio
  /\ cur = Min(Prio)
  /\ dly = [p \in Prio |-> 0]
  /\ stat = [p \in Prio |-> {}]
  /\ pc = [p \in Prio |-> "run"]
  /\ lockNesting = 0
  /\ intNesting = 0
  /\ tickAt = 0
  /\ tickTodo = {}

(* OSSched: give the processor to the most urgent ready task. *)
OSSched(p) ==
  /\ Running(p)
  /\ pc[p] \in DOMAIN AfterSched
  /\ cur' = IF lockNesting = 0 THEN HighRdy ELSE cur
  /\ Goto(p, AfterSched[pc[p]])
  /\ UNCHANGED <<tcbVars, lockNesting, isrVars>>

(***************************************************************************)
(* A task may wait or sleep only while the scheduler is not locked: the    *)
(* kernel does not test for it, and its callers keep to it.                *)
(***************************************************************************)
MayCall(p)  == Running(p) /\ pc[p] = "run" /\ p \in UserTask
MayBlock(p) == MayCall(p) /\ lockNesting = 0

OSTimeDly(p) ==
  /\ MayBlock(p)
  /\ \E t \in Delays :
       /\ dly' = [dly EXCEPT ![p] = t]
       /\ rdy' = rdy \ {p}
  /\ Goto(p, "sched")
  /\ UNCHANGED <<stat, cur, lockNesting, isrVars>>

OSChangeTaskDly(p) ==
  /\ MayCall(p)
  /\ \E q \in UserTask, t \in NewTicks : dly' = [dly EXCEPT ![q] = t]
  /\ UNCHANGED <<rdy, stat, cur, pc, lockNesting, isrVars>>

OSLock(p) ==
  /\ MayCall(p)
  /\ lockNesting < MaxLock
  /\ lockNesting' = lockNesting + 1
  /\ UNCHANGED <<tcbVars, cur, pc, isrVars>>

OSUnlock(p) ==
  /\ MayCall(p)
  /\ lockNesting' = IF lockNesting > 0 THEN lockNesting - 1 ELSE 0
  /\ Goto(p, "unlock")
  /\ UNCHANGED <<tcbVars, cur, isrVars>>

(* OSUnlock reads OSLockNesting again, after its critical section. *)
OSUnlockTest(p) ==
  /\ Running(p)
  /\ pc[p] = "unlock"
  /\ Goto(p, IF lockNesting = 0 THEN "sched" ELSE "run")
  /\ UNCHANGED <<tcbVars, cur, lockNesting, isrVars>>

(* The prologue of the INTERRUPT macro, for any handler but the timer's. *)
InterruptEnter ==
  /\ intNesting < MaxNesting
  /\ intNesting' = intNesting + 1
  /\ UNCHANGED <<tcbVars, cur, pc, lockNesting, tickAt, tickTodo>>

(* The timer interrupt.  Its level masks it until it has returned. *)
TickEnter ==
  /\ intNesting < MaxNesting
  /\ tickAt = 0
  /\ intNesting' = intNesting + 1
  /\ tickAt' = intNesting'
  /\ tickTodo' = UserTask
  /\ UNCHANGED <<tcbVars, cur, pc, lockNesting>>

(* Mutants of OSTimeTick: the delay is tested before it is decremented; a  *)
(* task whose delay is zero already is made ready.                         *)
OSTimeTickPostDecrement(p) ==
  /\ intNesting > 0 /\ tickAt = intNesting
  /\ p \in tickTodo
  /\ tickTodo' = tickTodo \ {p}
  /\ dly' = [dly EXCEPT ![p] = IF @ # 0 THEN @ - 1 ELSE 0]
  /\ UNCHANGED <<rdy, stat, cur, pc, lockNesting, intNesting, tickAt>>
OSTimeTickUnguarded(p) ==
  /\ intNesting > 0 /\ tickAt = intNesting
  /\ p \in tickTodo
  /\ tickTodo' = tickTodo \ {p}
  /\ dly' = [dly EXCEPT ![p] = IF @ # 0 THEN @ - 1 ELSE 0]
  /\ rdy' = IF dly'[p] = 0 THEN rdy \cup {p} ELSE rdy
  /\ UNCHANGED <<stat, cur, pc, lockNesting, intNesting, tickAt>>

(***************************************************************************)
(* OSTimeTick's critical section for one TCB.  OSTCBList has the order the *)
(* tasks were created in, which is any order here.                         *)
(***************************************************************************)
OSTimeTick(p) ==
  /\ intNesting > 0 /\ tickAt = intNesting
  /\ p \in tickTodo
  /\ tickTodo' = tickTodo \ {p}
  /\ dly' = [dly EXCEPT ![p] = IF @ # 0 THEN @ - 1 ELSE 0]
  /\ rdy' = IF dly[p] = 1 THEN rdy \cup {p} ELSE rdy
  /\ UNCHANGED <<stat, cur, pc, lockNesting, intNesting, tickAt>>

(* The handler that runs returns through OSIntExit. *)
OSIntExit ==
  /\ intNesting > 0
  /\ tickAt = intNesting => tickTodo = {}
  /\ intNesting' = intNesting - 1
  /\ tickAt' = IF tickAt = intNesting THEN 0 ELSE tickAt
  /\ cur' = IF intNesting' = 0 /\ lockNesting = 0 THEN HighRdy ELSE cur
  /\ UNCHANGED <<tcbVars, pc, lockNesting, tickTodo>>

TaskStep ==
  \E p \in Prio : \/ OSSched(p)
                  \/ OSTimeDly(p)
                  \/ OSChangeTaskDly(p)
                  \/ OSLock(p)
                  \/ OSUnlock(p)
                  \/ OSUnlockTest(p)

InterruptStep ==
  \/ InterruptEnter
  \/ TickEnter
  \/ \E p \in Prio : OSTimeTick(p)
  \/ OSIntExit

KernelNext == TaskStep \/ InterruptStep

(***************************************************************************)
(* The timer's request is latched, so it is served although other          *)
(* interrupts come again and again; every handler ends; and the timer's    *)
(* makes progress, and ends, although it is itself interrupted repeatedly. *)
(***************************************************************************)
InterruptFairness ==
  /\ SF_kernelVars(TickEnter)
  /\ SF_kernelVars(\E p \in Prio : OSTimeTick(p))
  /\ SF_kernelVars(OSIntExit /\ tickAt = intNesting)
  /\ WF_kernelVars(OSIntExit)

-------------------------------------------------------------------------------
KernelTypeOK ==
  /\ rdy \subseteq Prio
  /\ cur \in Prio
  /\ dly \in [Prio -> Nat]
  /\ stat \in [Prio -> SUBSET StatFlag]
  /\ pc \in [Prio -> Label]
  /\ lockNesting \in 0..MaxLock
  /\ intNesting \in 0..MaxNesting
  /\ tickAt \in 0..intNesting
  /\ tickTodo \subseteq UserTask

(***************************************************************************)
(* The task that executes is the most urgent ready one, unless it holds    *)
(* the scheduler lock or is on its way to OSSched: no kernel call and no   *)
(* interrupt may leave a more urgent ready task behind the running one.    *)
(***************************************************************************)
CurIsHighestReady ==
  intNesting = 0 /\ lockNesting = 0 /\ pc[cur] \in {"run", "pendWake"}
    => cur = HighRdy

(***************************************************************************)
(* The idle task never leaves the ready table, so the lookups of OSSched   *)
(* and OSIntExit always find a task.                                       *)
(***************************************************************************)
IdleIsReady == OS_LO_PRIO \in rdy

(***************************************************************************)
(* A task that executes, or that holds the scheduler lock, is ready: no    *)
(* task runs on after it has put itself to sleep.                          *)
(***************************************************************************)
CurIsReady ==
  pc[cur] \in {"run", "pendWake", "unlock"} \/ lockNesting > 0 => cur \in rdy

(***************************************************************************)
(* A task that is not ready and waits for no object has a delay running:   *)
(* a task asleep in OSTimeDly is never forgotten.                          *)
(***************************************************************************)
SleeperHasDelay ==
  \A p \in Prio : p \notin rdy /\ stat[p] = {} => dly[p] > 0

(***************************************************************************)
(* A sleeping task becomes ready again: OSTimeTick comes to every TCB at   *)
(* every tick, whatever other interrupts nest above it.                    *)
(***************************************************************************)
SleeperBecomesReady ==
  \A p \in Prio : p \notin rdy /\ dly[p] > 0 ~> p \in rdy
=============================================================================
