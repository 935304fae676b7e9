-------------------------------- MODULE UcosSem --------------------------------
(***************************************************************************)
(* The counting semaphores of ucos.cpp, used by the tasks of UcosKernel    *)
(* and posted by tasks and by interrupt handlers.  A negative count is the *)
(* number of tasks that wait.  A post hands its unit directly to the most  *)
(* urgent waiter: it clears the waiter's OS_STAT_SEM, and that flag alone  *)
(* tells the waiter, once it runs, whether it was served or timed out.     *)
(***************************************************************************)
EXTENDS UcosKernel

CONSTANTS Sem,      \* the semaphores
          NoSem,
          InitCnt,  \* the counts OSSemInit is called with
          MaxCnt    \* 0x7FFFFFF in OSSemPost

ASSUME SemAssumption ==
  /\ NoSem \notin Sem
  /\ "OS_STAT_SEM" \in StatFlag
  /\ InitCnt \subseteq Nat
  /\ MaxCnt \in Nat
  /\ \A c \in InitCnt : c <= MaxCnt

VARIABLES
  cnt,   \* OSSemCnt
  wait,  \* OSSemGrp and OSSemTbl: the tasks that wait for each semaphore
  psem,  \* the semaphore of the OSSemPend each task is in, or NoSem
  timeout\* and that call's other argument

semVars == <<cnt, wait, psem, timeout>>
vars    == <<kernelVars, semVars>>

Init ==
  /\ KernelInit
  /\ cnt \in [Sem -> InitCnt]
  /\ wait = [s \in Sem |-> {}]
  /\ psem = [p \in Prio |-> NoSem]
  /\ timeout = [p \in Prio |-> 0]

(* OSSemPend and OSSemPendNoWait when there is a unit to take. *)
PendTake(p, s) ==
  /\ MayCall(p)
  /\ cnt[s] > 0
  /\ cnt' = [cnt EXCEPT ![s] = @ - 1]
  /\ UNCHANGED <<kernelVars, wait, psem, timeout>>

(* OSSemPend when there is none: its first critical section. *)
PendWait(p, s, t) ==
  /\ MayBlock(p)
  /\ cnt[s] <= 0
  /\ cnt' = [cnt EXCEPT ![s] = @ - 1]
  /\ Block(p, "OS_STAT_SEM", t)
  /\ wait' = [wait EXCEPT ![s] = @ \cup {p}]
  /\ psem' = [psem EXCEPT ![p] = s]
  /\ timeout' = [timeout EXCEPT ![p] = t]
  /\ Goto(p, "pendSched")
  /\ UNCHANGED <<cur, lockNesting, isrVars>>

(* OSSemPendNoWait takes one from the count and, finding none, adds it back. *)
PendNoWaitFails(p, s) ==
  /\ MayCall(p)
  /\ cnt[s] <= 0
  /\ UNCHANGED vars

(* The second critical section of OSSemPend: the unit was handed over. *)
PendServed(p) ==
  /\ Running(p)
  /\ pc[p] = "pendWake"
  /\ "OS_STAT_SEM" \notin stat[p]
  /\ psem' = [psem EXCEPT ![p] = NoSem]
  /\ timeout' = [timeout EXCEPT ![p] = 0]
  /\ Goto(p, "run")
  /\ UNCHANGED <<tcbVars, cur, lockNesting, isrVars, cnt, wait>>

(* Mutants of PendTimeout: it forgets the count, or the wait table. *)
PendTimeoutKeepsCount(p) ==
  /\ Running(p)
  /\ pc[p] = "pendWake"
  /\ "OS_STAT_SEM" \in stat[p]
  /\ wait' = [wait EXCEPT ![psem[p]] = @ \ {p}]
  /\ stat' = [stat EXCEPT ![p] = {}]
  /\ psem' = [psem EXCEPT ![p] = NoSem]
  /\ timeout' = [timeout EXCEPT ![p] = 0]
  /\ Goto(p, "run")
  /\ UNCHANGED <<rdy, dly, cur, lockNesting, isrVars, cnt>>
PendTimeoutKeepsBit(p) ==
  /\ Running(p)
  /\ pc[p] = "pendWake"
  /\ "OS_STAT_SEM" \in stat[p]
  /\ stat' = [stat EXCEPT ![p] = {}]
  /\ cnt' = [cnt EXCEPT ![psem[p]] = @ + 1]
  /\ psem' = [psem EXCEPT ![p] = NoSem]
  /\ timeout' = [timeout EXCEPT ![p] = 0]
  /\ Goto(p, "run")
  /\ UNCHANGED <<rdy, dly, cur, lockNesting, isrVars, wait>>

(* The second critical section of OSSemPend: OS_TIMEOUT. *)
PendTimeout(p) ==
  /\ Running(p)
  /\ pc[p] = "pendWake"
  /\ "OS_STAT_SEM" \in stat[p]
  /\ wait' = [wait EXCEPT ![psem[p]] = @ \ {p}]
  /\ stat' = [stat EXCEPT ![p] = {}]
  /\ cnt' = [cnt EXCEPT ![psem[p]] = @ + 1]
  /\ psem' = [psem EXCEPT ![p] = NoSem]
  /\ timeout' = [timeout EXCEPT ![p] = 0]
  /\ Goto(p, "run")
  /\ UNCHANGED <<rdy, dly, cur, lockNesting, isrVars>>

(* Mutants of Posted: no limit on the count; the least urgent is served. *)
PostedUnlimited(s, woken) ==
  /\ wait[s] = {} /\ woken = FALSE
  /\ cnt' = [cnt EXCEPT ![s] = @ + 1]
  /\ UNCHANGED <<tcbVars, wait>>
PostedToLast(s, woken) ==
  /\ wait[s] # {} /\ woken = TRUE
  /\ cnt' = [cnt EXCEPT ![s] = @ + 1]
  /\ Wake(Max(wait[s]), "OS_STAT_SEM")
  /\ wait' = [wait EXCEPT ![s] = @ \ {Max(wait[s])}]

(***************************************************************************)
(* The critical section of OSSemPost.  woken tells whether OSSched is      *)
(* called after it: a task calls it in its next action, and in a handler   *)
(* the call does nothing, because OSIntNesting is not 0.                   *)
(***************************************************************************)
Posted(s, woken) ==
  /\ cnt[s] < MaxCnt
  /\ cnt' = [cnt EXCEPT ![s] = @ + 1]
  /\ IF cnt[s] < 0 /\ wait[s] # {}
     THEN LET p == Min(wait[s])
          IN  /\ woken = TRUE
              /\ Wake(p, "OS_STAT_SEM")
              /\ wait' = [wait EXCEPT ![s] = @ \ {p}]
     ELSE /\ woken = FALSE
          /\ UNCHANGED <<tcbVars, wait>>

(* Mutant of TaskPost: no OSSched after it has woken a waiter. *)
TaskPostNoSched(p, s) ==
  /\ MayCall(p)
  /\ \E woken \in BOOLEAN : Posted(s, woken)
  /\ UNCHANGED <<pc, cur, lockNesting, isrVars, psem, timeout>>

TaskPost(p, s) ==
  /\ MayCall(p)
  /\ \E woken \in BOOLEAN :
       /\ Posted(s, woken)
       /\ IF woken THEN Goto(p, "sched") ELSE pc' = pc
  /\ UNCHANGED <<cur, lockNesting, isrVars, psem, timeout>>

ISRPost(s) ==
  /\ InISR
  /\ \E woken \in BOOLEAN : Posted(s, woken)
  /\ UNCHANGED <<cur, pc, lockNesting, isrVars, psem, timeout>>

(* OS_SEM_OVF. *)
PostOverflow(s) ==
  /\ cnt[s] >= MaxCnt
  /\ InISR \/ \E p \in Prio : MayCall(p)
  /\ UNCHANGED vars

SemNext ==
  \/ \E p \in Prio, s \in Sem :
       \/ PendTake(p, s)
       \/ \E t \in Timeouts : PendWait(p, s, t)
       \/ PendNoWaitFails(p, s)
       \/ TaskPost(p, s)
  \/ \E p \in Prio : PendServed(p) \/ PendTimeout(p)
  \/ \E s \in Sem : ISRPost(s) \/ PostOverflow(s)

Next ==
  \/ KernelNext /\ UNCHANGED semVars
  \/ SemNext

Spec == Init /\ [][Next]_vars

FairSpec == Spec /\ InterruptFairness

-------------------------------------------------------------------------------
TypeOK ==
  /\ KernelTypeOK
  /\ cnt \in [Sem -> Int]
  /\ \A s \in Sem : cnt[s] <= MaxCnt
  /\ wait \in [Sem -> SUBSET UserTask]
  /\ psem \in [Prio -> Sem \cup {NoSem}]
  /\ timeout \in [Prio -> Nat]

(***************************************************************************)
(* The count and the wait table agree: a negative count is minus the       *)
(* number of tasks in the table, and a count that is not negative means    *)
(* nobody waits.  So the post that finds a negative count finds a waiter,  *)
(* and no unit lies unused while a task waits for it.                      *)
(***************************************************************************)
CountIsWaiters ==
  \A s \in Sem : Cardinality(wait[s]) = IF cnt[s] < 0 THEN -cnt[s] ELSE 0

(***************************************************************************)
(* A task has OS_STAT_SEM exactly while it is inside OSSemPend and in the  *)
(* wait table of the semaphore of that call, and in no other table.        *)
(***************************************************************************)
FlagIsWaiting ==
  \A p \in Prio, s \in Sem :
    p \in wait[s] <=> /\ "OS_STAT_SEM" \in stat[p]
                     /\ psem[p] = s
                     /\ pc[p] \in Pending

(***************************************************************************)
(* OSSemPend(psem, 0) waits forever: it never returns OS_TIMEOUT, although *)
(* interrupts may run between its two critical sections, its OSSched, and  *)
(* ticks expire other delays.  (With no OSChangeTaskDly, which can give    *)
(* such a task a timeout.)                                                 *)
(***************************************************************************)
TimeoutOnlyIfAsked ==
  pc[cur] = "pendWake" /\ "OS_STAT_SEM" \in stat[cur] => timeout[cur] > 0

(***************************************************************************)
(* What the semaphores promise: the units not taken, the tasks that wait,  *)
(* and the tasks a unit was handed to that have not returned.              *)
(***************************************************************************)
Abstract == INSTANCE CountingSem WITH
  Task    <- Prio,
  avail   <- [s \in Sem |-> IF cnt[s] > 0 THEN cnt[s] ELSE 0],
  waiting <- wait,
  granted <- [s \in Sem |-> {p \in Prio : /\ psem[p] = s
                                          /\ "OS_STAT_SEM" \notin stat[p]}]
ImplementsCountingSem == Abstract!Spec
=============================================================================
