---------------------------- MODULE UcosSem_proofs ----------------------------
(***************************************************************************)
(* The semaphores keep their accounts whatever the numbers of tasks, of    *)
(* semaphores and of nested interrupts, and implement CountingSem.         *)
(***************************************************************************)
EXTENDS UcosSem, UcosKernel_proofs

(* A task is in a call of OSSemPend exactly while it has its argument. *)
PsemIsPending ==
  \A p \in Prio : psem[p] # NoSem <=> pc[p] \in Pending

(***************************************************************************)
(* The inductive invariant.  The accounts need the flags, which say who    *)
(* leaves a wait table and why, and the flags need PsemIsPending, which    *)
(* says that a task outside the call is in no table.                       *)
(***************************************************************************)
SemInv ==
  /\ SchedInv
  /\ TypeOK
  /\ PsemIsPending
  /\ FlagIsWaiting
  /\ CountIsWaiters

-------------------------------------------------------------------------------
(* A wait table is finite, and counts one more or less as tasks come and go. *)
LEMMA WaitCard ==
  ASSUME TypeOK, NEW s \in Sem, NEW p
  PROVE  /\ Cardinality(wait[s]) \in Nat
         /\ Cardinality(wait[s]) = 0 <=> wait[s] = {}
         /\ p \notin wait[s] =>
              Cardinality(wait[s] \cup {p}) = Cardinality(wait[s]) + 1
         /\ p \in wait[s] =>
              Cardinality(wait[s] \ {p}) = Cardinality(wait[s]) - 1
<1>1. wait[s] \in SUBSET Prio
  BY DEF TypeOK, UserTask
<1>2. IsFiniteSet(wait[s])
  BY <1>1, FS_Subset, KernelAssumption
<1>3. Cardinality(wait[s]) \in Nat
  BY <1>2, FS_CardinalityType
<1>4. Cardinality(wait[s]) = 0 <=> wait[s] = {}
  BY <1>2, FS_EmptySet
<1>5. p \notin wait[s] =>
        Cardinality(wait[s] \cup {p}) = Cardinality(wait[s]) + 1
  BY <1>2, FS_AddElement
<1>6. p \in wait[s] =>
        Cardinality(wait[s] \ {p}) = Cardinality(wait[s]) - 1
  BY <1>2, FS_RemoveElement
<1> QED
  BY <1>3, <1>4, <1>5, <1>6

LEMMA InitSem ==
  ASSUME Init
  PROVE  SemInv
<1>1. SchedInv
  BY KernelInitSched DEF Init
<1>2. \A s \in Sem : cnt[s] \in Nat /\ cnt[s] <= MaxCnt
  BY SemAssumption DEF Init
<1>3. TypeOK
  <2>1. cnt \in [Sem -> Int]
    <3>1. cnt = [s \in Sem |-> cnt[s]]
      BY DEF Init
    <3>2. \A s \in Sem : cnt[s] \in Int
      BY <1>2
    <3> QED
      BY <3>1, <3>2
  <2>2. /\ wait \in [Sem -> SUBSET UserTask]
        /\ psem \in [Prio -> Sem \cup {NoSem}]
        /\ timeout \in [Prio -> Nat]
    BY DEF Init
  <2> QED
    BY <1>1, <1>2, <2>1, <2>2 DEF TypeOK, SchedInv
<1>4. PsemIsPending /\ FlagIsWaiting
  BY DEF Init, KernelInit, PsemIsPending, FlagIsWaiting, Pending
<1>5. CountIsWaiters
  <2>1. Cardinality({}) = 0
    BY FS_EmptySet
  <2>2. \A s \in Sem : wait[s] = {} /\ ~(cnt[s] < 0)
    BY <1>2 DEF Init
  <2> QED
    BY <2>1, <2>2 DEF CountIsWaiters
<1> QED
  BY <1>1, <1>3, <1>4, <1>5 DEF SemInv

LEMMA KernelStepSem ==
  ASSUME SemInv, KernelNext, UNCHANGED semVars
  PROVE  SemInv'
<1>1. SchedInv'
  BY KernelStepSched DEF SemInv
<1>2. TypeOK'
  BY <1>1 DEF SemInv, SchedInv, TypeOK, semVars
<1>3. /\ stat' = stat
      /\ \A p \in Prio : pc'[p] \in Pending <=> pc[p] \in Pending
  BY KernelKeepsPending DEF SemInv, TypeOK
<1>4. PsemIsPending' /\ FlagIsWaiting' /\ CountIsWaiters'
  BY <1>3
  DEF SemInv, PsemIsPending, FlagIsWaiting, CountIsWaiters, semVars
<1> QED
  BY <1>1, <1>2, <1>4 DEF SemInv

-------------------------------------------------------------------------------
(* Taking a unit, and the attempts that change nothing. *)
LEMMA TakeSem ==
  ASSUME SemInv, NEW p \in Prio, NEW s \in Sem, PendTake(p, s)
  PROVE  SemInv'
<1> USE DEF SemInv, PendTake
<1>1. SchedInv'
  BY UnchangedSched
<1>2. TypeOK'
  <2>1. cnt' \in [Sem -> Int] /\ \A r \in Sem : cnt'[r] <= MaxCnt
    BY SemAssumption DEF TypeOK
  <2> QED
    BY <1>1, <2>1 DEF TypeOK, SchedInv
<1>3. PsemIsPending' /\ FlagIsWaiting'
  BY DEF PsemIsPending, FlagIsWaiting, kernelVars
<1>4. CountIsWaiters'
  BY DEF CountIsWaiters, TypeOK
<1> QED
  BY <1>1, <1>2, <1>3, <1>4

LEMMA StutterSem ==
  ASSUME SemInv, UNCHANGED vars
  PROVE  SemInv'
<1>1. SchedInv'
  BY UnchangedSched DEF SemInv, vars
<1> QED
  BY <1>1 DEF SemInv, SchedInv, vars, semVars, kernelVars, TypeOK,
              PsemIsPending, FlagIsWaiting, CountIsWaiters

(* The first critical section of OSSemPend puts a task in one table. *)
LEMMA WaitSem ==
  ASSUME SemInv, NEW p \in Prio, NEW s \in Sem, NEW t \in Timeouts,
         PendWait(p, s, t)
  PROVE  SemInv'
<1> USE DEF SemInv, PendWait
<1>1. SchedInv'
  <2>1. t \in Nat /\ "OS_STAT_SEM" \in StatFlag
    BY KernelAssumption, SemAssumption
  <2> QED
    BY <2>1, BlockSched
<1>2. TypeOK'
  <2>1. p \in UserTask /\ t \in Nat
    BY KernelAssumption DEF MayBlock, MayCall
  <2>2. cnt' \in [Sem -> Int] /\ \A r \in Sem : cnt'[r] <= MaxCnt
    BY SemAssumption DEF TypeOK
  <2> QED
    BY <1>1, <2>1, <2>2 DEF TypeOK, SchedInv
<1>3. pc[p] = "run" /\ psem[p] = NoSem
  BY DEF MayBlock, MayCall, PsemIsPending, Pending
<1>4. PsemIsPending'
  BY <1>3, SemAssumption
  DEF PsemIsPending, Goto, Pending, TypeOK, KernelTypeOK
<1>5. FlagIsWaiting'
  BY <1>3, SemAssumption
  DEF FlagIsWaiting, Goto, Block, Pending, TypeOK, KernelTypeOK
<1>6. CountIsWaiters'
  <2>1. p \notin wait[s]
    BY <1>3 DEF FlagIsWaiting, Pending
  <2>2. Cardinality(wait'[s]) = Cardinality(wait[s]) + 1
    BY <2>1, WaitCard DEF TypeOK
  <2> QED
    BY <2>2 DEF CountIsWaiters, TypeOK
<1> QED
  BY <1>1, <1>2, <1>4, <1>5, <1>6

(* A waiter that was served leaves the call; it is in no table any more. *)
LEMMA ServedSem ==
  ASSUME SemInv, NEW p \in Prio, PendServed(p)
  PROVE  SemInv'
<1> USE DEF SemInv, PendServed
<1>1. SchedInv'
  BY ReturnSched DEF tcbVars
<1>2. TypeOK'
  BY <1>1 DEF TypeOK, SchedInv
<1>3. PsemIsPending'
  BY DEF PsemIsPending, Goto, Pending, TypeOK, KernelTypeOK
<1>4. FlagIsWaiting'
  BY DEF FlagIsWaiting, Goto, Pending, TypeOK, KernelTypeOK, tcbVars
<1>5. CountIsWaiters'
  BY DEF CountIsWaiters
<1> QED
  BY <1>1, <1>2, <1>3, <1>4, <1>5

(* A waiter that timed out is in the table of its call, and takes its    *)
(* claim on the count away with it.                                      *)
LEMMA TimeoutSem ==
  ASSUME SemInv, NEW p \in Prio, PendTimeout(p)
  PROVE  SemInv'
<1> USE DEF SemInv, PendTimeout
<1>1. SchedInv'
  BY ReturnSched
<1>2. psem[p] \in Sem /\ p \in wait[psem[p]]
  BY DEF PsemIsPending, FlagIsWaiting, Pending, TypeOK
<1>3. cnt[psem[p]] < 0 /\ Cardinality(wait[psem[p]]) = -cnt[psem[p]]
  BY <1>2, WaitCard DEF CountIsWaiters, TypeOK
<1>4. TypeOK'
  <2>1. cnt' \in [Sem -> Int] /\ \A r \in Sem : cnt'[r] <= MaxCnt
    BY <1>2, <1>3, SemAssumption DEF TypeOK
  <2> QED
    BY <1>1, <1>2, <2>1 DEF TypeOK, SchedInv
<1>5. PsemIsPending'
  BY DEF PsemIsPending, Goto, Pending, TypeOK, KernelTypeOK
<1>6. FlagIsWaiting'
  BY <1>2 DEF FlagIsWaiting, Goto, Pending, TypeOK, KernelTypeOK
<1>7. CountIsWaiters'
  <2>1. Cardinality(wait'[psem[p]]) = Cardinality(wait[psem[p]]) - 1
    BY <1>2, WaitCard DEF TypeOK
  <2> QED
    BY <1>2, <1>3, <2>1 DEF CountIsWaiters, TypeOK
<1> QED
  BY <1>1, <1>4, <1>5, <1>6, <1>7

(***************************************************************************)
(* OSSemPost keeps the accounts: the unit is in the count, or its waiter   *)
(* is out of the table and has lost its flag.                              *)
(***************************************************************************)
LEMMA PostedSem ==
  ASSUME SemInv, NEW s \in Sem, NEW woken, Posted(s, woken),
         UNCHANGED <<psem, timeout>>, SchedInv',
         \A p \in Prio : pc'[p] \in Pending <=> pc[p] \in Pending
  PROVE  SemInv'
<1> USE DEF SemInv, Posted
<1>1. TypeOK'
  <2>1. cnt' \in [Sem -> Int] /\ \A r \in Sem : cnt'[r] <= MaxCnt
    BY SemAssumption DEF TypeOK
  <2>2. wait' \in [Sem -> SUBSET UserTask]
    BY DEF TypeOK
  <2> QED
    BY <2>1, <2>2 DEF TypeOK, SchedInv
<1>2. PsemIsPending'
  BY DEF PsemIsPending
<1>3. CASE cnt[s] < 0 /\ wait[s] # {}
  <2>1. PICK q \in wait[s] : /\ Wake(q, "OS_STAT_SEM")
                             /\ wait' = [wait EXCEPT ![s] = @ \ {q}]
    <3>1. wait[s] \in SUBSET Nat
      BY KernelAssumption DEF TypeOK, UserTask
    <3>2. Min(wait[s]) \in wait[s]
      BY <1>3, <3>1, MinIsLeast
    <3> QED
      BY <1>3, <3>2
  <2>2. FlagIsWaiting'
    BY <2>1 DEF FlagIsWaiting, Wake, TypeOK, KernelTypeOK, UserTask
  <2>3. Cardinality(wait'[s]) = Cardinality(wait[s]) - 1
    BY <2>1, WaitCard DEF TypeOK
  <2>4. CountIsWaiters'
    BY <1>3, <2>1, <2>3 DEF CountIsWaiters, TypeOK
  <2> QED
    BY <1>1, <1>2, <2>2, <2>4
<1>4. CASE ~(cnt[s] < 0 /\ wait[s] # {})
  <2>1. FlagIsWaiting'
    BY <1>4 DEF FlagIsWaiting, tcbVars
  <2>2. ~(cnt[s] < 0)
    <3>1. Cardinality(wait[s]) = 0 <=> wait[s] = {}
      BY WaitCard
    <3>2. Cardinality(wait[s]) = IF cnt[s] < 0 THEN -cnt[s] ELSE 0
      BY DEF CountIsWaiters
    <3>3. cnt[s] \in Int
      BY DEF TypeOK
    <3> QED
      BY <1>4, <3>1, <3>2, <3>3
  <2>3. CountIsWaiters'
    BY <1>4, <2>2 DEF CountIsWaiters, TypeOK
  <2> QED
    BY <1>1, <1>2, <2>1, <2>3
<1> QED
  BY <1>3, <1>4

(* A post by a task, which then calls OSSched if it woke a waiter. *)
LEMMA TaskPostSem ==
  ASSUME SemInv, NEW p \in Prio, NEW s \in Sem, TaskPost(p, s)
  PROVE  SemInv'
<1>1. PICK woken \in BOOLEAN :
        Posted(s, woken) /\ IF woken THEN Goto(p, "sched") ELSE pc' = pc
  BY DEF TaskPost
<1>2. pc[p] = "run"
  BY DEF TaskPost, MayCall
<1>3. \A q \in Prio : pc'[q] \in Pending <=> pc[q] \in Pending
  BY <1>1, <1>2 DEF Goto, Pending, SemInv, TypeOK, KernelTypeOK
<1>4. CASE cnt[s] < 0 /\ wait[s] # {}
  <2>1. wait[s] \in SUBSET Nat /\ wait[s] \subseteq Prio
    BY KernelAssumption DEF SemInv, TypeOK, UserTask
  <2>2. Min(wait[s]) \in Prio
    BY <1>4, <2>1, MinIsLeast
  <2>3. Wake(Min(wait[s]), "OS_STAT_SEM") /\ Goto(p, "sched")
    BY <1>1, <1>4 DEF Posted
  <2>4. SchedInv'
    BY <2>2, <2>3, TaskWakeSched DEF TaskPost, SemInv
  <2> QED
    BY <1>1, <1>3, <2>4, PostedSem DEF TaskPost
<1>5. CASE ~(cnt[s] < 0 /\ wait[s] # {})
  <2>1. UNCHANGED kernelVars
    BY <1>1, <1>5 DEF Posted, TaskPost, kernelVars, tcbVars
  <2>2. SchedInv'
    BY <2>1, UnchangedSched DEF SemInv
  <2> QED
    BY <1>1, <1>3, <2>2, PostedSem DEF TaskPost
<1> QED
  BY <1>4, <1>5

(* A post by an interrupt handler. *)
LEMMA ISRPostSem ==
  ASSUME SemInv, NEW s \in Sem, ISRPost(s)
  PROVE  SemInv'
<1>1. PICK woken \in BOOLEAN : Posted(s, woken)
  BY DEF ISRPost
<1>2. SchedInv'
  <2>1. CASE cnt[s] < 0 /\ wait[s] # {}
    <3>1. wait[s] \in SUBSET Nat /\ wait[s] \subseteq Prio
      BY KernelAssumption DEF SemInv, TypeOK, UserTask
    <3>2. Min(wait[s]) \in Prio
      BY <2>1, <3>1, MinIsLeast
    <3>3. Wake(Min(wait[s]), "OS_STAT_SEM")
      BY <1>1, <2>1 DEF Posted
    <3> QED
      BY <3>2, <3>3, ISRWakeSched DEF ISRPost, SemInv
  <2>2. CASE ~(cnt[s] < 0 /\ wait[s] # {})
    <3>1. UNCHANGED kernelVars
      BY <1>1, <2>2 DEF Posted, ISRPost, kernelVars, tcbVars
    <3> QED
      BY <3>1, UnchangedSched DEF SemInv
  <2> QED
    BY <2>1, <2>2
<1> QED
  BY <1>1, <1>2, PostedSem DEF ISRPost

-------------------------------------------------------------------------------
LEMMA NextSem ==
  ASSUME SemInv, [Next]_vars
  PROVE  SemInv'
<1>1. CASE KernelNext /\ UNCHANGED semVars
  BY <1>1, KernelStepSem
<1>2. CASE SemNext
  <2>1. ASSUME NEW p \in Prio, NEW s \in Sem,
               \/ PendTake(p, s)
               \/ \E t \in Timeouts : PendWait(p, s, t)
               \/ PendNoWaitFails(p, s)
               \/ TaskPost(p, s)
        PROVE  SemInv'
    BY <2>1, TakeSem, WaitSem, StutterSem, TaskPostSem DEF PendNoWaitFails
  <2>2. ASSUME NEW p \in Prio, PendServed(p) \/ PendTimeout(p)
        PROVE  SemInv'
    BY <2>2, ServedSem, TimeoutSem
  <2>3. ASSUME NEW s \in Sem, ISRPost(s) \/ PostOverflow(s)
        PROVE  SemInv'
    BY <2>3, ISRPostSem, StutterSem DEF PostOverflow
  <2> QED
    BY <1>2, <2>1, <2>2, <2>3 DEF SemNext
<1>3. CASE UNCHANGED vars
  BY <1>3, StutterSem
<1> QED
  BY <1>1, <1>2, <1>3 DEF Next

(***************************************************************************)
(* The semaphores' accounts and the scheduler's promises hold in every     *)
(* reachable state, together because each needs the others.                *)
(***************************************************************************)
THEOREM SemInvariant == Spec => []SemInv
<1>1. Init => SemInv
  BY InitSem
<1>2. SemInv /\ [Next]_vars => SemInv'
  BY NextSem
<1> QED
  BY <1>1, <1>2, PTL DEF Spec

(* Every variable keeps its type; in particular no post takes the count    *)
(* beyond its limit, which OSSemPost tests while tasks and interrupts post. *)
THEOREM SemTypes == Spec => []TypeOK
<1>1. SemInv => TypeOK
  BY DEF SemInv
<1> QED
  BY <1>1, SemInvariant, PTL

(***************************************************************************)
(* A negative OSSemCnt is minus the number of waiters, and no unit lies    *)
(* unused while a task waits: OSSemPost never misses a waiter.             *)
(***************************************************************************)
THEOREM SemCount == Spec => []CountIsWaiters
<1>1. SemInv => CountIsWaiters
  BY DEF SemInv
<1> QED
  BY <1>1, SemInvariant, PTL

(* OS_STAT_SEM is set exactly while the task is in its call's wait table. *)
THEOREM SemFlag == Spec => []FlagIsWaiting
<1>1. SemInv => FlagIsWaiting
  BY DEF SemInv
<1> QED
  BY <1>1, SemInvariant, PTL

(***************************************************************************)
(* With semaphores posted from tasks and handlers at any moment, the task  *)
(* that executes is the most urgent ready one.                             *)
(***************************************************************************)
THEOREM SemSchedules == Spec => [](KernelTypeOK /\ CurIsHighestReady)
<1>1. SemInv => KernelTypeOK /\ CurIsHighestReady
  BY DEF SemInv, SchedInv
<1> QED
  BY <1>1, SemInvariant, PTL

(* No task sleeps without a delay or an object that would wake it. *)
THEOREM SemNoSleeperLost == Spec => [](SleeperHasDelay /\ IdleIsReady)
<1>1. SemInv => SleeperHasDelay /\ IdleIsReady
  BY DEF SemInv, SchedInv
<1> QED
  BY <1>1, SemInvariant, PTL

-------------------------------------------------------------------------------
(* The abstract variables, named as CountingSem names them. *)
avail   == [s \in Sem |-> IF cnt[s] > 0 THEN cnt[s] ELSE 0]
granted == [s \in Sem |-> {p \in Prio : /\ psem[p] = s
                                       /\ "OS_STAT_SEM" \notin stat[p]}]

LEMMA KernelMaps ==
  ASSUME cnt' = cnt, wait' = wait, psem' = psem, stat' = stat
  PROVE  UNCHANGED Abstract!absVars
BY DEF Abstract!absVars

LEMMA TakeMaps ==
  ASSUME SemInv, NEW p \in Prio, NEW s \in Sem, PendTake(p, s)
  PROVE  Abstract!Next
<1>1. avail[s] > 0 /\ avail' = [avail EXCEPT ![s] = @ - 1]
  <2>1. cnt \in [Sem -> Int] /\ cnt[s] > 0 /\ cnt' = [cnt EXCEPT ![s] = @ - 1]
    BY DEF PendTake, SemInv, TypeOK
  <2>2. avail[s] = cnt[s]
    BY <2>1 DEF avail
  <2>3. \A r \in Sem : avail'[r] = IF r = s THEN avail[s] - 1 ELSE avail[r]
    BY <2>1 DEF avail
  <2> QED
    BY <2>1, <2>2, <2>3 DEF avail
<1>2. UNCHANGED <<wait, granted>>
  BY DEF PendTake, granted, kernelVars
<1>3. Abstract!Take(s)
  BY <1>1, <1>2 DEF Abstract!Take, avail, granted
<1> QED
  BY <1>3 DEF Abstract!Next

LEMMA WaitMaps ==
  ASSUME SemInv, NEW p \in Prio, NEW s \in Sem, NEW t \in Timeouts,
         PendWait(p, s, t)
  PROVE  Abstract!Next
<1> USE DEF PendWait, avail, granted
<1>1. avail[s] = 0 /\ avail' = avail
  BY DEF SemInv, TypeOK
<1>2. psem[p] = NoSem /\ pc[p] = "run"
  BY DEF SemInv, PsemIsPending, MayBlock, MayCall, Pending
<1>3. \A r \in Sem : p \notin wait[r] \cup granted[r]
  BY <1>2, SemAssumption DEF SemInv, FlagIsWaiting, Pending
<1>4. granted' = granted
  <2>1. /\ \A q \in Prio : q # p => psem'[q] = psem[q] /\ stat'[q] = stat[q]
        /\ psem[p] \notin Sem /\ "OS_STAT_SEM" \in stat'[p]
    BY <1>2, SemAssumption DEF Block, SemInv, TypeOK, KernelTypeOK
  <2> QED
    BY <2>1
<1>5. Abstract!Wait(s, p)
  BY <1>1, <1>3, <1>4 DEF Abstract!Wait
<1> QED
  BY <1>5 DEF Abstract!Next

LEMMA ServedMaps ==
  ASSUME SemInv, NEW p \in Prio, PendServed(p)
  PROVE  Abstract!Next
<1>1. PICK s \in Sem : psem[p] = s
  BY DEF PendServed, SemInv, TypeOK, PsemIsPending, Pending
<1>2. p \in granted[s]
  BY <1>1 DEF PendServed, granted
<1>3. granted' = [granted EXCEPT ![s] = @ \ {p}]
  <2>1. /\ \A q \in Prio : q # p => psem'[q] = psem[q]
        /\ psem'[p] \notin Sem
        /\ stat' = stat
    BY SemAssumption DEF PendServed, SemInv, TypeOK, tcbVars
  <2>2. \A r \in Sem : granted'[r] = IF r = s THEN granted[r] \ {p}
                                     ELSE granted[r]
    BY <1>1, <2>1 DEF granted
  <2>3. /\ granted = [r \in Sem |-> granted[r]]
        /\ granted' = [r \in Sem |-> granted'[r]]
    BY DEF granted
  <2> QED
    BY <2>2, <2>3
<1>4. UNCHANGED <<avail, wait>>
  BY DEF PendServed, avail
<1>5. Abstract!Return(s, p)
  BY <1>2, <1>3, <1>4 DEF Abstract!Return, avail, granted
<1> QED
  BY <1>5 DEF Abstract!Next

LEMMA TimeoutMaps ==
  ASSUME SemInv, NEW p \in Prio, PendTimeout(p)
  PROVE  Abstract!Next
<1> USE DEF PendTimeout, avail, granted
<1>1. psem[p] \in Sem /\ p \in wait[psem[p]]
  BY DEF SemInv, PsemIsPending, FlagIsWaiting, Pending, TypeOK
<1>2. cnt[psem[p]] < 0
  <2>1. Cardinality(wait[psem[p]]) # 0
    BY <1>1, WaitCard DEF SemInv
  <2> QED
    BY <1>1, <2>1 DEF SemInv, CountIsWaiters
<1>3. avail' = avail
  BY <1>1, <1>2 DEF SemInv, TypeOK
<1>4. granted' = granted
  <2>1. /\ \A q \in Prio : q # p => psem'[q] = psem[q] /\ stat'[q] = stat[q]
        /\ psem'[p] \notin Sem /\ "OS_STAT_SEM" \in stat[p]
    BY SemAssumption DEF SemInv, TypeOK, KernelTypeOK
  <2> QED
    BY <2>1
<1>5. Abstract!GiveUp(psem[p], p)
  BY <1>1, <1>3, <1>4 DEF Abstract!GiveUp
<1> QED
  BY <1>1, <1>5 DEF Abstract!Next

LEMMA PostedMaps ==
  ASSUME SemInv, NEW s \in Sem, NEW woken, Posted(s, woken), psem' = psem
  PROVE  Abstract!Next
<1>1. /\ Cardinality(wait[s]) = 0 <=> wait[s] = {}
      /\ Cardinality(wait[s]) = IF cnt[s] < 0 THEN -cnt[s] ELSE 0
      /\ cnt \in [Sem -> Int]
      /\ cnt' = [cnt EXCEPT ![s] = @ + 1]
  BY WaitCard DEF Posted, SemInv, TypeOK, CountIsWaiters
<1>2. CASE wait[s] # {}
  <2>1. cnt[s] < 0
    BY <1>1, <1>2
  <2> DEFINE q == Min(wait[s])
  <2>2. q \in wait[s]
    BY <1>2, MinIsLeast, KernelAssumption DEF SemInv, TypeOK, UserTask
  <2> HIDE DEF q
  <2>3. Wake(q, "OS_STAT_SEM") /\ wait' = [wait EXCEPT ![s] = @ \ {q}]
    BY <1>2, <2>1 DEF Posted, q
  <2>4. avail' = avail
    BY <1>1, <2>1 DEF avail
  <2>5. q \in Prio /\ psem[q] = s
    BY <2>2 DEF SemInv, FlagIsWaiting, TypeOK, UserTask
  <2>6. granted' = [granted EXCEPT ![s] = @ \cup {q}]
    <3>1. /\ \A p \in Prio : p # q => stat'[p] = stat[p]
          /\ "OS_STAT_SEM" \notin stat'[q]
      BY <2>3, <2>5 DEF Wake, SemInv, TypeOK, KernelTypeOK
    <3>2. \A r \in Sem : granted'[r] = IF r = s THEN granted[r] \cup {q}
                                       ELSE granted[r]
      BY <2>5, <3>1 DEF granted
    <3>3. /\ granted = [r \in Sem |-> granted[r]]
          /\ granted' = [r \in Sem |-> granted'[r]]
      BY DEF granted
    <3> QED
      BY <3>2, <3>3
  <2>7. Abstract!HandOver(s)
    <3>1. q = Min(wait[s])
      BY DEF q
    <3> QED
      BY <1>2, <2>3, <2>4, <2>6, <3>1 DEF Abstract!HandOver, Abstract!Min, Min, avail, granted
  <2> QED
    BY <2>7 DEF Abstract!Next
<1>3. CASE wait[s] = {}
  <2>1. ~(cnt[s] < 0)
    BY <1>1, <1>3
  <2>2. avail' = [avail EXCEPT ![s] = @ + 1]
    <3>1. \A r \in Sem : avail'[r] = IF r = s THEN avail[s] + 1 ELSE avail[r]
      BY <1>1, <2>1 DEF avail
    <3> QED
      BY <3>1 DEF avail
  <2>3. UNCHANGED <<wait, granted>>
    BY <1>3 DEF Posted, granted, tcbVars
  <2>4. Abstract!Store(s)
    BY <1>3, <2>2, <2>3 DEF Abstract!Store, avail, granted
  <2> QED
    BY <2>4 DEF Abstract!Next
<1> QED
  BY <1>2, <1>3

(***************************************************************************)
(* The semaphores of ucos.cpp implement CountingSem: a unit posted is      *)
(* stored or goes to the most urgent waiter, a pend returns OS_NO_ERR only *)
(* with a unit of its own, and one that times out takes none with it.      *)
(***************************************************************************)
THEOREM SemImplements == Spec => ImplementsCountingSem
<1>1. Init => Abstract!Init
  <2> SUFFICES ASSUME Init PROVE Abstract!Init
    OBVIOUS
  <2>1. SemInv
    BY InitSem
  <2>2. avail \in [Sem -> Nat]
    BY <2>1 DEF avail, SemInv, TypeOK
  <2>3. granted = [s \in Sem |-> {}]
    BY SemAssumption DEF granted, Init
  <2> QED
    BY <2>2, <2>3 DEF Abstract!Init, avail, granted, Init
<1>2. SemInv /\ [Next]_vars => [Abstract!Next]_Abstract!absVars
  <2> SUFFICES ASSUME SemInv, [Next]_vars
               PROVE  Abstract!Next \/ UNCHANGED Abstract!absVars
    OBVIOUS
  <2>1. CASE KernelNext /\ UNCHANGED semVars
    BY <2>1, KernelKeepsPending, KernelMaps DEF semVars, SemInv, TypeOK
  <2>2. CASE UNCHANGED vars
    BY <2>2, KernelMaps DEF vars, semVars, kernelVars
  <2>3. ASSUME NEW p \in Prio, NEW s \in Sem,
               \/ PendTake(p, s)
               \/ \E t \in Timeouts : PendWait(p, s, t)
               \/ TaskPost(p, s)
               \/ ISRPost(s)
        PROVE  Abstract!Next
    BY <2>3, TakeMaps, WaitMaps, PostedMaps DEF TaskPost, ISRPost
  <2>4. ASSUME NEW p \in Prio, PendServed(p) \/ PendTimeout(p)
        PROVE  Abstract!Next
    BY <2>4, ServedMaps, TimeoutMaps
  <2>5. Prio # {}
    BY KernelAssumption
  <2> QED
    BY <2>1, <2>2, <2>3, <2>4, <2>5
    DEF Next, SemNext, PendNoWaitFails, PostOverflow
<1> QED
  BY <1>1, <1>2, SemInvariant, PTL
     DEF Spec, ImplementsCountingSem, Abstract!Spec

-------------------------------------------------------------------------------
(***************************************************************************)
(* A task in OSSemPend(psem, 0) keeps OS_STAT_SEM and sleeps without a     *)
(* delay until a post takes both away.                                     *)
(***************************************************************************)
FlaggedIsPending ==
  \A p \in Prio : "OS_STAT_SEM" \in stat[p] => pc[p] \in Pending
ForeverSleeps ==
  \A p \in Prio : "OS_STAT_SEM" \in stat[p] /\ timeout[p] = 0
                    => p \notin rdy /\ dly[p] = 0

ForeverInv == FlaggedIsPending /\ ForeverSleeps

LEMMA KernelStepForever ==
  ASSUME SemInv, ForeverInv, NewTicks = {}, KernelNext, UNCHANGED semVars
  PROVE  ForeverInv'
<1> USE DEF ForeverInv, semVars
<1>1. /\ stat' = stat
      /\ \A p \in Prio : pc'[p] \in Pending <=> pc[p] \in Pending
  BY KernelKeepsPending DEF SemInv, TypeOK
<1>2. FlaggedIsPending'
  BY <1>1 DEF FlaggedIsPending
<1>3. ForeverSleeps'
  <2>1. \/ rdy' = rdy /\ dly' = dly
        \/ \E p \in Prio : OSTimeDly(p) \/ OSTimeTick(p)
    BY DEF KernelNext, TaskStep, InterruptStep, OSSched, OSChangeTaskDly, OSLock,
           OSUnlock, OSUnlockTest, InterruptEnter, TickEnter, OSIntExit, tcbVars
  <2>2. ASSUME NEW p \in Prio, OSTimeDly(p) PROVE ForeverSleeps'
    <3>1. "OS_STAT_SEM" \notin stat[p]
      BY <2>2 DEF OSTimeDly, MayBlock, MayCall, FlaggedIsPending, Pending
    <3> QED
      BY <1>1, <2>2, <3>1
      DEF OSTimeDly, ForeverSleeps, SemInv, TypeOK, KernelTypeOK
  <2>3. ASSUME NEW p \in Prio, OSTimeTick(p) PROVE ForeverSleeps'
    BY <2>3, <1>1 DEF OSTimeTick, ForeverSleeps, SemInv, TypeOK, KernelTypeOK
  <2> QED
    BY <1>1, <2>1, <2>2, <2>3 DEF ForeverSleeps
<1> QED
  BY <1>2, <1>3

LEMMA SemStepForever ==
  ASSUME SemInv, ForeverInv, SemNext
  PROVE  ForeverInv'
<1> USE DEF ForeverInv, FlaggedIsPending, ForeverSleeps, MayBlock, MayCall
<1>1. /\ pc \in [Prio -> Label]
      /\ dly \in [Prio -> Nat]
      /\ stat \in [Prio -> SUBSET StatFlag]
      /\ timeout \in [Prio -> Nat]
  BY DEF SemInv, TypeOK, KernelTypeOK
<1>2. "run" \notin Pending /\ "sched" \notin Pending /\ "pendSched" \in Pending
  BY DEF Pending
<1>3. ASSUME UNCHANGED <<kernelVars, timeout>> PROVE ForeverInv'
  BY <1>3 DEF kernelVars
<1>4. ASSUME NEW p \in Prio, NEW s \in Sem, NEW t \in Timeouts,
             PendWait(p, s, t)
      PROVE  ForeverInv'
  BY <1>1, <1>2, <1>4 DEF PendWait, Block, Goto
<1>5. ASSUME NEW p \in Prio, PendServed(p) \/ PendTimeout(p)
      PROVE  ForeverInv'
  BY <1>1, <1>2, <1>5 DEF PendServed, PendTimeout, Goto, tcbVars
<1>6. ASSUME NEW s \in Sem, NEW woken, Posted(s, woken), timeout' = timeout,
             \A p \in Prio : pc[p] \in Pending => pc'[p] \in Pending
      PROVE  ForeverInv'
  <2>1. CASE cnt[s] < 0 /\ wait[s] # {}
    <3>1. Min(wait[s]) \in wait[s]
      BY <2>1, MinIsLeast, KernelAssumption DEF SemInv, TypeOK, UserTask
    <3>2. PICK q \in Prio : Wake(q, "OS_STAT_SEM")
      BY <1>6, <2>1, <3>1 DEF Posted, SemInv, TypeOK, UserTask
    <3> QED
      BY <1>1, <1>6, <3>2 DEF Wake
  <2>2. CASE ~(cnt[s] < 0 /\ wait[s] # {})
    BY <1>6, <2>2 DEF Posted, tcbVars
  <2> QED
    BY <2>1, <2>2
<1>7. ASSUME NEW p \in Prio, NEW s \in Sem, TaskPost(p, s)
      PROVE  ForeverInv'
  <2>1. \A q \in Prio : pc[q] \in Pending => pc'[q] \in Pending
    BY <1>1, <1>2, <1>7 DEF TaskPost, Goto
  <2> QED
    BY <1>6, <1>7, <2>1 DEF TaskPost
<1>8. ASSUME NEW s \in Sem, ISRPost(s) PROVE ForeverInv'
  BY <1>6, <1>8 DEF ISRPost
<1>9. ASSUME NEW p \in Prio, NEW s \in Sem,
             PendTake(p, s) \/ PendNoWaitFails(p, s) \/ PostOverflow(s)
      PROVE  ForeverInv'
  BY <1>3, <1>9 DEF PendTake, PendNoWaitFails, PostOverflow, vars, semVars
<1>10. Prio # {}
  BY KernelAssumption
<1> QED
  BY <1>4, <1>5, <1>7, <1>8, <1>9, <1>10 DEF SemNext

(***************************************************************************)
(* OSSemPend(psem, 0) never returns OS_TIMEOUT, whatever interrupts run    *)
(* between its critical sections, as long as nobody gives its task a delay *)
(* with OSChangeTaskDly.                                                   *)
(***************************************************************************)
THEOREM SemForever ==
  ASSUME NewTicks = {}
  PROVE  Spec => []TimeoutOnlyIfAsked
<1>1. Init => ForeverInv
  BY DEF Init, KernelInit, ForeverInv, FlaggedIsPending, ForeverSleeps
<1>2. SemInv /\ ForeverInv /\ [Next]_vars => ForeverInv'
  <2> SUFFICES ASSUME SemInv, ForeverInv, [Next]_vars PROVE ForeverInv'
    OBVIOUS
  <2>1. CASE UNCHANGED vars
    BY <2>1 DEF vars, kernelVars, semVars, ForeverInv, FlaggedIsPending,
                ForeverSleeps
  <2> QED
    BY <2>1, KernelStepForever, SemStepForever DEF Next
<1>3. SemInv /\ ForeverInv => TimeoutOnlyIfAsked
  BY DEF SemInv, TypeOK, SchedInv, KernelTypeOK, CurIsReady, ForeverInv,
         ForeverSleeps, TimeoutOnlyIfAsked
<1> QED
  BY <1>1, <1>2, <1>3, SemInvariant, PTL DEF Spec
=============================================================================
