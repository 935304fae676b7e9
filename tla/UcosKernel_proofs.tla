--------------------------- MODULE UcosKernel_proofs ---------------------------
(***************************************************************************)
(* The steps of the scheduler keep the types, the most urgent ready task   *)
(* on the processor, and a delay running for every sleeper.  The proofs    *)
(* about the objects tasks wait for build on these lemmas.                 *)
(***************************************************************************)
EXTENDS UcosKernel, FiniteSetTheorems, WellFoundedInduction, TLAPS

-------------------------------------------------------------------------------
(* Min(S) is the least element of a set of priorities that is not empty. *)
LEMMA MinIsLeast ==
  ASSUME NEW S \in SUBSET Nat, S # {}
  PROVE  Min(S) \in S /\ \A q \in S : Min(S) <= q
<1>1. \E x \in S : \A y \in S : ~ (<<y, x>> \in OpToRel(<, Nat))
  BY NatLessThanWellFounded, WFMin
<1>2. PICK x \in S : \A y \in S : ~ (<<y, x>> \in OpToRel(<, Nat))
  BY <1>1
<1>3. \A y \in S : ~ (y < x)
  BY <1>2 DEF OpToRel
<1>4. \A y \in S : x <= y
  BY <1>3
<1> QED
  BY <1>4 DEF Min

(***************************************************************************)
(* The inductive invariant of the scheduler.  CurIsReady is what the other *)
(* parts need of the running task, which is the one that may wait next.    *)
(***************************************************************************)
SchedInv ==
  /\ KernelTypeOK
  /\ IdleIsReady
  /\ CurIsHighestReady
  /\ CurIsReady
  /\ SleeperHasDelay

(* The lookup finds a ready task. *)
LEMMA HighRdyIsReady ==
  ASSUME SchedInv
  PROVE  HighRdy \in rdy
<1>1. rdy \in SUBSET Nat /\ rdy # {}
  BY KernelAssumption DEF SchedInv, KernelTypeOK, IdleIsReady
<1> QED
  BY <1>1, MinIsLeast DEF HighRdy

LEMMA KernelInitSched ==
  ASSUME KernelInit
  PROVE  SchedInv
<1>1. Prio \in SUBSET Nat /\ Prio # {}
  BY KernelAssumption
<1>2. Min(Prio) \in Prio
  BY <1>1, MinIsLeast
<1>3. KernelTypeOK
  BY <1>2, KernelAssumption
  DEF KernelInit, KernelTypeOK, Label, UserTask
<1>4. IdleIsReady /\ CurIsHighestReady /\ CurIsReady /\ SleeperHasDelay
  BY <1>2, KernelAssumption
  DEF KernelInit, IdleIsReady, CurIsHighestReady, CurIsReady, SleeperHasDelay,
      HighRdy
<1> QED
  BY <1>3, <1>4 DEF SchedInv

-------------------------------------------------------------------------------
(***************************************************************************)
(* Every step of the scheduler itself keeps the invariant.                 *)
(***************************************************************************)
LEMMA KernelStepSched ==
  ASSUME SchedInv, KernelNext
  PROVE  SchedInv'
<1> USE DEF SchedInv, Running, MayCall, MayBlock, Goto, isrVars, tcbVars
<1>1. HighRdy \in rdy /\ HighRdy \in Prio
  BY HighRdyIsReady DEF KernelTypeOK
<1>2. ASSUME NEW p \in Prio, OSSched(p) PROVE SchedInv'
  <2> USE <1>2
  <2>1. KernelTypeOK'
    BY <1>1 DEF OSSched, KernelTypeOK, Label, Pending, AfterSched
  <2>2. CurIsHighestReady' /\ CurIsReady'
    BY <1>1 DEF OSSched, CurIsHighestReady, CurIsReady, HighRdy, KernelTypeOK
  <2> QED
    BY <2>1, <2>2 DEF OSSched, IdleIsReady, SleeperHasDelay
<1>3. ASSUME NEW p \in Prio, OSTimeDly(p) PROVE SchedInv'
  <2> USE <1>3
  <2>1. KernelTypeOK'
    BY KernelAssumption DEF OSTimeDly, KernelTypeOK, Label
  <2>2. CurIsHighestReady' /\ CurIsReady'
    BY DEF OSTimeDly, CurIsHighestReady, CurIsReady, KernelTypeOK
  <2>3. IdleIsReady' /\ SleeperHasDelay'
    BY KernelAssumption
    DEF OSTimeDly, IdleIsReady, SleeperHasDelay, UserTask, KernelTypeOK
  <2> QED
    BY <2>1, <2>2, <2>3
<1>4. ASSUME NEW p \in Prio, OSChangeTaskDly(p) PROVE SchedInv'
  <2> USE <1>4
  <2>1. KernelTypeOK'
    BY KernelAssumption DEF OSChangeTaskDly, KernelTypeOK
  <2>2. CurIsHighestReady' /\ CurIsReady' /\ IdleIsReady'
    BY DEF OSChangeTaskDly, CurIsHighestReady, CurIsReady, IdleIsReady, HighRdy
  <2>3. SleeperHasDelay'
    BY KernelAssumption DEF OSChangeTaskDly, SleeperHasDelay, KernelTypeOK
  <2> QED
    BY <2>1, <2>2, <2>3
<1>5. ASSUME NEW p \in Prio, OSLock(p) \/ OSUnlock(p) \/ OSUnlockTest(p)
      PROVE  SchedInv'
  <2> USE <1>5
  <2>1. lockNesting' \in 0..MaxLock
    BY KernelAssumption DEF OSLock, OSUnlock, OSUnlockTest, KernelTypeOK
  <2>2. pc' \in [Prio -> Label]
    BY DEF OSLock, OSUnlock, OSUnlockTest, KernelTypeOK, Label
  <2>3. KernelTypeOK'
    BY <2>1, <2>2 DEF OSLock, OSUnlock, OSUnlockTest, KernelTypeOK
  <2>4. CurIsHighestReady' /\ CurIsReady'
    BY DEF OSLock, OSUnlock, OSUnlockTest, CurIsHighestReady, CurIsReady,
           KernelTypeOK
  <2> QED
    BY <2>3, <2>4
    DEF OSLock, OSUnlock, OSUnlockTest, IdleIsReady, SleeperHasDelay
<1>6. ASSUME InterruptEnter \/ TickEnter PROVE SchedInv'
  <2> USE <1>6
  <2>1. /\ intNesting' \in 0..MaxNesting
        /\ tickAt' \in 0..intNesting'
    BY KernelAssumption DEF InterruptEnter, TickEnter, KernelTypeOK
  <2>2. KernelTypeOK'
    BY <2>1 DEF InterruptEnter, TickEnter, KernelTypeOK
  <2>3. CurIsHighestReady' /\ CurIsReady'
    BY DEF InterruptEnter, TickEnter, CurIsHighestReady, CurIsReady, KernelTypeOK
  <2> QED
    BY <2>2, <2>3 DEF InterruptEnter, TickEnter, IdleIsReady, SleeperHasDelay
<1>7. ASSUME NEW p \in Prio, OSTimeTick(p) PROVE SchedInv'
  <2> USE <1>7
  <2>1. KernelTypeOK'
    BY DEF OSTimeTick, KernelTypeOK
  <2>2. CurIsHighestReady' /\ CurIsReady' /\ IdleIsReady'
    BY DEF OSTimeTick, CurIsHighestReady, CurIsReady, IdleIsReady, KernelTypeOK
  <2>3. SleeperHasDelay'
    BY DEF OSTimeTick, SleeperHasDelay, KernelTypeOK
  <2> QED
    BY <2>1, <2>2, <2>3
<1>8. ASSUME OSIntExit PROVE SchedInv'
  <2> USE <1>8
  <2>1. KernelTypeOK'
    BY <1>1, KernelAssumption DEF OSIntExit, KernelTypeOK
  <2>2. CurIsHighestReady' /\ CurIsReady'
    BY <1>1 DEF OSIntExit, CurIsHighestReady, CurIsReady, HighRdy, KernelTypeOK
  <2> QED
    BY <2>1, <2>2 DEF OSIntExit, IdleIsReady, SleeperHasDelay
<1> QED
  BY <1>2, <1>3, <1>4, <1>5, <1>6, <1>7, <1>8
  DEF KernelNext, TaskStep, InterruptStep

(***************************************************************************)
(* No step of the scheduler takes a task into or out of a call that waits, *)
(* or touches the flag that tells such a call how it ended.                *)
(***************************************************************************)
LEMMA KernelKeepsPending ==
  ASSUME KernelTypeOK, KernelNext
  PROVE  /\ stat' = stat
         /\ \A p \in Prio : pc'[p] \in Pending <=> pc[p] \in Pending
<1> USE DEF KernelTypeOK, isrVars, tcbVars
<1>1. stat' = stat
  BY DEF KernelNext, TaskStep, InterruptStep, OSSched, OSTimeDly,
         OSChangeTaskDly, OSLock, OSUnlock, OSUnlockTest, InterruptEnter,
         TickEnter, OSTimeTick, OSIntExit
<1>2. \/ pc' = pc
      \/ \E p \in Prio : OSSched(p) \/ OSTimeDly(p) \/ OSUnlock(p) \/ OSUnlockTest(p)
  BY DEF KernelNext, TaskStep, InterruptStep, OSChangeTaskDly, OSLock,
         InterruptEnter, TickEnter, OSTimeTick, OSIntExit
<1>3. ASSUME NEW p \in Prio,
             OSSched(p) \/ OSTimeDly(p) \/ OSUnlock(p) \/ OSUnlockTest(p)
      PROVE  \A q \in Prio : pc'[q] \in Pending <=> pc[q] \in Pending
  BY <1>3 DEF OSSched, OSTimeDly, OSUnlock, OSUnlockTest, Goto, AfterSched,
              MayBlock, MayCall, Pending
<1> QED
  BY <1>1, <1>2, <1>3

-------------------------------------------------------------------------------
(***************************************************************************)
(* What the objects do to the scheduler's state keeps the invariant too:   *)
(* nothing at all, ...                                                     *)
(***************************************************************************)
LEMMA UnchangedSched ==
  ASSUME SchedInv, UNCHANGED kernelVars
  PROVE  SchedInv'
BY DEF SchedInv, kernelVars, isrVars, KernelTypeOK, IdleIsReady,
       CurIsHighestReady, CurIsReady, SleeperHasDelay, HighRdy

(* ... the first critical section of a call that waits, ... *)
LEMMA BlockSched ==
  ASSUME SchedInv, NEW p \in Prio, NEW flag \in StatFlag, NEW t \in Nat,
         MayBlock(p), Block(p, flag, t), Goto(p, "pendSched"),
         UNCHANGED <<cur, lockNesting, isrVars>>
  PROVE  SchedInv'
<1> USE DEF SchedInv, MayBlock, MayCall, Running, Block, Goto, isrVars
<1>1. KernelTypeOK'
  BY DEF KernelTypeOK, Label, Pending
<1>2. IdleIsReady' /\ CurIsHighestReady' /\ CurIsReady'
  BY DEF IdleIsReady, CurIsHighestReady, CurIsReady, KernelTypeOK, UserTask
<1>3. SleeperHasDelay'
  BY DEF SleeperHasDelay, KernelTypeOK
<1> QED
  BY <1>1, <1>2, <1>3

(* ... the last one of such a call, which may clear the task's flags, ... *)
LEMMA ReturnSched ==
  ASSUME SchedInv, NEW p \in Prio,
         Running(p), pc[p] = "pendWake", Goto(p, "run"),
         stat' = stat \/ stat' = [stat EXCEPT ![p] = {}],
         UNCHANGED <<rdy, dly, cur, lockNesting, isrVars>>
  PROVE  SchedInv'
<1> USE DEF SchedInv, Running, Goto, isrVars
<1>1. KernelTypeOK'
  BY DEF KernelTypeOK, Label
<1>2. IdleIsReady' /\ CurIsHighestReady' /\ CurIsReady'
  BY DEF IdleIsReady, CurIsHighestReady, CurIsReady, KernelTypeOK, HighRdy
<1>3. SleeperHasDelay'
  BY DEF SleeperHasDelay, CurIsReady, KernelTypeOK
<1> QED
  BY <1>1, <1>2, <1>3

(* ... and making a waiter ready, by a task on its way to OSSched ... *)
LEMMA TaskWakeSched ==
  ASSUME SchedInv, NEW p \in Prio, NEW q \in Prio, NEW flag,
         MayCall(p), Wake(q, flag), Goto(p, "sched"),
         UNCHANGED <<cur, lockNesting, isrVars>>
  PROVE  SchedInv'
<1> USE DEF SchedInv, MayCall, Running, Wake, Goto, isrVars
<1>1. KernelTypeOK'
  BY DEF KernelTypeOK, Label
<1>2. IdleIsReady' /\ CurIsHighestReady' /\ CurIsReady'
  BY DEF IdleIsReady, CurIsHighestReady, CurIsReady, KernelTypeOK
<1>3. SleeperHasDelay'
  BY DEF SleeperHasDelay, KernelTypeOK
<1> QED
  BY <1>1, <1>2, <1>3

(* ... or by an interrupt handler, whose OSIntExit is still to come. *)
LEMMA ISRWakeSched ==
  ASSUME SchedInv, NEW q \in Prio, NEW flag,
         InISR, Wake(q, flag),
         UNCHANGED <<cur, pc, lockNesting, isrVars>>
  PROVE  SchedInv'
<1> USE DEF SchedInv, InISR, Wake, isrVars
<1>1. KernelTypeOK'
  BY DEF KernelTypeOK
<1>2. IdleIsReady' /\ CurIsHighestReady' /\ CurIsReady'
  BY DEF IdleIsReady, CurIsHighestReady, CurIsReady, KernelTypeOK
<1>3. SleeperHasDelay'
  BY DEF SleeperHasDelay, KernelTypeOK
<1> QED
  BY <1>1, <1>2, <1>3
=============================================================================
