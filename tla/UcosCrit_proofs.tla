---------------------------- MODULE UcosCrit_proofs ----------------------------
(***************************************************************************)
(* The critical sections of ucos.cpp exclude whatever the numbers of tasks *)
(* and of nested enters and interrupts, and whichever enters time out.     *)
(***************************************************************************)
EXTENDS UcosCrit, UcosKernel_proofs

(***************************************************************************)
(* An owner that has not returned from the OSCritEnter it waited in has    *)
(* not entered: OSCritLeave handed it the section with a depth of 0.  And  *)
(* a free section has that depth too.                                      *)
(***************************************************************************)
PendingOwnerIsOutside == owner = 0 \/ pc[owner] \in Pending => depth = 0

(***************************************************************************)
(* The inductive invariant: DepthIsHeld says who is inside, and its step   *)
(* from 0 to 1 in EnterServed needs PendingOwnerIsOutside.                 *)
(***************************************************************************)
CritInv ==
  /\ SchedInv
  /\ TypeOK
  /\ DepthIsHeld
  /\ WaitersHaveOwner
  /\ PendingOwnerIsOutside

-------------------------------------------------------------------------------
LEMMA InitCrit ==
  ASSUME Init
  PROVE  CritInv
<1>1. SchedInv
  BY KernelInitSched DEF Init
<1>2. TypeOK
  BY <1>1, CritAssumption DEF Init, TypeOK, SchedInv
<1>3. DepthIsHeld /\ WaitersHaveOwner /\ PendingOwnerIsOutside
  BY DEF Init, DepthIsHeld, WaitersHaveOwner, PendingOwnerIsOutside
<1> QED
  BY <1>1, <1>2, <1>3 DEF CritInv

LEMMA KernelStepCrit ==
  ASSUME CritInv, KernelNext, UNCHANGED critVars
  PROVE  CritInv'
<1>1. SchedInv'
  BY KernelStepSched DEF CritInv
<1>2. TypeOK'
  BY <1>1 DEF CritInv, SchedInv, TypeOK, critVars
<1>3. PendingOwnerIsOutside'
  BY KernelKeepsPending
  DEF CritInv, TypeOK, PendingOwnerIsOutside, critVars, UserTask
<1> QED
  BY <1>1, <1>2, <1>3
  DEF CritInv, critVars, DepthIsHeld, WaitersHaveOwner

LEMMA StutterCrit ==
  ASSUME CritInv, UNCHANGED vars
  PROVE  CritInv'
<1>1. SchedInv'
  BY UnchangedSched DEF CritInv, vars
<1> QED
  BY <1>1 DEF CritInv, SchedInv, vars, critVars, kernelVars, TypeOK,
              DepthIsHeld, WaitersHaveOwner, PendingOwnerIsOutside

(* An enter that need not wait is made by a task that runs outside a call. *)
LEMMA EnterNowCrit ==
  ASSUME CritInv, NEW p \in Prio, EnterNow(p)
  PROVE  CritInv'
<1> USE DEF CritInv, EnterNow, Entered
<1>1. SchedInv'
  BY UnchangedSched
<1>2. p \in UserTask /\ p # 0 /\ pc[p] = "run"
  BY CritAssumption DEF MayCall, UserTask
<1>3. held[p] = depth /\ \A q \in Prio : q # p => held[q] = 0
  BY <1>2, CritAssumption DEF DepthIsHeld, PendingOwnerIsOutside
<1>4. TypeOK'
  <2>1. depth + 1 \in 0..MaxDepth
    BY CritAssumption DEF TypeOK
  <2> QED
    BY <1>1, <1>2, <1>3, <2>1 DEF TypeOK, SchedInv
<1>5. DepthIsHeld'
  BY <1>3 DEF DepthIsHeld, TypeOK
<1>6. WaitersHaveOwner' /\ PendingOwnerIsOutside'
  BY <1>2 DEF WaitersHaveOwner, PendingOwnerIsOutside, Pending, kernelVars
<1> QED
  BY <1>1, <1>4, <1>5, <1>6

LEMMA EnterWaitCrit ==
  ASSUME CritInv, NEW p \in Prio, NEW t \in Timeouts, EnterWait(p, t)
  PROVE  CritInv'
<1> USE DEF CritInv, EnterWait
<1>1. SchedInv'
  <2>1. t \in Nat /\ "OS_STAT_CRIT" \in StatFlag
    BY KernelAssumption, CritAssumption
  <2> QED
    BY <2>1, BlockSched
<1>2. TypeOK'
  BY <1>1 DEF TypeOK, SchedInv, MayBlock, MayCall
<1>3. PendingOwnerIsOutside'
  BY DEF PendingOwnerIsOutside, Goto, TypeOK, KernelTypeOK, UserTask
<1> QED
  BY <1>1, <1>2, <1>3 DEF DepthIsHeld, WaitersHaveOwner

(* The owner the section was handed to enters it at depth 1. *)
LEMMA EnterServedCrit ==
  ASSUME CritInv, NEW p \in Prio, EnterServed(p)
  PROVE  CritInv'
<1> USE DEF CritInv, EnterServed, Entered
<1>1. SchedInv'
  BY ReturnSched DEF tcbVars
<1>2. p # 0 /\ depth = 0
  BY CritAssumption DEF PendingOwnerIsOutside, Pending
<1>3. TypeOK'
  BY <1>1, <1>2, CritAssumption DEF TypeOK, SchedInv, DepthIsHeld
<1>4. DepthIsHeld'
  BY DEF DepthIsHeld, TypeOK
<1>5. WaitersHaveOwner' /\ PendingOwnerIsOutside'
  BY <1>2
  DEF WaitersHaveOwner, PendingOwnerIsOutside, Goto, Pending, TypeOK, KernelTypeOK
<1> QED
  BY <1>1, <1>3, <1>4, <1>5

LEMMA EnterTimeoutCrit ==
  ASSUME CritInv, NEW p \in Prio, EnterTimeout(p)
  PROVE  CritInv'
<1> USE DEF CritInv, EnterTimeout, critVars
<1>1. SchedInv'
  BY ReturnSched DEF tcbVars
<1>2. TypeOK'
  BY <1>1 DEF TypeOK, SchedInv
<1>3. PendingOwnerIsOutside'
  BY DEF PendingOwnerIsOutside, Goto, TypeOK, KernelTypeOK, UserTask
<1> QED
  BY <1>1, <1>2, <1>3 DEF DepthIsHeld, WaitersHaveOwner

(* Leaving without a hand-over: one level, or the section itself. *)
LEMMA LeaveCrit ==
  ASSUME CritInv, NEW p \in Prio, LeaveInner(p) \/ LeaveFree(p)
  PROVE  CritInv'
<1> USE DEF CritInv, LeaveInner, LeaveFree, Leaving
<1>1. SchedInv'
  BY UnchangedSched
<1>2. p # 0 /\ held[p] = depth /\ \A q \in Prio : q # p => held[q] = 0
  BY CritAssumption DEF DepthIsHeld
<1>3. depth' \in 0..MaxDepth /\ depth' = depth - 1
  BY CritAssumption DEF TypeOK
<1>4. TypeOK'
  BY <1>1, <1>2, <1>3 DEF TypeOK, SchedInv
<1>5. DepthIsHeld'
  BY <1>2, <1>3 DEF DepthIsHeld, TypeOK
<1>6. WaitersHaveOwner' /\ PendingOwnerIsOutside'
  BY DEF WaitersHaveOwner, PendingOwnerIsOutside, MayCall, Pending, kernelVars
<1> QED
  BY <1>1, <1>4, <1>5, <1>6

(* The hand-over to the most urgent task in the table, who is outside. *)
LEMMA LeaveHandOverCrit ==
  ASSUME CritInv, NEW p \in Prio, LeaveHandOver(p)
  PROVE  CritInv'
<1>1. PICK q \in critWait : /\ owner' = q
                            /\ Wake(q, "OS_STAT_CRIT")
                            /\ critWait' = critWait \ {q}
  <2>1. Min(critWait) \in critWait
    BY MinIsLeast, KernelAssumption
    DEF LeaveHandOver, CritInv, TypeOK, UserTask
  <2> QED
    BY <2>1 DEF LeaveHandOver
<1>2. q \in UserTask /\ q \in Prio /\ q # 0
  BY CritAssumption DEF CritInv, TypeOK, UserTask
<1>3. SchedInv'
  BY <1>1, <1>2, TaskWakeSched DEF LeaveHandOver, Leaving, CritInv
<1> USE DEF CritInv, LeaveHandOver, Leaving
<1>4. held[p] = 1 /\ \A r \in Prio : r # p => held[r] = 0
  BY DEF DepthIsHeld
<1>5. TypeOK'
  <2>1. held' \in [Prio -> 0..MaxDepth] /\ depth' \in 0..MaxDepth
    BY <1>4, CritAssumption DEF TypeOK
  <2> QED
    BY <1>1, <1>2, <1>3, <2>1 DEF TypeOK, SchedInv
<1>6. DepthIsHeld'
  BY <1>4 DEF DepthIsHeld, TypeOK
<1> QED
  BY <1>1, <1>2, <1>3, <1>5, <1>6
  DEF WaitersHaveOwner, PendingOwnerIsOutside

LEMMA NextCrit ==
  ASSUME CritInv, [Next]_vars
  PROVE  CritInv'
<1>1. CASE KernelNext /\ UNCHANGED critVars
  BY <1>1, KernelStepCrit
<1>2. CASE UNCHANGED vars
  BY <1>2, StutterCrit
<1>3. ASSUME NEW p \in Prio,
             \/ EnterNow(p)
             \/ \E t \in Timeouts : EnterWait(p, t)
             \/ EnterServed(p)
             \/ EnterTimeout(p)
      PROVE  CritInv'
  BY <1>3, EnterNowCrit, EnterWaitCrit, EnterServedCrit, EnterTimeoutCrit
<1>4. ASSUME NEW p \in Prio,
             LeaveInner(p) \/ LeaveFree(p) \/ LeaveHandOver(p)
      PROVE  CritInv'
  BY <1>4, LeaveCrit, LeaveHandOverCrit
<1> QED
  BY <1>1, <1>2, <1>3, <1>4
  DEF Next, CritNext, EnterNoWaitFails, LeaveNotOwner

-------------------------------------------------------------------------------
(* The invariant holds in every reachable state. *)
THEOREM CritInvariant == Spec => []CritInv
<1>1. Init => CritInv
  BY InitCrit
<1>2. CritInv /\ [Next]_vars => CritInv'
  BY NextCrit
<1> QED
  BY <1>1, <1>2, PTL DEF Spec

(***************************************************************************)
(* No two tasks are inside an OS_CRIT at one time: OSCritEnter by one and  *)
(* the hand-over of OSCritLeave to another never overlap, whatever enters  *)
(* time out and whichever stale bits they leave in the wait table.         *)
(***************************************************************************)
THEOREM CritExcludes == Spec => []MutualExclusion
<1>1. CritInv => MutualExclusion
  BY DEF CritInv, DepthIsHeld, MutualExclusion
<1> QED
  BY <1>1, CritInvariant, PTL

(* OSCritDepthCount is the number of enters the owner has not left. *)
THEOREM CritDepth == Spec => []DepthIsHeld
<1>1. CritInv => DepthIsHeld
  BY DEF CritInv
<1> QED
  BY <1>1, CritInvariant, PTL

(* While a task waits, the section has an owner to hand it over. *)
THEOREM CritHandsOver == Spec => []WaitersHaveOwner
<1>1. CritInv => WaitersHaveOwner
  BY DEF CritInv
<1> QED
  BY <1>1, CritInvariant, PTL

-------------------------------------------------------------------------------
(***************************************************************************)
(* A patient task in the wait table sleeps without a delay, so only the    *)
(* hand-over wakes it: a patient task that is inside OSCritEnter and not   *)
(* in the table has been made the owner.                                   *)
(***************************************************************************)
WaiterSleeps == \A p \in critWait \cap Patient : p \notin rdy /\ dly[p] = 0
EntererIsServed ==
  \A p \in Patient : pc[p] \in Pending => p \in critWait \/ owner = p

PatientInv == WaiterSleeps /\ PatientIsPending /\ EntererIsServed /\ OwnerKnows

LEMMA KernelStepPatient ==
  ASSUME CritInv, PatientInv, NewTicks = {}, KernelNext, UNCHANGED critVars
  PROVE  PatientInv'
<1> USE DEF PatientInv, critVars
<1>1. \A p \in Prio : pc'[p] \in Pending <=> pc[p] \in Pending
  BY KernelKeepsPending DEF CritInv, TypeOK
<1>2. critWait \subseteq Prio /\ Patient \subseteq Prio
  BY CritAssumption DEF CritInv, TypeOK, UserTask
<1>3. PatientIsPending' /\ EntererIsServed' /\ OwnerKnows'
  BY <1>1, <1>2 DEF PatientIsPending, EntererIsServed, OwnerKnows
<1>4. WaiterSleeps'
  <2>1. \/ rdy' = rdy /\ dly' = dly
        \/ \E p \in Prio : OSTimeDly(p) \/ OSTimeTick(p)
    BY DEF KernelNext, TaskStep, InterruptStep, OSSched, OSChangeTaskDly, OSLock,
           OSUnlock, OSUnlockTest, InterruptEnter, TickEnter, OSIntExit, tcbVars
  <2>2. ASSUME NEW p \in Prio, OSTimeDly(p) PROVE WaiterSleeps'
    <3>1. p \notin critWait \cap Patient
      BY <2>2 DEF OSTimeDly, MayBlock, MayCall, PatientIsPending, Pending
    <3> QED
      BY <2>2, <3>1 DEF OSTimeDly, WaiterSleeps, CritInv, TypeOK, KernelTypeOK
  <2>3. ASSUME NEW p \in Prio, OSTimeTick(p) PROVE WaiterSleeps'
    BY <2>3, <1>2 DEF OSTimeTick, WaiterSleeps, CritInv, TypeOK, KernelTypeOK
  <2> QED
    BY <2>1, <2>2, <2>3 DEF WaiterSleeps
<1> QED
  BY <1>3, <1>4

LEMMA CritStepPatient ==
  ASSUME CritInv, PatientInv, CritNext
  PROVE  PatientInv'
<1> USE DEF PatientInv, WaiterSleeps, PatientIsPending, EntererIsServed,
            OwnerKnows, MayBlock, MayCall, Running, Entered
<1>1. /\ pc \in [Prio -> Label]
      /\ dly \in [Prio -> Nat]
      /\ held \in [Prio -> 0..MaxDepth]
      /\ critWait \subseteq Prio
      /\ 0 \notin Prio
      /\ Patient \subseteq Prio
  BY CritAssumption DEF CritInv, TypeOK, KernelTypeOK, UserTask
<1>2. "run" \notin Pending /\ "sched" \notin Pending /\ "pendSched" \in Pending
  BY DEF Pending
<1>3. ASSUME NEW p \in Prio, EnterNow(p) PROVE PatientInv'
  <2>1. held'[p] > 0
    BY <1>1, <1>3, CritAssumption DEF EnterNow
  <2> QED
    BY <1>1, <1>2, <1>3, <2>1 DEF EnterNow, kernelVars
<1>4. ASSUME NEW p \in Prio, NEW t \in Timeouts, EnterWait(p, t)
      PROVE  PatientInv'
  BY <1>1, <1>2, <1>4 DEF EnterWait, Block, Goto
<1>5. ASSUME NEW p \in Prio, EnterServed(p) PROVE PatientInv'
  <2>1. p \notin critWait \cap Patient
    BY <1>5 DEF EnterServed, CritInv, SchedInv, CurIsReady
  <2>2. held'[p] > 0
    BY <1>1, <1>5, CritAssumption DEF EnterServed
  <2> QED
    BY <1>1, <1>2, <1>5, <2>1, <2>2 DEF EnterServed, Goto, tcbVars
<1>6. ASSUME NEW p \in Prio, EnterTimeout(p) PROVE PatientInv'
  <2>1. p \in rdy /\ pc[p] \in Pending
    BY <1>6 DEF EnterTimeout, CritInv, SchedInv, CurIsReady, Pending
  <2>2. p \notin Patient
    BY <1>6, <2>1 DEF EnterTimeout
  <2> QED
    BY <1>1, <1>2, <1>6, <2>2 DEF EnterTimeout, Goto, tcbVars, critVars
<1>7. ASSUME NEW p \in Prio, LeaveInner(p) PROVE PatientInv'
  <2>1. held[p] > 1 /\ held'[p] > 0
    BY <1>1, <1>7, CritAssumption DEF LeaveInner, Leaving, CritInv, DepthIsHeld
  <2> QED
    BY <1>1, <1>2, <1>7, <2>1 DEF LeaveInner, Leaving, kernelVars
<1>8. ASSUME NEW p \in Prio, LeaveFree(p) PROVE PatientInv'
  BY <1>1, <1>2, <1>8 DEF LeaveFree, Leaving, kernelVars
<1>9. ASSUME NEW p \in Prio, LeaveHandOver(p) PROVE PatientInv'
  <2>1. PICK q \in critWait : /\ owner' = q
                              /\ Wake(q, "OS_STAT_CRIT")
                              /\ critWait' = critWait \ {q}
    <3>1. Min(critWait) \in critWait
      BY <1>1, <1>9, MinIsLeast, KernelAssumption DEF LeaveHandOver
    <3> QED
      BY <1>9, <3>1 DEF LeaveHandOver
  <2>2. q \in Patient => q # p /\ pc'[q] \in Pending
    BY <1>1, <1>2, <1>9, <2>1 DEF LeaveHandOver, Leaving, Goto
  <2> QED
    BY <1>1, <1>2, <1>9, <2>1, <2>2 DEF LeaveHandOver, Leaving, Goto, Wake
<1>10. ASSUME NEW p \in Prio, EnterNoWaitFails(p) \/ LeaveNotOwner(p)
       PROVE  PatientInv'
  BY <1>10 DEF EnterNoWaitFails, LeaveNotOwner, vars, kernelVars, critVars
<1> QED
  BY <1>3, <1>4, <1>5, <1>6, <1>7, <1>8, <1>9, <1>10 DEF CritNext

(***************************************************************************)
(* Tasks that enter without a timeout are safe from those that enter with  *)
(* one: they are in the wait table only while they wait, and never own the *)
(* section without knowing it.                                             *)
(***************************************************************************)
THEOREM CritPatient ==
  ASSUME NewTicks = {}
  PROVE  Spec => [](PatientIsPending /\ OwnerKnows)
<1>1. Init => PatientInv
  BY CritAssumption
     DEF Init, KernelInit, PatientInv, WaiterSleeps, PatientIsPending,
         EntererIsServed, OwnerKnows, Pending, UserTask
<1>2. CritInv /\ PatientInv /\ [Next]_vars => PatientInv'
  <2> SUFFICES ASSUME CritInv, PatientInv, [Next]_vars PROVE PatientInv'
    OBVIOUS
  <2>1. CASE UNCHANGED vars
    BY <2>1 DEF vars, kernelVars, critVars, PatientInv, WaiterSleeps,
                PatientIsPending, EntererIsServed, OwnerKnows
  <2> QED
    BY <2>1, KernelStepPatient, CritStepPatient DEF Next
<1>3. PatientInv => PatientIsPending /\ OwnerKnows
  BY DEF PatientInv
<1> QED
  BY <1>1, <1>2, <1>3, CritInvariant, PTL DEF Spec

(* A patient task that was made the owner is inside, or on its way there.  *)
COROLLARY CritOwner ==
  ASSUME NewTicks = {}
  PROVE  Spec => []OwnerKnows
<1> QED
  BY CritPatient, PTL

(***************************************************************************)
(* When no task uses a timeout, as in Control_Mon_demo, "pending" in       *)
(* OSCritLeave means what it says.                                         *)
(***************************************************************************)
COROLLARY CritAllPatient ==
  ASSUME NewTicks = {}, Patient = UserTask
  PROVE  Spec => []WaiterIsPending
<1>1. CritInv /\ PatientIsPending => WaiterIsPending
  BY DEF CritInv, TypeOK, PatientIsPending, WaiterIsPending
<1> QED
  BY <1>1, CritPatient, CritInvariant, PTL
=============================================================================
