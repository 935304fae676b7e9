---------------------------- MODULE UcosMbox_proofs ----------------------------
(***************************************************************************)
(* Mailboxes lose no message: with any number of receiving tasks to a      *)
(* timeout, and with one of them to anything.                              *)
(***************************************************************************)
EXTENDS UcosMbox, UcosKernel_proofs, Sequences

(***************************************************************************)
(* The inductive invariant.  What makes a timeout harmless is Promised: if *)
(* a message is there while tasks wait, a more urgent task than those was  *)
(* woken for it, is ready, and has not run yet; and LockedRuns: a task in  *)
(* a call that waits did not get the processor by the scheduler lock.      *)
(***************************************************************************)
Flagged ==
  \A p \in Prio : /\ "OS_STAT_MBOX" \in stat[p] <=> p \in mboxWait
                  /\ p \in mboxWait => pc[p] \in Pending
                  /\ pc[p] \in Pending => p \in Consumer

LockedRuns == lockNesting > 0 => pc[cur] \notin Pending

Promised ==
  dataAvail /\ mboxWait # {} =>
    \E q \in rdy : /\ pc[q] \in Pending /\ q \notin mboxWait
                   /\ \A p \in mboxWait : q < p

MboxTypeOK ==
  /\ mboxMsg \in Msg \cup {NULL} /\ dataAvail \in BOOLEAN
  /\ mboxWait \subseteq Consumer /\ got \in Msg \cup {NULL}

MboxInv ==
  SchedInv /\ MboxTypeOK /\ AvailIsMsg /\ Flagged /\ LockedRuns /\ Promised

LEMMA MboxFacts ==
  ASSUME MboxInv
  PROVE  /\ Consumer \subseteq UserTask /\ UserTask \subseteq Prio
         /\ Prio \subseteq Nat /\ NULL \notin Msg /\ "OS_STAT_MBOX" \in StatFlag
         /\ pc \in [Prio -> Label] /\ stat \in [Prio -> SUBSET StatFlag]
         /\ cur \in Prio /\ rdy \subseteq Prio
BY KernelAssumption, MboxAssumption DEF MboxInv, SchedInv, KernelTypeOK, UserTask

LEMMA InitMbox ==
  ASSUME Init
  PROVE  MboxInv
<1>1. SchedInv
  BY KernelInitSched DEF Init
<1>2. MboxTypeOK /\ AvailIsMsg
  BY MboxAssumption DEF Init, MboxTypeOK, AvailIsMsg
<1>3. Flagged /\ LockedRuns /\ Promised
  BY <1>1 DEF Init, KernelInit, Flagged, LockedRuns, Promised, Pending, SchedInv,
              KernelTypeOK
<1> QED
  BY <1>1, <1>2, <1>3 DEF MboxInv

(* The scheduler's steps.                                                  *)
LEMMA KernelStepMbox ==
  ASSUME MboxInv, KernelNext, UNCHANGED mboxVars
  PROVE  MboxInv'
<1>1. SchedInv'
  BY KernelStepSched DEF MboxInv
<1>2. MboxTypeOK' /\ AvailIsMsg'
  BY DEF MboxInv, MboxTypeOK, AvailIsMsg, mboxVars
<1>3. /\ stat' = stat /\ mboxWait' = mboxWait /\ dataAvail' = dataAvail
      /\ \A p \in Prio : pc'[p] \in Pending <=> pc[p] \in Pending
  BY KernelKeepsPending DEF MboxInv, SchedInv, mboxVars
<1>4. Flagged'
  BY <1>3 DEF MboxInv, Flagged
<1>5. LockedRuns'
  <2>1. ASSUME NEW p \in Prio, OSSched(p) PROVE LockedRuns'
    <3>1. lockNesting' = lockNesting
      BY <2>1 DEF OSSched
    <3>2. lockNesting > 0 => cur' = cur
      BY <2>1, MboxFacts DEF OSSched, MboxInv, SchedInv, KernelTypeOK
    <3> QED
      BY <1>3, <3>1, <3>2, MboxFacts DEF MboxInv, LockedRuns
  <2>2. CASE OSIntExit
    <3>1. lockNesting' = lockNesting
      BY <2>2 DEF OSIntExit
    <3>2. lockNesting > 0 => cur' = cur
      BY <2>2 DEF OSIntExit
    <3> QED
      BY <1>3, <3>1, <3>2, MboxFacts DEF MboxInv, LockedRuns
  <2>3. ASSUME NEW p \in Prio, OSLock(p) PROVE LockedRuns'
    BY <2>3 DEF OSLock, MayCall, Running, LockedRuns, Pending
  <2>4. ASSUME NEW p \in Prio, OSUnlock(p) PROVE LockedRuns'
    <3>1. cur' = cur /\ cur = p /\ pc[p] \notin Pending
      BY <2>4 DEF OSUnlock, MayCall, Running, Pending
    <3> QED
      BY <1>3, <3>1 DEF LockedRuns
  <2>5. ASSUME NEW p \in Prio,
               OSTimeDly(p) \/ OSChangeTaskDly(p) \/ OSUnlockTest(p)
               \/ InterruptEnter \/ TickEnter \/ OSTimeTick(p)
        PROVE  LockedRuns'
    <3>1. cur' = cur /\ lockNesting' = lockNesting
      BY <2>5 DEF OSTimeDly, OSChangeTaskDly, OSUnlockTest, InterruptEnter, TickEnter,
                  OSTimeTick
    <3> QED
      BY <1>3, <3>1, MboxFacts DEF MboxInv, LockedRuns
  <2> QED
    BY <2>1, <2>2, <2>3, <2>4, <2>5, KernelAssumption
       DEF KernelNext, TaskStep, InterruptStep
<1>6. \A q \in rdy : pc[q] \in Pending => q \in rdy'
  <2>1. \/ rdy \subseteq rdy'
        \/ \E p \in Prio : OSTimeDly(p)
    BY DEF KernelNext, TaskStep, InterruptStep, OSSched, OSChangeTaskDly, OSLock,
           OSUnlock, OSUnlockTest, InterruptEnter, TickEnter, OSTimeTick, OSIntExit, tcbVars
  <2>2. ASSUME NEW p \in Prio, OSTimeDly(p)
        PROVE  rdy' = rdy \ {p} /\ pc[p] \notin Pending
    BY <2>2 DEF OSTimeDly, MayBlock, MayCall, Pending
  <2> QED
    BY <2>1, <2>2
<1>7. Promised'
  BY <1>3, <1>6, MboxFacts DEF MboxInv, Promised
<1> QED
  BY <1>1, <1>2, <1>4, <1>5, <1>7 DEF MboxInv

-------------------------------------------------------------------------------
(* The calls of the mailbox.                                               *)
LEMMA TakeMbox ==
  ASSUME MboxInv, NEW p \in Prio, PendTake(p) \/ PendNoWaitFails(p)
  PROVE  MboxInv'
<1>1. UNCHANGED kernelVars /\ mboxWait' = mboxWait /\ dataAvail' = FALSE
  BY DEF PendTake, PendNoWaitFails, TakeMsg
<1>2. SchedInv'
  BY <1>1, UnchangedSched DEF MboxInv
<1>3. MboxTypeOK' /\ AvailIsMsg'
  BY <1>1 DEF MboxInv, MboxTypeOK, AvailIsMsg, PendTake, PendNoWaitFails, TakeMsg
<1>4. Flagged' /\ LockedRuns' /\ Promised'
  BY <1>1 DEF MboxInv, Flagged, LockedRuns, Promised, kernelVars, tcbVars
<1> QED
  BY <1>2, <1>3, <1>4 DEF MboxInv

LEMMA WaitMbox ==
  ASSUME MboxInv, NEW p \in Prio, NEW t \in Timeouts, PendWait(p, t)
  PROVE  MboxInv'
<1>1. /\ p \in Consumer /\ p = cur /\ lockNesting = 0 /\ ~dataAvail
      /\ mboxWait' = mboxWait \cup {p} /\ dataAvail' = dataAvail /\ lockNesting' = lockNesting
      /\ stat' = [stat EXCEPT ![p] = @ \cup {"OS_STAT_MBOX"}]
      /\ pc' = [pc EXCEPT ![p] = "pendSched"]
  BY DEF PendWait, MayBlock, MayCall, Running, Block, Goto
<1>2. SchedInv'
  BY BlockSched, KernelAssumption, MboxFacts DEF MboxInv, PendWait
<1>3. MboxTypeOK' /\ AvailIsMsg'
  BY <1>1 DEF MboxInv, MboxTypeOK, AvailIsMsg, PendWait
<1>4. Flagged'
  BY <1>1, MboxFacts DEF MboxInv, Flagged, Pending
<1>5. LockedRuns' /\ Promised'
  BY <1>1 DEF LockedRuns, Promised
<1> QED
  BY <1>2, <1>3, <1>4, <1>5 DEF MboxInv

(***************************************************************************)
(* A task whose pend times out finds the mailbox empty: a message promised *)
(* to a more urgent task would have that task running in its place.        *)
(***************************************************************************)
LEMMA TimeoutFindsNone ==
  ASSUME MboxInv
  PROVE  TimeoutLosesNothing
<1> SUFFICES ASSUME pc[cur] = "pendWake", intNesting = 0,
                    "OS_STAT_MBOX" \in stat[cur], dataAvail
             PROVE  FALSE
  BY DEF TimeoutLosesNothing, MboxInv, MboxTypeOK
<1>1. cur \in mboxWait /\ cur \in Prio
  BY MboxFacts DEF MboxInv, Flagged
<1>2. lockNesting = 0
  BY DEF MboxInv, LockedRuns, SchedInv, KernelTypeOK, Pending
<1>3. cur = Min(rdy)
  BY <1>2 DEF MboxInv, SchedInv, CurIsHighestReady, HighRdy
<1>4. PICK q \in rdy : q < cur
  BY <1>1 DEF MboxInv, Promised
<1>5. cur <= q
  BY <1>3, MboxFacts, MinIsLeast
<1> QED
  BY <1>1, <1>4, <1>5, MboxFacts

LEMMA ReturnMbox ==
  ASSUME MboxInv, NEW p \in Prio, PendServed(p) \/ PendTimeout(p)
  PROVE  MboxInv'
<1>1. /\ p = cur /\ cur' = cur /\ dataAvail' = FALSE
      /\ mboxWait' = mboxWait \ {p}
      /\ pc' = [pc EXCEPT ![p] = "run"]
      /\ \/ stat' = stat /\ "OS_STAT_MBOX" \notin stat[p]
         \/ stat' = [stat EXCEPT ![p] = {}]
  BY MboxFacts DEF PendServed, PendTimeout, Running, TakeMsg, Goto, tcbVars, MboxInv, Flagged
<1>2. SchedInv'
  BY ReturnSched DEF MboxInv, PendServed, PendTimeout, tcbVars
<1>3. MboxTypeOK' /\ AvailIsMsg'
  <2>1. CASE PendServed(p)
    BY <2>1 DEF PendServed, TakeMsg, MboxInv, MboxTypeOK, AvailIsMsg
  <2>2. CASE PendTimeout(p)
    <3>1. ~dataAvail
      BY <2>2, TimeoutFindsNone DEF PendTimeout, Running, TimeoutLosesNothing
    <3> QED
      BY <2>2, <3>1 DEF PendTimeout, MboxInv, MboxTypeOK, AvailIsMsg
  <2> QED
    BY <2>1, <2>2
<1>4. Flagged'
  BY <1>1, MboxFacts DEF MboxInv, Flagged, Pending
<1>5. LockedRuns' /\ Promised'
  BY <1>1, MboxFacts DEF LockedRuns, Promised, Pending
<1> QED
  BY <1>2, <1>3, <1>4, <1>5 DEF MboxInv

(* A post, whatever else its caller does. *)
LEMMA PostedMbox ==
  ASSUME MboxInv, NEW m \in Msg, NEW woken, Posted(m, woken), got' = got, cur' = cur,
         lockNesting' = lockNesting, SchedInv',
         \A p \in Prio : pc'[p] \in Pending <=> pc[p] \in Pending
  PROVE  MboxInv'
<1>1. ~dataAvail /\ dataAvail' = TRUE /\ mboxMsg' = m
  BY DEF Posted
<1>2. MboxTypeOK' /\ AvailIsMsg'
  BY <1>1, MboxFacts DEF Posted, MboxInv, MboxTypeOK, AvailIsMsg
<1>3. LockedRuns'
  BY MboxFacts DEF MboxInv, LockedRuns
<1>4. CASE mboxWait # {}
  <2> DEFINE q == Min(mboxWait)
  <2>1. q \in mboxWait /\ \A p \in mboxWait : q <= p
    BY <1>4, MinIsLeast, MboxFacts DEF MboxInv, MboxTypeOK
  <2>2. Wake(q, "OS_STAT_MBOX") /\ mboxWait' = mboxWait \ {q}
    BY <1>4 DEF Posted
  <2> HIDE DEF q
  <2>3. q \in Prio /\ mboxWait \subseteq Prio
    BY <2>1, MboxFacts DEF MboxInv, MboxTypeOK
  <2>4. Flagged'
    BY <2>2, <2>3, MboxFacts DEF Wake, MboxInv, Flagged
  <2>5. Promised'
    <3>1. q \in rdy' /\ pc'[q] \in Pending /\ q \notin mboxWait'
      BY <2>1, <2>2, <2>3 DEF Wake, MboxInv, Flagged
    <3>2. \A p \in mboxWait' : q < p
      BY <2>1, <2>2, <2>3, MboxFacts
    <3> QED
      BY <3>1, <3>2 DEF Promised
  <2> QED
    BY <1>2, <1>3, <2>4, <2>5 DEF MboxInv
<1>5. CASE mboxWait = {}
  <2>1. UNCHANGED <<tcbVars, mboxWait>>
    BY <1>5 DEF Posted
  <2>2. Flagged' /\ Promised'
    BY <1>5, <2>1 DEF MboxInv, Flagged, Promised, tcbVars
  <2> QED
    BY <1>2, <1>3, <2>2 DEF MboxInv
<1> QED
  BY <1>4, <1>5

LEMMA PostMbox ==
  ASSUME MboxInv, NEW m \in Msg,
         ISRPost(m) \/ \E p \in Prio : TaskPost(p, m)
  PROVE  MboxInv'
<1>1. mboxWait # {} => Min(mboxWait) \in Prio
  BY MinIsLeast, MboxFacts DEF MboxInv, MboxTypeOK
<1>2. CASE ISRPost(m)
  <2>1. PICK woken \in BOOLEAN : Posted(m, woken)
    BY <1>2 DEF ISRPost
  <2>2. SchedInv'
    <3>1. CASE mboxWait # {}
      BY <1>1, <1>2, <2>1, <3>1, ISRWakeSched DEF MboxInv, ISRPost, Posted
    <3>2. CASE mboxWait = {}
      BY <1>2, <2>1, <3>2, UnchangedSched
         DEF MboxInv, ISRPost, Posted, kernelVars, tcbVars
    <3> QED
      BY <3>1, <3>2
  <2> QED
    BY <1>2, <2>1, <2>2, PostedMbox DEF ISRPost
<1>3. ASSUME NEW p \in Prio, TaskPost(p, m) PROVE MboxInv'
  <2>1. PICK woken \in BOOLEAN :
          /\ Posted(m, woken)
          /\ IF woken THEN Goto(p, "sched") ELSE pc' = pc
    BY <1>3 DEF TaskPost
  <2>2. SchedInv'
    <3>1. CASE mboxWait # {}
      <4>1. Wake(Min(mboxWait), "OS_STAT_MBOX") /\ woken = TRUE
        BY <2>1, <3>1 DEF Posted
      <4> QED
        BY <1>1, <1>3, <2>1, <3>1, <4>1, TaskWakeSched DEF MboxInv, TaskPost
    <3>2. CASE mboxWait = {}
      BY <1>3, <2>1, <3>2, UnchangedSched
         DEF MboxInv, TaskPost, Posted, kernelVars, tcbVars
    <3> QED
      BY <3>1, <3>2
  <2>3. \A q \in Prio : pc'[q] \in Pending <=> pc[q] \in Pending
    BY <1>3, <2>1, MboxFacts DEF TaskPost, MayCall, Goto, Pending
  <2> QED
    BY <1>3, <2>1, <2>2, <2>3, PostedMbox DEF TaskPost
<1> QED
  BY <1>2, <1>3

-------------------------------------------------------------------------------
LEMMA NextMbox ==
  ASSUME MboxInv, [Next]_vars
  PROVE  MboxInv'
<1>1. CASE UNCHANGED vars
  <2>1. SchedInv'
    BY <1>1, UnchangedSched DEF vars, MboxInv
  <2> QED
    BY <1>1, <2>1 DEF vars, mboxVars, kernelVars, tcbVars, MboxInv, MboxTypeOK,
                      AvailIsMsg, Flagged, LockedRuns, Promised
<1>2. CASE KernelNext /\ UNCHANGED mboxVars
  BY <1>2, KernelStepMbox
<1>3. CASE MboxNext
  <2>1. ASSUME NEW p \in Prio,
               \/ PendTake(p)
               \/ \E t \in Timeouts : PendWait(p, t)
               \/ PendNoWaitFails(p)
               \/ PendServed(p)
               \/ PendTimeout(p)
        PROVE  MboxInv'
    BY <2>1, TakeMbox, WaitMbox, ReturnMbox
  <2> QED
    BY <1>1, <1>3, <2>1, PostMbox DEF MboxNext, PostFull
<1> QED
  BY <1>1, <1>2, <1>3 DEF Next

(***************************************************************************)
(* The scheduler's promises, the mailbox's flag and the message promised   *)
(* to a woken task hold in every reachable state.                          *)
(***************************************************************************)
THEOREM MboxInvariant == Spec => []MboxInv
<1>1. Init => MboxInv
  BY InitMbox
<1>2. MboxInv /\ [Next]_vars => MboxInv'
  BY NextMbox
<1> QED
  BY <1>1, <1>2, PTL DEF Spec

(***************************************************************************)
(* A pend that times out marks the mailbox empty only when it is empty,    *)
(* with any number of receiving tasks.                                     *)
(***************************************************************************)
THEOREM MboxTimeout == Spec => []TimeoutLosesNothing
<1>1. MboxInv => TimeoutLosesNothing
  BY TimeoutFindsNone
<1> QED
  BY <1>1, MboxInvariant, PTL

-------------------------------------------------------------------------------
(***************************************************************************)
(* One receiving task: nobody takes the message from the one it woke.      *)
(***************************************************************************)
OneConsumer == \A p, q \in Consumer : p = q

LEMMA WokenStep ==
  ASSUME OneConsumer, MboxInv, WokenFindsMessage, [Next]_vars
  PROVE  WokenFindsMessage'
<1>1. MboxInv'
  BY NextMbox
<1>2. ASSUME NEW p \in Consumer, pc'[p] \in Pending, "OS_STAT_MBOX" \notin stat'[p],
             dataAvail' # dataAvail \/ pc[p] \notin Pending \/ "OS_STAT_MBOX" \in stat[p]
      PROVE  dataAvail'
  <2>0. p \in Prio
    BY MboxFacts
  <2>1. CASE KernelNext /\ UNCHANGED mboxVars
    BY <1>2, <2>0, <2>1, KernelKeepsPending DEF mboxVars, MboxInv, SchedInv
  <2>2. CASE UNCHANGED vars
    BY <1>2, <2>2 DEF vars, mboxVars, kernelVars, tcbVars
  <2>3. ASSUME NEW q \in Prio, PendTake(q) \/ PendNoWaitFails(q) PROVE dataAvail'
    <3>1. q \in Consumer /\ pc[q] = "run" /\ UNCHANGED kernelVars
      BY <2>3 DEF PendTake, PendNoWaitFails, MayCall
    <3> QED
      BY <1>2, <3>1 DEF OneConsumer, kernelVars, Pending
  <2>4. ASSUME NEW q \in Prio, NEW t \in Timeouts, PendWait(q, t) PROVE dataAvail'
    <3>1. q \in Consumer /\ q \in mboxWait'
      BY <2>4 DEF PendWait
    <3> QED
      BY <1>1, <1>2, <2>0, <3>1 DEF OneConsumer, MboxInv, Flagged
  <2>5. ASSUME NEW q \in Prio, PendServed(q) \/ PendTimeout(q) PROVE dataAvail'
    <3>1. q \in Consumer /\ pc'[q] = "run"
      BY <2>5, MboxFacts DEF PendServed, PendTimeout, Goto, MboxInv, Flagged, Pending
    <3> QED
      BY <1>2, <3>1 DEF OneConsumer, Pending
  <2>6. ASSUME NEW m \in Msg, ISRPost(m) \/ \E q \in Prio : TaskPost(q, m)
        PROVE  dataAvail'
    BY <2>6 DEF ISRPost, TaskPost, Posted
  <2> QED
    BY <2>1, <2>2, <2>3, <2>4, <2>5, <2>6 DEF Next, MboxNext, PostFull
<1> QED
  BY <1>2 DEF WokenFindsMessage

(***************************************************************************)
(* With one receiving task, a woken one finds the message it was woken for *)
(* whatever posts, timeouts and interrupts come before it runs.            *)
(***************************************************************************)
THEOREM MboxWoken ==
  ASSUME OneConsumer
  PROVE  Spec => []WokenFindsMessage
<1>1. Init => WokenFindsMessage
  BY MboxAssumption DEF Init, KernelInit, WokenFindsMessage, Pending, UserTask
<1>2. MboxInv /\ WokenFindsMessage /\ [Next]_vars => WokenFindsMessage'
  BY WokenStep
<1> QED
  BY <1>1, <1>2, MboxInvariant, PTL DEF Spec

-------------------------------------------------------------------------------
(* The messages of the abstract queue. *)
heldMsg == IF dataAvail THEN <<mboxMsg>> ELSE <<>>

LEMMA MboxStutters ==
  ASSUME UNCHANGED <<mboxMsg, dataAvail, got>>
  PROVE  UNCHANGED Abstract!absVars
BY DEF Abstract!absVars

LEMMA TakeGets ==
  ASSUME MboxInv, dataAvail, TakeMsg
  PROVE  Abstract!Get
<1>1. heldMsg = <<mboxMsg>> /\ heldMsg' = <<>>
  BY DEF heldMsg, TakeMsg
<1>2. heldMsg # <<>> /\ Head(heldMsg) = mboxMsg /\ Tail(heldMsg) = <<>>
  BY <1>1
<1> QED
  BY <1>1, <1>2 DEF Abstract!Get, heldMsg, TakeMsg

LEMMA PostPuts ==
  ASSUME MboxInv, NEW m \in Msg, NEW woken, Posted(m, woken), got' = got
  PROVE  Abstract!Put(m)
<1>1. heldMsg = <<>> /\ heldMsg' = <<m>>
  BY DEF heldMsg, Posted
<1>2. Len(heldMsg) < 1 /\ heldMsg' = Append(heldMsg, m)
  BY <1>1
<1> QED
  BY <1>2 DEF Abstract!Put, heldMsg

(***************************************************************************)
(* With one receiving task a mailbox is a queue of one message: what a     *)
(* post accepts is received once, and is neither overwritten nor dropped.  *)
(***************************************************************************)
THEOREM MboxImplements ==
  ASSUME OneConsumer
  PROVE  Spec => ImplementsMessageQueue
<1>1. Init => Abstract!Init
  BY DEF Init, Abstract!Init
<1>2. MboxInv /\ WokenFindsMessage /\ [Next]_vars => [Abstract!Next]_Abstract!absVars
  <2> SUFFICES ASSUME MboxInv, WokenFindsMessage, [Next]_vars
               PROVE  Abstract!Next \/ UNCHANGED Abstract!absVars
    OBVIOUS
  <2>1. CASE UNCHANGED vars \/ UNCHANGED mboxVars
    BY <2>1, MboxStutters DEF vars, mboxVars
  <2>2. ASSUME NEW p \in Prio, PendTake(p) \/ PendServed(p)
        PROVE  Abstract!Next
    <3>1. dataAvail /\ TakeMsg
      BY <2>2, MboxFacts DEF PendTake, PendServed, WokenFindsMessage, MboxInv, Flagged, Pending
    <3> QED
      BY <3>1, TakeGets DEF Abstract!Next
  <2>3. ASSUME NEW p \in Prio,
               \/ \E t \in Timeouts : PendWait(p, t)
               \/ PendNoWaitFails(p)
               \/ PendTimeout(p)
        PROVE  UNCHANGED Abstract!absVars
    <3>1. dataAvail' = dataAvail /\ UNCHANGED <<mboxMsg, got>>
      BY <2>3, TimeoutFindsNone
         DEF PendWait, PendNoWaitFails, PendTimeout, Running, TimeoutLosesNothing, MboxInv,
             MboxTypeOK
    <3> QED
      BY <3>1, MboxStutters
  <2>4. ASSUME NEW m \in Msg, ISRPost(m) \/ \E p \in Prio : TaskPost(p, m)
        PROVE  Abstract!Next
    BY <2>4, PostPuts DEF ISRPost, TaskPost, Abstract!Next
  <2> QED
    BY <2>1, <2>2, <2>3, <2>4 DEF Next, MboxNext, PostFull
<1> QED
  BY <1>1, <1>2, MboxInvariant, MboxWoken, PTL
     DEF Spec, ImplementsMessageQueue, Abstract!Spec
=============================================================================
