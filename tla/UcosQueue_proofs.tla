---------------------------- MODULE UcosQueue_proofs ----------------------------
(***************************************************************************)
(* With one receiving task, as every queue of this repository has, the     *)
(* ring keeps its pointers and its count together and is a bounded queue   *)
(* of messages, for any size of the ring.                                  *)
(***************************************************************************)
EXTENDS UcosQueue, UcosKernel_proofs, SequenceTheorems

OneConsumer == \A p, q \in Consumer : p = q

-------------------------------------------------------------------------------
(* A pointer that goes past the last slot comes back to the first.         *)
LEMMA Wrapping ==
  ASSUME NEW n \in 0..2 * Size - 1
  PROVE  n % Size = IF n < Size THEN n ELSE n - Size
<1> DEFINE q == n \div Size
           r == n % Size
<1>1. Size \in Nat \ {0}
  BY QueueAssumption
<1>2. q \in Int /\ r \in 0..Size-1 /\ n = Size * q + r
  BY <1>1
<1> HIDE DEF q, r
<1>3. q # 0 => q >= 1 \/ q <= -1
  BY <1>2
<1>4. CASE q = 0
  BY <1>1, <1>2, <1>4 DEF r
<1>5. CASE q = 1
  BY <1>1, <1>2, <1>5 DEF r
<1>6. CASE q >= 2
  <2>1. Size * q >= 2 * Size
    BY <1>1, <1>2, <1>6
  <2> QED
    BY <1>1, <1>2, <2>1
<1>7. CASE q <= -1
  <2>1. Size * q <= -Size
    BY <1>1, <1>2, <1>7
  <2> QED
    BY <1>1, <1>2, <2>1
<1> QED
  BY <1>2, <1>4, <1>5, <1>6, <1>7

(* The slot k after i, which is how the abstract queue counts.             *)
At(i, k) == IF i + k < Size THEN i + k ELSE i + k - Size

LEMMA AtSlot ==
  ASSUME NEW i \in 0..Size-1, NEW k \in 0..Size
  PROVE  (i + k) % Size = At(i, k) /\ At(i, k) \in 0..Size-1
<1>1. Size \in Nat \ {0} /\ i + k \in 0..2 * Size - 1
  BY QueueAssumption
<1> QED
  BY <1>1, Wrapping DEF At

LEMMA AtInRange ==
  \A i, k \in 0..Size-1 : At(i, k) \in 0..Size-1
BY QueueAssumption DEF At

(* Stepping a pointer, and the slots between two pointers.                 *)
LEMMA Stepping ==
  ASSUME NEW i \in 0..Size-1
  PROVE  /\ NextSlot(i) = At(i, 1) /\ NextSlot(i) \in 0..Size-1
         /\ PrevSlot(i) \in 0..Size-1
         /\ \A k \in 0..Size-1 : /\ At(NextSlot(i), k) = At(i, k + 1)
                                 /\ At(PrevSlot(i), k + 1) = At(i, k)
                                 /\ NextSlot(At(i, k)) = At(i, k + 1)
         /\ At(i, 0) = i
         /\ \A j, k \in 0..Size-1 : At(i, j) = At(i, k) => j = k
BY QueueAssumption DEF At, NextSlot, PrevSlot

-------------------------------------------------------------------------------
(***************************************************************************)
(* The inductive invariant.  That the task woken finds a message is what   *)
(* keeps the count, a byte, from going below 0.                            *)
(***************************************************************************)
RingOK ==
  /\ slot \in [0..Size-1 -> Msg \cup {NULL}]
  /\ qIn \in 0..Size-1 /\ qOut \in 0..Size-1
  /\ entries \in 0..Size /\ qIn = At(qOut, entries)
  /\ \A k \in 0..Size-1 : k < entries => slot[At(qOut, k)] \in Msg

Flagged ==
  /\ qWait \subseteq Consumer
  /\ \A p \in Prio : /\ "OS_STAT_Q" \in stat[p] <=> p \in qWait
                     /\ p \in qWait => pc[p] \in Pending
                     /\ pc[p] \in Pending => p \in Consumer

WokenFindsMessage ==
  \A p \in Consumer : pc[p] \in Pending /\ p \notin qWait => entries # 0

WaitsOnEmpty == qWait # {} => entries = 0

QueueInv ==
  /\ SchedInv /\ got \in Msg \cup {NULL}
  /\ RingOK /\ Flagged /\ WokenFindsMessage /\ WaitsOnEmpty

LEMMA QueueFacts ==
  ASSUME QueueInv
  PROVE  /\ Consumer \subseteq UserTask /\ UserTask \subseteq Prio
         /\ Prio \subseteq Nat /\ NULL \notin Msg /\ "OS_STAT_Q" \in StatFlag
         /\ pc \in [Prio -> Label] /\ stat \in [Prio -> SUBSET StatFlag]
         /\ cur \in Prio /\ Size \in 1..255
BY KernelAssumption, QueueAssumption DEF QueueInv, SchedInv, KernelTypeOK, UserTask

LEMMA RingFacts ==
  ASSUME QueueInv
  PROVE  /\ slot \in [0..Size-1 -> Msg \cup {NULL}]
         /\ qIn \in 0..Size-1 /\ qOut \in 0..Size-1
         /\ entries \in 0..Size /\ qIn = At(qOut, entries)
BY DEF QueueInv, RingOK

LEMMA InitQueue ==
  ASSUME Init
  PROVE  QueueInv
<1>1. SchedInv
  BY KernelInitSched DEF Init
<1>2. RingOK
  BY QueueAssumption DEF Init, RingOK, At
<1>3. Flagged /\ WokenFindsMessage /\ WaitsOnEmpty
  BY QueueAssumption
     DEF Init, KernelInit, Flagged, WokenFindsMessage, WaitsOnEmpty, Pending, UserTask
<1> QED
  BY <1>1, <1>2, <1>3 DEF QueueInv, Init

LEMMA KernelStepQueue ==
  ASSUME QueueInv, KernelNext, UNCHANGED queueVars
  PROVE  QueueInv'
<1>1. SchedInv'
  BY KernelStepSched DEF QueueInv
<1>2. /\ stat' = stat
      /\ \A p \in Prio : pc'[p] \in Pending <=> pc[p] \in Pending
  BY KernelKeepsPending DEF QueueInv, SchedInv
<1>3. UNCHANGED <<slot, qIn, qOut, entries, qWait, got>>
  BY DEF queueVars, ringVars
<1>4. RingOK' /\ WaitsOnEmpty'
  BY <1>3 DEF QueueInv, RingOK, WaitsOnEmpty
<1>5. Flagged' /\ WokenFindsMessage'
  BY <1>2, <1>3, QueueFacts DEF QueueInv, Flagged, WokenFindsMessage
<1> QED
  BY <1>1, <1>3, <1>4, <1>5 DEF QueueInv

LEMMA StutterQueue ==
  ASSUME QueueInv, UNCHANGED vars
  PROVE  QueueInv'
<1>1. UNCHANGED <<slot, qIn, qOut, entries, qWait, got, stat, pc, kernelVars>>
  BY DEF vars, queueVars, ringVars, kernelVars, tcbVars
<1>2. SchedInv'
  BY <1>1, UnchangedSched DEF QueueInv
<1> QED
  BY <1>1, <1>2 DEF QueueInv, RingOK, Flagged, WokenFindsMessage, WaitsOnEmpty

-------------------------------------------------------------------------------
(* The oldest message leaves the ring.                                     *)
LEMMA TakeRing ==
  ASSUME QueueInv, entries # 0, TakeMsg
  PROVE  RingOK' /\ got' \in Msg /\ entries' = entries - 1
<1>1. entries \in 1..255 /\ Size \in 1..255
  <2>1. entries \in 0..Size /\ Size \in 1..255
    BY RingFacts, QueueAssumption
  <2> QED
    BY <2>1
<1>2. entries' = entries - 1
  BY <1>1 DEF TakeMsg
<1>3. got' \in Msg
  <2>1. slot[At(qOut, 0)] \in Msg
    BY <1>1 DEF QueueInv, RingOK
  <2> QED
    BY <2>1, Stepping DEF TakeMsg, QueueInv, RingOK
<1>4. qOut \in 0..Size-1 /\ qOut' = NextSlot(qOut) /\ slot' = slot /\ qIn' = qIn
  BY DEF TakeMsg, QueueInv, RingOK
<1>5. qOut' \in 0..Size-1
  BY <1>4, Stepping
<1>6. \A k \in 0..Size-1 : At(qOut', k) = At(qOut, k + 1)
  BY <1>4, Stepping
<1>7. qIn' = At(qOut', entries')
  <2>1. entries' \in 0..Size-1 /\ entries' + 1 = entries
    BY <1>1, <1>2 DEF QueueInv, RingOK
  <2>2. At(qOut', entries') = At(qOut, entries)
    BY <1>6, <2>1
  <2> QED
    BY <1>4, <2>2 DEF QueueInv, RingOK
<1>8. \A k \in 0..Size-1 : k < entries' => slot'[At(qOut', k)] \in Msg
  <2> SUFFICES ASSUME NEW k \in 0..Size-1, k < entries'
               PROVE  slot[At(qOut, k + 1)] \in Msg
    BY <1>4, <1>6
  <2>1. k + 1 \in 0..Size-1 /\ k + 1 < entries
    BY <1>1, <1>2 DEF QueueInv, RingOK
  <2> QED
    BY <2>1 DEF QueueInv, RingOK
<1> QED
  BY <1>1, <1>2, <1>3, <1>4, <1>5, <1>7, <1>8 DEF QueueInv, RingOK

(* A message enters it, at either end.                                     *)
LEMMA PutRing ==
  ASSUME QueueInv, NEW m \in Msg, entries < Size,
         PutBack(m) \/ PutFront(m), entries' = entries + 1
  PROVE  RingOK'
<1>1. /\ entries \in 0..Size-1 /\ Size \in 1..255 /\ entries' \in 0..Size
      /\ qIn \in 0..Size-1 /\ qOut \in 0..Size-1 /\ qIn = At(qOut, entries)
      /\ slot \in [0..Size-1 -> Msg \cup {NULL}]
  BY RingFacts, QueueAssumption
<1>2. CASE PutBack(m)
  <2>1. qIn' = NextSlot(qIn) /\ qOut' = qOut /\ slot' = [slot EXCEPT ![qIn] = m]
    BY <1>2 DEF PutBack
  <2>2. qIn' = At(qOut, entries + 1) /\ qIn' \in 0..Size-1
    BY <1>1, <2>1, Stepping
  <2>3. ASSUME NEW k \in 0..Size-1, k < entries' PROVE slot'[At(qOut, k)] \in Msg
    <3>1. At(qOut, k) \in 0..Size-1
      BY <1>1, AtInRange
    <3>2. CASE k = entries
      BY <1>1, <2>1, <3>2
    <3>3. CASE k < entries
      <4>1. slot[At(qOut, k)] \in Msg
        BY <3>3 DEF QueueInv, RingOK
      <4> QED
        BY <1>1, <2>1, <3>1, <4>1
    <3> QED
      BY <1>1, <2>3, <3>2, <3>3
  <2> QED
    BY <1>1, <2>1, <2>2, <2>3 DEF RingOK
<1>3. CASE PutFront(m)
  <2>1. qOut' = PrevSlot(qOut) /\ qIn' = qIn /\ slot' = [slot EXCEPT ![qOut'] = m]
    BY <1>3 DEF PutFront
  <2>2. qOut' \in 0..Size-1 /\ \A k \in 0..Size-1 : At(qOut', k + 1) = At(qOut, k)
    BY <1>1, <2>1, Stepping
  <2>3. qIn' = At(qOut', entries')
    BY <1>1, <2>1, <2>2
  <2>4. ASSUME NEW k \in 0..Size-1, k < entries' PROVE slot'[At(qOut', k)] \in Msg
    <3>1. At(qOut', k) \in 0..Size-1
      BY <2>2, AtInRange
    <3>2. CASE k = 0
      BY <1>1, <2>1, <2>2, <3>2, Stepping
    <3>3. CASE k # 0
      <4>1. k - 1 \in 0..Size-1 /\ k - 1 < entries /\ At(qOut', k) = At(qOut, k - 1)
        <5>1. k - 1 \in 0..Size-1 /\ k - 1 < entries /\ (k - 1) + 1 = k
          BY <1>1, <2>4, <3>3
        <5> QED
          BY <2>2, <5>1
      <4>2. slot[At(qOut, k - 1)] \in Msg
        BY <4>1 DEF QueueInv, RingOK
      <4> QED
        BY <1>1, <2>1, <2>2, <3>1, <4>1, <4>2
    <3> QED
      BY <3>2, <3>3
  <2> QED
    BY <1>1, <2>1, <2>2, <2>3, <2>4 DEF RingOK
<1> QED
  BY <1>2, <1>3

-------------------------------------------------------------------------------
LEMMA TakeQueue ==
  ASSUME OneConsumer, QueueInv, NEW p \in Prio, PendTake(p)
  PROVE  QueueInv'
<1>1. /\ p \in Consumer /\ pc[p] = "run" /\ entries # 0 /\ TakeMsg
      /\ UNCHANGED <<kernelVars, qWait>> /\ stat' = stat /\ pc' = pc
  BY DEF PendTake, MayCall, kernelVars, tcbVars
<1>2. SchedInv'
  BY <1>1, UnchangedSched DEF QueueInv
<1>3. RingOK' /\ got' \in Msg
  BY <1>1, TakeRing
<1>4. Flagged'
  BY <1>1 DEF QueueInv, Flagged
<1>5. WokenFindsMessage'
  BY <1>1 DEF WokenFindsMessage, OneConsumer, Pending
<1>6. WaitsOnEmpty'
  BY <1>1 DEF QueueInv, WaitsOnEmpty
<1> QED
  BY <1>2, <1>3, <1>4, <1>5, <1>6 DEF QueueInv

LEMMA WaitQueue ==
  ASSUME OneConsumer, QueueInv, NEW p \in Prio, NEW t \in Timeouts, PendWait(p, t)
  PROVE  QueueInv'
<1>1. /\ p \in Consumer /\ entries = 0 /\ qWait' = qWait \cup {p}
      /\ stat' = [stat EXCEPT ![p] = @ \cup {"OS_STAT_Q"}]
      /\ pc' = [pc EXCEPT ![p] = "pendSched"]
      /\ UNCHANGED <<slot, qIn, qOut, entries, got>>
  BY DEF PendWait, Block, Goto, ringVars
<1>2. SchedInv'
  BY BlockSched, KernelAssumption, QueueFacts DEF QueueInv, PendWait
<1>3. RingOK' /\ WaitsOnEmpty'
  BY <1>1 DEF QueueInv, RingOK, WaitsOnEmpty
<1>4. Flagged'
  BY <1>1, QueueFacts DEF QueueInv, Flagged, Pending
<1>5. WokenFindsMessage'
  BY <1>1 DEF WokenFindsMessage, OneConsumer
<1> QED
  BY <1>1, <1>2, <1>3, <1>4, <1>5 DEF QueueInv

LEMMA ServedQueue ==
  ASSUME OneConsumer, QueueInv, NEW p \in Prio, PendServed(p)
  PROVE  QueueInv' /\ entries # 0
<1>1. /\ pc[p] = "pendWake" /\ "OS_STAT_Q" \notin stat[p] /\ TakeMsg
      /\ pc' = [pc EXCEPT ![p] = "run"] /\ stat' = stat /\ qWait' = qWait
  BY DEF PendServed, Goto, tcbVars
<1>2. p \in Consumer /\ p \notin qWait
  BY <1>1 DEF QueueInv, Flagged, Pending
<1>3. entries # 0
  BY <1>1, <1>2 DEF QueueInv, WokenFindsMessage, Pending
<1>4. SchedInv'
  BY ReturnSched DEF QueueInv, PendServed, tcbVars
<1>5. RingOK' /\ got' \in Msg
  BY <1>1, <1>3, TakeRing
<1>6. Flagged'
  BY <1>1, <1>2, QueueFacts DEF QueueInv, Flagged, Pending
<1>7. WokenFindsMessage'
  BY <1>1, <1>2, QueueFacts DEF WokenFindsMessage, OneConsumer, Pending
<1>8. WaitsOnEmpty'
  BY <1>1, <1>3 DEF QueueInv, WaitsOnEmpty
<1> QED
  BY <1>3, <1>4, <1>5, <1>6, <1>7, <1>8 DEF QueueInv

LEMMA TimeoutQueue ==
  ASSUME OneConsumer, QueueInv, NEW p \in Prio, PendTimeout(p)
  PROVE  QueueInv'
<1>1. /\ pc[p] = "pendWake" /\ "OS_STAT_Q" \in stat[p]
      /\ pc' = [pc EXCEPT ![p] = "run"] /\ stat' = [stat EXCEPT ![p] = {}]
      /\ qWait' = qWait \ {p}
      /\ UNCHANGED <<slot, qIn, qOut, entries, got>>
  BY DEF PendTimeout, Goto, ringVars
<1>2. p \in Consumer
  BY <1>1 DEF QueueInv, Flagged, Pending
<1>3. SchedInv'
  BY ReturnSched DEF QueueInv, PendTimeout
<1>4. RingOK' /\ WaitsOnEmpty'
  BY <1>1 DEF QueueInv, RingOK, WaitsOnEmpty
<1>5. Flagged'
  BY <1>1, <1>2, QueueFacts DEF QueueInv, Flagged, Pending
<1>6. WokenFindsMessage'
  BY <1>1, <1>2, QueueFacts DEF WokenFindsMessage, OneConsumer, Pending
<1> QED
  BY <1>1, <1>3, <1>4, <1>5, <1>6 DEF QueueInv

(* A post, whatever else its caller does.                                  *)
LEMMA PostedQueue ==
  ASSUME OneConsumer, QueueInv, NEW m \in Msg, NEW woken, Posted(m, woken), got' = got,
         SchedInv', \A p \in Prio : pc'[p] \in Pending <=> pc[p] \in Pending
  PROVE  QueueInv'
<1>1. entries < Size /\ (PutBack(m) \/ PutFront(m)) /\ entries' = entries + 1
  BY DEF Posted
<1>2. RingOK' /\ entries' # 0
  BY <1>1, PutRing DEF QueueInv, RingOK
<1>3. WokenFindsMessage'
  BY <1>2 DEF WokenFindsMessage
<1>4. CASE qWait # {}
  <2> DEFINE q == Min(qWait)
  <2>1. q \in qWait
    BY <1>4, MinIsLeast, QueueFacts DEF QueueInv, Flagged
  <2>2. Wake(q, "OS_STAT_Q") /\ qWait' = qWait \ {q}
    BY <1>4 DEF Posted
  <2> HIDE DEF q
  <2>3. q \in Prio /\ q \in Consumer
    BY <2>1, QueueFacts DEF QueueInv, Flagged
  <2>4. Flagged'
    BY <2>2, <2>3, QueueFacts DEF Wake, QueueInv, Flagged
  <2>5. qWait' = {}
    BY <2>2, <2>3 DEF OneConsumer, QueueInv, Flagged
  <2> QED
    BY <1>2, <1>3, <2>4, <2>5 DEF QueueInv, WaitsOnEmpty
<1>5. CASE qWait = {}
  <2>1. UNCHANGED <<tcbVars, qWait>>
    BY <1>5 DEF Posted
  <2>2. Flagged' /\ WaitsOnEmpty'
    BY <1>5, <2>1 DEF QueueInv, Flagged, WaitsOnEmpty, tcbVars
  <2> QED
    BY <1>2, <1>3, <2>2 DEF QueueInv
<1> QED
  BY <1>4, <1>5

LEMMA PostQueue ==
  ASSUME OneConsumer, QueueInv, NEW m \in Msg,
         ISRPost(m) \/ \E p \in Prio : TaskPost(p, m)
  PROVE  QueueInv'
<1>1. qWait # {} => Min(qWait) \in Prio
  BY MinIsLeast, QueueFacts DEF QueueInv, Flagged
<1>2. CASE ISRPost(m)
  <2>1. PICK woken \in BOOLEAN : Posted(m, woken)
    BY <1>2 DEF ISRPost
  <2>2. SchedInv'
    <3>1. CASE qWait # {}
      BY <1>1, <1>2, <2>1, <3>1, ISRWakeSched DEF QueueInv, ISRPost, Posted
    <3>2. CASE qWait = {}
      BY <1>2, <2>1, <3>2, UnchangedSched
         DEF QueueInv, ISRPost, Posted, kernelVars, tcbVars
    <3> QED
      BY <3>1, <3>2
  <2> QED
    BY <1>2, <2>1, <2>2, PostedQueue DEF ISRPost
<1>3. ASSUME NEW p \in Prio, TaskPost(p, m) PROVE QueueInv'
  <2>1. PICK woken \in BOOLEAN :
          /\ Posted(m, woken)
          /\ IF woken THEN Goto(p, "sched") ELSE pc' = pc
    BY <1>3 DEF TaskPost
  <2>2. SchedInv'
    <3>1. CASE qWait # {}
      <4>1. Wake(Min(qWait), "OS_STAT_Q") /\ woken = TRUE
        BY <2>1, <3>1 DEF Posted
      <4> QED
        BY <1>1, <1>3, <2>1, <3>1, <4>1, TaskWakeSched DEF QueueInv, TaskPost
    <3>2. CASE qWait = {}
      BY <1>3, <2>1, <3>2, UnchangedSched
         DEF QueueInv, TaskPost, Posted, kernelVars, tcbVars
    <3> QED
      BY <3>1, <3>2
  <2>3. \A q \in Prio : pc'[q] \in Pending <=> pc[q] \in Pending
    BY <1>3, <2>1, QueueFacts DEF TaskPost, MayCall, Goto, Pending
  <2> QED
    BY <1>3, <2>1, <2>2, <2>3, PostedQueue DEF TaskPost
<1> QED
  BY <1>2, <1>3

LEMMA NextQueue ==
  ASSUME OneConsumer, QueueInv, [Next]_vars
  PROVE  QueueInv'
<1>1. CASE UNCHANGED vars
  BY <1>1, StutterQueue
<1>2. CASE KernelNext /\ UNCHANGED queueVars
  BY <1>2, KernelStepQueue
<1>3. CASE QueueNext
  <2>1. ASSUME NEW p \in Prio,
               \/ PendTake(p)
               \/ \E t \in Timeouts : PendWait(p, t)
               \/ PendServed(p)
               \/ PendTimeout(p)
        PROVE  QueueInv'
    BY <2>1, TakeQueue, WaitQueue, ServedQueue, TimeoutQueue
  <2> QED
    BY <1>1, <1>3, <2>1, PostQueue DEF QueueNext, PostFull, PendNoWaitFails
<1> QED
  BY <1>1, <1>2, <1>3 DEF Next

(***************************************************************************)
(* The scheduler, the ring and the waiting task keep their promises to     *)
(* each other in every reachable state.                                    *)
(***************************************************************************)
THEOREM QueueInvariant ==
  ASSUME OneConsumer
  PROVE  Spec => []QueueInv
<1>1. Init => QueueInv
  BY InitQueue
<1>2. QueueInv /\ [Next]_vars => QueueInv'
  BY NextQueue
<1> QED
  BY <1>1, <1>2, PTL DEF Spec

(***************************************************************************)
(* qIn is as many slots after qOut as there are entries, over every wrap   *)
(* at both ends, and the count never leaves the ring's size.               *)
(***************************************************************************)
THEOREM QueueRing ==
  ASSUME OneConsumer
  PROVE  Spec => []RingIsConsistent
<1>1. QueueInv => RingIsConsistent
  <2> SUFFICES ASSUME QueueInv PROVE RingIsConsistent
    OBVIOUS
  <2>1. entries \in 0..Size /\ qOut \in 0..Size-1 /\ qIn = At(qOut, entries)
    BY DEF QueueInv, RingOK
  <2> QED
    BY <2>1, AtSlot, QueueAssumption DEF RingIsConsistent
<1> QED
  BY <1>1, QueueInvariant, PTL

(* No message lies in the ring while its receiver waits.                   *)
THEOREM QueueNoneLeft ==
  ASSUME OneConsumer
  PROVE  Spec => []NoMessageLeft
<1>1. QueueInv => NoMessageLeft
  <2> SUFFICES ASSUME QueueInv, qWait # {} PROVE entries <= Cardinality(Woken)
    BY DEF NoMessageLeft
  <2>1. Woken \subseteq Prio
    BY QueueFacts DEF Woken
  <2>2. IsFiniteSet(Woken)
    BY <2>1, KernelAssumption, FS_Subset
  <2> QED
    BY <2>2, FS_CardinalityType DEF QueueInv, WaitsOnEmpty
<1> QED
  BY <1>1, QueueInvariant, PTL

-------------------------------------------------------------------------------
(* The messages of the abstract queue, oldest first.                       *)
FromRing(f, q, n) == [i \in 1..n |-> f[(q + i - 1) % Size]]
heldMsgs == FromRing(slot, qOut, entries)

LEMMA FromRingIs ==
  ASSUME NEW f \in [0..Size-1 -> Msg \cup {NULL}],
         NEW q \in 0..Size-1, NEW n \in 0..Size,
         \A k \in 0..Size-1 : k < n => f[At(q, k)] \in Msg
  PROVE  /\ FromRing(f, q, n) \in Seq(Msg) /\ Len(FromRing(f, q, n)) = n
         /\ \A i \in 1..n : FromRing(f, q, n)[i] = f[At(q, i - 1)]
<1> DEFINE h == FromRing(f, q, n)
<1>1. Size \in 1..255
  BY QueueAssumption
<1>2. ASSUME NEW i \in 1..n
      PROVE  h[i] = f[At(q, i - 1)] /\ h[i] \in Msg
  <2>1. i - 1 \in 0..Size-1 /\ i - 1 \in 0..Size /\ i - 1 < n /\ q + i - 1 = q + (i - 1)
    BY <1>1
  <2>2. (q + i - 1) % Size = At(q, i - 1)
    BY <2>1, AtSlot
  <2>3. f[At(q, i - 1)] \in Msg
    BY <2>1
  <2> QED
    BY <2>2, <2>3 DEF FromRing
<1>3. h = [i \in 1..n |-> h[i]]
  BY DEF FromRing
<1> HIDE DEF h
<1>4. h \in [1..n -> Msg]
  BY <1>2, <1>3
<1>5. h \in Seq(Msg) /\ Len(h) = n
  BY <1>1, <1>4
<1> QED
  BY <1>2, <1>5 DEF h

LEMMA HeldIs ==
  ASSUME QueueInv
  PROVE  /\ heldMsgs \in Seq(Msg) /\ Len(heldMsgs) = entries
         /\ \A i \in 1..entries : heldMsgs[i] = slot[At(qOut, i - 1)]
BY FromRingIs DEF QueueInv, RingOK, heldMsgs

LEMMA QueueStutters ==
  ASSUME UNCHANGED <<slot, qOut, entries, got>>
  PROVE  UNCHANGED Abstract!absVars
BY DEF Abstract!absVars

LEMMA TakeGets ==
  ASSUME QueueInv, QueueInv', entries # 0, TakeMsg
  PROVE  Abstract!Get
<1>1. /\ heldMsgs \in Seq(Msg) /\ Len(heldMsgs) = entries
      /\ \A i \in 1..entries : heldMsgs[i] = slot[At(qOut, i - 1)]
  BY HeldIs
<1>2. /\ heldMsgs' \in Seq(Msg) /\ Len(heldMsgs') = entries'
      /\ \A i \in 1..entries' : heldMsgs'[i] = slot'[At(qOut', i - 1)]
  BY FromRingIs DEF QueueInv, RingOK, heldMsgs
<1>3. /\ entries' = entries - 1 /\ slot' = slot /\ qOut' = NextSlot(qOut)
      /\ got' = slot[qOut] /\ qOut \in 0..Size-1 /\ entries \in 1..Size
      /\ Size \in 1..255
  BY TakeRing, QueueFacts DEF TakeMsg, QueueInv, RingOK
<1>4. heldMsgs # <<>>
  BY <1>1, <1>3
<1>5. Head(heldMsgs) = got'
  <2>1. At(qOut, 0) = qOut /\ 1 \in 1..entries /\ 1 - 1 = 0
    BY <1>3, Stepping
  <2>2. heldMsgs[1] = slot[qOut]
    BY <1>1, <2>1
  <2> QED
    BY <1>1, <1>3, <1>4, <2>2
<1>6. heldMsgs' = Tail(heldMsgs)
  <2>1. /\ Tail(heldMsgs) \in Seq(Msg) /\ Len(Tail(heldMsgs)) = entries'
        /\ \A i \in 1..entries' : Tail(heldMsgs)[i] = heldMsgs[i + 1]
    BY <1>1, <1>3, <1>4, HeadTailProperties
  <2>2. ASSUME NEW i \in 1..entries' PROVE heldMsgs'[i] = Tail(heldMsgs)[i]
    <3>1. i - 1 \in 0..Size-1 /\ i + 1 \in 1..entries /\ (i - 1) + 1 = (i + 1) - 1
      BY <1>3
    <3>2. At(qOut', i - 1) = At(qOut, (i + 1) - 1)
      BY <1>3, <3>1, Stepping
    <3> QED
      BY <1>1, <1>2, <1>3, <2>1, <3>1, <3>2
  <2> QED
    BY <1>2, <2>1, <2>2, SeqEqual
<1> QED
  BY <1>4, <1>5, <1>6 DEF Abstract!Get, heldMsgs, FromRing

LEMMA PostPuts ==
  ASSUME QueueInv, QueueInv', NEW m \in Msg, NEW woken, Posted(m, woken), got' = got
  PROVE  Abstract!Put(m) \/ Abstract!PutFirst(m)
<1>1. /\ heldMsgs \in Seq(Msg) /\ Len(heldMsgs) = entries
      /\ \A i \in 1..entries : heldMsgs[i] = slot[At(qOut, i - 1)]
  BY HeldIs
<1>2. /\ heldMsgs' \in Seq(Msg) /\ Len(heldMsgs') = entries'
      /\ \A i \in 1..entries' : heldMsgs'[i] = slot'[At(qOut', i - 1)]
  BY FromRingIs DEF QueueInv, RingOK, heldMsgs
<1>3. /\ entries < Size /\ entries' = entries + 1 /\ entries \in 0..Size-1
      /\ qOut \in 0..Size-1 /\ qIn = At(qOut, entries) /\ Size \in 1..255
      /\ slot \in [0..Size-1 -> Msg \cup {NULL}]
  BY RingFacts, QueueAssumption DEF Posted
<1>4. CASE PutBack(m)
  <2>1. qOut' = qOut /\ slot' = [slot EXCEPT ![qIn] = m]
    BY <1>4 DEF PutBack
  <2>2. /\ Append(heldMsgs, m) \in Seq(Msg) /\ Len(Append(heldMsgs, m)) = entries'
        /\ \A i \in 1..entries' :
             Append(heldMsgs, m)[i] = IF i = entries + 1 THEN m ELSE heldMsgs[i]
    BY <1>1, <1>3
  <2>3. ASSUME NEW i \in 1..entries' PROVE heldMsgs'[i] = Append(heldMsgs, m)[i]
    <3>1. /\ i - 1 \in 0..Size-1 /\ At(qOut, i - 1) \in 0..Size-1
          /\ At(qOut, i - 1) = qIn => i - 1 = entries
      <4>1. i - 1 \in 0..Size-1 /\ i - 1 \in 0..Size
        BY <1>3
      <4>2. At(qOut, i - 1) \in 0..Size-1
        BY <1>3, <4>1, AtInRange
      <4> QED
        BY <1>3, <4>1, <4>2, Stepping
    <3>2. CASE i = entries + 1
      BY <1>2, <1>3, <2>1, <2>2, <3>1, <3>2
    <3>3. CASE i # entries + 1
      <4>1. i \in 1..entries /\ At(qOut, i - 1) # qIn
        BY <1>3, <3>1, <3>3
      <4> QED
        BY <1>1, <1>2, <1>3, <2>1, <2>2, <3>1, <3>3, <4>1
    <3> QED
      BY <3>2, <3>3
  <2>4. heldMsgs' = Append(heldMsgs, m)
    BY <1>2, <2>2, <2>3, SeqEqual
  <2> QED
    BY <1>1, <1>3, <2>4 DEF Abstract!Put, heldMsgs, FromRing
<1>5. CASE PutFront(m)
  <2>1. /\ qOut' = PrevSlot(qOut) /\ slot' = [slot EXCEPT ![qOut'] = m]
        /\ qOut' \in 0..Size-1
        /\ \A k \in 0..Size-1 : At(qOut', k + 1) = At(qOut, k)
    BY <1>3, <1>5, Stepping DEF PutFront
  <2>2. /\ <<m>> \in Seq(Msg) /\ Len(<<m>>) = 1 /\ <<m>>[1] = m
    OBVIOUS
  <2>3. /\ <<m>> \o heldMsgs \in Seq(Msg) /\ Len(<<m>> \o heldMsgs) = entries'
        /\ \A i \in 1..entries' :
             (<<m>> \o heldMsgs)[i] = IF i <= 1 THEN <<m>>[i] ELSE heldMsgs[i - 1]
    BY <1>1, <1>3, <2>2, ConcatProperties
  <2>4. ASSUME NEW i \in 1..entries' PROVE heldMsgs'[i] = (<<m>> \o heldMsgs)[i]
    <3>1. CASE i = 1
      <4>1. At(qOut', i - 1) = qOut'
        BY <2>1, <3>1, Stepping
      <4> QED
        BY <1>2, <1>3, <2>1, <2>2, <2>3, <3>1, <4>1
    <3>2. CASE i # 1
      <4>1. /\ i - 1 \in 1..entries /\ i - 2 \in 0..Size-1 /\ (i - 2) + 1 = i - 1
            /\ (i - 1) - 1 = i - 2 /\ i - 1 \in 0..Size-1
        BY <1>3, <3>2
      <4>2. At(qOut', i - 1) = At(qOut, i - 2)
        BY <2>1, <4>1
      <4>3. At(qOut', i - 1) # qOut' /\ At(qOut', i - 1) \in 0..Size-1
        <5>1. At(qOut', 0) = qOut' /\ (At(qOut', 0) = At(qOut', i - 1) => 0 = i - 1)
          BY <1>3, <2>1, <4>1, Stepping
        <5>2. At(qOut', i - 1) \in 0..Size-1
          BY <2>1, <4>1, AtInRange
        <5> QED
          BY <4>1, <5>1, <5>2
      <4>4. heldMsgs'[i] = slot[At(qOut, i - 2)]
        BY <1>2, <1>3, <2>1, <4>2, <4>3
      <4>5. heldMsgs[i - 1] = slot[At(qOut, i - 2)]
        BY <1>1, <4>1
      <4> QED
        BY <1>3, <2>3, <3>2, <4>4, <4>5
    <3> QED
      BY <3>1, <3>2
  <2>5. heldMsgs' = <<m>> \o heldMsgs
    BY <1>2, <2>3, <2>4, SeqEqual
  <2> QED
    BY <1>1, <1>3, <2>5 DEF Abstract!PutFirst, heldMsgs, FromRing
<1> QED
  BY <1>4, <1>5 DEF Posted

(***************************************************************************)
(* With one receiving task a queue is a MessageQueue of OSQSize messages:  *)
(* what OSQPost and OSQPostFirst accept is received once and in order,     *)
(* whatever timeouts and interrupts come in between.                       *)
(***************************************************************************)
THEOREM QueueImplements ==
  ASSUME OneConsumer
  PROVE  Spec => ImplementsMessageQueue
<1>1. Init => Abstract!Init
  <2> SUFFICES ASSUME Init PROVE Abstract!Init
    OBVIOUS
  <2>1. heldMsgs \in Seq(Msg) /\ Len(heldMsgs) = 0
    BY InitQueue, HeldIs DEF Init
  <2>2. heldMsgs = <<>>
    BY <2>1
  <2> QED
    BY <2>2 DEF Abstract!Init, heldMsgs, FromRing, Init
<1>2. QueueInv /\ QueueInv' /\ [Next]_vars => [Abstract!Next]_Abstract!absVars
  <2> SUFFICES ASSUME QueueInv, QueueInv', [Next]_vars
               PROVE  Abstract!Next \/ UNCHANGED Abstract!absVars
    OBVIOUS
  <2>1. CASE UNCHANGED queueVars
    BY <2>1, QueueStutters DEF queueVars, ringVars
  <2>2. CASE UNCHANGED vars
    BY <2>2, <2>1 DEF vars
  <2>3. ASSUME NEW p \in Prio, PendTake(p) \/ PendServed(p)
        PROVE  Abstract!Next
    <3>1. entries # 0 /\ TakeMsg
      BY <2>3, QueueFacts
         DEF PendTake, PendServed, QueueInv, WokenFindsMessage, Flagged, Pending
    <3> QED
      BY <3>1, TakeGets DEF Abstract!Next
  <2>4. ASSUME NEW p \in Prio,
               \/ \E t \in Timeouts : PendWait(p, t)
               \/ PendNoWaitFails(p)
               \/ PendTimeout(p)
        PROVE  UNCHANGED Abstract!absVars
    <3>1. UNCHANGED <<slot, qOut, entries, got>>
      BY <2>4 DEF PendWait, PendNoWaitFails, PendTimeout, vars, queueVars, ringVars
    <3> QED
      BY <3>1, QueueStutters
  <2>5. ASSUME NEW m \in Msg, ISRPost(m) \/ \E p \in Prio : TaskPost(p, m)
        PROVE  Abstract!Next
    BY <2>5, PostPuts DEF ISRPost, TaskPost, Abstract!Next
  <2> QED
    BY <2>1, <2>2, <2>3, <2>4, <2>5 DEF Next, QueueNext, PostFull
<1> QED
  BY <1>1, <1>2, QueueInvariant, PTL
     DEF Spec, ImplementsMessageQueue, Abstract!Spec
=============================================================================
