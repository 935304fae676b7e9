---------------------------- MODULE UcosFifo_proofs ----------------------------
(***************************************************************************)
(* With one receiving task, as every FIFO of this repository has, the      *)
(* pointers of a FIFO always form one chain, the woken task finds its      *)
(* element at the head, and the FIFO is a queue of elements, for any       *)
(* number of them.                                                         *)
(***************************************************************************)
EXTENDS UcosFifo, UcosKernel_proofs, SequenceTheorems

OneConsumer == \A p, q \in Consumer : p = q

-------------------------------------------------------------------------------
(***************************************************************************)
(* What PointersFormChain says, of any chain c of elements with the head   *)
(* h, the tail t and the links n; and that no element is in it twice,      *)
(* without which taking the head would cut the chain further back.         *)
(***************************************************************************)
Linked(c, h, t, n) ==
  /\ c \in Seq(Element)
  /\ n \in [Element -> Element \cup {NULL}]
  /\ \A i, j \in 1..Len(c) : c[i] = c[j] => i = j
  /\ h = IF Len(c) = 0 THEN NULL ELSE c[1]
  /\ t = IF Len(c) = 0 THEN NULL ELSE c[Len(c)]
  /\ \A i \in 1..Len(c) : n[c[i]] = IF i = Len(c) THEN NULL ELSE c[i + 1]
  /\ \A e \in Element : (\A i \in 1..Len(c) : c[i] # e) => n[e] = NULL

(* The ends are NULL exactly when nothing is linked.                       *)
LEMMA LinkedEnds ==
  ASSUME NEW c, NEW h, NEW t, NEW n, Linked(c, h, t, n)
  PROVE  /\ Len(c) \in Nat
         /\ h = NULL <=> c = <<>>
         /\ t = NULL <=> c = <<>>
         /\ Len(c) = 0 <=> c = <<>>
         /\ c # <<>> => /\ h \in Element /\ h = c[1] /\ h = Head(c)
                        /\ t \in Element /\ t = c[Len(c)]
                        /\ 1 \in 1..Len(c) /\ Len(c) \in 1..Len(c)
<1>1. c \in Seq(Element) /\ NULL \notin Element
  BY FifoAssumption DEF Linked
<1>2. Len(c) \in Nat /\ (Len(c) = 0 <=> c = <<>>)
  BY <1>1
<1>3. Len(c) # 0 => c[1] \in Element /\ c[Len(c)] \in Element /\ Head(c) = c[1]
  BY <1>1, <1>2
<1> QED
  BY <1>1, <1>2, <1>3 DEF Linked

(* Taking the head. *)
LEMMA LinkedTake ==
  ASSUME NEW c, NEW h, NEW t, NEW n, Linked(c, h, t, n), c # <<>>
  PROVE  Linked(Tail(c), n[h], IF n[h] = NULL THEN NULL ELSE t, [n EXCEPT ![h] = NULL])
<1> DEFINE d == Tail(c)
           m == [n EXCEPT ![h] = NULL]
           u == IF n[h] = NULL THEN NULL ELSE t
<1>1. /\ c \in Seq(Element) /\ Len(c) \in Nat \ {0} /\ NULL \notin Element
      /\ n \in [Element -> Element \cup {NULL}]
      /\ h = c[1] /\ h \in Element /\ 1 \in 1..Len(c)
      /\ t = c[Len(c)] /\ t \in Element
  BY LinkedEnds, FifoAssumption DEF Linked
<1>2. /\ d \in Seq(Element) /\ Len(d) = Len(c) - 1
      /\ \A i \in 1..Len(d) : d[i] = c[i + 1] /\ i + 1 \in 1..Len(c)
  BY <1>1
<1>3. n[h] = IF Len(c) = 1 THEN NULL ELSE c[2]
  <2>1. n[c[1]] = IF 1 = Len(c) THEN NULL ELSE c[1 + 1]
    BY <1>1 DEF Linked
  <2> QED
    BY <1>1, <2>1
<1>4. m \in [Element -> Element \cup {NULL}]
  BY <1>1
<1> HIDE DEF d, m
<1>5. \A i, j \in 1..Len(d) : d[i] = d[j] => i = j
  <2> TAKE i, j \in 1..Len(d)
  <2>1. d[i] = c[i + 1] /\ d[j] = c[j + 1] /\ i + 1 \in 1..Len(c) /\ j + 1 \in 1..Len(c)
    BY <1>2
  <2>2. c[i + 1] = c[j + 1] => i + 1 = j + 1
    BY <2>1 DEF Linked
  <2> QED
    BY <1>1, <1>2, <2>1, <2>2
<1>6. n[h] = IF Len(d) = 0 THEN NULL ELSE d[1]
  BY <1>1, <1>2, <1>3
<1>7. u = IF Len(d) = 0 THEN NULL ELSE d[Len(d)]
  <2>1. CASE Len(c) = 1
    BY <1>2, <1>3, <2>1
  <2>2. CASE Len(c) # 1
    <3>1. Len(d) \in 1..Len(d) /\ Len(d) + 1 = Len(c) /\ 2 \in 1..Len(c)
      BY <1>1, <1>2, <2>2
    <3>2. n[h] # NULL /\ d[Len(d)] = t
      BY <1>1, <1>2, <1>3, <3>1, <2>2
    <3> QED
      BY <3>1, <3>2
  <2> QED
    BY <2>1, <2>2
<1>8. \A i \in 1..Len(d) : m[d[i]] = IF i = Len(d) THEN NULL ELSE d[i + 1]
  <2> TAKE i \in 1..Len(d)
  <2>1. d[i] = c[i + 1] /\ i + 1 \in 1..Len(c) /\ i + 1 # 1 /\ c[i + 1] \in Element
    BY <1>1, <1>2
  <2>2. c[i + 1] # h
    BY <1>1, <2>1 DEF Linked
  <2>3. m[c[i + 1]] = n[c[i + 1]]
    BY <1>1, <2>1, <2>2 DEF m
  <2>4. n[c[i + 1]] = IF i + 1 = Len(c) THEN NULL ELSE c[i + 1 + 1]
    BY <2>1 DEF Linked
  <2>5. i # Len(d) => i + 1 \in 1..Len(d)
    BY <1>1, <1>2
  <2>6. i # Len(d) => d[i + 1] = c[i + 1 + 1]
    BY <1>2, <2>5
  <2> QED
    BY <1>1, <1>2, <2>1, <2>3, <2>4, <2>6
<1>9. \A e \in Element : (\A i \in 1..Len(d) : d[i] # e) => m[e] = NULL
  <2> SUFFICES ASSUME NEW e \in Element, \A i \in 1..Len(d) : d[i] # e, e # h
               PROVE  \A i \in 1..Len(c) : c[i] # e
    BY <1>1 DEF Linked, m
  <2> TAKE i \in 1..Len(c)
  <2>1. i # 1 => i - 1 \in 1..Len(d) /\ (i - 1) + 1 = i
    BY <1>1, <1>2
  <2>2. i # 1 => c[i] = d[i - 1]
    BY <1>2, <2>1
  <2> QED
    BY <1>1, <2>1, <2>2
<1> QED
  BY <1>2, <1>4, <1>5, <1>6, <1>7, <1>8, <1>9 DEF Linked, d, m

(* Linking an element that is not in the chain, at the back ... *)
LEMMA LinkedBack ==
  ASSUME NEW c, NEW h, NEW t, NEW n, Linked(c, h, t, n),
         NEW e \in Element, \A i \in 1..Len(c) : c[i] # e
  PROVE  Linked(Append(c, e), IF t = NULL THEN e ELSE h, e,
                IF t = NULL THEN [n EXCEPT ![e] = NULL]
                            ELSE [n EXCEPT ![e] = NULL, ![t] = e])
<1> DEFINE d == Append(c, e)
           m == IF t = NULL THEN [n EXCEPT ![e] = NULL]
                            ELSE [n EXCEPT ![e] = NULL, ![t] = e]
<1>1. /\ c \in Seq(Element) /\ Len(c) \in Nat /\ NULL \notin Element
      /\ n \in [Element -> Element \cup {NULL}]
      /\ t = NULL <=> Len(c) = 0
      /\ t # NULL => t \in Element /\ t = c[Len(c)] /\ Len(c) \in 1..Len(c)
      /\ h = IF Len(c) = 0 THEN NULL ELSE c[1]
  BY LinkedEnds, FifoAssumption DEF Linked
<1>2. /\ d \in Seq(Element) /\ Len(d) = Len(c) + 1 /\ d[Len(d)] = e
      /\ \A i \in 1..Len(c) : d[i] = c[i]
  BY <1>1
<1>3. \A i \in 1..Len(d) : i # Len(d) => i \in 1..Len(c)
  BY <1>1, <1>2
<1>4. m \in [Element -> Element \cup {NULL}]
  BY <1>1
<1>5. m[e] = NULL
  BY <1>1
<1>6. t # NULL => m[t] = e
  BY <1>1
<1>7. \A x \in Element : x # e /\ x # t => m[x] = n[x]
  BY <1>1
<1> HIDE DEF d, m
<1>8. \A i, j \in 1..Len(d) : d[i] = d[j] => i = j
  BY <1>2, <1>3 DEF Linked
<1>9. (IF t = NULL THEN e ELSE h) = IF Len(d) = 0 THEN NULL ELSE d[1]
  <2>1. Len(c) # 0 => 1 \in 1..Len(c) /\ d[1] = c[1]
    BY <1>1, <1>2
  <2> QED
    BY <1>1, <1>2, <2>1
<1>10. \A i \in 1..Len(d) : m[d[i]] = IF i = Len(d) THEN NULL ELSE d[i + 1]
  <2> TAKE i \in 1..Len(d)
  <2>1. CASE i = Len(d)
    BY <1>2, <1>5, <2>1
  <2>2. CASE i # Len(d) /\ i = Len(c)
    BY <1>1, <1>2, <1>3, <1>6, <2>2
  <2>3. CASE i # Len(d) /\ i # Len(c)
    <3>1. i \in 1..Len(c) /\ i + 1 \in 1..Len(c) /\ Len(c) # 0
      BY <1>1, <1>2, <1>3, <2>3
    <3>2. d[i] = c[i] /\ d[i + 1] = c[i + 1] /\ n[c[i]] = c[i + 1]
      BY <1>2, <2>3, <3>1 DEF Linked
    <3>3. c[i] \in Element /\ c[i] # e /\ c[i] # t
      BY <1>1, <2>3, <3>1 DEF Linked
    <3> QED
      BY <1>7, <2>3, <3>2, <3>3
  <2> QED
    BY <2>1, <2>2, <2>3
<1>11. \A x \in Element : (\A i \in 1..Len(d) : d[i] # x) => m[x] = NULL
  <2> SUFFICES ASSUME NEW x \in Element, \A i \in 1..Len(d) : d[i] # x
               PROVE  m[x] = NULL
    OBVIOUS
  <2>1. Len(d) \in 1..Len(d) /\ \A i \in 1..Len(c) : i \in 1..Len(d)
    BY <1>1, <1>2
  <2>2. x # e /\ \A i \in 1..Len(c) : c[i] # x
    BY <1>2, <2>1
  <2>3. n[x] = NULL /\ x # t
    BY <1>1, <2>2 DEF Linked
  <2> QED
    BY <1>7, <2>2, <2>3
<1>12. e = IF Len(d) = 0 THEN NULL ELSE d[Len(d)]
  BY <1>1, <1>2
<1> QED
  BY <1>2, <1>4, <1>8, <1>9, <1>10, <1>11, <1>12 DEF Linked, d, m

(* ... and at the front. *)
LEMMA LinkedFront ==
  ASSUME NEW c, NEW h, NEW t, NEW n, Linked(c, h, t, n),
         NEW e \in Element, \A i \in 1..Len(c) : c[i] # e
  PROVE  Linked(<<e>> \o c, e, IF t = NULL THEN e ELSE t, [n EXCEPT ![e] = h])
<1> DEFINE d == <<e>> \o c
           m == [n EXCEPT ![e] = h]
<1>1. /\ c \in Seq(Element) /\ Len(c) \in Nat /\ NULL \notin Element
      /\ n \in [Element -> Element \cup {NULL}]
      /\ t = NULL <=> Len(c) = 0
      /\ t # NULL => t = c[Len(c)]
      /\ h = IF Len(c) = 0 THEN NULL ELSE c[1]
      /\ h \in Element \cup {NULL}
  BY LinkedEnds, FifoAssumption DEF Linked
<1>2. /\ d \in Seq(Element) /\ Len(d) = Len(c) + 1 /\ d[1] = e
      /\ \A i \in 1..Len(d) : i # 1 => i - 1 \in 1..Len(c) /\ d[i] = c[i - 1]
  BY <1>1
<1>3. m \in [Element -> Element \cup {NULL}] /\ m[e] = h
      /\ \A x \in Element : x # e => m[x] = n[x]
  BY <1>1
<1> HIDE DEF d, m
<1>4. \A i, j \in 1..Len(d) : d[i] = d[j] => i = j
  <2> TAKE i, j \in 1..Len(d)
  <2>1. ASSUME i # 1, j # 1, d[i] = d[j] PROVE i - 1 = j - 1
    <3>1. i - 1 \in 1..Len(c) /\ j - 1 \in 1..Len(c) /\ c[i - 1] = c[j - 1]
      BY <1>2, <2>1
    <3> QED
      BY <3>1 DEF Linked
  <2>2. d[i] = d[j] => (i = 1 <=> j = 1)
    BY <1>2
  <2> QED
    BY <1>1, <1>2, <2>1, <2>2
<1>5. (IF t = NULL THEN e ELSE t) = IF Len(d) = 0 THEN NULL ELSE d[Len(d)]
  <2>1. Len(c) # 0 => d[Len(d)] = c[Len(c)]
    <3>1. Len(c) # 0 => Len(d) \in 1..Len(d) /\ Len(d) # 1 /\ Len(d) - 1 = Len(c)
      BY <1>1, <1>2
    <3> QED
      BY <1>2, <3>1
  <2> QED
    BY <1>1, <1>2, <2>1
<1>6. \A i \in 1..Len(d) : m[d[i]] = IF i = Len(d) THEN NULL ELSE d[i + 1]
  <2> TAKE i \in 1..Len(d)
  <2>1. i # Len(d) => i + 1 \in 1..Len(d) /\ i + 1 # 1 /\ (i + 1) - 1 = i
    BY <1>1, <1>2
  <2>2. i # Len(d) => d[i + 1] = c[i] /\ i \in 1..Len(c)
    BY <1>2, <2>1
  <2>3. CASE i = 1
    <3>1. i = Len(d) <=> Len(c) = 0
      BY <1>1, <1>2, <2>3
    <3> QED
      BY <1>1, <1>2, <1>3, <2>2, <2>3, <3>1
  <2>4. CASE i # 1
    <3>1. i - 1 \in 1..Len(c) /\ d[i] = c[i - 1] /\ (i - 1) + 1 = i
          /\ (i - 1 = Len(c) <=> i = Len(d))
      BY <1>1, <1>2, <2>4
    <3>2. c[i - 1] \in Element /\ c[i - 1] # e
      BY <1>1, <3>1
    <3>3. n[c[i - 1]] = IF i - 1 = Len(c) THEN NULL ELSE c[(i - 1) + 1]
      BY <3>1 DEF Linked
    <3> QED
      BY <1>3, <2>2, <3>1, <3>2, <3>3
  <2> QED
    BY <2>3, <2>4
<1>7. \A x \in Element : (\A i \in 1..Len(d) : d[i] # x) => m[x] = NULL
  <2> SUFFICES ASSUME NEW x \in Element, \A i \in 1..Len(d) : d[i] # x
               PROVE  m[x] = NULL
    OBVIOUS
  <2>1. 1 \in 1..Len(d) /\ \A i \in 1..Len(c) : i + 1 \in 1..Len(d) /\ d[i + 1] = c[i]
    <3>1. \A i \in 1..Len(c) : i + 1 \in 1..Len(d) /\ i + 1 # 1 /\ (i + 1) - 1 = i
      BY <1>1, <1>2
    <3>2. 1 \in 1..Len(d)
      BY <1>1, <1>2
    <3> QED
      BY <1>2, <3>1, <3>2
  <2>2. x # e /\ \A i \in 1..Len(c) : c[i] # x
    BY <1>2, <2>1
  <2> QED
    BY <1>3, <2>2 DEF Linked
<1>8. Len(d) # 0
  BY <1>1, <1>2
<1> QED
  BY <1>2, <1>3, <1>4, <1>5, <1>6, <1>7, <1>8 DEF Linked, d, m

-------------------------------------------------------------------------------
(***************************************************************************)
(* The inductive invariant.  That a woken task finds an element is what    *)
(* keeps OSFifoPend from following a NULL head.                            *)
(***************************************************************************)
Flagged ==
  /\ fifoWait \subseteq Consumer
  /\ \A p \in Prio : /\ "OS_STAT_FIFO" \in stat[p] <=> p \in fifoWait
                     /\ p \in fifoWait => pc[p] \in Pending
                     /\ pc[p] \in Pending => p \in Consumer

FifoInv ==
  /\ SchedInv /\ got \in Element \cup {NULL}
  /\ Linked(chain, pHead, pTail, pNext)
  /\ Flagged /\ WokenFindsElement

LEMMA FifoFacts ==
  ASSUME FifoInv
  PROVE  /\ Consumer \subseteq UserTask /\ UserTask \subseteq Prio
         /\ Prio \subseteq Nat /\ NULL \notin Element /\ "OS_STAT_FIFO" \in StatFlag
         /\ pc \in [Prio -> Label] /\ stat \in [Prio -> SUBSET StatFlag]
         /\ cur \in Prio
BY KernelAssumption, FifoAssumption DEF FifoInv, SchedInv, KernelTypeOK, UserTask

LEMMA InitFifo ==
  ASSUME Init
  PROVE  FifoInv
<1>1. SchedInv
  BY KernelInitSched DEF Init
<1>2. Linked(chain, pHead, pTail, pNext)
  BY FifoAssumption DEF Init, Linked
<1>3. Flagged /\ WokenFindsElement
  BY FifoAssumption
     DEF Init, KernelInit, Flagged, WokenFindsElement, Pending, UserTask
<1> QED
  BY <1>1, <1>2, <1>3 DEF FifoInv, Init

LEMMA KernelStepFifo ==
  ASSUME FifoInv, KernelNext, UNCHANGED fifoVars
  PROVE  FifoInv'
<1>1. SchedInv'
  BY KernelStepSched DEF FifoInv
<1>2. /\ stat' = stat
      /\ \A p \in Prio : pc'[p] \in Pending <=> pc[p] \in Pending
  BY KernelKeepsPending DEF FifoInv, SchedInv
<1>3. UNCHANGED <<chain, pHead, pTail, pNext, fifoWait, got>>
  BY DEF fifoVars, listVars
<1>4. Linked(chain, pHead, pTail, pNext)'
  BY <1>3 DEF FifoInv, Linked
<1>5. Flagged' /\ WokenFindsElement'
  BY <1>2, <1>3, FifoFacts DEF FifoInv, Flagged, WokenFindsElement
<1> QED
  BY <1>1, <1>3, <1>4, <1>5 DEF FifoInv

LEMMA StutterFifo ==
  ASSUME FifoInv, UNCHANGED vars
  PROVE  FifoInv'
<1>1. UNCHANGED <<chain, pHead, pTail, pNext, fifoWait, got, stat, pc, kernelVars>>
  BY DEF vars, fifoVars, listVars, kernelVars, tcbVars
<1>2. SchedInv'
  BY <1>1, UnchangedSched DEF FifoInv
<1> QED
  BY <1>1, <1>2 DEF FifoInv, Linked, Flagged, WokenFindsElement

-------------------------------------------------------------------------------
(* TakeHead, LinkBack and LinkFront keep the chain linked.                 *)
LEMMA TakeChain ==
  ASSUME FifoInv, pHead # NULL, TakeHead
  PROVE  /\ Linked(chain, pHead, pTail, pNext)' /\ got' \in Element
         /\ chain # <<>> /\ got' = Head(chain) /\ chain' = Tail(chain)
<1>1. Linked(chain, pHead, pTail, pNext)
  BY DEF FifoInv
<1>2. chain # <<>> /\ pHead \in Element /\ pHead = Head(chain)
  BY <1>1, LinkedEnds
<1>3. Linked(Tail(chain), pNext[pHead], IF pNext[pHead] = NULL THEN NULL ELSE pTail,
             [pNext EXCEPT ![pHead] = NULL])
  BY <1>1, <1>2, LinkedTake
<1>4. /\ chain' = Tail(chain) /\ pHead' = pNext[pHead] /\ got' = pHead
      /\ pTail' = IF pNext[pHead] = NULL THEN NULL ELSE pTail
      /\ pNext' = [pNext EXCEPT ![pHead] = NULL]
  BY DEF TakeHead
<1>5. Linked(chain', pHead', pTail', pNext')
  BY <1>3, <1>4
<1> QED
  BY <1>2, <1>4, <1>5

LEMMA LinkChain ==
  ASSUME FifoInv, NEW e \in Element, e \notin ToSet(chain), LinkBack(e) \/ LinkFront(e)
  PROVE  Linked(chain, pHead, pTail, pNext)' /\ pHead' # NULL
<1>1. Linked(chain, pHead, pTail, pNext)
  BY DEF FifoInv
<1>2. \A i \in 1..Len(chain) : chain[i] # e
  BY <1>1 DEF ToSet, Linked
<1>3. CASE LinkBack(e)
  <2>1. Linked(Append(chain, e), IF pTail = NULL THEN e ELSE pHead, e,
               IF pTail = NULL THEN [pNext EXCEPT ![e] = NULL]
                               ELSE [pNext EXCEPT ![e] = NULL, ![pTail] = e])
    BY <1>1, <1>2, LinkedBack
  <2>2. /\ chain' = Append(chain, e) /\ pTail' = e
        /\ pHead' = IF pTail = NULL THEN e ELSE pHead
        /\ pNext' = IF pTail = NULL THEN [pNext EXCEPT ![e] = NULL]
                    ELSE [pNext EXCEPT ![e] = NULL, ![pTail] = e]
    BY <1>3 DEF LinkBack
  <2>3. Linked(chain', pHead', pTail', pNext')
    BY <2>1, <2>2
  <2> QED
    BY <2>2, <2>3, <1>1, LinkedEnds, FifoAssumption
<1>4. CASE LinkFront(e)
  <2>1. Linked(<<e>> \o chain, e, IF pTail = NULL THEN e ELSE pTail,
               [pNext EXCEPT ![e] = pHead])
    BY <1>1, <1>2, LinkedFront
  <2>2. /\ chain' = <<e>> \o chain /\ pHead' = e
        /\ pTail' = IF pTail = NULL THEN e ELSE pTail
        /\ pNext' = [pNext EXCEPT ![e] = pHead]
    BY <1>4 DEF LinkFront
  <2>3. Linked(chain', pHead', pTail', pNext')
    BY <2>1, <2>2
  <2> QED
    BY <2>2, <2>3, FifoAssumption
<1> QED
  BY <1>3, <1>4

-------------------------------------------------------------------------------
LEMMA TakeFifo ==
  ASSUME OneConsumer, FifoInv, NEW p \in Prio, PendTake(p)
  PROVE  FifoInv'
<1>1. /\ p \in Consumer /\ pc[p] = "run" /\ pHead # NULL /\ TakeHead
      /\ UNCHANGED <<kernelVars, fifoWait>> /\ stat' = stat /\ pc' = pc
  BY DEF PendTake, MayCall, kernelVars, tcbVars
<1>2. SchedInv'
  BY <1>1, UnchangedSched DEF FifoInv
<1>3. Linked(chain, pHead, pTail, pNext)' /\ got' \in Element
  BY <1>1, TakeChain
<1>4. Flagged'
  BY <1>1 DEF FifoInv, Flagged
<1>5. WokenFindsElement'
  BY <1>1 DEF WokenFindsElement, OneConsumer, Pending
<1> QED
  BY <1>2, <1>3, <1>4, <1>5 DEF FifoInv

LEMMA WaitFifo ==
  ASSUME OneConsumer, FifoInv, NEW p \in Prio, NEW t \in Timeouts, PendWait(p, t)
  PROVE  FifoInv'
<1>1. /\ p \in Consumer /\ fifoWait' = fifoWait \cup {p}
      /\ stat' = [stat EXCEPT ![p] = @ \cup {"OS_STAT_FIFO"}]
      /\ pc' = [pc EXCEPT ![p] = "pendSched"]
      /\ UNCHANGED <<chain, pHead, pTail, pNext, got>>
  BY DEF PendWait, Block, Goto, listVars
<1>2. SchedInv'
  BY BlockSched, KernelAssumption, FifoFacts DEF FifoInv, PendWait
<1>3. Linked(chain, pHead, pTail, pNext)'
  BY <1>1 DEF FifoInv, Linked
<1>4. Flagged'
  BY <1>1, FifoFacts DEF FifoInv, Flagged, Pending
<1>5. WokenFindsElement'
  BY <1>1, FifoFacts DEF FifoInv, WokenFindsElement, OneConsumer
<1> QED
  BY <1>1, <1>2, <1>3, <1>4, <1>5 DEF FifoInv

LEMMA ServedFifo ==
  ASSUME OneConsumer, FifoInv, NEW p \in Prio, PendServed(p)
  PROVE  FifoInv' /\ pHead # NULL
<1>1. /\ pc[p] = "pendWake" /\ "OS_STAT_FIFO" \notin stat[p] /\ TakeHead
      /\ pc' = [pc EXCEPT ![p] = "run"] /\ stat' = stat /\ fifoWait' = fifoWait
  BY DEF PendServed, Goto, tcbVars
<1>2. p \in Consumer
  BY <1>1 DEF FifoInv, Flagged, Pending
<1>3. pHead # NULL
  BY <1>1, <1>2 DEF FifoInv, WokenFindsElement, Pending
<1>4. SchedInv'
  BY ReturnSched DEF FifoInv, PendServed, tcbVars
<1>5. Linked(chain, pHead, pTail, pNext)' /\ got' \in Element
  BY <1>1, <1>3, TakeChain
<1>6. Flagged'
  BY <1>1, <1>2, FifoFacts DEF FifoInv, Flagged, Pending
<1>7. WokenFindsElement'
  BY <1>1, <1>2, FifoFacts DEF WokenFindsElement, OneConsumer, Pending
<1> QED
  BY <1>3, <1>4, <1>5, <1>6, <1>7 DEF FifoInv

LEMMA TimeoutFifo ==
  ASSUME OneConsumer, FifoInv, NEW p \in Prio, PendTimeout(p)
  PROVE  FifoInv'
<1>1. /\ pc[p] = "pendWake" /\ "OS_STAT_FIFO" \in stat[p]
      /\ pc' = [pc EXCEPT ![p] = "run"] /\ stat' = [stat EXCEPT ![p] = {}]
      /\ fifoWait' = fifoWait \ {p}
      /\ UNCHANGED <<chain, pHead, pTail, pNext, got>>
  BY DEF PendTimeout, Goto, listVars
<1>2. p \in Consumer
  BY <1>1 DEF FifoInv, Flagged, Pending
<1>3. SchedInv'
  BY ReturnSched DEF FifoInv, PendTimeout
<1>4. Linked(chain, pHead, pTail, pNext)'
  BY <1>1 DEF FifoInv, Linked
<1>5. Flagged'
  BY <1>1, <1>2, FifoFacts DEF FifoInv, Flagged, Pending
<1>6. WokenFindsElement'
  BY <1>1, <1>2, FifoFacts DEF WokenFindsElement, OneConsumer, Pending
<1> QED
  BY <1>1, <1>3, <1>4, <1>5, <1>6 DEF FifoInv

(* A post, whatever else its caller does.                                  *)
LEMMA PostedFifo ==
  ASSUME FifoInv, NEW e \in Element, NEW woken, Posted(e, woken), got' = got,
         SchedInv', \A p \in Prio : pc'[p] \in Pending <=> pc[p] \in Pending
  PROVE  FifoInv'
<1>1. Linked(chain, pHead, pTail, pNext)' /\ pHead' # NULL
  BY LinkChain DEF Posted
<1>2. WokenFindsElement'
  BY <1>1 DEF WokenFindsElement
<1>3. CASE fifoWait # {}
  <2> DEFINE q == Min(fifoWait)
  <2>1. q \in fifoWait
    BY <1>3, MinIsLeast, FifoFacts DEF FifoInv, Flagged
  <2>2. Wake(q, "OS_STAT_FIFO") /\ fifoWait' = fifoWait \ {q}
    BY <1>3 DEF Posted
  <2> HIDE DEF q
  <2>3. q \in Prio /\ q \in Consumer
    BY <2>1, FifoFacts DEF FifoInv, Flagged
  <2>4. Flagged'
    BY <2>2, <2>3, FifoFacts DEF Wake, FifoInv, Flagged
  <2> QED
    BY <1>1, <1>2, <2>4 DEF FifoInv
<1>4. CASE fifoWait = {}
  <2>1. UNCHANGED <<tcbVars, fifoWait>>
    BY <1>4 DEF Posted
  <2>2. Flagged'
    BY <1>4, <2>1 DEF FifoInv, Flagged, tcbVars
  <2> QED
    BY <1>1, <1>2, <2>2 DEF FifoInv
<1> QED
  BY <1>3, <1>4

LEMMA PostFifo ==
  ASSUME FifoInv, NEW e \in Element,
         ISRPost(e) \/ \E p \in Prio : TaskPost(p, e)
  PROVE  FifoInv'
<1>1. fifoWait # {} => Min(fifoWait) \in Prio
  BY MinIsLeast, FifoFacts DEF FifoInv, Flagged
<1>2. CASE ISRPost(e)
  <2>1. PICK woken \in BOOLEAN : Posted(e, woken)
    BY <1>2 DEF ISRPost
  <2>2. SchedInv'
    <3>1. CASE fifoWait # {}
      BY <1>1, <1>2, <2>1, <3>1, ISRWakeSched DEF FifoInv, ISRPost, Posted
    <3>2. CASE fifoWait = {}
      BY <1>2, <2>1, <3>2, UnchangedSched
         DEF FifoInv, ISRPost, Posted, kernelVars, tcbVars
    <3> QED
      BY <3>1, <3>2
  <2> QED
    BY <1>2, <2>1, <2>2, PostedFifo DEF ISRPost
<1>3. ASSUME NEW p \in Prio, TaskPost(p, e) PROVE FifoInv'
  <2>1. PICK woken \in BOOLEAN :
          /\ Posted(e, woken)
          /\ IF woken THEN Goto(p, "sched") ELSE pc' = pc
    BY <1>3 DEF TaskPost
  <2>2. SchedInv'
    <3>1. CASE fifoWait # {}
      <4>1. Wake(Min(fifoWait), "OS_STAT_FIFO") /\ woken = TRUE
        BY <2>1, <3>1 DEF Posted
      <4> QED
        BY <1>1, <1>3, <2>1, <3>1, <4>1, TaskWakeSched DEF FifoInv, TaskPost
    <3>2. CASE fifoWait = {}
      BY <1>3, <2>1, <3>2, UnchangedSched
         DEF FifoInv, TaskPost, Posted, kernelVars, tcbVars
    <3> QED
      BY <3>1, <3>2
  <2>3. \A q \in Prio : pc'[q] \in Pending <=> pc[q] \in Pending
    BY <1>3, <2>1, FifoFacts DEF TaskPost, MayCall, Goto, Pending
  <2> QED
    BY <1>3, <2>1, <2>2, <2>3, PostedFifo DEF TaskPost
<1> QED
  BY <1>2, <1>3

LEMMA NextFifo ==
  ASSUME OneConsumer, FifoInv, [Next]_vars
  PROVE  FifoInv'
<1>1. CASE UNCHANGED vars
  BY <1>1, StutterFifo
<1>2. CASE KernelNext /\ UNCHANGED fifoVars
  BY <1>2, KernelStepFifo
<1>3. CASE FifoNext
  <2>1. ASSUME NEW p \in Prio,
               \/ PendTake(p)
               \/ \E t \in Timeouts : PendWait(p, t)
               \/ PendServed(p)
               \/ PendTimeout(p)
        PROVE  FifoInv'
    BY <2>1, TakeFifo, WaitFifo, ServedFifo, TimeoutFifo
  <2> QED
    BY <1>1, <1>3, <2>1, PostFifo DEF FifoNext, PendNoWaitFails
<1> QED
  BY <1>1, <1>2, <1>3 DEF Next

(***************************************************************************)
(* The scheduler, the chain and the waiting task keep their promises to    *)
(* each other in every reachable state.                                    *)
(***************************************************************************)
THEOREM FifoInvariant ==
  ASSUME OneConsumer
  PROVE  Spec => []FifoInv
<1>1. Init => FifoInv
  BY InitFifo
<1>2. FifoInv /\ [Next]_vars => FifoInv'
  BY NextFifo
<1> QED
  BY <1>1, <1>2, PTL DEF Spec

(***************************************************************************)
(* The head, the links and the tail lead through the elements posted and   *)
(* not received, once each and in their order, whatever is linked at the   *)
(* front and taken in between.                                             *)
(***************************************************************************)
THEOREM FifoChain ==
  ASSUME OneConsumer
  PROVE  Spec => []PointersFormChain
<1>1. FifoInv => PointersFormChain
  <2> SUFFICES ASSUME FifoInv PROVE PointersFormChain
    OBVIOUS
  <2>1. Linked(chain, pHead, pTail, pNext)
    BY DEF FifoInv
  <2>2. pHead = IF chain = <<>> THEN NULL ELSE Head(chain)
    BY <2>1, LinkedEnds
  <2>3. pTail = IF chain = <<>> THEN NULL ELSE Last(chain)
    BY <2>1, LinkedEnds DEF Last
  <2>4. \A e \in Element \ ToSet(chain) : \A i \in 1..Len(chain) : chain[i] # e
    BY <2>1 DEF Linked, ToSet
  <2> QED
    BY <2>1, <2>2, <2>3, <2>4 DEF PointersFormChain, Linked
<1> QED
  BY <1>1, FifoInvariant, PTL

(***************************************************************************)
(* With one receiving task the element a post woke it for is still at the  *)
(* head when it runs: it never takes the NULL after an empty FIFO's end.   *)
(***************************************************************************)
THEOREM FifoWoken ==
  ASSUME OneConsumer
  PROVE  Spec => []WokenFindsElement
<1>1. FifoInv => WokenFindsElement
  BY DEF FifoInv
<1> QED
  BY <1>1, FifoInvariant, PTL

-------------------------------------------------------------------------------
(* A chain without one of the elements is shorter than their number.       *)
LEMMA ChainHasRoom ==
  ASSUME FifoInv, NEW e \in Element, e \notin ToSet(chain)
  PROVE  Len(chain) < Cardinality(Element)
<1> DEFINE d == Append(chain, e)
           n == Len(chain) + 1
<1>1. /\ chain \in Seq(Element) /\ Len(chain) \in Nat
      /\ \A i, j \in 1..Len(chain) : chain[i] = chain[j] => i = j
      /\ \A i \in 1..Len(chain) : chain[i] # e
  BY DEF FifoInv, Linked, ToSet
<1>2. /\ d \in [1..n -> Element] /\ d[n] = e
      /\ \A i \in 1..n : i # n => i \in 1..Len(chain) /\ d[i] = chain[i]
  <2>1. /\ d \in Seq(Element) /\ Len(d) = n /\ d[n] = e
        /\ \A i \in 1..Len(chain) : d[i] = chain[i]
    BY <1>1
  <2>2. \A i \in 1..n : i # n => i \in 1..Len(chain)
    BY <1>1
  <2>3. d \in [1..Len(d) -> Element]
    BY <2>1, SeqDef, LenProperties
  <2> QED
    BY <2>1, <2>2, <2>3
<1> HIDE DEF d
<1>3. \A i, j \in 1..n : d[i] = d[j] => i = j
  BY <1>1, <1>2
<1>4. d \in Injection(1..n, Element)
  BY <1>2, <1>3 DEF Injection, IsInjective
<1>5. Cardinality(1..n) <= Cardinality(Element)
  BY <1>4, FS_Injection, FifoAssumption
<1>6. Cardinality(1..n) = n
  BY <1>1, FS_Interval
<1>7. Cardinality(Element) \in Nat
  BY FS_CardinalityType, FifoAssumption
<1> QED
  BY <1>1, <1>5, <1>6, <1>7

(***************************************************************************)
(* With one receiving task a FIFO is a MessageQueue that has room for all  *)
(* the elements there are: each is received once, in order, although the   *)
(* kernel keeps no count of them and only their own links.                 *)
(***************************************************************************)
THEOREM FifoImplements ==
  ASSUME OneConsumer
  PROVE  Spec => ImplementsMessageQueue
<1>1. Init => Abstract!Init
  BY DEF Init, Abstract!Init
<1>2. FifoInv /\ [Next]_vars => [Abstract!Next]_Abstract!absVars
  <2> SUFFICES ASSUME FifoInv, [Next]_vars
               PROVE  Abstract!Next \/ UNCHANGED Abstract!absVars
    OBVIOUS
  <2>1. CASE UNCHANGED fifoVars
    BY <2>1 DEF fifoVars, listVars, Abstract!absVars
  <2>2. CASE UNCHANGED vars
    BY <2>2, <2>1 DEF vars
  <2>3. ASSUME NEW p \in Prio, PendTake(p) \/ PendServed(p)
        PROVE  Abstract!Next
    <3>1. pHead # NULL /\ TakeHead
      BY <2>3, ServedFifo DEF PendTake, PendServed
    <3> QED
      BY <3>1, TakeChain DEF Abstract!Next, Abstract!Get
  <2>4. ASSUME NEW p \in Prio,
               \/ \E t \in Timeouts : PendWait(p, t)
               \/ PendNoWaitFails(p)
               \/ PendTimeout(p)
        PROVE  UNCHANGED Abstract!absVars
    BY <2>4 DEF PendWait, PendNoWaitFails, PendTimeout, vars, fifoVars, listVars,
                Abstract!absVars
  <2>5. ASSUME NEW e \in Element, ISRPost(e) \/ \E p \in Prio : TaskPost(p, e)
        PROVE  Abstract!Next
    <3>1. /\ e \notin ToSet(chain) /\ got' = got
          /\ LinkBack(e) \/ LinkFront(e)
      BY <2>5 DEF ISRPost, TaskPost, Posted
    <3>2. Abstract!Put(e) \/ Abstract!PutFirst(e)
      BY <3>1, ChainHasRoom DEF LinkBack, LinkFront, Abstract!Put, Abstract!PutFirst
    <3> QED
      BY <3>2 DEF Abstract!Next
  <2> QED
    BY <2>1, <2>2, <2>3, <2>4, <2>5 DEF Next, FifoNext
<1> QED
  BY <1>1, <1>2, FifoInvariant, PTL
     DEF Spec, ImplementsMessageQueue, Abstract!Spec
=============================================================================
