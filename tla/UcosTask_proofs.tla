---------------------------- MODULE UcosTask_proofs ----------------------------
(***************************************************************************)
(* The lists of TCBs, the priority table and the ready table agree, for    *)
(* any number of TCBs and any priorities, whatever the tasks create,       *)
(* delete and renumber.                                                    *)
(***************************************************************************)
EXTENDS UcosTask, TLAPS

-------------------------------------------------------------------------------
(***************************************************************************)
(* The bit tables hold the priorities set and not cleared, and the lookup  *)
(* finds the most urgent one, for every set of priorities.                 *)
(***************************************************************************)
(* A table whose two halves agree: what EmptyTable is and the code keeps.  *)
GoodTable(T) == T \in Table /\ GroupMatches(T)

(* A priority is the bit p & 7 of the byte p >> 3, and no other.           *)
LEMMA RowCol ==
  ASSUME NEW p \in 0..63
  PROVE  /\ Row(p) \in Bit /\ Col(p) \in Bit
         /\ p = 8 * Row(p) + Col(p)
         /\ \A y \in Bit, x \in Bit : 8 * y + x = p <=> y = Row(p) /\ x = Col(p)
BY DEF Row, Col, Bit

(* Two priorities with the same row and column are the same.               *)
LEMMA RowColOnce ==
  ASSUME NEW p \in 0..63, NEW q \in 0..63, Row(p) = Row(q), Col(p) = Col(q)
  PROVE  p = q
BY RowCol

(* OSInit leaves a table without members.                                  *)
LEMMA EmptyTableGood == GoodTable(EmptyTable) /\ Members(EmptyTable) = {}
<1>1. \A p \in 0..63 : Row(p) \in Bit
  BY RowCol
<1> QED
  BY <1>1 DEF GoodTable, EmptyTable, Table, GroupMatches, Members, HasBit

(* Setting a bit adds its priority and nothing else.                       *)
LEMMA WithBitGood ==
  ASSUME NEW T, GoodTable(T), NEW p \in 0..63
  PROVE  /\ GoodTable(WithBit(T, p))
         /\ \A q \in 0..63 : HasBit(WithBit(T, p), q) <=> HasBit(T, q) \/ q = p
<1>1. Row(p) \in Bit /\ Col(p) \in Bit
  BY RowCol
<1>2. GoodTable(WithBit(T, p))
  BY <1>1 DEF GoodTable, WithBit, Table, GroupMatches
<1>3. ASSUME NEW q \in 0..63
      PROVE  HasBit(WithBit(T, p), q) <=> HasBit(T, q) \/ q = p
  <2>1. Row(q) \in Bit /\ Col(q) \in Bit
    BY RowCol
  <2>2. Row(q) = Row(p) /\ Col(q) = Col(p) => q = p
    BY RowColOnce
  <2> QED
    BY <1>1, <2>1, <2>2 DEF GoodTable, WithBit, HasBit, Table
<1> QED
  BY <1>2, <1>3

(* Clearing a bit takes its priority away and nothing else.                *)
LEMMA WithoutBitGood ==
  ASSUME NEW T, GoodTable(T), NEW p \in 0..63
  PROVE  /\ GoodTable(WithoutBit(T, p))
         /\ \A q \in 0..63 : HasBit(WithoutBit(T, p), q) <=> HasBit(T, q) /\ q # p
<1>1. Row(p) \in Bit /\ Col(p) \in Bit
  BY RowCol
<1>2. GoodTable(WithoutBit(T, p))
  BY <1>1 DEF GoodTable, WithoutBit, Table, GroupMatches
<1>3. ASSUME NEW q \in 0..63
      PROVE  HasBit(WithoutBit(T, p), q) <=> HasBit(T, q) /\ q # p
  <2>1. Row(q) \in Bit /\ Col(q) \in Bit
    BY RowCol
  <2>2. Row(q) = Row(p) /\ Col(q) = Col(p) => q = p
    BY RowColOnce
  <2> QED
    BY <1>1, <2>1, <2>2 DEF GoodTable, WithoutBit, HasBit, Table
<1> QED
  BY <1>2, <1>3

(***************************************************************************)
(* The two lookups in OSUnMapTbl find the most urgent priority of every    *)
(* table the kernel can build: from UnMapIsLowestBit, the assumption that  *)
(* OSUnMapTbl has the lowest bit of each byte, which TLC evaluates for all *)
(* of them.  UcosKernel and its clients, whose tables are sets, take Min.  *)
(***************************************************************************)
THEOREM TableLookup ==
  ASSUME NEW T, GoodTable(T), NEW p \in 0..63, HasBit(T, p)
  PROVE  IsLeast(Lookup(T), Members(T))
<1> DEFINE y == UnMap(T.grp)
           x == UnMap(T.tbl[y])
<1>1. \A q \in Members(T) : /\ q \in 0..63
                            /\ Row(q) \in Bit /\ Col(q) \in Bit
                            /\ q = 8 * Row(q) + Col(q)
                            /\ Col(q) \in T.tbl[Row(q)] /\ Row(q) \in T.grp
  <2> TAKE q \in Members(T)
  <2>1. q \in 0..63 /\ Col(q) \in T.tbl[Row(q)]
    BY DEF Members, HasBit
  <2>2. Row(q) \in Bit /\ Col(q) \in Bit /\ q = 8 * Row(q) + Col(q)
    BY <2>1, RowCol
  <2>3. Row(q) \in T.grp
    BY <2>1, <2>2 DEF GoodTable, GroupMatches
  <2> QED
    BY <2>1, <2>2, <2>3
<1>2. p \in Members(T)
  BY DEF Members
<1>3. y \in T.grp /\ \A z \in T.grp : y <= z
  <2>1. T.grp # {} /\ T.grp \in SUBSET Bit
    BY <1>1, <1>2 DEF GoodTable, Table
  <2> QED
    BY <2>1, UnMapIsLowestBit DEF IsLeast
<1>4. y \in Bit /\ T.tbl[y] # {} /\ T.tbl[y] \subseteq Bit
  BY <1>3 DEF GoodTable, Table, GroupMatches
<1>5. x \in T.tbl[y] /\ \A z \in T.tbl[y] : x <= z
  BY <1>4, UnMapIsLowestBit DEF IsLeast
<1>6. Lookup(T) = 8 * y + x
  BY DEF Lookup
<1> HIDE DEF y, x
<1>7. 8 * y + x \in Members(T)
  <2>1. 8 * y + x \in 0..63 /\ y \in Bit /\ x \in Bit
    BY <1>4, <1>5 DEF Bit
  <2>2. Row(8 * y + x) = y /\ Col(8 * y + x) = x
    BY <2>1, RowCol
  <2> QED
    BY <2>1, <2>2, <1>5 DEF Members, HasBit
<1>8. ASSUME NEW q \in Members(T) PROVE 8 * y + x <= q
  <2>1. y <= Row(q) /\ (y = Row(q) => x <= Col(q))
    BY <1>1, <1>3, <1>5
  <2>2. /\ y \in Int /\ x \in Int
        /\ Row(q) \in Int /\ Col(q) \in Int
        /\ x - Col(q) <= 7
        /\ q = 8 * Row(q) + Col(q)
    BY <1>1, <1>4, <1>5 DEF Bit
  <2> QED
    BY <2>1, <2>2
<1> QED
  BY <1>6, <1>7, <1>8 DEF IsLeast

-------------------------------------------------------------------------------

Injective(s) == \A i, j \in 1..Len(s) : s[i] = s[j] => i = j

(***************************************************************************)
(* The inductive invariant, one part per group of variables.  The lists    *)
(* need that no TCB is linked twice and that the idle task's is the last;  *)
(* the tables, that only it has OS_LO_PRIO.                                *)
(***************************************************************************)
LinkInv ==
  /\ order \in Seq(TCB) /\ pool \in Seq(TCB)
  /\ tcbNext \in [TCB -> TCB \cup {NIL}] /\ tcbPrev \in [TCB -> TCB \cup {NIL}]
  /\ tcbList \in TCB /\ freeList \in TCB \cup {NIL}
  /\ ListsAreIntact
  /\ Injective(order) /\ Injective(pool)
  /\ Len(order) >= 1 /\ order[Len(order)] = IdleTCB

PrioInv ==
  /\ tcbPrio \in [TCB -> 0..OS_LO_PRIO] /\ prioTbl \in [AllPrios -> TCB \cup {NIL}]
  /\ \A t \in Live : /\ tcbPrio[t] \in AllPrios /\ prioTbl[tcbPrio[t]] = t
                     /\ tcbPrio[t] = OS_LO_PRIO <=> t = IdleTCB
  /\ \A p \in AllPrios :
       prioTbl[p] # NIL => prioTbl[p] \in Live /\ tcbPrio[prioTbl[p]] = p

ReadyInv ==
  /\ GoodTable(rdy) /\ tcbDly \in [TCB -> Nat] /\ tcbDly[IdleTCB] = 0
  /\ \A p \in 0..63 : HasBit(rdy, p) => p \in AllPrios /\ prioTbl[p] # NIL
  /\ SleeperHasDelay

(* The task that executes outside the kernel is live and not delayed.      *)
CallerInv ==
  /\ cur \in TCB /\ toSched \subseteq TCB
  /\ cur \notin toSched => cur \in Live /\ tcbDly[cur] = 0

(* The tick has visited the TCBs in front of the one it is at.             *)
WalkInv ==
  /\ walk \in TCB \cup {NIL} /\ visited \subseteq TCB
  /\ walk # NIL =>
       \E k \in 1..Len(order) :
         walk = order[k] /\ visited = {order[i] : i \in 1..k-1}

TaskInv == LinkInv /\ PrioInv /\ ReadyInv /\ CallerInv /\ WalkInv

-------------------------------------------------------------------------------
(* Facts about sequences, by their indices.                                *)
LEMMA ConsSeq ==
  ASSUME NEW S, NEW s \in Seq(S), NEW e \in S
  PROVE  /\ <<e>> \o s \in Seq(S) /\ Len(<<e>> \o s) = Len(s) + 1
         /\ \A i \in 1..Len(s)+1 : (<<e>> \o s)[i] = IF i = 1 THEN e ELSE s[i - 1]
OBVIOUS

LEMMA TailSeq ==
  ASSUME NEW S, NEW s \in Seq(S), s # <<>>
  PROVE  /\ Tail(s) \in Seq(S) /\ Len(Tail(s)) = Len(s) - 1
         /\ \A i \in 1..Len(s)-1 : Tail(s)[i] = s[i + 1]
OBVIOUS

LEMMA WithoutSeq ==
  ASSUME NEW S, NEW s \in Seq(S), NEW k \in 1..Len(s)
  PROVE  /\ Without(s, k) \in Seq(S) /\ Len(Without(s, k)) = Len(s) - 1
         /\ \A i \in 1..Len(s)-1 :
              Without(s, k)[i] = IF i < k THEN s[i] ELSE s[i + 1]
BY DEF Without

(* Which elements those sequences have, if no element is there twice.      *)
LEMMA ToSetIs ==
  ASSUME NEW S, NEW s \in Seq(S)
  PROVE  ToSet(s) = {s[i] : i \in 1..Len(s)} /\ Len(s) \in Nat
BY DEF ToSet

LEMMA ConsSet ==
  ASSUME NEW S, NEW s \in Seq(S), NEW e \in S
  PROVE  /\ ToSet(<<e>> \o s) = ToSet(s) \cup {e}
         /\ Injective(s) /\ e \notin ToSet(s) => Injective(<<e>> \o s)
<1> DEFINE c == <<e>> \o s
<1>1. /\ c \in Seq(S) /\ Len(c) = Len(s) + 1
      /\ \A i \in 1..Len(s)+1 : c[i] = IF i = 1 THEN e ELSE s[i - 1]
  BY ConsSeq
<1> HIDE DEF c
<1>2. ToSet(s) = {s[i] : i \in 1..Len(s)} /\ Len(s) \in Nat
  BY ToSetIs
<1>3. ToSet(c) = {c[i] : i \in 1..Len(s)+1}
  BY <1>1, ToSetIs
<1>4. /\ c[1] = e /\ 1 \in 1..Len(s)+1
      /\ \A i \in 1..Len(s)+1 : i # 1 => i - 1 \in 1..Len(s) /\ c[i] = s[i - 1]
      /\ \A i \in 1..Len(s) : i + 1 \in 1..Len(s)+1 /\ c[i + 1] = s[i]
  BY <1>1, <1>2
<1>5. ToSet(c) = ToSet(s) \cup {e}
  BY <1>2, <1>3, <1>4
<1>6. ASSUME Injective(s), e \notin ToSet(s)
      PROVE  Injective(c)
  <2>1. ASSUME NEW i \in 1..Len(s)+1, NEW j \in 1..Len(s)+1, c[i] = c[j]
        PROVE  i = j
    <3>1. CASE i = 1
      BY <1>2, <1>4, <1>6, <2>1, <3>1
    <3>2. CASE j = 1
      BY <1>2, <1>4, <1>6, <2>1, <3>2
    <3>3. CASE i # 1 /\ j # 1
      <4>1. i - 1 \in 1..Len(s) /\ j - 1 \in 1..Len(s) /\ s[i - 1] = s[j - 1]
        BY <1>4, <2>1, <3>3
      <4>2. i - 1 = j - 1
        BY <1>6, <4>1 DEF Injective
      <4> QED
        BY <4>2
    <3> QED
      BY <3>1, <3>2, <3>3
  <2> QED
    BY <1>1, <2>1 DEF Injective
<1> QED
  BY <1>5, <1>6 DEF c

LEMMA TailSet ==
  ASSUME NEW S, NEW s \in Seq(S), s # <<>>, Injective(s)
  PROVE  Injective(Tail(s)) /\ ToSet(Tail(s)) = ToSet(s) \ {s[1]}
<1>1. PICK c \in Seq(S) : /\ c = Tail(s) /\ Len(c) = Len(s) - 1
                          /\ \A i \in 1..Len(s)-1 : c[i] = s[i + 1]
  BY TailSeq, Zenon
<1>2. /\ ToSet(s) = {s[i] : i \in 1..Len(s)} /\ Len(s) \in Nat
      /\ ToSet(c) = {c[i] : i \in 1..Len(s)-1}
  <2>1. ToSet(s) = {s[i] : i \in 1..Len(s)}
    BY ToSetIs, Zenon
  <2>2. ToSet(c) = {c[i] : i \in 1..Len(c)}
    BY ToSetIs, Zenon
  <2>3. Len(s) \in Nat
    OBVIOUS
  <2> QED
    BY <1>1, <2>1, <2>2, <2>3, Zenon
<1>3. /\ \A i \in 1..Len(s)-1 : i + 1 \in 1..Len(s) /\ i + 1 # 1 /\ c[i] = s[i + 1]
      /\ \A i \in 1..Len(s) : i # 1 => i - 1 \in 1..Len(s)-1 /\ c[i - 1] = s[i]
      /\ \A i \in 1..Len(s) : s[i] = s[1] => i = 1
  BY <1>1, <1>2 DEF Injective
<1>4. ToSet(c) = ToSet(s) \ {s[1]}
  BY <1>2, <1>3
<1>5. Injective(c)
  BY <1>1, <1>2, <1>3 DEF Injective
<1> QED
  BY <1>1, <1>4, <1>5

LEMMA WithoutSet ==
  ASSUME NEW S, NEW s \in Seq(S), NEW k \in 1..Len(s), Injective(s)
  PROVE  Injective(Without(s, k)) /\ ToSet(Without(s, k)) = ToSet(s) \ {s[k]}
<1>1. PICK c \in Seq(S) :
        /\ c = Without(s, k) /\ Len(c) = Len(s) - 1
        /\ \A i \in 1..Len(s)-1 : c[i] = IF i < k THEN s[i] ELSE s[i + 1]
  BY WithoutSeq, Zenon
<1>2. /\ ToSet(s) = {s[i] : i \in 1..Len(s)} /\ Len(s) \in Nat
      /\ ToSet(c) = {c[i] : i \in 1..Len(s)-1}
  <2>1. ToSet(s) = {s[i] : i \in 1..Len(s)}
    BY ToSetIs, Zenon
  <2>2. ToSet(c) = {c[i] : i \in 1..Len(c)}
    BY ToSetIs, Zenon
  <2>3. Len(s) \in Nat
    OBVIOUS
  <2> QED
    BY <1>1, <2>1, <2>2, <2>3, Zenon
<1>3. /\ \A i \in 1..Len(s)-1 : \E j \in 1..Len(s) :
           j # k /\ c[i] = s[j] /\ j = IF i < k THEN i ELSE i + 1
      /\ \A j \in 1..Len(s) : j < k => j \in 1..Len(s)-1 /\ c[j] = s[j]
      /\ \A j \in 1..Len(s) : j > k => j - 1 \in 1..Len(s)-1 /\ c[j - 1] = s[j]
      /\ \A j \in 1..Len(s) : s[j] = s[k] => j = k
  <2>1. \A i \in 1..Len(s)-1 :
          LET j == IF i < k THEN i ELSE i + 1
          IN  j \in 1..Len(s) /\ j # k /\ c[i] = s[j]
    BY <1>1, <1>2
  <2>2. /\ \A j \in 1..Len(s) : j < k => j \in 1..Len(s)-1 /\ c[j] = s[j]
        /\ \A j \in 1..Len(s) : j > k => j - 1 \in 1..Len(s)-1 /\ c[j - 1] = s[j]
    BY <1>1, <1>2
  <2>3. \A j \in 1..Len(s) : s[j] = s[k] => j = k
    BY DEF Injective
  <2> QED
    BY <2>1, <2>2, <2>3
<1>4. ToSet(c) = ToSet(s) \ {s[k]}
  <2>1. \A x \in ToSet(c) : x \in ToSet(s) /\ x # s[k]
    BY <1>2, <1>3
  <2>2. ASSUME NEW j \in 1..Len(s), s[j] # s[k]
        PROVE  s[j] \in ToSet(c)
    <3>1. \E i \in 1..Len(s)-1 : c[i] = s[j]
      BY <1>3, <2>2
    <3> QED
      BY <1>2, <3>1
  <2> QED
    BY <1>2, <2>1, <2>2
<1>5. Injective(c)
  <2> SUFFICES ASSUME NEW i \in 1..Len(s)-1, NEW j \in 1..Len(s)-1, c[i] = c[j]
               PROVE  i = j
    BY <1>1 DEF Injective
  <2> DEFINE At(m) == IF m < k THEN m ELSE m + 1
  <2>1. /\ At(i) \in 1..Len(s) /\ At(j) \in 1..Len(s)
        /\ c[i] = s[At(i)] /\ c[j] = s[At(j)]
    BY <1>1, <1>2
  <2>2. At(i) = At(j)
    BY <2>1 DEF Injective
  <2> QED
    BY <2>2
<1> QED
  BY <1>1, <1>4, <1>5

-------------------------------------------------------------------------------
(* What the actions do to the set of live TCBs.                            *)
LEMMA LiveIs ==
  ASSUME LinkInv
  PROVE  /\ Live = {order[i] : i \in 1..Len(order)}
         /\ IdleTCB \in Live /\ Live \subseteq TCB
BY DEF Live, ToSet, LinkInv

LEMMA InitTaskInv ==
  ASSUME Init
  PROVE  TaskInv
<1>1. PICK p \in Prios :
        /\ order = <<MainTCB, IdleTCB>>
        /\ pool = [i \in 1..N-2 |-> i + 2]
        /\ tcbNext = [t \in TCB |-> CASE t = MainTCB -> IdleTCB
                                      [] t = IdleTCB -> NIL
                                      [] OTHER -> IF t + 1 \in TCB THEN t + 1 ELSE NIL]
        /\ tcbPrev = [t \in TCB |-> IF t = IdleTCB THEN MainTCB ELSE NIL]
        /\ tcbList = MainTCB
        /\ freeList = (IF 3 \in TCB THEN 3 ELSE NIL)
        /\ tcbPrio = [t \in TCB |-> CASE t = MainTCB -> p
                                      [] t = IdleTCB -> OS_LO_PRIO
                                      [] OTHER -> 0]
        /\ tcbDly = [t \in TCB |-> 0]
        /\ prioTbl = [q \in AllPrios |-> CASE q = p -> MainTCB
                                           [] q = OS_LO_PRIO -> IdleTCB
                                           [] OTHER -> NIL]
        /\ rdy = WithBit(WithBit(EmptyTable, OS_LO_PRIO), p)
        /\ cur = MainTCB /\ toSched = {} /\ walk = NIL /\ visited = {}
  BY DEF Init
<1>2. /\ p \in 0..63 /\ OS_LO_PRIO \in 0..63 /\ p # OS_LO_PRIO
      /\ N \in Nat /\ N >= 2 /\ NIL \notin TCB
      /\ 1 \in TCB /\ 2 \in TCB /\ IdleTCB = 1 /\ MainTCB = 2 /\ TCB = 1..N
  BY TaskAssumption DEF TCB, IdleTCB, MainTCB
<1>3. order = <<2, 1>> /\ order \in Seq(TCB) /\ Len(order) = 2
      /\ order[1] = 2 /\ order[2] = 1 /\ Live = {1, 2}
  BY <1>1, <1>2 DEF Live, ToSet
<1>4. pool \in Seq(TCB) /\ Len(pool) = N - 2 /\ \A i \in 1..N-2 : pool[i] = i + 2
  <2>1. pool = [i \in 1..N-2 |-> i + 2] /\ N - 2 \in Nat
    BY <1>1, <1>2
  <2>2. \A i \in 1..N-2 : i + 2 \in TCB
    BY <1>2
  <2> QED
    BY <2>1, <2>2
<1>5. LinkInv
  <2>1. LinkedAs(tcbList, order)
    BY <1>1, <1>2, <1>3 DEF LinkedAs
  <2>2. LinkedAs(freeList, pool)
    <3>1. freeList = IF pool = <<>> THEN NIL ELSE Head(pool)
      BY <1>1, <1>2, <1>4
    <3>2. ASSUME NEW i \in 1..Len(pool)
          PROVE  tcbNext[pool[i]] = IF i = Len(pool) THEN NIL ELSE pool[i + 1]
      <4>1. /\ i \in 1..N-2 /\ pool[i] = i + 2 /\ i + 2 \in TCB
            /\ i + 2 # MainTCB /\ i + 2 # IdleTCB
        BY <1>2, <1>4
      <4>2. tcbNext[i + 2] = IF i + 3 \in TCB THEN i + 3 ELSE NIL
        BY <1>1, <4>1
      <4>3. i # N - 2 => i + 3 \in TCB /\ i + 1 \in 1..N-2 /\ pool[i + 1] = i + 3
        BY <1>2, <1>4, <4>1
      <4> QED
        BY <1>2, <1>4, <4>1, <4>2, <4>3
    <3> QED
      BY <3>1, <3>2 DEF LinkedAs
  <2>3. \A i \in 1..Len(order) :
          tcbPrev[order[i]] = IF i = 1 THEN NIL ELSE order[i - 1]
    BY <1>1, <1>2, <1>3
  <2>4. ToSet(pool) = 3..N
    <3>1. ToSet(pool) = {pool[i] : i \in 1..N-2}
      BY <1>4 DEF ToSet
    <3>2. \A x \in 3..N : x - 2 \in 1..N-2 /\ pool[x - 2] = x
      BY <1>2, <1>4
    <3>3. \A i \in 1..N-2 : pool[i] \in 3..N
      BY <1>2, <1>4
    <3> QED
      BY <3>1, <3>2, <3>3
  <2>5. Live \cap ToSet(pool) = {} /\ Live \cup ToSet(pool) = TCB
    BY <1>2, <1>3, <2>4
  <2>6. Injective(order) /\ Injective(pool)
    BY <1>2, <1>3, <1>4 DEF Injective
  <2> QED
    BY <1>1, <1>2, <1>3, <1>4, <2>1, <2>2, <2>3, <2>5, <2>6 DEF LinkInv, ListsAreIntact
<1>6. PrioInv
  <2>1. /\ tcbPrio \in [TCB -> 0..OS_LO_PRIO]
        /\ tcbPrio[2] = p /\ tcbPrio[1] = OS_LO_PRIO
    <3>1. 0 \in 0..OS_LO_PRIO /\ p \in 0..OS_LO_PRIO /\ OS_LO_PRIO \in 0..OS_LO_PRIO
      BY TaskAssumption
    <3> QED
      BY <1>1, <1>2, <3>1
  <2>2. /\ prioTbl \in [AllPrios -> TCB \cup {NIL}]
        /\ prioTbl[p] = 2 /\ prioTbl[OS_LO_PRIO] = 1
        /\ \A q \in AllPrios : q # p /\ q # OS_LO_PRIO => prioTbl[q] = NIL
    BY <1>1, <1>2 DEF AllPrios
  <2> QED
    BY <1>2, <1>3, <2>1, <2>2 DEF PrioInv, AllPrios
<1>7. ReadyInv
  <2>1. GoodTable(rdy) /\ \A q \in 0..63 : HasBit(rdy, q) <=> q = p \/ q = OS_LO_PRIO
    <3>1. GoodTable(EmptyTable) /\ \A q \in 0..63 : ~HasBit(EmptyTable, q)
      BY EmptyTableGood DEF Members
    <3> DEFINE T == WithBit(EmptyTable, OS_LO_PRIO)
    <3>2. GoodTable(T) /\ \A q \in 0..63 : HasBit(T, q) <=> q = OS_LO_PRIO
      BY <1>2, <3>1, WithBitGood
    <3>3. rdy = WithBit(T, p)
      BY <1>1
    <3> HIDE DEF T
    <3>4. GoodTable(rdy) /\ \A q \in 0..63 : HasBit(rdy, q) <=> HasBit(T, q) \/ q = p
      BY <1>2, <3>2, <3>3, WithBitGood
    <3> QED
      BY <3>2, <3>4
  <2> QED
    BY <1>1, <1>2, <1>3, <2>1 DEF ReadyInv, SleeperHasDelay, AllPrios
<1>8. CallerInv /\ WalkInv
  BY <1>1, <1>2, <1>3 DEF CallerInv, WalkInv
<1> QED
  BY <1>5, <1>6, <1>7, <1>8 DEF TaskInv

-------------------------------------------------------------------------------
(* Deleting and creating tasks: what becomes of the lists.                 *)
DeletesLinks(t, k) ==
  /\ UnlinkFirst(t) \/ UnlinkInner(t)
  /\ freeList' = t
  /\ order' = Without(order, k)
  /\ pool' = <<t>> \o pool

LEMMA LinkDelete ==
  ASSUME LinkInv, NEW t \in Live, t # IdleTCB,
         NEW k \in 1..Len(order), order[k] = t, DeletesLinks(t, k)
  PROVE  LinkInv' /\ Live' = Live \ {t}
<1> DEFINE n == Len(order)
<1>1. /\ n \in Nat /\ Len(pool) \in Nat /\ k \in 1..n-1 /\ t \in TCB /\ NIL \notin TCB
      /\ \A i \in 1..n : order[i] \in TCB
      /\ \A i \in 1..Len(pool) : pool[i] \in TCB
  <2>1. /\ n \in Nat /\ order[n] = IdleTCB /\ Len(pool) \in Nat
        /\ \A i \in 1..n : order[i] \in TCB
        /\ \A i \in 1..Len(pool) : pool[i] \in TCB
    BY DEF LinkInv
  <2>2. NIL \notin TCB
    BY TaskAssumption DEF TCB
  <2> QED
    BY <2>1, <2>2
<1>2. /\ order' \in Seq(TCB) /\ Len(order') = n - 1
      /\ \A i \in 1..n-1 : order'[i] = IF i < k THEN order[i] ELSE order[i + 1]
  BY WithoutSeq DEF LinkInv, DeletesLinks
<1>3. /\ pool' \in Seq(TCB) /\ Len(pool') = Len(pool) + 1
      /\ \A i \in 1..Len(pool)+1 : pool'[i] = IF i = 1 THEN t ELSE pool[i - 1]
  BY <1>1, ConsSeq DEF LinkInv, DeletesLinks
<1>4. /\ tcbList = order[1]
      /\ \A i \in 1..n : tcbNext[order[i]] = IF i = n THEN NIL ELSE order[i + 1]
      /\ \A i \in 1..n : tcbPrev[order[i]] = IF i = 1 THEN NIL ELSE order[i - 1]
      /\ freeList = IF pool = <<>> THEN NIL ELSE pool[1]
      /\ \A i \in 1..Len(pool) :
           tcbNext[pool[i]] = IF i = Len(pool) THEN NIL ELSE pool[i + 1]
  BY <1>1 DEF LinkInv, ListsAreIntact, LinkedAs
<1>5. /\ \A i, j \in 1..n : order[i] = order[j] => i = j
      /\ \A i, j \in 1..Len(pool) : pool[i] = pool[j] => i = j
      /\ \A i \in 1..n, j \in 1..Len(pool) : order[i] # pool[j]
  <2>1. /\ \A i \in 1..n : order[i] \in Live
        /\ \A i \in 1..Len(pool) : pool[i] \in ToSet(pool)
    BY DEF Live, ToSet, LinkInv
  <2>2. Live \cap ToSet(pool) = {}
    BY DEF LinkInv, ListsAreIntact
  <2> QED
    BY <2>1, <2>2 DEF LinkInv, Injective
<1>6. tcbNext[t] = order[k + 1] /\ tcbPrev[t] = IF k = 1 THEN NIL ELSE order[k - 1]
  BY <1>1, <1>4
<1>7. /\ tcbNext' \in [TCB -> TCB \cup {NIL}] /\ tcbPrev' \in [TCB -> TCB \cup {NIL}]
      /\ tcbList' = order'[1]
      /\ \A u \in TCB : tcbNext'[u] = IF u = t THEN freeList
                                      ELSE IF k > 1 /\ u = order[k - 1]
                                      THEN order[k + 1] ELSE tcbNext[u]
      /\ \A u \in TCB : tcbPrev'[u] = IF u = order[k + 1]
                                      THEN IF k = 1 THEN NIL ELSE order[k - 1]
                                      ELSE tcbPrev[u]
  <2>a. (UnlinkFirst(t) \/ UnlinkInner(t)) /\ freeList' = t
    BY DEF DeletesLinks
  <2>0. /\ tcbNext \in [TCB -> TCB \cup {NIL}] /\ tcbPrev \in [TCB -> TCB \cup {NIL}]
        /\ freeList \in TCB \cup {NIL} /\ order[k + 1] \in TCB
    BY <1>1 DEF LinkInv
  <2>1. CASE k = 1
    <3>1. UnlinkFirst(t)
      BY <1>6, <2>a, <2>1 DEF UnlinkInner
    <3>2. /\ tcbNext' = [tcbNext EXCEPT ![t] = freeList]
          /\ tcbPrev' = [tcbPrev EXCEPT ![order[k + 1]] = NIL]
          /\ tcbList' = order[k + 1]
      BY <1>6, <3>1 DEF UnlinkFirst
    <3>3. order'[1] = order[k + 1]
      BY <1>1, <1>2, <2>1
    <3> QED
      BY <1>1, <2>0, <2>1, <3>2, <3>3
  <2>2. CASE k # 1
    <3>1. k - 1 \in 1..n /\ order[k - 1] \in TCB /\ order[k - 1] # t /\ k > 1
      BY <1>1, <1>5, <2>2
    <3>2. UnlinkInner(t)
      BY <1>1, <1>6, <2>a, <2>2, <3>1 DEF UnlinkFirst
    <3>3. /\ tcbNext' = [tcbNext EXCEPT ![order[k - 1]] = order[k + 1], ![t] = freeList]
          /\ tcbPrev' = [tcbPrev EXCEPT ![order[k + 1]] = order[k - 1]]
          /\ tcbList' = order[1]
      BY <1>4, <1>6, <2>2, <3>2 DEF UnlinkInner
    <3>4. order'[1] = order[1]
      BY <1>1, <1>2, <3>1
    <3> QED
      BY <1>1, <2>0, <3>1, <3>3, <3>4
  <2> QED
    BY <2>1, <2>2
<1>0. freeList' = t
  BY DEF DeletesLinks
<1>8. \A i \in 1..n-1 :
        /\ tcbNext'[order'[i]] = IF i = n - 1 THEN NIL ELSE order'[i + 1]
        /\ tcbPrev'[order'[i]] = IF i = 1 THEN NIL ELSE order'[i - 1]
  <2> TAKE i \in 1..n-1
  <2> DEFINE j == IF i < k THEN i ELSE i + 1
  <2>1. /\ j \in 1..n /\ order'[i] = order[j] /\ order[j] \in TCB /\ order[j] # t
        /\ (order[j] = order[k + 1] <=> i = k)
        /\ (k > 1 => (order[j] = order[k - 1] <=> i = k - 1))
        /\ (i = n - 1 <=> IF k = n THEN j = n - 1 ELSE j = n)
    BY <1>1, <1>2, <1>5
  <2>2. tcbNext'[order[j]] = IF k > 1 /\ i = k - 1 THEN order[k + 1] ELSE tcbNext[order[j]]
    BY <1>7, <2>1
  <2>3. tcbPrev'[order[j]] = IF i = k THEN IF k = 1 THEN NIL ELSE order[k - 1]
                                      ELSE tcbPrev[order[j]]
    BY <1>7, <2>1
  <2>4. tcbNext[order[j]] = IF j = n THEN NIL ELSE order[j + 1]
    BY <1>4, <2>1
  <2>5. tcbPrev[order[j]] = IF j = 1 THEN NIL ELSE order[j - 1]
    BY <1>4, <2>1
  <2>6. i # n - 1 => order'[i + 1] = IF i + 1 < k THEN order[i + 1] ELSE order[i + 2]
    BY <1>1, <1>2
  <2>7. i # 1 => order'[i - 1] = IF i - 1 < k THEN order[i - 1] ELSE order[i]
    BY <1>1, <1>2
  <2>8. tcbNext'[order'[i]] = IF i = n - 1 THEN NIL ELSE order'[i + 1]
    BY SMTT(60), <1>1, <2>1, <2>2, <2>4, <2>6
  <2>9. tcbPrev'[order'[i]] = IF i = 1 THEN NIL ELSE order'[i - 1]
    BY <1>1, <2>1, <2>3, <2>5, <2>7
  <2> QED
    BY <2>8, <2>9
<1>9. \A i \in 1..Len(pool)+1 :
        tcbNext'[pool'[i]] = IF i = Len(pool) + 1 THEN NIL ELSE pool'[i + 1]
  <2>1. pool = <<>> <=> Len(pool) = 0
    BY DEF LinkInv
  <2>2. /\ pool'[1] = t
        /\ \A i \in 1..Len(pool) :
             i + 1 \in 1..Len(pool)+1 /\ pool'[i + 1] = pool[i]
    BY <1>1, <1>3
  <2>3. tcbNext'[t] = freeList
    BY <1>1, <1>7
  <2>4. ASSUME NEW i \in 1..Len(pool)
        PROVE  tcbNext'[pool'[i + 1]] = IF i = Len(pool) THEN NIL ELSE pool'[i + 2]
    <3>1. pool[i] \in TCB /\ pool[i] # t /\ (k > 1 => pool[i] # order[k - 1])
      BY SMTT(60), <1>1, <1>5
    <3>2. tcbNext'[pool[i]] = tcbNext[pool[i]]
      BY <1>7, <3>1
    <3>3. i # Len(pool) => i + 1 \in 1..Len(pool) /\ pool'[i + 2] = pool[i + 1]
      <4>1. i # Len(pool) => i + 1 \in 1..Len(pool) /\ (i + 1) + 1 = i + 2
        BY <1>1
      <4> QED
        BY <2>2, <4>1
    <3> QED
      BY <1>4, <2>2, <3>2, <3>3
  <2>5. tcbNext'[pool'[1]] = IF Len(pool) = 0 THEN NIL ELSE pool'[2]
    <3>1. Len(pool) # 0 => 1 \in 1..Len(pool) /\ pool'[2] = pool[1]
      <4>1. Len(pool) # 0 => 1 \in 1..Len(pool) /\ 1 + 1 = 2
        BY <1>1
      <4> QED
        BY <2>2, <4>1
    <3> QED
      BY <1>4, <2>1, <2>2, <2>3, <3>1
  <2> SUFFICES ASSUME NEW i \in 1..Len(pool)+1
               PROVE  tcbNext'[pool'[i]] = IF i = Len(pool) + 1 THEN NIL ELSE pool'[i + 1]
    OBVIOUS
  <2>6. CASE i = 1
    BY <1>1, <2>5, <2>6
  <2>7. CASE i # 1
    <3>1. i - 1 \in 1..Len(pool) /\ (i - 1) + 1 = i /\ (i - 1) + 2 = i + 1
      BY <1>1, <2>7
    <3>2. tcbNext'[pool'[(i - 1) + 1]] = IF i - 1 = Len(pool) THEN NIL ELSE pool'[(i - 1) + 2]
      BY <2>4, <3>1
    <3> QED
      BY <1>1, <3>1, <3>2
  <2> QED
    BY <2>6, <2>7
<1>10. Injective(order') /\ Live' = Live \ {t}
  BY WithoutSet DEF LinkInv, DeletesLinks, Live
<1>11. Injective(pool') /\ ToSet(pool') = ToSet(pool) \cup {t}
  <2>1. t \notin ToSet(pool)
    BY DEF LinkInv, ListsAreIntact
  <2> QED
    BY <1>1, <2>1, ConsSet DEF LinkInv, DeletesLinks
<1>12. order'[n - 1] = IdleTCB
  BY <1>1, <1>2 DEF LinkInv
<1>13. ListsAreIntact'
  <2>1. LinkedAs(tcbList, order)'
    BY <1>1, <1>2, <1>7, <1>8 DEF LinkedAs
  <2>2. LinkedAs(freeList, pool)'
    BY <1>0, <1>3, <1>9 DEF LinkedAs
  <2>3. Live' \cap ToSet(pool') = {} /\ Live' \cup ToSet(pool') = TCB
    BY <1>1, <1>10, <1>11 DEF LinkInv, ListsAreIntact
  <2> QED
    BY <1>2, <1>8, <2>1, <2>2, <2>3 DEF ListsAreIntact
<1> QED
  BY <1>0, <1>1, <1>2, <1>3, <1>7, <1>10, <1>11, <1>12, <1>13 DEF LinkInv

CreatesLinks(new) ==
  /\ new = freeList
  /\ freeList' = tcbNext[new]
  /\ tcbNext' = [tcbNext EXCEPT ![new] = tcbList]
  /\ tcbPrev' = [tcbPrev EXCEPT ![new] = NIL, ![tcbList] = new]
  /\ tcbList' = new
  /\ order' = <<new>> \o order
  /\ pool' = Tail(pool)

LEMMA LinkCreate ==
  ASSUME LinkInv, freeList # NIL, NEW new, CreatesLinks(new)
  PROVE  LinkInv' /\ new \in TCB /\ new \notin Live /\ Live' = Live \cup {new}
<1> DEFINE n == Len(order)
           m == Len(pool)
<1>1. /\ n \in Nat /\ n >= 1 /\ m \in Nat /\ order[n] = IdleTCB
      /\ \A i \in 1..n : order[i] \in TCB
      /\ \A i \in 1..m : pool[i] \in TCB
      /\ pool = <<>> <=> m = 0
  BY DEF LinkInv
<1>2. /\ tcbList = order[1]
      /\ \A i \in 1..n : tcbNext[order[i]] = IF i = n THEN NIL ELSE order[i + 1]
      /\ \A i \in 1..n : tcbPrev[order[i]] = IF i = 1 THEN NIL ELSE order[i - 1]
      /\ freeList = IF pool = <<>> THEN NIL ELSE pool[1]
      /\ \A i \in 1..m : tcbNext[pool[i]] = IF i = m THEN NIL ELSE pool[i + 1]
  BY <1>1 DEF LinkInv, ListsAreIntact, LinkedAs
<1>3. /\ \A i, j \in 1..n : order[i] = order[j] => i = j
      /\ \A i, j \in 1..m : pool[i] = pool[j] => i = j
      /\ \A i \in 1..n, j \in 1..m : order[i] # pool[j]
  <2>1. /\ \A i \in 1..n : order[i] \in Live
        /\ \A i \in 1..m : pool[i] \in ToSet(pool)
    BY DEF Live, ToSet, LinkInv
  <2>2. Live \cap ToSet(pool) = {}
    BY DEF LinkInv, ListsAreIntact
  <2> QED
    BY <2>1, <2>2 DEF LinkInv, Injective
<1>4. /\ pool # <<>> /\ m >= 1 /\ new = pool[1] /\ new \in TCB
      /\ \A i \in 1..n : order[i] # new
      /\ tcbList \in TCB /\ tcbList # new
      /\ freeList' = IF m = 1 THEN NIL ELSE pool[2]
  <2>1. new = freeList /\ freeList' = tcbNext[new]
    BY DEF CreatesLinks
  <2>2. pool # <<>> /\ m >= 1 /\ new = pool[1]
    BY <1>1, <1>2, <2>1
  <2>3. 1 \in 1..m /\ 1 \in 1..n
    BY <1>1, <2>2
  <2>4. new \in TCB /\ \A i \in 1..n : order[i] # new
    BY <1>1, <1>3, <2>2, <2>3
  <2>5. tcbList \in TCB /\ tcbList # new
    BY <1>1, <1>2, <2>3, <2>4
  <2>6. freeList' = IF m = 1 THEN NIL ELSE pool[2]
    <3>1. tcbNext[pool[1]] = IF 1 = m THEN NIL ELSE pool[1 + 1]
      BY <1>2, <2>3
    <3>2. 1 + 1 = 2
      OBVIOUS
    <3> QED
      BY <2>1, <2>2, <3>1, <3>2
  <2> QED
    BY <2>2, <2>4, <2>5, <2>6
<1>5. /\ order' \in Seq(TCB) /\ Len(order') = n + 1
      /\ \A i \in 1..n+1 : order'[i] = IF i = 1 THEN new ELSE order[i - 1]
  BY <1>4, ConsSeq DEF LinkInv, CreatesLinks
<1>6. /\ pool' \in Seq(TCB) /\ Len(pool') = m - 1
      /\ \A i \in 1..m-1 : pool'[i] = pool[i + 1]
  BY <1>4, TailSeq DEF LinkInv, CreatesLinks
<1>7. new \in ToSet(pool) /\ new \notin Live
  BY <1>1, <1>3, <1>4, ToSetIs DEF LinkInv, Live
<1>8. Injective(order') /\ Live' = Live \cup {new}
  BY <1>4, <1>7, ConsSet DEF LinkInv, CreatesLinks, Live
<1>9. Injective(pool') /\ ToSet(pool') = ToSet(pool) \ {new}
  BY <1>4, TailSet DEF LinkInv, CreatesLinks
<1>10. /\ tcbNext' \in [TCB -> TCB \cup {NIL}] /\ tcbPrev' \in [TCB -> TCB \cup {NIL}]
       /\ tcbList' = new /\ tcbNext'[new] = tcbList
       /\ tcbPrev'[new] = NIL /\ tcbPrev'[tcbList] = new
       /\ \A u \in TCB : u # new => tcbNext'[u] = tcbNext[u]
       /\ \A u \in TCB : u # new /\ u # tcbList => tcbPrev'[u] = tcbPrev[u]
  <2>1. /\ tcbNext' = [tcbNext EXCEPT ![new] = tcbList]
        /\ tcbPrev' = [tcbPrev EXCEPT ![new] = NIL, ![tcbList] = new]
        /\ tcbList' = new
    BY DEF CreatesLinks
  <2>2. /\ tcbNext \in [TCB -> TCB \cup {NIL}] /\ tcbPrev \in [TCB -> TCB \cup {NIL}]
    BY DEF LinkInv
  <2> QED
    BY <1>4, <2>1, <2>2
<1> HIDE DEF n, m
<1>11. /\ order'[1] = new /\ order'[2] = order[1]
       /\ \A i \in 1..n : i + 1 \in 1..n+1 /\ order'[i + 1] = order[i]
       /\ \A i \in 1..n+1 : i # 1 => i - 1 \in 1..n /\ (i - 1) + 1 = i
  BY <1>1, <1>5
<1>12. ASSUME NEW i \in 1..n
       PROVE  /\ tcbNext'[order'[i + 1]] = IF i = n THEN NIL ELSE order'[i + 2]
              /\ tcbPrev'[order'[i + 1]] = order'[i]
  <2>1. order[i] \in TCB /\ order[i] # new /\ (order[i] = tcbList <=> i = 1)
    BY <1>1, <1>2, <1>3, <1>4
  <2>2. i # n => i + 1 \in 1..n /\ (i + 1) + 1 = i + 2
    BY <1>1
  <2>3. tcbNext'[order[i]] = IF i = n THEN NIL ELSE order[i + 1]
    BY <1>2, <1>10, <2>1
  <2>4. i # 1 => order'[i] = order[i - 1] /\ tcbPrev'[order[i]] = order[i - 1]
    <3>1. i \in 1..n+1
      BY <1>1
    <3> QED
      BY <1>2, <1>5, <1>10, <2>1, <3>1
  <2>5. i = 1 => order'[i] = new /\ tcbPrev'[order[i]] = new
    BY <1>10, <1>11, <2>1
  <2> QED
    BY <1>11, <2>2, <2>3, <2>4, <2>5
<1>13. ASSUME NEW i \in 1..n+1
       PROVE  /\ tcbNext'[order'[i]] = IF i = n + 1 THEN NIL ELSE order'[i + 1]
              /\ tcbPrev'[order'[i]] = IF i = 1 THEN NIL ELSE order'[i - 1]
  <2>1. CASE i = 1
    BY <1>1, <1>2, <1>10, <1>11, <2>1
  <2>2. CASE i # 1
    <3>1. i - 1 \in 1..n /\ (i - 1) + 1 = i /\ (i - 1) + 2 = i + 1
      BY <1>1, <2>2
    <3>2. /\ tcbNext'[order'[(i - 1) + 1]] = IF i - 1 = n THEN NIL ELSE order'[(i - 1) + 2]
          /\ tcbPrev'[order'[(i - 1) + 1]] = order'[i - 1]
      BY <1>12, <3>1
    <3> QED
      BY <1>1, <2>2, <3>1, <3>2
  <2> QED
    BY <2>1, <2>2
<1>14. ASSUME NEW i \in 1..m-1
       PROVE  tcbNext'[pool'[i]] = IF i = m - 1 THEN NIL ELSE pool'[i + 1]
  <2>1. /\ i + 1 \in 1..m /\ pool'[i] = pool[i + 1] /\ 1 \in 1..m /\ i + 1 # 1
        /\ i # m - 1 => i + 1 \in 1..m-1 /\ (i + 1) + 1 = i + 2
    BY <1>1, <1>6
  <2>2. pool[i + 1] \in TCB /\ pool[i + 1] # new
    BY <1>1, <1>3, <1>4, <2>1
  <2>3. tcbNext'[pool[i + 1]] = IF i + 1 = m THEN NIL ELSE pool[(i + 1) + 1]
    BY <1>2, <1>10, <2>1, <2>2
  <2>4. i # m - 1 => pool'[i + 1] = pool[(i + 1) + 1]
    BY <1>6, <2>1
  <2> QED
    BY <1>1, <2>1, <2>3, <2>4
<1>15. ListsAreIntact'
  <2>1. LinkedAs(tcbList, order)'
    BY <1>1, <1>5, <1>10, <1>11, <1>13 DEF LinkedAs
  <2>2. LinkedAs(freeList, pool)'
    <3>1. freeList' = IF pool' = <<>> THEN NIL ELSE Head(pool')
      <4>1. CASE m = 1
        BY <1>4, <1>6, <4>1
      <4>2. CASE m # 1
        <5>1. 1 \in 1..m-1 /\ 1 + 1 = 2
          BY <1>1, <1>4, <4>2
        <5>2. pool' # <<>> /\ pool'[1] = pool[2]
          BY <1>6, <5>1
        <5> QED
          BY <1>4, <1>6, <4>2, <5>2
      <4> QED
        BY <4>1, <4>2
    <3> QED
      BY <1>6, <1>14, <3>1 DEF LinkedAs
  <2>3. Live' \cap ToSet(pool') = {} /\ Live' \cup ToSet(pool') = TCB
    BY <1>4, <1>7, <1>8, <1>9 DEF LinkInv, ListsAreIntact
  <2> QED
    BY <1>5, <1>13, <2>1, <2>2, <2>3 DEF ListsAreIntact
<1>16. order'[n + 1] = IdleTCB
  BY <1>1, <1>11
<1>17. freeList' \in TCB \cup {NIL}
  BY <1>1, <1>4
<1> QED
  BY <1>1, <1>4, <1>5, <1>6, <1>7, <1>8, <1>9, <1>10, <1>15, <1>16, <1>17 DEF LinkInv

-------------------------------------------------------------------------------
(* What the parts say to one another.                                      *)
LEMMA PrioFacts ==
  ASSUME TaskInv
  PROVE  /\ AllPrios \subseteq 0..63 /\ NIL \notin TCB
         /\ OS_LO_PRIO \in AllPrios /\ OS_LO_PRIO \notin Prios
         /\ \A t \in Live : t \in TCB /\ tcbPrio[t] \in AllPrios
         /\ \A t, u \in Live : tcbPrio[t] = tcbPrio[u] => t = u
         /\ IdleTCB \in Live /\ tcbPrio[IdleTCB] = OS_LO_PRIO
<1>1. AllPrios \subseteq 0..63 /\ NIL \notin TCB /\ OS_LO_PRIO \notin Prios
  BY TaskAssumption DEF AllPrios, TCB
<1>2. IdleTCB \in Live /\ Live \subseteq TCB
  BY LiveIs DEF TaskInv
<1> QED
  BY <1>1, <1>2 DEF TaskInv, PrioInv, AllPrios

LEMMA LookupFacts ==
  ASSUME TaskInv
  PROVE  LookupIsHighest
<1> DEFINE h == Lookup(rdy)
<1>1. HasBit(rdy, OS_LO_PRIO) /\ OS_LO_PRIO \in 0..63
  BY PrioFacts DEF TaskInv, ReadyInv, SleeperHasDelay
<1>2. IsLeast(h, Members(rdy))
  BY <1>1, TableLookup DEF TaskInv, ReadyInv
<1>3. HighTCB = prioTbl[h]
  BY DEF HighTCB
<1> HIDE DEF h
<1>4. /\ h \in 0..63 /\ HasBit(rdy, h)
      /\ \A p \in 0..63 : HasBit(rdy, p) => h <= p
  BY <1>2 DEF IsLeast, Members
<1>5. HighTCB \in Live /\ tcbPrio[HighTCB] = h
  BY <1>3, <1>4 DEF TaskInv, ReadyInv, PrioInv
<1>6. \A t \in Live : HasBit(rdy, tcbPrio[t]) <=> tcbDly[t] = 0
  BY DEF TaskInv, ReadyInv, SleeperHasDelay
<1> QED
  BY <1>4, <1>5, <1>6, PrioFacts DEF LookupIsHighest

LEMMA CallerFacts ==
  ASSUME TaskInv, NEW t, MayCall(t)
  PROVE  /\ t = cur /\ t \in Live /\ t # IdleTCB /\ tcbDly[t] = 0 /\ walk = NIL
         /\ tcbPrio[t] \in Prios /\ HasBit(rdy, tcbPrio[t])
<1>1. t = cur /\ t \in Live /\ t # IdleTCB /\ tcbDly[t] = 0 /\ walk = NIL
  BY DEF MayCall, TaskInv, CallerInv
<1>2. tcbPrio[t] \in Prios
  BY <1>1 DEF TaskInv, PrioInv, AllPrios
<1> QED
  BY <1>1, <1>2 DEF TaskInv, ReadyInv, SleeperHasDelay

LEMMA LinkUnchanged ==
  ASSUME LinkInv, UNCHANGED linkVars
  PROVE  LinkInv' /\ Live' = Live
<1>1. /\ tcbNext' = tcbNext /\ tcbPrev' = tcbPrev /\ tcbList' = tcbList
      /\ freeList' = freeList /\ order' = order /\ pool' = pool
  BY DEF linkVars
<1>2. Live' = Live
  BY <1>1 DEF Live
<1>3. ListsAreIntact'
  <2>1. LinkedAs(tcbList, order)' /\ LinkedAs(freeList, pool)'
    BY <1>1 DEF LinkInv, ListsAreIntact, LinkedAs
  <2> QED
    BY <1>1, <1>2, <2>1 DEF LinkInv, ListsAreIntact
<1> QED
  BY <1>1, <1>2, <1>3 DEF LinkInv

-------------------------------------------------------------------------------
(* One lemma per action.                                                   *)
LEMMA OSSchedInv ==
  ASSUME TaskInv, NEW t \in TCB, OSSched(t)
  PROVE  TaskInv'
<1>1. LinkInv' /\ Live' = Live
  BY LinkUnchanged DEF OSSched, TaskInv
<1>2. PrioInv' /\ ReadyInv'
  BY <1>1 DEF OSSched, TaskInv, PrioInv, ReadyInv, SleeperHasDelay
<1>3. CallerInv'
  BY <1>1, LookupFacts, PrioFacts DEF OSSched, TaskInv, CallerInv, LookupIsHighest
<1>4. WalkInv'
  BY DEF OSSched, TaskInv, WalkInv, tickVars, linkVars
<1> QED
  BY <1>1, <1>2, <1>3, <1>4 DEF TaskInv

LEMMA OSTimeDlyInv ==
  ASSUME TaskInv, NEW t \in TCB, OSTimeDly(t)
  PROVE  TaskInv'
<1>1. LinkInv' /\ Live' = Live
  BY LinkUnchanged DEF OSTimeDly, TaskInv
<1>2. /\ t = cur /\ t \in Live /\ t # IdleTCB /\ walk = NIL
      /\ tcbPrio[t] \in 0..63
  BY CallerFacts, PrioFacts DEF OSTimeDly
<1>3. PrioInv'
  BY <1>1 DEF OSTimeDly, TaskInv, PrioInv
<1>4. ReadyInv'
  <2>1. PICK d \in Nat \ {0} : tcbDly' = [tcbDly EXCEPT ![t] = d]
    BY TaskAssumption DEF OSTimeDly
  <2>2. /\ GoodTable(rdy')
        /\ \A q \in 0..63 : HasBit(rdy', q) <=> HasBit(rdy, q) /\ q # tcbPrio[t]
    <3>1. GoodTable(rdy) /\ tcbPrio[t] \in 0..63 /\ rdy' = WithoutBit(rdy, tcbPrio[t])
      BY <1>2 DEF OSTimeDly, TaskInv, ReadyInv
    <3> QED
      BY <3>1, WithoutBitGood, Zenon
  <2>3. \A u \in Live : tcbPrio[u] \in 0..63 /\ (tcbPrio[u] = tcbPrio[t] => u = t)
    BY <1>2, PrioFacts
  <2>4. tcbPrio' = tcbPrio /\ prioTbl' = prioTbl
    BY DEF OSTimeDly
  <2>5. SleeperHasDelay'
    BY <1>1, <1>2, <2>1, <2>2, <2>3, <2>4, PrioFacts
       DEF TaskInv, ReadyInv, SleeperHasDelay
  <2> QED
    BY <1>2, <2>1, <2>2, <2>4, <2>5 DEF TaskInv, ReadyInv
<1>5. CallerInv'
  BY <1>2 DEF OSTimeDly, TaskInv, CallerInv
<1>6. WalkInv'
  BY DEF OSTimeDly, TaskInv, WalkInv, tickVars, linkVars
<1> QED
  BY <1>1, <1>3, <1>4, <1>5, <1>6 DEF TaskInv

LEMMA OSChangePrioInv ==
  ASSUME TaskInv, NEW t \in TCB, NEW newp \in Prios, OSChangePrio(t, newp)
  PROVE  TaskInv'
<1> DEFINE oldp == tcbPrio[t]
<1>1. LinkInv' /\ Live' = Live
  BY LinkUnchanged DEF OSChangePrio, TaskInv
<1>2. /\ t = cur /\ t \in Live /\ t # IdleTCB /\ walk = NIL /\ tcbDly[t] = 0
      /\ oldp \in Prios /\ oldp \in 0..63 /\ newp \in 0..63
      /\ newp \in AllPrios /\ oldp \in AllPrios /\ prioTbl[newp] = NIL
      /\ newp \in 0..OS_LO_PRIO /\ newp # OS_LO_PRIO
  <2>1. MayCall(t) /\ prioTbl[newp] = NIL
    BY DEF OSChangePrio
  <2>2. /\ t = cur /\ t \in Live /\ t # IdleTCB /\ walk = NIL /\ tcbDly[t] = 0
        /\ oldp \in Prios
    BY <2>1, CallerFacts
  <2>3. \A q \in Prios : /\ q \in AllPrios /\ q \in 0..63
                         /\ q \in 0..OS_LO_PRIO /\ q # OS_LO_PRIO
    BY TaskAssumption DEF AllPrios
  <2> QED
    BY <2>1, <2>2, <2>3
<1>3. newp # oldp /\ \A u \in Live : tcbPrio[u] # newp
  BY <1>2, PrioFacts DEF TaskInv, PrioInv
<1>4. /\ tcbPrio' = [tcbPrio EXCEPT ![t] = newp]
      /\ prioTbl' = [prioTbl EXCEPT ![newp] = t, ![oldp] = NIL]
      /\ rdy' = WithBit(WithoutBit(rdy, oldp), newp) /\ tcbDly' = tcbDly
  BY DEF OSChangePrio
<1>5. PrioInv'
  BY <1>1, <1>2, <1>3, <1>4, PrioFacts DEF TaskInv, PrioInv
<1>6. ReadyInv'
  <2>1. /\ GoodTable(WithoutBit(rdy, oldp))
        /\ \A q \in 0..63 : HasBit(WithoutBit(rdy, oldp), q) <=> HasBit(rdy, q) /\ q # oldp
    <3>1. GoodTable(rdy) /\ oldp \in 0..63
      BY <1>2 DEF TaskInv, ReadyInv
    <3> QED
      BY <3>1, WithoutBitGood, Zenon
  <2>2. /\ GoodTable(rdy')
        /\ \A q \in 0..63 :
             HasBit(rdy', q) <=> (HasBit(rdy, q) /\ q # oldp) \/ q = newp
    <3> DEFINE T == WithoutBit(rdy, oldp)
    <3>1. GoodTable(T) /\ rdy' = WithBit(T, newp)
      BY <1>4, <2>1
    <3>2. \A q \in 0..63 : HasBit(T, q) <=> HasBit(rdy, q) /\ q # oldp
      BY <2>1
    <3> HIDE DEF T
    <3>3. newp \in 0..63
      BY <1>2
    <3>4. /\ GoodTable(WithBit(T, newp))
          /\ \A q \in 0..63 : HasBit(WithBit(T, newp), q) <=> HasBit(T, q) \/ q = newp
      BY <3>1, <3>3, WithBitGood, Zenon
    <3> QED
      BY <3>1, <3>2, <3>4, Zenon
  <2>3. \A u \in Live : u \in TCB /\ tcbPrio[u] \in 0..63 /\ (tcbPrio[u] = oldp => u = t)
    BY <1>2, PrioFacts
  <2>4. SleeperHasDelay'
    BY <1>1, <1>2, <1>3, <1>4, <2>2, <2>3
       DEF TaskInv, PrioInv, ReadyInv, SleeperHasDelay
  <2>5. \A q \in 0..63 : HasBit(rdy', q) => q \in AllPrios /\ prioTbl'[q] # NIL
    BY <1>2, <1>3, <1>4, <2>2, PrioFacts DEF TaskInv, PrioInv, ReadyInv
  <2> QED
    BY <1>4, <2>2, <2>4, <2>5 DEF TaskInv, ReadyInv
<1>7. CallerInv'
  BY <1>2 DEF OSChangePrio, TaskInv, CallerInv
<1>8. WalkInv'
  BY DEF OSChangePrio, TaskInv, WalkInv, tickVars, linkVars
<1> QED
  BY <1>1, <1>5, <1>6, <1>7, <1>8 DEF TaskInv

LEMMA OSTaskDeleteInv ==
  ASSUME TaskInv, NEW t \in TCB, OSTaskDelete(t)
  PROVE  TaskInv'
<1>2. /\ t = cur /\ t \in Live /\ t # IdleTCB /\ walk = NIL
      /\ tcbPrio[t] \in Prios /\ tcbPrio[t] \in 0..63 /\ tcbPrio[t] \in AllPrios
  BY CallerFacts, PrioFacts DEF OSTaskDelete, AllPrios
<1>1. LinkInv' /\ Live' = Live \ {t}
  <2>1. PICK k \in 1..Len(order) : order[k] = t /\ order' = Without(order, k)
    BY DEF OSTaskDelete
  <2>2. DeletesLinks(t, k)
    BY <2>1 DEF OSTaskDelete, DeletesLinks
  <2> QED
    BY <1>2, <2>1, <2>2, LinkDelete DEF TaskInv
<1>3. /\ prioTbl' = [prioTbl EXCEPT ![tcbPrio[t]] = NIL] /\ tcbPrio' = tcbPrio
      /\ rdy' = WithoutBit(rdy, tcbPrio[t]) /\ tcbDly' = tcbDly
  BY DEF OSTaskDelete
<1>4. \A u \in Live : tcbPrio[u] \in 0..63 /\ (tcbPrio[u] = tcbPrio[t] => u = t)
  BY <1>2, PrioFacts
<1>5. PrioInv'
  BY <1>1, <1>2, <1>3, <1>4, PrioFacts DEF TaskInv, PrioInv
<1>6. ReadyInv'
  <2>1. /\ GoodTable(rdy')
        /\ \A q \in 0..63 : HasBit(rdy', q) <=> HasBit(rdy, q) /\ q # tcbPrio[t]
    <3>1. GoodTable(rdy) /\ tcbPrio[t] \in 0..63 /\ rdy' = WithoutBit(rdy, tcbPrio[t])
      BY <1>2, <1>3, <1>4 DEF TaskInv, ReadyInv
    <3> QED
      BY <3>1, WithoutBitGood, Zenon
  <2>2. SleeperHasDelay'
    BY <1>1, <1>3, <1>4, <2>1 DEF TaskInv, ReadyInv, SleeperHasDelay
  <2>3. \A q \in 0..63 : HasBit(rdy', q) => q \in AllPrios /\ prioTbl'[q] # NIL
    BY <1>2, <1>3, <2>1 DEF TaskInv, PrioInv, ReadyInv
  <2> QED
    BY <1>3, <2>1, <2>2, <2>3 DEF TaskInv, ReadyInv
<1>7. CallerInv'
  BY <1>2 DEF OSTaskDelete, TaskInv, CallerInv
<1>8. WalkInv'
  BY <1>2 DEF OSTaskDelete, TaskInv, WalkInv, tickVars
<1> QED
  BY <1>1, <1>5, <1>6, <1>7, <1>8 DEF TaskInv

LEMMA OSTaskCreateInv ==
  ASSUME TaskInv, NEW t \in TCB, NEW p \in Prios, OSTaskCreate(t, p)
  PROVE  TaskInv'
<1> DEFINE new == freeList
<1>1. LinkInv' /\ new \in TCB /\ new \notin Live /\ Live' = Live \cup {new}
  <2>1. freeList # NIL /\ CreatesLinks(freeList)
    BY DEF OSTaskCreate, CreatesLinks
  <2> QED
    BY <2>1, LinkCreate DEF TaskInv
<1>2. /\ t = cur /\ t \in Live /\ walk = NIL /\ t # new /\ IdleTCB # new
      /\ p \in 0..63 /\ p \in AllPrios /\ prioTbl[p] = NIL
      /\ p \in 0..OS_LO_PRIO /\ p # OS_LO_PRIO
  BY <1>1, CallerFacts, PrioFacts, TaskAssumption DEF OSTaskCreate, AllPrios
<1>3. /\ prioTbl' = [prioTbl EXCEPT ![p] = new]
      /\ tcbPrio' = [tcbPrio EXCEPT ![new] = p]
      /\ rdy' = WithBit(rdy, p) /\ tcbDly' = [tcbDly EXCEPT ![new] = 0]
      /\ toSched' = (toSched \ {new}) \cup {t} /\ cur' = cur
  BY DEF OSTaskCreate
<1>4. \A u \in Live : u \in TCB /\ u # new /\ tcbPrio[u] \in 0..63 /\ tcbPrio[u] # p
  BY <1>1, <1>2, PrioFacts DEF TaskInv, PrioInv
<1> HIDE DEF new
<1>5. PrioInv'
  BY <1>1, <1>2, <1>3, <1>4, PrioFacts DEF TaskInv, PrioInv
<1>6. ReadyInv'
  <2>1. /\ GoodTable(rdy')
        /\ \A q \in 0..63 : HasBit(rdy', q) <=> HasBit(rdy, q) \/ q = p
    <3>1. GoodTable(rdy) /\ p \in 0..63 /\ rdy' = WithBit(rdy, p)
      BY <1>2, <1>3 DEF TaskInv, ReadyInv
    <3> QED
      BY <3>1, WithBitGood, Zenon
  <2>2. SleeperHasDelay'
    BY <1>1, <1>2, <1>3, <1>4, <2>1 DEF TaskInv, PrioInv, ReadyInv, SleeperHasDelay
  <2>3. \A q \in 0..63 : HasBit(rdy', q) => q \in AllPrios /\ prioTbl'[q] # NIL
    BY <1>1, <1>2, <1>3, <2>1, PrioFacts DEF TaskInv, PrioInv, ReadyInv
  <2> QED
    BY <1>1, <1>2, <1>3, <2>1, <2>2, <2>3 DEF TaskInv, ReadyInv
<1>7. CallerInv'
  BY <1>1, <1>2, <1>3 DEF TaskInv, CallerInv
<1>8. WalkInv'
  BY <1>2 DEF OSTaskCreate, TaskInv, WalkInv, tickVars
<1> QED
  BY <1>1, <1>5, <1>6, <1>7, <1>8 DEF TaskInv

LEMMA TickEnterInv ==
  ASSUME TaskInv, TickEnter
  PROVE  TaskInv'
<1>1. LinkInv' /\ Live' = Live /\ order' = order
  BY LinkUnchanged DEF TickEnter, TaskInv, linkVars
<1>2. PrioInv' /\ ReadyInv' /\ CallerInv'
  BY <1>1 DEF TickEnter, TaskInv, PrioInv, ReadyInv, SleeperHasDelay, CallerInv
<1>3. WalkInv'
  <2>1. walk' = order[1] /\ 1 \in 1..Len(order) /\ walk' \in TCB
    BY DEF TickEnter, TaskInv, LinkInv, ListsAreIntact, LinkedAs
  <2>2. visited' = {order[i] : i \in 1..1-1}
    BY DEF TickEnter
  <2> QED
    BY <1>1, <2>1, <2>2 DEF WalkInv
<1> QED
  BY <1>1, <1>2, <1>3 DEF TaskInv

(* The tick is at a TCB with tasks behind it, unless it is at the idle one. *)
LEMMA WalkFacts ==
  ASSUME TaskInv, walk # NIL
  PROVE  /\ walk \in Live /\ walk \in TCB
         /\ tcbPrio[walk] = OS_LO_PRIO => visited = Live \ {IdleTCB}
         /\ tcbPrio[walk] # OS_LO_PRIO =>
              \E k \in 1..Len(order) :
                /\ tcbNext[walk] = order[k] /\ tcbNext[walk] \in TCB
                /\ visited \cup {walk} = {order[i] : i \in 1..k-1}
<1>1. PICK k \in 1..Len(order) : walk = order[k] /\ visited = {order[i] : i \in 1..k-1}
  BY DEF TaskInv, WalkInv
<1>2. /\ Len(order) \in Nat /\ order[Len(order)] = IdleTCB
      /\ \A i \in 1..Len(order) : order[i] \in TCB
      /\ Live = {order[i] : i \in 1..Len(order)}
      /\ \A i, j \in 1..Len(order) : order[i] = order[j] => i = j
  BY LiveIs DEF TaskInv, LinkInv, Injective
<1>3. walk \in Live /\ walk \in TCB /\ (tcbPrio[walk] = OS_LO_PRIO <=> walk = IdleTCB)
  BY <1>1, <1>2 DEF TaskInv, PrioInv
<1>4. walk = IdleTCB <=> k = Len(order)
  BY <1>1, <1>2
<1>5. ASSUME k = Len(order)
      PROVE  visited = Live \ {IdleTCB}
  <2>1. \A i \in 1..Len(order) : i \in 1..k-1 \/ i = k
    BY <1>2, <1>5
  <2>2. \A i \in 1..k-1 : i \in 1..Len(order) /\ i # Len(order)
    BY <1>2, <1>5
  <2> QED
    BY <1>1, <1>2, <1>5, <2>1, <2>2
<1>6. ASSUME k # Len(order)
      PROVE  /\ k + 1 \in 1..Len(order)
             /\ tcbNext[walk] = order[k + 1] /\ order[k + 1] \in TCB
             /\ visited \cup {walk} = {order[i] : i \in 1..(k+1)-1}
  <2>1. k + 1 \in 1..Len(order)
    BY <1>2, <1>6
  <2>2. tcbNext[walk] = order[k + 1]
    BY <1>1, <1>6 DEF TaskInv, LinkInv, ListsAreIntact, LinkedAs
  <2>3. \A i : i \in 1..(k+1)-1 <=> i \in 1..k-1 \/ i = k
    BY <1>2
  <2> QED
    BY <1>1, <1>2, <2>1, <2>2, <2>3
<1> QED
  BY <1>3, <1>4, <1>5, <1>6

LEMMA OSTimeTickInv ==
  ASSUME TaskInv, OSTimeTick
  PROVE  TaskInv'
<1>1. LinkInv' /\ Live' = Live /\ order' = order
  BY LinkUnchanged DEF OSTimeTick, TaskInv, linkVars
<1>2. /\ walk # NIL /\ tcbPrio[walk] # OS_LO_PRIO
      /\ walk \in Live /\ walk \in TCB /\ walk # IdleTCB
      /\ tcbPrio[walk] \in 0..63 /\ tcbDly[walk] \in Nat
  BY WalkFacts, PrioFacts DEF OSTimeTick, TaskInv, ReadyInv
<1>3. PrioInv'
  BY <1>1 DEF OSTimeTick, TaskInv, PrioInv
<1>4. /\ tcbPrio' = tcbPrio /\ prioTbl' = prioTbl /\ cur' = cur /\ toSched' = toSched
      /\ tcbDly' \in [TCB -> Nat]
      /\ tcbDly'[walk] = IF tcbDly[walk] # 0 THEN tcbDly[walk] - 1 ELSE 0
      /\ \A u \in TCB : u # walk => tcbDly'[u] = tcbDly[u]
  BY <1>2 DEF OSTimeTick, TaskInv, ReadyInv
<1>5. ReadyInv'
  <2>1. \A u \in Live : /\ u \in TCB /\ tcbPrio[u] \in 0..63 /\ tcbPrio[u] \in AllPrios
                        /\ (tcbPrio[u] = tcbPrio[walk] => u = walk)
                        /\ prioTbl[tcbPrio[u]] = u
                        /\ (HasBit(rdy, tcbPrio[u]) <=> tcbDly[u] = 0)
    BY <1>2, PrioFacts DEF TaskInv, PrioInv, ReadyInv, SleeperHasDelay
  <2>2. CASE tcbDly[walk] = 1
    <3>1. rdy' = WithBit(rdy, tcbPrio[walk])
      BY <2>2 DEF OSTimeTick
    <3>2. /\ GoodTable(rdy')
          /\ \A q \in 0..63 : HasBit(rdy', q) <=> HasBit(rdy, q) \/ q = tcbPrio[walk]
      <4>1. GoodTable(rdy) /\ tcbPrio[walk] \in 0..63
        BY <1>2, <2>1 DEF TaskInv, ReadyInv
      <4> QED
        BY <3>1, <4>1, WithBitGood, Zenon
    <3>3. SleeperHasDelay'
      BY <1>1, <1>2, <1>4, <2>1, <2>2, <3>2 DEF SleeperHasDelay
    <3>4. \A q \in 0..63 : HasBit(rdy', q) => q \in AllPrios /\ prioTbl'[q] # NIL
      BY <1>2, <1>4, <2>1, <3>2, PrioFacts DEF TaskInv, ReadyInv
    <3>5. tcbDly'[IdleTCB] = 0
      BY <1>2, <1>4, PrioFacts DEF TaskInv, ReadyInv
    <3> QED
      BY <1>4, <3>2, <3>3, <3>4, <3>5 DEF ReadyInv
  <2>3. CASE tcbDly[walk] # 1
    <3>1. rdy' = rdy
      BY <2>3 DEF OSTimeTick
    <3>2. SleeperHasDelay'
      BY <1>1, <1>2, <1>4, <2>1, <2>3, <3>1 DEF SleeperHasDelay
    <3>3. tcbDly'[IdleTCB] = 0
      BY <1>2, <1>4, PrioFacts DEF TaskInv, ReadyInv
    <3> QED
      BY <1>4, <3>1, <3>2, <3>3 DEF TaskInv, ReadyInv
  <2> QED
    BY <2>2, <2>3
<1>6. CallerInv'
  BY <1>1, <1>2, <1>4 DEF TaskInv, CallerInv
<1>7. WalkInv'
  <2>1. walk' = tcbNext[walk] /\ visited' = visited \cup {walk}
    BY DEF OSTimeTick
  <2> QED
    <3>1. PICK k \in 1..Len(order) : /\ walk' = order[k] /\ walk' \in TCB
                                     /\ visited' = {order[i] : i \in 1..k-1}
      BY <1>2, <2>1, WalkFacts
    <3>2. visited' \subseteq TCB
      BY <1>2, <2>1 DEF TaskInv, WalkInv
    <3> QED
      BY <1>1, <3>1, <3>2 DEF WalkInv
<1> QED
  BY <1>1, <1>3, <1>5, <1>6, <1>7 DEF TaskInv

LEMMA TickExitInv ==
  ASSUME TaskInv, TickExit
  PROVE  TaskInv'
<1>1. LinkInv' /\ Live' = Live
  BY LinkUnchanged DEF TickExit, TaskInv
<1>2. PrioInv' /\ ReadyInv'
  BY <1>1 DEF TickExit, TaskInv, PrioInv, ReadyInv, SleeperHasDelay
<1>3. CallerInv'
  BY <1>1, LookupFacts, PrioFacts DEF TickExit, TaskInv, CallerInv, LookupIsHighest
<1>4. WalkInv'
  BY DEF TickExit, WalkInv
<1> QED
  BY <1>1, <1>2, <1>3, <1>4 DEF TaskInv

LEMMA UnchangedTaskInv ==
  ASSUME TaskInv, UNCHANGED vars
  PROVE  TaskInv'
<1>1. LinkInv' /\ Live' = Live /\ order' = order
  BY LinkUnchanged DEF vars, TaskInv, linkVars
<1>2. PrioInv' /\ ReadyInv'
  BY <1>1 DEF vars, TaskInv, PrioInv, ReadyInv, SleeperHasDelay
<1>3. CallerInv' /\ WalkInv'
  BY <1>1 DEF vars, tickVars, TaskInv, CallerInv, WalkInv
<1> QED
  BY <1>1, <1>2, <1>3 DEF TaskInv

THEOREM TaskInvariant == Spec => []TaskInv
<1>1. Init => TaskInv
  BY InitTaskInv
<1>2. TaskInv /\ [Next]_vars => TaskInv'
  <2> SUFFICES ASSUME TaskInv, [Next]_vars PROVE TaskInv'
    OBVIOUS
  <2>1. CASE UNCHANGED vars
    BY <2>1, UnchangedTaskInv
  <2>2. ASSUME NEW t \in TCB, OSSched(t) PROVE TaskInv'
    BY <2>2, OSSchedInv
  <2>3. ASSUME NEW t \in TCB, OSTimeDly(t) PROVE TaskInv'
    BY <2>3, OSTimeDlyInv
  <2>4. ASSUME NEW t \in TCB, OSTaskDelete(t) PROVE TaskInv'
    BY <2>4, OSTaskDeleteInv
  <2>5. ASSUME NEW t \in TCB, NEW p \in Prios, OSChangePrio(t, p) PROVE TaskInv'
    BY <2>5, OSChangePrioInv
  <2>6. ASSUME NEW t \in TCB, NEW p \in Prios, OSChangePrioExists(t, p) PROVE TaskInv'
    BY <2>6, UnchangedTaskInv DEF OSChangePrioExists
  <2>7. ASSUME NEW t \in TCB, NEW p \in Prios, OSTaskCreate(t, p) PROVE TaskInv'
    BY <2>7, OSTaskCreateInv
  <2>8. CASE TickEnter
    BY <2>8, TickEnterInv
  <2>9. CASE OSTimeTick
    BY <2>9, OSTimeTickInv
  <2>10. CASE TickExit
    BY <2>10, TickExitInv
  <2> QED
    BY <2>1, <2>2, <2>3, <2>4, <2>5, <2>6, <2>7, <2>8, <2>9, <2>10 DEF Next
<1> QED
  BY <1>1, <1>2, PTL DEF Spec

(***************************************************************************)
(* OSTCBList leads through every live TCB, forward and back, and           *)
(* OSTCBFreeList through all the others.                                   *)
(***************************************************************************)
THEOREM TaskLists == Spec => []ListsAreIntact
<1>1. TaskInv => ListsAreIntact
  BY DEF TaskInv, LinkInv
<1> QED
  BY <1>1, TaskInvariant, PTL

(***************************************************************************)
(* OSTCBPrioTbl is the inverse of OSTCBPrio, and every ready priority is   *)
(* in it.                                                                  *)
(***************************************************************************)
THEOREM TaskPrios == Spec => []PrioTblIsInverse
<1>1. TaskInv => PrioTblIsInverse
  BY DEF TaskInv, PrioInv, ReadyInv, PrioTblIsInverse, Members
<1> QED
  BY <1>1, TaskInvariant, PTL

(***************************************************************************)
(* A live task has its bit in the ready table exactly when no delay runs.  *)
(***************************************************************************)
THEOREM TaskSleepers == Spec => []SleeperHasDelay
<1>1. TaskInv => SleeperHasDelay
  BY DEF TaskInv, ReadyInv
<1> QED
  BY <1>1, TaskInvariant, PTL

(***************************************************************************)
(* The lookups of OSSched find the most urgent live task without a delay.  *)
(***************************************************************************)
THEOREM TaskLookup == Spec => []LookupIsHighest
<1>1. TaskInv => LookupIsHighest
  BY LookupFacts
<1> QED
  BY <1>1, TaskInvariant, PTL

(***************************************************************************)
(* OSTimeTick, which stops at the idle task's TCB, has then been at every  *)
(* other live one.                                                         *)
(***************************************************************************)
THEOREM TaskTicks == Spec => []TickVisitsEveryTask
<1>1. TaskInv => TickVisitsEveryTask
  BY WalkFacts DEF TickVisitsEveryTask
<1> QED
  BY <1>1, TaskInvariant, PTL
=============================================================================
