------------------------------- MODULE RdyTable -------------------------------
(***************************************************************************)
(* The bit tables of ucos.cpp: OSRdyTbl with OSRdyGrp, and, with the same  *)
(* code, the wait table of every semaphore, mailbox, queue, FIFO and       *)
(* critical section.  Priority p is bit p & 7 of byte p >> 3; a bit of the *)
(* group says that a byte is not 0.  UcosTask schedules with this table;   *)
(* the other modules keep one as the set of its priorities and take its    *)
(* Min, which UcosTask_proofs shows it to be.                              *)
(*                                                                         *)
(* A byte is the set of its bits that are 1.                               *)
(***************************************************************************)
EXTENDS Integers, FiniteSetsExt

OSMapTbl == <<1, 2, 4, 8, 16, 32, 64, 128>>

OSUnMapTbl ==
  << 0, 0, 1, 0, 2, 0, 1, 0, 3, 0, 1, 0, 2, 0, 1, 0,
     4, 0, 1, 0, 2, 0, 1, 0, 3, 0, 1, 0, 2, 0, 1, 0,
     5, 0, 1, 0, 2, 0, 1, 0, 3, 0, 1, 0, 2, 0, 1, 0,
     4, 0, 1, 0, 2, 0, 1, 0, 3, 0, 1, 0, 2, 0, 1, 0,
     6, 0, 1, 0, 2, 0, 1, 0, 3, 0, 1, 0, 2, 0, 1, 0,
     4, 0, 1, 0, 2, 0, 1, 0, 3, 0, 1, 0, 2, 0, 1, 0,
     5, 0, 1, 0, 2, 0, 1, 0, 3, 0, 1, 0, 2, 0, 1, 0,
     4, 0, 1, 0, 2, 0, 1, 0, 3, 0, 1, 0, 2, 0, 1, 0,
     7, 0, 1, 0, 2, 0, 1, 0, 3, 0, 1, 0, 2, 0, 1, 0,
     4, 0, 1, 0, 2, 0, 1, 0, 3, 0, 1, 0, 2, 0, 1, 0,
     5, 0, 1, 0, 2, 0, 1, 0, 3, 0, 1, 0, 2, 0, 1, 0,
     4, 0, 1, 0, 2, 0, 1, 0, 3, 0, 1, 0, 2, 0, 1, 0,
     6, 0, 1, 0, 2, 0, 1, 0, 3, 0, 1, 0, 2, 0, 1, 0,
     4, 0, 1, 0, 2, 0, 1, 0, 3, 0, 1, 0, 2, 0, 1, 0,
     5, 0, 1, 0, 2, 0, 1, 0, 3, 0, 1, 0, 2, 0, 1, 0,
     4, 0, 1, 0, 2, 0, 1, 0, 3, 0, 1, 0, 2, 0, 1, 0 >>

Bit == 0..7

Row(p) == p \div 8
Col(p) == p % 8

(* The number a byte is, and the lookup of its lowest bit. *)
Value(byte) == MapThenSumSet(LAMBDA b : OSMapTbl[b + 1], byte)
UnMap(byte) == OSUnMapTbl[Value(byte) + 1]

(* What the other modules write Min(S) for. *)
IsLeast(x, S) == x \in S /\ \A y \in S : x <= y

(* OSUnMapTbl, at the index a byte is, has the byte's lowest bit: a fact   *)
(* about 255 constants, each of which TLC looks at.                        *)
ASSUME UnMapIsLowestBit ==
  \A byte \in SUBSET Bit : byte # {} => IsLeast(UnMap(byte), byte)

EmptyTable == [grp |-> {}, tbl |-> [y \in Bit |-> {}]]

(* Make p ready, or put it in a wait table. *)
WithBit(T, p) ==
  [grp |-> T.grp \cup {Row(p)},
   tbl |-> [T.tbl EXCEPT ![Row(p)] = @ \cup {Col(p)}]]

(* Take p out: the group's bit goes when the byte has become 0. *)
WithoutBit(T, p) ==
  LET byte == T.tbl[Row(p)] \ {Col(p)}
  IN  [grp |-> IF byte = {} THEN T.grp \ {Row(p)} ELSE T.grp,
       tbl |-> [T.tbl EXCEPT ![Row(p)] = byte]]

HasBit(T, p) == Col(p) \in T.tbl[Row(p)]

(* Mutant of Lookup: the first byte the search comes to from the top. *)
LookupFromTop(T) == LET y == Max(T.grp) IN 8 * y + UnMap(T.tbl[y])

(* The lookup of OSSched, OSIntExit, OSStart and of every post. *)
Lookup(T) == LET y == UnMap(T.grp) IN 8 * y + UnMap(T.tbl[y])

-------------------------------------------------------------------------------
Table == [grp : SUBSET Bit, tbl : [Bit -> SUBSET Bit]]

Members(T) == {p \in 0..63 : HasBit(T, p)}

(* The group has a bit exactly for the bytes that are not 0. *)
GroupMatches(T) == \A y \in Bit : y \in T.grp <=> T.tbl[y] # {}
=============================================================================
