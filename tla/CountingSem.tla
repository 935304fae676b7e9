------------------------------ MODULE CountingSem ------------------------------
(***************************************************************************)
(* What a semaphore of the kernel promises its callers, without scheduler, *)
(* wait table, flags or delays.  A unit is available, or was handed to a   *)
(* task that has not returned from its pend, or is gone with one that has: *)
(* a post makes one, a pend that succeeds uses one, and a pend that gives  *)
(* up uses none.  A post while tasks wait serves the most urgent of them.  *)
(***************************************************************************)
EXTENDS Integers, FiniteSetsExt

CONSTANTS Sem, Task

VARIABLES avail,  \* the units of each semaphore that nobody has taken
          waiting,\* the tasks inside a pend with no unit
          granted \* the tasks inside a pend to which a unit was handed

absVars == <<avail, waiting, granted>>

Init ==
  /\ avail \in [Sem -> Nat]
  /\ waiting = [s \in Sem |-> {}]
  /\ granted = [s \in Sem |-> {}]

Take(s) ==
  /\ avail[s] > 0
  /\ avail' = [avail EXCEPT ![s] = @ - 1]
  /\ UNCHANGED <<waiting, granted>>

Wait(s, t) ==
  /\ avail[s] = 0
  /\ \A r \in Sem : t \notin waiting[r] \cup granted[r]
  /\ waiting' = [waiting EXCEPT ![s] = @ \cup {t}]
  /\ UNCHANGED <<avail, granted>>

GiveUp(s, t) ==
  /\ t \in waiting[s]
  /\ waiting' = [waiting EXCEPT ![s] = @ \ {t}]
  /\ UNCHANGED <<avail, granted>>

Return(s, t) ==
  /\ t \in granted[s]
  /\ granted' = [granted EXCEPT ![s] = @ \ {t}]
  /\ UNCHANGED <<avail, waiting>>

Store(s) ==
  /\ waiting[s] = {}
  /\ avail' = [avail EXCEPT ![s] = @ + 1]
  /\ UNCHANGED <<waiting, granted>>

HandOver(s) ==
  /\ waiting[s] # {}
  /\ LET t == Min(waiting[s])
     IN  /\ waiting' = [waiting EXCEPT ![s] = @ \ {t}]
         /\ granted' = [granted EXCEPT ![s] = @ \cup {t}]
  /\ UNCHANGED avail

Next == \E s \in Sem : \/ Take(s)
                       \/ Store(s)
                       \/ HandOver(s)
                       \/ \E t \in Task : \/ Wait(s, t)
                                          \/ GiveUp(s, t)
                                          \/ Return(s, t)

Spec == Init /\ [][Next]_absVars
=============================================================================
