------------------------------- MODULE UcosCrit -------------------------------
(***************************************************************************)
(* A critical section (OS_CRIT) of ucos.cpp: a recursive lock owned by a   *)
(* priority, passed on by OSCritLeave to the most urgent task in its wait  *)
(* table.  Priority 0 stands for "nobody", so no task may have it.         *)
(*                                                                         *)
(* OSCritEnter decides by the owner alone whether its wait succeeded, and  *)
(* when it did not it returns with its bit in the table and OS_STAT_CRIT   *)
(* still set, as the source does.                                          *)
(***************************************************************************)
EXTENDS UcosKernel

CONSTANTS Patient,  \* the tasks that call OSCritEnter with no timeout
          MaxDepth  \* bound: nested OSCritEnter calls of one task

ASSUME CritAssumption ==
  /\ 0 \notin Prio
  /\ "OS_STAT_CRIT" \in StatFlag
  /\ Patient \subseteq UserTask
  /\ MaxDepth \in Nat \ {0}

VARIABLES
  owner,    \* OSCritTaskNum
  depth,    \* OSCritDepthCount
  critWait, \* OSCritGrp and OSCritTbl
  held      \* history: enters that returned OS_NO_ERR and were not left yet

critVars == <<owner, depth, critWait, held>>
vars     == <<kernelVars, critVars>>

Init ==
  /\ KernelInit
  /\ owner = 0
  /\ depth = 0
  /\ critWait = {}
  /\ held = [p \in Prio |-> 0]

Entered(p) ==
  /\ depth' = depth + 1
  /\ held' = [held EXCEPT ![p] = @ + 1]

(* OSCritEnter and OSCritEnterNoWait by the owner, and on a free section. *)
EnterNow(p) ==
  /\ MayCall(p)
  /\ owner \in {p, 0}
  /\ depth < MaxDepth
  /\ owner' = p
  /\ Entered(p)
  /\ UNCHANGED <<kernelVars, critWait>>

EnterNoWaitFails(p) ==
  /\ MayCall(p)
  /\ owner \notin {p, 0}
  /\ UNCHANGED vars

(* OSCritEnter on a section of another task: its first critical section. *)
EnterWait(p, t) ==
  /\ MayBlock(p)
  /\ owner \notin {p, 0}
  /\ p \in Patient => t = 0
  /\ Block(p, "OS_STAT_CRIT", t)
  /\ critWait' = critWait \cup {p}
  /\ Goto(p, "pendSched")
  /\ UNCHANGED <<cur, lockNesting, isrVars, owner, depth, held>>

(* Mutant of EnterServed: the owner is not tested. *)
EnterServedUntested(p) ==
  /\ Running(p)
  /\ pc[p] = "pendWake"
  /\ Entered(p)
  /\ Goto(p, "run")
  /\ UNCHANGED <<tcbVars, cur, lockNesting, isrVars, owner, critWait>>

EnterServed(p) ==
  /\ Running(p)
  /\ pc[p] = "pendWake"
  /\ owner = p
  /\ Entered(p)
  /\ Goto(p, "run")
  /\ UNCHANGED <<tcbVars, cur, lockNesting, isrVars, owner, critWait>>

(* OS_TIMEOUT: neither the wait table nor the flag is cleaned up. *)
EnterTimeout(p) ==
  /\ Running(p)
  /\ pc[p] = "pendWake"
  /\ owner # p
  /\ Goto(p, "run")
  /\ UNCHANGED <<tcbVars, cur, lockNesting, isrVars, critVars>>

(* A task leaves a section only if it entered it. *)
Leaving(p) == MayCall(p) /\ held[p] > 0 /\ owner = p

LeaveInner(p) ==
  /\ Leaving(p)
  /\ depth > 1
  /\ depth' = depth - 1
  /\ held' = [held EXCEPT ![p] = @ - 1]
  /\ UNCHANGED <<kernelVars, owner, critWait>>

(* Mutant of LeaveFree: the section is freed although tasks wait. *)
LeaveFreeAlways(p) ==
  /\ Leaving(p)
  /\ depth = 1
  /\ owner' = 0
  /\ depth' = 0
  /\ held' = [held EXCEPT ![p] = @ - 1]
  /\ UNCHANGED <<kernelVars, critWait>>

LeaveFree(p) ==
  /\ Leaving(p)
  /\ depth = 1 /\ critWait = {}
  /\ owner' = 0
  /\ depth' = 0
  /\ held' = [held EXCEPT ![p] = @ - 1]
  /\ UNCHANGED <<kernelVars, critWait>>

(* Mutant of LeaveHandOver: the new owner's bit stays. *)
LeaveHandOverKeepsBit(p) ==
  /\ Leaving(p)
  /\ depth = 1 /\ critWait # {}
  /\ owner' = Min(critWait)
  /\ Wake(owner', "OS_STAT_CRIT")
  /\ depth' = 0
  /\ held' = [held EXCEPT ![p] = @ - 1]
  /\ Goto(p, "sched")
  /\ UNCHANGED <<critWait, cur, lockNesting, isrVars>>

LeaveHandOver(p) ==
  /\ Leaving(p)
  /\ depth = 1 /\ critWait # {}
  /\ LET q == Min(critWait)
     IN  /\ owner' = q
         /\ Wake(q, "OS_STAT_CRIT")
         /\ critWait' = critWait \ {q}
  /\ depth' = 0
  /\ held' = [held EXCEPT ![p] = @ - 1]
  /\ Goto(p, "sched")
  /\ UNCHANGED <<cur, lockNesting, isrVars>>

(* OS_CRIT_ERR: a task that entered and is no longer the owner. *)
LeaveNotOwner(p) ==
  /\ MayCall(p)
  /\ owner # p
  /\ UNCHANGED vars

CritNext ==
  \E p \in Prio : \/ EnterNow(p)
                  \/ EnterNoWaitFails(p)
                  \/ \E t \in Timeouts : EnterWait(p, t)
                  \/ EnterServed(p)
                  \/ EnterTimeout(p)
                  \/ LeaveInner(p)
                  \/ LeaveFree(p)
                  \/ LeaveHandOver(p)
                  \/ LeaveNotOwner(p)

Next == \/ KernelNext /\ UNCHANGED critVars
        \/ CritNext

Spec == Init /\ [][Next]_vars

-------------------------------------------------------------------------------
TypeOK ==
  /\ KernelTypeOK
  /\ owner \in UserTask \cup {0}
  /\ depth \in 0..MaxDepth
  /\ critWait \subseteq UserTask
  /\ held \in [Prio -> 0..MaxDepth]

(***************************************************************************)
(* No two tasks are inside the section, whatever enters time out.          *)
(***************************************************************************)
MutualExclusion ==
  \A p, q \in Prio : held[p] > 0 /\ held[q] > 0 => p = q

(***************************************************************************)
(* The depth count is the number of enters of the one task inside, and     *)
(* only the owner is inside: an enter is never taken back by another task. *)
(***************************************************************************)
DepthIsHeld ==
  \A p \in Prio : held[p] = IF p = owner THEN depth ELSE 0

(***************************************************************************)
(* A section is never left to a task without a timeout that does not know  *)
(* it: that task is inside, or about to return from OSCritEnter.  It is    *)
(* so although others time out, and leave their bits in the wait table.    *)
(***************************************************************************)
OwnerKnows ==
  owner \in Patient => held[owner] > 0 \/ pc[owner] \in Pending

(***************************************************************************)
(* A task without a timeout is in the wait table only inside OSCritEnter:  *)
(* no OSCritLeave cuts another sleep of it short.                          *)
(***************************************************************************)
PatientIsPending == \A p \in critWait \cap Patient : pc[p] \in Pending

(***************************************************************************)
(* While a task waits, the section is owned: the hand-over is never lost.  *)
(***************************************************************************)
WaitersHaveOwner == critWait # {} => owner # 0

(***************************************************************************)
(* "WE have something pending" (OSCritLeave): any task in the wait table   *)
(* is inside the OSCritEnter that put it there.                            *)
(***************************************************************************)
WaiterIsPending == \A p \in critWait : pc[p] \in Pending
=============================================================================
