------------------------------- MODULE UcosMbox -------------------------------
(***************************************************************************)
(* The one-message mailboxes of ucos.cpp.  A post stores the message and   *)
(* makes the most urgent waiter ready, but the message stays in the        *)
(* mailbox until that waiter runs and takes it.                            *)
(***************************************************************************)
EXTENDS UcosKernel

CONSTANTS Msg, NULL, \* messages, and the null pointer
          Consumer   \* the tasks that receive from the mailbox

ASSUME MboxAssumption ==
  /\ NULL \notin Msg
  /\ Consumer \subseteq UserTask
  /\ "OS_STAT_MBOX" \in StatFlag

VARIABLES
  mboxMsg,   \* OSMboxMsg
  dataAvail, \* OSMboxDataAvail
  mboxWait,  \* OSMboxGrp and OSMboxTbl
  got        \* history: the message of the last receive that returned OS_NO_ERR

mboxVars == <<mboxMsg, dataAvail, mboxWait, got>>
vars     == <<kernelVars, mboxVars>>

(* OSMboxInit with no message, or with a first one. *)
Init ==
  /\ KernelInit
  /\ mboxMsg \in Msg \cup {NULL}
  /\ dataAvail = (mboxMsg # NULL)
  /\ mboxWait = {}
  /\ got = NULL

TakeMsg ==
  /\ got' = mboxMsg
  /\ mboxMsg' = NULL
  /\ dataAvail' = FALSE

(* OSMboxPend and OSMboxPendNoWait when a message is there. *)
PendTake(p) ==
  /\ MayCall(p) /\ p \in Consumer
  /\ dataAvail
  /\ TakeMsg
  /\ UNCHANGED <<kernelVars, mboxWait>>

PendWait(p, t) ==
  /\ MayBlock(p) /\ p \in Consumer
  /\ ~dataAvail
  /\ Block(p, "OS_STAT_MBOX", t)
  /\ mboxWait' = mboxWait \cup {p}
  /\ Goto(p, "pendSched")
  /\ UNCHANGED <<cur, lockNesting, isrVars, mboxMsg, dataAvail, got>>

(* OSMboxPendNoWait clears OSMboxDataAvail, which is clear already. *)
PendNoWaitFails(p) ==
  /\ MayCall(p) /\ p \in Consumer
  /\ ~dataAvail
  /\ dataAvail' = FALSE
  /\ UNCHANGED <<kernelVars, mboxMsg, mboxWait, got>>

(* A woken task takes whatever the mailbox holds and returns OS_NO_ERR. *)
PendServed(p) ==
  /\ Running(p)
  /\ pc[p] = "pendWake"
  /\ "OS_STAT_MBOX" \notin stat[p]
  /\ TakeMsg
  /\ Goto(p, "run")
  /\ UNCHANGED <<tcbVars, cur, lockNesting, isrVars, mboxWait>>

(* OS_TIMEOUT: the task leaves the table, and marks the mailbox empty. *)
PendTimeout(p) ==
  /\ Running(p)
  /\ pc[p] = "pendWake"
  /\ "OS_STAT_MBOX" \in stat[p]
  /\ mboxWait' = mboxWait \ {p}
  /\ stat' = [stat EXCEPT ![p] = {}]
  /\ dataAvail' = FALSE
  /\ Goto(p, "run")
  /\ UNCHANGED <<rdy, dly, cur, lockNesting, isrVars, mboxMsg, got>>

(* Mutants of Posted: the flag is not set; a full mailbox is overwritten. *)
PostedUnflagged(m, woken) ==
  /\ mboxWait # {} /\ woken = TRUE
  /\ mboxMsg' = m
  /\ Wake(Min(mboxWait), "OS_STAT_MBOX")
  /\ mboxWait' = mboxWait \ {Min(mboxWait)}
  /\ UNCHANGED dataAvail
PostedOver(m, woken) ==
  /\ mboxWait = {} /\ woken = FALSE
  /\ mboxMsg' = m
  /\ dataAvail' = TRUE
  /\ UNCHANGED <<tcbVars, mboxWait>>

Posted(m, woken) ==
  /\ ~dataAvail
  /\ mboxMsg' = m
  /\ dataAvail' = TRUE
  /\ IF mboxWait # {}
     THEN LET p == Min(mboxWait)
          IN  /\ woken = TRUE
              /\ Wake(p, "OS_STAT_MBOX")
              /\ mboxWait' = mboxWait \ {p}
     ELSE /\ woken = FALSE
          /\ UNCHANGED <<tcbVars, mboxWait>>

TaskPost(p, m) ==
  /\ MayCall(p)
  /\ \E woken \in BOOLEAN :
       /\ Posted(m, woken)
       /\ IF woken THEN Goto(p, "sched") ELSE pc' = pc
  /\ UNCHANGED <<cur, lockNesting, isrVars, got>>

ISRPost(m) ==
  /\ InISR
  /\ \E woken \in BOOLEAN : Posted(m, woken)
  /\ UNCHANGED <<cur, pc, lockNesting, isrVars, got>>

(* OS_MBOX_FULL. *)
PostFull ==
  /\ dataAvail
  /\ InISR \/ \E p \in Prio : MayCall(p)
  /\ UNCHANGED vars

MboxNext ==
  \/ \E p \in Prio :
       \/ PendTake(p)
       \/ \E t \in Timeouts : PendWait(p, t)
       \/ PendNoWaitFails(p)
       \/ PendServed(p)
       \/ PendTimeout(p)
       \/ \E m \in Msg : TaskPost(p, m)
  \/ \E m \in Msg : ISRPost(m)
  \/ PostFull

Next == \/ KernelNext /\ UNCHANGED mboxVars
        \/ MboxNext

Spec == Init /\ [][Next]_vars

-------------------------------------------------------------------------------
TypeOK ==
  /\ KernelTypeOK
  /\ mboxMsg \in Msg \cup {NULL}
  /\ dataAvail \in BOOLEAN
  /\ mboxWait \subseteq Consumer
  /\ got \in Msg \cup {NULL}

(***************************************************************************)
(* The flag and the mailbox's pointer agree: a message is there exactly    *)
(* while OSMboxDataAvail says so, so none is overwritten or read twice.    *)
(***************************************************************************)
AvailIsMsg == dataAvail <=> mboxMsg # NULL

(***************************************************************************)
(* The pend that times out marks the mailbox empty without looking: at     *)
(* that moment it is empty, whatever posts raced with the timeout and      *)
(* however many tasks wait, so no accepted message is lost.                *)
(***************************************************************************)
TimeoutLosesNothing ==
  pc[cur] = "pendWake" /\ intNesting = 0 /\ "OS_STAT_MBOX" \in stat[cur]
    => ~dataAvail

(***************************************************************************)
(* A woken task takes from the mailbox without looking: the message is     *)
(* still there when it runs.  (For one consumer: a second, more urgent one *)
(* may take it in between.)                                                *)
(***************************************************************************)
WokenFindsMessage ==
  \A p \in Consumer :
    pc[p] \in Pending /\ "OS_STAT_MBOX" \notin stat[p] => dataAvail

(***************************************************************************)
(* A mailbox is a MessageQueue of capacity one: what OSMboxPost accepts is *)
(* received once, and no post overwrites a message that is still there.    *)
(***************************************************************************)
Abstract == INSTANCE MessageQueue WITH
  Capacity <- 1,
  held     <- IF dataAvail THEN <<mboxMsg>> ELSE <<>>
ImplementsMessageQueue == Abstract!Spec
=============================================================================
