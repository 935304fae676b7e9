------------------------------ MODULE MessageQueue ------------------------------
(***************************************************************************)
(* What a mailbox, a queue or a FIFO of the kernel promises: the messages  *)
(* accepted and not yet received, in the order they will be, and the one   *)
(* received last.  A message is accepted while there is room, at the back  *)
(* or at the front, and is received from the front, once.                  *)
(***************************************************************************)
EXTENDS Naturals, Sequences

CONSTANTS Msg, NULL, Capacity

VARIABLES held, got

absVars == <<held, got>>

Init == held \in {<<>>} \cup {<<m>> : m \in Msg} /\ got = NULL

Put(m) ==
  /\ Len(held) < Capacity
  /\ held' = Append(held, m)
  /\ UNCHANGED got

PutFirst(m) ==
  /\ Len(held) < Capacity
  /\ held' = <<m>> \o held
  /\ UNCHANGED got

Get ==
  /\ held # <<>>
  /\ held' = Tail(held)
  /\ got' = Head(held)

Next == Get \/ \E m \in Msg : Put(m) \/ PutFirst(m)

Spec == Init /\ [][Next]_absVars
=============================================================================
