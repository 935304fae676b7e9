------------------------------ MODULE MCUcosCrit ------------------------------
(* One critical section shared by three tasks, with nested interrupts. *)
EXTENDS UcosCrit
=============================================================================
