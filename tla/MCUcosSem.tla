------------------------------- MODULE MCUcosSem -------------------------------
(* Two semaphores under the whole kernel: two tasks, the idle task, and a      *)
(* timer and other interrupts nested above each other.                         *)
EXTENDS UcosSem
=============================================================================
