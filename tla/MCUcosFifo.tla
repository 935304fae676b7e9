------------------------------ MODULE MCUcosFifo ------------------------------
(* One FIFO under the whole kernel. *)
EXTENDS UcosFifo
=============================================================================
