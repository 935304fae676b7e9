------------------------------ MODULE MCUcosQueue ------------------------------
(* One queue under the whole kernel. *)
EXTENDS UcosQueue
=============================================================================
