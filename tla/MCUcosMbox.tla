------------------------------ MODULE MCUcosMbox ------------------------------
(* One mailbox under the whole kernel. *)
EXTENDS UcosMbox
=============================================================================
