--------------------------------- MODULE MCSwd ---------------------------------
(* A program of two words, packets sent again once, and three faults. *)
EXTENDS Swd
=============================================================================
