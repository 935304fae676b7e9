------------------------------ MODULE MCUcosTask ------------------------------
(* Four TCBs, three of them for tasks that create, delete and renumber:  *)
(* one priority of each of two bytes, and one that shares a byte with idle. *)
EXTENDS UcosTask
=============================================================================
