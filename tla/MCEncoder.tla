------------------------------- MODULE MCEncoder -------------------------------
(* Two equal samples after a change are enough, a double click takes at most *)
(* five, and the count wraps after nine: a second release is possible within *)
(* the time, after it, and after the wrap.                                   *)
EXTENDS Encoder
=============================================================================
