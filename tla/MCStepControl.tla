----------------------------- MODULE MCStepControl -----------------------------
(* Four speeds, of which the fastest makes two steps of a click; four       *)
(* phases; and a position that wraps after eight steps.                     *)
EXTENDS StepControl
=============================================================================
