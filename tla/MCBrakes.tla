------------------------------ MODULE MCBrakes ------------------------------
(***************************************************************************)
(* Outcomes of a trade for model-checking Brakes.                           *)
(***************************************************************************)
EXTENDS Brakes

WinOrLose == {-3, -1, 2}

=============================================================================
