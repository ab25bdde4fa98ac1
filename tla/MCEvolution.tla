---------------------------- MODULE MCEvolution ----------------------------
(* Symmetry for model-checking Evolution: what the changes change is not       *)
(* looked at, only whether one has been tried before.                          *)
EXTENDS Evolution, TLC

ChangesAlike == Permutations(Changes)

=============================================================================
