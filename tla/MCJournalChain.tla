--------------------------- MODULE MCJournalChain ---------------------------
(***************************************************************************)
(* Symmetry of the job threads, for model-checking JournalChain.            *)
(***************************************************************************)
EXTENDS JournalChain, TLC

JobSymmetry == Permutations(Jobs)

=============================================================================
