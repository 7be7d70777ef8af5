--------------------------- MODULE MCGenerationRun ---------------------------
(* Small instances of GenerationRun for TLC. *)
EXTENDS GenerationRun, TLC

Symmetry == Permutations(Run) \cup Permutations(Part)
=============================================================================
