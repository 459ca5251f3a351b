---------------------------- MODULE MCGemObject ----------------------------
(* Model values for GemObject. *)
EXTENDS GemObject, TLC

CONSTANTS t1, t2, f1, f2

MCThreads == {t1, t2}
MCFiles == {f1, f2}
Symmetry == Permutations(MCThreads) \cup Permutations(MCFiles)
=============================================================================
