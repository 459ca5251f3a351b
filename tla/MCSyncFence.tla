----------------------------- MODULE MCSyncFence -----------------------------
(* SyncFence; nodes, fences and callers are interchangeable.                *)
EXTENDS SyncFence, TLC
AllSymmetry == Permutations(Nodes) \cup Permutations(Fences) \cup Permutations(Callers)

(* A file whose reference is leaked is followed while a fence is unborn.    *)
LeakBound == leaked = {} \/ \E f \in Fences : flife[f] = "unborn"
=============================================================================
