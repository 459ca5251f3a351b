----------------------------- MODULE MCDmaFence -----------------------------
(* DmaFence on two fences, of two rings or of one.                          *)
EXTENDS DmaFence, TLC
CONSTANTS f1, f2, e1, e2
TwoRings == (f1 :> e1) @@ (f2 :> e2)
OneRing == [f \in Fences |-> e1]
WaiterSymmetry == Permutations(Waiters)
(* Fences of one ring differ in nothing: f1 is the first to be created.      *)
InOrder == life[f2] # "unborn" => life[f1] # "unborn"
=============================================================================
