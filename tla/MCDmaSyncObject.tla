--------------------------- MODULE MCDmaSyncObject ---------------------------
(* DmaSyncObject on two objects over three fences, two of them of one        *)
(* context, and a third context that has no fence of its own.                *)
EXTENDS DmaSyncObject, TLC
CONSTANTS f1, f2, f3, c1, c2, c3
TwoOfOne == (f1 :> c1) @@ (f2 :> c1) @@ (f3 :> c2)
=============================================================================
