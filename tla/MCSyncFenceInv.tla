--------------------------- MODULE MCSyncFenceInv ---------------------------
(* SyncFence for runs without symmetry: nodes and fences are used in the    *)
(* order of these sequences; every other behaviour renames one that does.   *)
EXTENDS SyncFence, Sequences
CONSTANTS n1, n2, f1, f2, f3
UsedInOrder(life, order) ==
  \A i \in 2 .. Len(order) : life[order[i]] # "unborn" => life[order[i - 1]] # "unborn"
InOrder == UsedInOrder(flife, <<f1, f2, f3>>) /\ UsedInOrder(nlife, <<n1, n2>>)
=============================================================================
