------------------------------ MODULE MCLinkTraining ------------------------------
(* Instances of LinkTraining for TLC: a few requests, and cables and sinks  *)
(* that carry everything, only the slow rates, only few lanes, or nothing.  *)
EXTENDS LinkTraining

MCOffers == {[lanes |-> 2, rate |-> 3], [lanes |-> 1, rate |-> 2]}
MCCables == {P!Links, {l \in P!Links : l.rate = 1}, {l \in P!Links : l.lanes = 1}, {}}
==============================================================================
