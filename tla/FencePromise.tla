---------------------------- MODULE FencePromise ----------------------------
(***************************************************************************)
(* What a dma_fence driver promises: work completes in any order; whoever  *)
(* cares about a fence arms it; a fence is signaled only after its work    *)
(* has completed, and an armed fence whose work has completed is signaled  *)
(* in the end.  Nothing is ever taken back.                                *)
(***************************************************************************)
CONSTANT Fences
VARIABLES armed, back, signaled
vars == <<armed, back, signaled>>

Init == armed = {} /\ back = {} /\ signaled = {}

Complete(f) == /\ f \notin back
               /\ back' = back \cup {f}
               /\ UNCHANGED <<armed, signaled>>

(* Arming a completed fence may signal it at once.                          *)
ArmFence(f) == /\ f \notin armed
               /\ armed' = armed \cup {f}
               /\ signaled' \in {signaled, signaled \cup ({f} \cap back)}
               /\ UNCHANGED back

Signal(f) == /\ f \in back \ signaled
             /\ signaled' = signaled \cup {f}
             /\ UNCHANGED <<armed, back>>

Next == \E f \in Fences : Complete(f) \/ ArmFence(f) \/ Signal(f)

Spec == Init /\ [][Next]_vars

(* Whoever armed a fence is told in the end that its work has completed.    *)
Kept == \A f \in Fences : (f \in armed \cap back) ~> (f \in signaled)
=============================================================================
