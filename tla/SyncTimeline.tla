----------------------------- MODULE SyncTimeline -----------------------------
(***************************************************************************)
(* What user space is promised of fence files: each open file stands for a *)
(* set of points of the GPU's work.  A new file stands for one point, a    *)
(* merged file for the points of two open files, and a file is signaled    *)
(* only when all its points are reached, and then for good.                *)
(***************************************************************************)
CONSTANTS Nodes, Fences
VARIABLES reached,  \* the points the GPU has reached
          open,     \* the open files
          points,   \* points[f]: what an open file stands for
          done      \* the signaled files

vars == <<reached, open, points, done>>

Init == /\ reached = {} /\ open = {} /\ done = {}
        /\ points = [f \in Fences |-> {}]

Reach(n) == /\ n \notin reached
            /\ reached' = reached \cup {n}
            /\ UNCHANGED <<open, points, done>>

Create(f, n) == /\ f \notin open
                /\ open' = open \cup {f}
                /\ points' = [points EXCEPT ![f] = {n}]
                /\ UNCHANGED <<reached, done>>

(* A merged file may be signaled from the start.                            *)
Merge(f, g, new) == /\ new \notin open /\ f \in open /\ g \in open
                    /\ open' = open \cup {new}
                    /\ points' = [points EXCEPT ![new] = points[f] \cup points[g]]
                    /\ \/ done' = done
                       \/ points'[new] \subseteq reached /\ done' = done \cup {new}
                    /\ UNCHANGED reached

Signal(S) == /\ S \subseteq open \ done
             /\ \A f \in S : points[f] \subseteq reached
             /\ done' = done \cup S
             /\ UNCHANGED <<reached, open, points>>

Release(f) == /\ f \in open
              /\ open' = open \ {f}
              /\ points' = [points EXCEPT ![f] = {}]
              /\ done' = done \ {f}
              /\ UNCHANGED reached

Next == \/ \E n \in Nodes : Reach(n)
        \/ \E f \in Fences : Release(f) \/ \E n \in Nodes : Create(f, n)
        \/ \E f, g, new \in Fences : Merge(f, g, new)
        \/ \E S \in SUBSET Fences : Signal(S)

Spec == Init /\ [][Next]_vars
===============================================================================
