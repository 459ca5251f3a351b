--------------------------- MODULE MCAtomicCommit ---------------------------
(* Model values for AtomicCommit. *)
EXTENDS AtomicCommit

CONSTANTS c1, c2, s1, s2

MCCommits == {c1, c2}
MCSinks == {s1, s2}
=============================================================================
