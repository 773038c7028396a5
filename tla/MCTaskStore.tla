---------------------------- MODULE MCTaskStore ----------------------------
(* TaskStore for TLC: two threads on two or three tasks. *)
EXTENDS TaskStore

CONSTANTS a, b, c, w1, w2

ThreeIds == {a, b, c}
TwoWriters == {w1, w2}
Both == {"sqlite", "memory"}
MemoryOnly == {"memory"}

\* Threads are interchangeable, and so are ids.
Symmetry == Permutations({w1, w2}) \cup Permutations(Ids)
=============================================================================
