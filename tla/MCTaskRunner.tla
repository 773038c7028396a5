--------------------------- MODULE MCTaskRunner ----------------------------
(* TaskRunner for TLC: one or two turns, two callers, one restart. *)
EXTENDS TaskRunner, TLC

CONSTANTS t1, t2, c1, c2

OneTask == {t1}
TwoTasks == {t1, t2}
TwoCallers == {c1, c2}
NoneRevoked == {}
SecondRevoked == {t2}

\* Callers are interchangeable; the runs without liveness use this.
CallerSymmetry == Permutations(TwoCallers)
=============================================================================
