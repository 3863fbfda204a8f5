--------------------------- MODULE MCUpdateQueue ---------------------------
(* Instances of UpdateQueue for TLC. *)
EXTENDS UpdateQueue, TLC

CONSTANTS s1, s2, w1, w2

MCKeys == {s1, s2}
MCWorkers == {w1, w2}
MCOneWorker == {w1}

\* Workers are interchangeable, and so are services.
MCSymmetry == Permutations(MCKeys) \cup Permutations(MCWorkers)
=============================================================================
