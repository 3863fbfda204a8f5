--------------------------- MODULE MCServiceLock ---------------------------
(* An instance of ServiceLock for TLC: three goroutines on two services, so *)
(* that one entry can have a holder, a waiter and a newcomer, and another   *)
(* entry comes and goes beside it.                                          *)
EXTENDS ServiceLock, TLC

CONSTANTS g1, g2, g3, svcA, svcB, c1, c2, c3

\* Three goroutines keep at most three cells referenced.
MCProcs == {g1, g2, g3}
MCKeys == {svcA, svcB}
MCCells == {c1, c2, c3}
=============================================================================
