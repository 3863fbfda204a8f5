----------------------------- MODULE MCNodeSync -----------------------------
(* Instances of NodeSync for TLC.                                          *)
EXTENDS NodeSync, TLC

CONSTANTS n1, n2, v1, v2, v3, controller

MCNodes == {n1, n2}
MCVms == {v1, v2, v3}
MCCallers == {controller}

\* Two machines share a network.
MCNetworkOf == (v1 :> "A") @@ (v2 :> "B") @@ (v3 :> "A")

\* The machines at the start: two on different networks, two on one, or one missing.
\* Init also allows the same under other names and fewer machines; they join by VmChange.
MCMachines == {<<v1, v2>>, <<v1, v3>>, <<v1, None>>}
MCInit == /\ vm \in {(n1 :> p[1]) @@ (n2 :> p[2]) : p \in MCMachines}
          /\ Init
MCSpec == MCInit /\ [][Next]_vars /\ Fairness
=============================================================================
