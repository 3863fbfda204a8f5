----------------------------- MODULE MCServices -----------------------------
(* Services alone, for TLC: two services of one name in two namespaces, whose load     *)
(* balancers both have the name that service and domain give them; b can get other     *)
(* ports.                                                                               *)
EXTENDS Services

Balancer(name, ports) == [name |-> name, ports |-> ports]
MCServiceSet == {"a", "b"}
MCMeta == [s \in MCServiceSet |-> [ns |-> s, svc |-> "web"]]
MCSpecsOf == [s \in MCServiceSet |-> IF s = "a" THEN {Balancer("x", 1)}
                                              ELSE {Balancer("x", 1), Balancer("x", 2)}]
=============================================================================
