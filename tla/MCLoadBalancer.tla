--------------------------- MODULE MCLoadBalancer ---------------------------
(* Instances of LoadBalancer for TLC.                                      *)
EXTENDS LoadBalancer, TLC

CONSTANTS u1, u2, p1, p2, p3, r1, r2, r3, r4

S(name, ports, algorithm, ip, remove) ==
    [name |-> name, ports |-> ports, algorithm |-> algorithm, ip |-> ip, remove |-> remove]

\* Two names, two sets of ports, two affinities, with and without an address, a target given
\* by name, and what the code rejects.
MCSpecs == {S("a", "80", "roundrobin", None, TRUE),
            S("b", "443", "source", None, TRUE),
            S("b", "443", "source", u1, TRUE),
            S("a", "80", "source", u2, FALSE),
            S("a", Named, "roundrobin", None, TRUE),
            S("a", Unsupported, "roundrobin", None, TRUE),
            S("b", "80", Unsupported, None, TRUE)}

\* Nothing the code rejects.
MCSpecsGood == {s \in MCSpecs : Unsupported \notin {s.ports, s.algorithm}}

MCUserIPs == {u1, u2}
MCPoolIPs == {p1, p2, p3}
MCTargets == {"8080"}
MCRuleIds == {r1, r2, r3, r4}

AllPoints == Points
\* No failure between the creation of a rule and its last tag.
NoUntaggedPoints == Points \ {"tagRule", "tagRule-late", "createRule-late", "crash-tagging-rule"}

MCSymmetry == Permutations({p1, p2, p3})
=============================================================================
