------------------------------ MODULE MCParts ------------------------------
(* Instances of Services, Listing, Instances and Pools for TLC, in one run: a behaviour *)
(* is one of one of them (part), and the others stay at rest.                           *)
EXTENDS Services, Listing, Instances, Pools, TLC

CONSTANTS m1, m2

VARIABLE part

\* Services: two of one name in two namespaces; a can be renamed and get other ports.
Balancer(name, ports) == [name |-> name, ports |-> ports]
MCServiceSet == {"a", "b"}
MCMeta == [s \in MCServiceSet |-> [ns |-> s, svc |-> "web"]]
MCSpecsOf == [s \in MCServiceSet |-> IF s = "a" THEN {Balancer("x", 1), Balancer("y", 2)}
                                              ELSE {Balancer("z", 1)}]

\* Instances: a machine, and one that is made to replace it; fewer NICs than the indexes say.
MCMachines == {m1, m2}
MCvmName == [m \in MCMachines |-> "node"]
MCvmProject == [m \in MCMachines |-> "p"]
MCvmNICs == m1 :> 2 @@ m2 :> 1
MCIndexes == {-1, 0, 1, 2}

\* Pools: up to three ports, numbered and named targets, health checks with and without a
\* message, UDP by protocol and by name.
Port(target, prefix, message) == [target |-> target, prefix |-> prefix, message |-> message]
Service(protocol, custom, ports) == [protocol |-> protocol, custom |-> custom, ports |-> ports]
MCPortSpecs ==
    {Service("TCP", TRUE, 1 :> Port(30, "HTTP", "/a") @@ 2 :> Port(Named, "other", NoMessage)
                              @@ 3 :> Port(32, "HTTPS", "/b")),
     Service("TCP", TRUE, 1 :> Port(30, "HTTP", "/b") @@ 2 :> Port(Named, "HTTP", "/a")
                              @@ 3 :> Port(Named, "HTTPS", "/b")),
     Service("UDP", FALSE, 1 :> Port(30, "other", NoMessage) @@ 2 :> Port(31, "HTTP", "/a")),
     Service("TCP", FALSE, NoPools), Service("TCP", FALSE, 2 :> Port(31, "other", NoMessage)),
     Service("TCP", TRUE, 2 :> Port(31, "UDP", NoMessage) @@ 3 :> Port(32, "other", NoMessage))}

\* At rest: nothing has happened, and nothing is under way.
ListingRests == /\ items = << >> /\ result = << >> /\ page = 1 /\ index = 1 /\ listPC = "listed"
                /\ kept = {} /\ fetched = {} /\ changes = 0 /\ removals = 0
InstancesRest == InstancesInit /\ config = [internal |-> 0, external |-> 0]
PoolsRest == PoolsInit /\ endpoint = Absent /\ wantedPorts = CHOOSE s \in PortSpecs : TRUE
ServicesRest == ServicesInit /\ nodesIn = Projects

MCInit == \/ part = "services"  /\ ServicesInit /\ ListingRests /\ InstancesRest /\ PoolsRest
          \/ part = "listing"   /\ ServicesRest /\ ListingInit  /\ InstancesRest /\ PoolsRest
          \/ part = "instances" /\ ServicesRest /\ ListingRests /\ InstancesInit /\ PoolsRest
          \/ part = "pools"     /\ ServicesRest /\ ListingRests /\ InstancesRest /\ PoolsInit

MCNext ==
    \/ part = "services"  /\ ServicesNext  /\ UNCHANGED <<part, ListingVars, InstanceVars, PoolVars>>
    \/ part = "listing"   /\ ListingNext   /\ UNCHANGED <<part, ServicesVars, InstanceVars, PoolVars>>
    \/ part = "instances" /\ InstancesNext /\ UNCHANGED <<part, ServicesVars, ListingVars, PoolVars>>
    \/ part = "pools"     /\ PoolsNext     /\ UNCHANGED <<part, ServicesVars, ListingVars, InstanceVars>>

MCVars == <<part, ServicesVars, ListingVars, InstanceVars, PoolVars>>
MCSpec == MCInit /\ [][MCNext]_MCVars
=============================================================================
