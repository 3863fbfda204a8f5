------------------------------ MODULE NodeSync ------------------------------
(***************************************************************************)
(* syncNodes, with what goes on around it: the hosts behind the rule of    *)
(* one service follow the node registry.  A worker of the update queue     *)
(* reads the registry, then makes its API calls one by one, while callers  *)
(* go on replacing the contents of the registry and queueing the service   *)
(* again.  Calls fail before or after they have had their effect, and the  *)
(* entry is queued again after a failure.                                  *)
(*                                                                         *)
(* The queue (one entry for the service, backoff, order) is reduced to     *)
(* whether the service is in it; UpdateQueue has the rest.  The service    *)
(* lock keeps other workers and calls for the service away.                *)
(***************************************************************************)
EXTENDS NodeRegistry

CONSTANTS
    NetworkOf,     \* the network of each virtual machine
    AssignNetworks \* Command.AssignNetworks is configured

ASSUME SyncAssumption == DOMAIN NetworkOf = Vms /\ AssignNetworks \in BOOLEAN

VARIABLES
    queued,  \* the service is in the queue
    pc,      \* where processQueueEntry is
    want,    \* hostIDs: the virtual machines read from the registry
    assign, remove, \* the two differences between them and the rule's
    nets,    \* networkIDs still to be assigned
    hosts,   \* CloudStack: the virtual machines behind the rule
    mapped,  \* CloudStack: the networks mapped to the rule
    due      \* history: the service was queued since the registry last changed

ruleVars == <<hosts, mapped>>
workVars == <<want, assign, remove, nets>>
vars == <<registryVars, queued, pc, workVars, ruleVars, due>>

Networks == {NetworkOf[v] : v \in Vms}

\* The variables range over the program's values.
TypeOK == /\ RegistryTypeOK
          /\ queued \in BOOLEAN /\ due \in BOOLEAN
          /\ pc \in {"idle", "read", "list", "nets", "hosts", "remove"}
          /\ want \subseteq Vms /\ assign \subseteq want /\ remove \subseteq Vms \ want
          /\ nets \subseteq Networks
          /\ hosts \subseteq Vms /\ mapped \subseteq Networks

\* The rule has just been created: no host, and only the network of its IP.
Init == /\ RegistryInit
        /\ queued = FALSE /\ pc = "idle"
        /\ want = {} /\ assign = {} /\ remove = {} /\ nets = {}
        /\ hosts = {} /\ mapped \in {{n} : n \in Networks}
        /\ due = FALSE

-----------------------------------------------------------------------------
(* The callers.                                                            *)

\* push: the service joins the queue, unless it is there or has no nodes.
push == queued' = (queued \/ nodesForService' # {})

\* UpdateLoadBalancer: the registry takes the list, then the service is queued.
UpdateLoadBalancer(c) ==
    /\ list[c] # None /\ list' = [list EXCEPT ![c] = None]
    /\ \/ /\ UpdateAll(list[c])
          /\ IF \A n \in Nodes : nodes'[n] = None
             THEN UNCHANGED queued /\ due' = (due /\ nodes' = nodes)
             ELSE push /\ due' = queued'
       \/ UpdateSome(list[c]) /\ UNCHANGED queued /\ due' = (due /\ nodes' = nodes)
    /\ UNCHANGED <<cluster, vm, gone, changes, pc, workVars, ruleVars>>

\* EnsureLoadBalancer updates the registry too; it may fail before it queues the service,
\* or be about another service altogether.
EnsureElsewhere(c) ==
    /\ list[c] # None /\ list' = [list EXCEPT ![c] = None]
    /\ UpdateAll(list[c]) \/ UpdateSome(list[c])
    /\ due' = (due /\ nodes' = nodes)
    /\ UNCHANGED <<cluster, vm, gone, changes, queued, pc, workVars, ruleVars>>

-----------------------------------------------------------------------------
(* The worker.                                                             *)

Finish == pc' = "idle" /\ want' = {} /\ assign' = {} /\ remove' = {} /\ nets' = {}

\* Faulty variant: a failed entry is not queued again.
FailedDropped == Finish /\ UNCHANGED <<queued, due>>
\* A failure: pushWithBackoff, which drops the service if it has no nodes left.
Failed == /\ Finish /\ queued' = (queued \/ nodesForService # {})
          /\ UNCHANGED due

Fault == faults < MaxFaults /\ faults' = faults + 1
Works == UNCHANGED <<faults, queued, due>>
KeepRegistry == UNCHANGED <<cluster, vm, gone, cache, nodes, list, changes>>

Pop == /\ pc = "idle" /\ queued
       /\ pc' = "read" /\ queued' = FALSE
       /\ KeepRegistry /\ UNCHANGED <<faults, workVars, ruleVars, due>>

\* processQueueEntry reads the registry (it has the lock and the rule).
ReadNodes == /\ pc = "read"
             /\ IF nodesForService = {}
                THEN Failed /\ UNCHANGED faults
                ELSE /\ want' = idsForNodes(nodesForService)
                     /\ pc' = "list" /\ Works /\ UNCHANGED <<assign, remove, nets>>
             /\ KeepRegistry /\ UNCHANGED ruleVars

\* Faulty variant: wanted and existing hosts change places.
symmetricDifferenceSwapped(new, existing) == [assign |-> existing \ new, remove |-> new \ existing]
symmetricDifference(new, existing) == [assign |-> new \ existing, remove |-> existing \ new]

\* Faulty variant: only one network is thought of.
networkIDsMain(vms) == IF AssignNetworks THEN {NetworkOf[CHOOSE v \in vms : TRUE]} ELSE {}
\* The networks of the nodes, when there is a command to assign them.
networkIDs(vms) == IF AssignNetworks THEN {NetworkOf[v] : v \in vms} ELSE {}

\* listAllLBInstancesPages and symmetricDifference.
ListHosts == /\ pc = "list"
             /\ \/ Fault /\ Failed
                \/ /\ Works
                   /\ assign' = symmetricDifference(want, hosts).assign
                   /\ remove' = symmetricDifference(want, hosts).remove
                   /\ nets' = networkIDs(want)
                   /\ pc' = IF assign' # {} THEN "nets" ELSE "remove"
                   /\ UNCHANGED want
             /\ KeepRegistry /\ UNCHANGED ruleVars

\* assignNetworkToRule, one network at a time.  That a network "is already mapped" is no
\* error.
AssignNetwork == /\ pc = "nets" /\ nets # {}
                 /\ \E n \in nets :
                      \/ Fault /\ Failed /\ UNCHANGED mapped
                      \/ Fault /\ Failed /\ mapped' = mapped \cup {n}
                      \/ /\ Works /\ mapped' = mapped \cup {n} /\ nets' = nets \ {n}
                         /\ UNCHANGED <<pc, want, assign, remove>>
                 /\ KeepRegistry /\ UNCHANGED hosts

\* Faulty variant: the old hosts go although the new ones could not be assigned.
AssignHostsGoesOn == /\ pc = "nets" /\ nets = {}
                     /\ \/ Fault /\ UNCHANGED <<hosts, queued, due>>
                        \/ Works /\ hosts' = hosts \cup {v \in assign : Alive(v)}
                     /\ pc' = "remove" /\ UNCHANGED workVars
                     /\ KeepRegistry /\ UNCHANGED mapped

\* assignHostsToRule: one call for all of them, refused when one does not exist.
AssignHosts == /\ pc = "nets" /\ nets = {}
               /\ \/ Fault /\ Failed /\ UNCHANGED hosts
                  \/ Fault /\ Failed /\ hosts' = hosts \cup {v \in assign : Alive(v)}
                  \/ /\ \E v \in assign : ~Alive(v)
                     /\ Failed /\ UNCHANGED <<faults, hosts>>
                  \/ /\ \A v \in assign : Alive(v)
                     /\ Works /\ hosts' = hosts \cup assign
                     /\ pc' = "remove" /\ UNCHANGED workVars
               /\ KeepRegistry /\ UNCHANGED mapped

\* removeHostsFromRule, when there are any to remove; then the sync has succeeded.
RemoveHosts == /\ pc = "remove"
               /\ \/ remove # {} /\ Fault /\ Failed /\ UNCHANGED hosts
                  \/ remove # {} /\ Fault /\ Failed /\ hosts' = hosts \ remove
                  \/ Works /\ hosts' = hosts \ remove /\ Finish
               /\ KeepRegistry /\ UNCHANGED mapped

-----------------------------------------------------------------------------
\* A virtual machine is destroyed, and perhaps another made by the same name.  CloudStack
\* takes it out of the rule.
VmChange == /\ Counted
            /\ \E n \in Nodes, v \in Vms \cup {None} :
                  /\ vm[n] # v /\ (v # None => ~Alive(v) /\ v \notin gone)
                  /\ vm' = [vm EXCEPT ![n] = v]
                  /\ gone' = gone \cup ({vm[n]} \ {None})
                  /\ hosts' = hosts \ {vm[n]}
            /\ UNCHANGED <<cluster, cache, nodes, list, faults, queued, pc, workVars, mapped, due>>

World == /\ NodeChange \/ \E c \in Callers : ReadCluster(c)
         /\ UNCHANGED <<queued, pc, workVars, ruleVars, due>>

Worker == Pop \/ ReadNodes \/ ListHosts \/ AssignNetwork \/ AssignHosts \/ RemoveHosts

Next == Worker \/ World \/ VmChange
        \/ \E c \in Callers : UpdateLoadBalancer(c) \/ EnsureElsewhere(c)

Spec == Init /\ [][Next]_vars

\* The workers run (start), and CloudStack answers.
Fairness == WF_vars(Worker)
FairSpec == Spec /\ Fairness

-----------------------------------------------------------------------------
(* Properties.                                                             *)

\* The worker never leaves the rule without a host while one it was told to use is
\* there: it assigns first and removes later, and gives up in between after an error.
NeverEmptied ==
    [][pc' # pc /\ hosts # {} /\ hosts' = {} => ~(\E v \in want : Alive(v))]_vars

\* A host is behind the rule only if its network is mapped to the rule, however many
\* attempts it took and wherever they stopped.
NetworkFirst == AssignNetworks => \A v \in hosts : NetworkOf[v] \in mapped

\* The registry at rest: the service was queued after the last change, it has nodes and
\* their virtual machines exist.
Settled == due /\ nodesForService # {} /\ \A v \in idsForNodes(nodesForService) : Alive(v)

\* Once the registry is at rest the hosts of the rule become those of the registry, though
\* the worker may have read an older registry, calls failed half-way, and entries were
\* dropped because the service had no nodes at the time.
Converges == <>[]Settled => <>[](hosts = idsForNodes(nodesForService))
=============================================================================
