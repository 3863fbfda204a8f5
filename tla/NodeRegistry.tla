---------------------------- MODULE NodeRegistry ----------------------------
(***************************************************************************)
(* nodes.go: the registry that maps the nodes of the cluster to virtual    *)
(* machines, as seen by one service.  updateNodes replaces its contents by *)
(* a list of nodes; the lists come from two callers, each of which reads   *)
(* the cluster first and calls later, so a list can be out of date when it *)
(* arrives.  An update holds nodesMu from start to end, hence is one step, *)
(* but it can stop half-way with an error.                                 *)
(*                                                                         *)
(* A node's environment, filter and project are abstracted to what they    *)
(* mean for the service: "in" (they match), "out" (they do not) and "bad"  *)
(* (no project can be found for it).  Revisions are in UpdateQueue.        *)
(***************************************************************************)
EXTENDS Integers, FiniteSets

CONSTANTS
    Nodes,      \* names of nodes
    Vms,        \* ids of virtual machines
    Callers,    \* who passes lists: nodes of UpdateLoadBalancer or EnsureLoadBalancer
    None,
    MaxChanges, \* bound: changes of nodes and of virtual machines
    MaxFaults   \* bound: failed API calls

ASSUME RegistryAssumption == None \notin Vms /\ MaxChanges \in Nat /\ MaxFaults \in Nat

Labels == {"in", "out", "bad"}

VARIABLES
    cluster,  \* Kubernetes: the labels of each node, or None
    vm,       \* CloudStack: the virtual machine by the name of each node, or None
    gone,     \* CloudStack: virtual machines that were destroyed; ids are not used again
    cache,    \* virtualMachineByName: the answers it remembers
    nodes,    \* nodeRegistry.nodes: [vmID, label], or None
    list,     \* the list of nodes each caller is about to pass, or None
    changes, faults

registryVars == <<cluster, vm, gone, cache, nodes, list, changes, faults>>

NodeLists == [Nodes -> Labels \cup {None}]

RegistryTypeOK == /\ cluster \in NodeLists
                  /\ vm \in [Nodes -> Vms \cup {None}] /\ gone \subseteq Vms
                  /\ cache \in [Nodes -> Vms \cup {None}]
                  /\ nodes \in [Nodes -> [vmID : Vms, label : Labels] \cup {None}]
                  /\ list \in [Callers -> NodeLists \cup {None}]
                  /\ changes \in 0..MaxChanges /\ faults \in 0..MaxFaults

\* The registry starts empty, in a cluster whose nodes may have virtual machines yet or not.
RegistryInit == /\ cluster \in NodeLists
                /\ vm \in [Nodes -> Vms \cup {None}]
                /\ \A m, n \in Nodes : m # n /\ vm[m] # None => vm[m] # vm[n]
                /\ gone = {} /\ cache = [n \in Nodes |-> None]
                /\ nodes = [n \in Nodes |-> None]
                /\ list = [c \in Callers |-> None]
                /\ changes = 0 /\ faults = 0

Alive(v) == \E n \in Nodes : vm[n] = v

\* nodesForService.  None at all is an error.
nodesForService == {n \in Nodes : nodes[n] # None /\ nodes[n].label = "in"}

\* idsForNodes: the virtual machines of some nodes.
idsForNodes(N) == {nodes[n].vmID : n \in N}

\* virtualMachineByName: what is remembered is not asked again.
virtualMachineByName(n) == IF cache[n] # None THEN cache[n] ELSE vm[n]

\* newNodeInfo for a node the registry does not know, updateLabels for one it does.  A
\* node whose virtual machine does not exist (yet, or any more) is left out.
NodeInfo(n, label) ==
    IF nodes[n] # None THEN [nodes[n] EXCEPT !.label = label]
    ELSE IF virtualMachineByName(n) # None
         THEN [vmID |-> virtualMachineByName(n), label |-> label] ELSE None

Listed(l) == {n \in Nodes : l[n] # None}

\* The cache after the nodes N were looked up.  It remembers what it likes: entries can be
\* refused, and evicted later (which makes no difference before the next lookup).
Looked(N) == \E kept \in SUBSET {n \in N : nodes[n] = None} :
                cache' = [n \in Nodes |-> IF n \in kept THEN virtualMachineByName(n)
                                         ELSE IF n \in N /\ nodes[n] = None THEN None
                                         ELSE cache[n]]

\* updateNodes(l) gets through the list: nodes that are not in it are dropped.
UpdateAll(l) == /\ \A n \in Nodes : l[n] # "bad"
                /\ nodes' = [n \in Nodes |-> IF n \in Listed(l) THEN NodeInfo(n, l[n]) ELSE None]
                /\ Looked(Listed(l))
                /\ UNCHANGED faults

\* updateNodes(l) stops at a node: the nodes before it are updated, none is dropped.  The
\* list is in no particular order, so those before are any.  A known node whose project
\* is not found has been relabelled when the error is noticed.
UpdateSome(l) ==
    \E stop \in Listed(l), done \in SUBSET Listed(l) :
        /\ stop \notin done /\ \A n \in done : l[n] # "bad"
        /\ \/ l[stop] = "bad" /\ UNCHANGED faults
           \/ /\ l[stop] # "bad" /\ nodes[stop] = None /\ cache[stop] = None
              /\ faults < MaxFaults /\ faults' = faults + 1
        /\ nodes' = [n \in Nodes |->
                       IF n \in done THEN NodeInfo(n, l[n])
                       ELSE IF n = stop /\ nodes[n] # None THEN NodeInfo(n, l[n]) ELSE nodes[n]]
        /\ Looked(done)

-----------------------------------------------------------------------------
(* The rest of the world.                                                  *)

Counted == changes < MaxChanges /\ changes' = changes + 1

\* A caller reads the nodes of the cluster.  The controller never passes an empty list
\* (updateNodes refuses one before it does anything).
ReadCluster(c) == /\ list[c] = None /\ Listed(cluster) # {}
                  /\ list' = [list EXCEPT ![c] = cluster]
                  /\ UNCHANGED <<cluster, vm, gone, cache, nodes, changes, faults>>

\* A node joins, leaves or is relabelled.
NodeChange == /\ Counted
              /\ \E n \in Nodes, l \in Labels \cup {None} :
                    cluster[n] # l /\ cluster' = [cluster EXCEPT ![n] = l]
              /\ UNCHANGED <<vm, gone, cache, nodes, list, faults>>
=============================================================================
