--------------------------- MODULE NodeSyncProofs ---------------------------
(***************************************************************************)
(* Proofs about NodeSync, for any nodes, virtual machines, networks and    *)
(* callers and any number of changes and failures.                         *)
(***************************************************************************)
EXTENDS NodeSync, TLAPS

\* Between the listing of the hosts and their assignment every network of a host to be
\* assigned is mapped or still to be mapped: the part of NetworkFirst that is about a
\* sync under way.
NetworksUnderWay ==
    AssignNetworks /\ pc = "nets" => \A v \in assign : NetworkOf[v] \in mapped \cup nets

\* The inductive strengthening of NetworkFirst.
NetworkInv == NetworkFirst /\ NetworksUnderWay

\* Init establishes the invariant: the rule has no hosts.
LEMMA NetworkInvInit == Init => NetworkInv
BY DEF Init, NetworkInv, NetworkFirst, NetworksUnderWay

\* Every step preserves the invariant.
LEMMA NetworkInvStep == NetworkInv /\ [Next]_vars => NetworkInv'
<1> SUFFICES ASSUME NetworkFirst, NetworksUnderWay, [Next]_vars
             PROVE  NetworkFirst' /\ NetworksUnderWay'
    BY DEF NetworkInv
<1> USE DEF NetworkFirst, NetworksUnderWay
<1>1. CASE Pop
    BY <1>1 DEF Pop, ruleVars, workVars
<1>2. CASE ReadNodes
    BY <1>2 DEF ReadNodes, ruleVars, Failed, Finish, Works
<1>3. CASE ListHosts
  <2>1. CASE pc' = "nets"
    <3>1. assign' \subseteq want /\ nets' = networkIDs(want) /\ UNCHANGED <<hosts, mapped>>
        BY <1>3, <2>1 DEF ListHosts, Failed, Finish, ruleVars, symmetricDifference
    <3> QED BY <3>1 DEF networkIDs
  <2>2. CASE pc' # "nets"
    BY <1>3, <2>2 DEF ListHosts, ruleVars
  <2> QED BY <2>1, <2>2
<1>4. CASE AssignNetwork
  \* A failed attempt ends the sync; a successful one moves a network from nets to mapped.
  <2>1. mapped \subseteq mapped' /\ hosts' = hosts
      BY <1>4 DEF AssignNetwork
  <2>2. pc' = "nets" => assign' = assign /\ mapped \cup nets \subseteq mapped' \cup nets'
      BY <1>4 DEF AssignNetwork, Failed, Finish
  <2> QED BY <1>4, <2>1, <2>2 DEF AssignNetwork
<1>5. CASE AssignHosts
  \* No network is left to be mapped, so those of the hosts are.
  <2>1. hosts' \subseteq hosts \cup assign /\ mapped' = mapped /\ nets = {} /\ pc = "nets"
      BY <1>5 DEF AssignHosts
  <2>2. pc' # "nets"
      BY <1>5 DEF AssignHosts, Failed, Finish
  <2> QED BY <2>1, <2>2
<1>6. CASE RemoveHosts
  <2>1. hosts' \subseteq hosts /\ mapped' = mapped /\ pc' # "nets"
      BY <1>6 DEF RemoveHosts, Failed, Finish
  <2> QED BY <2>1
<1>7. CASE World
    BY <1>7 DEF World, ruleVars, workVars
<1>8. CASE VmChange
  <2>1. hosts' \subseteq hosts /\ UNCHANGED <<mapped, pc, assign, nets>>
      BY <1>8 DEF VmChange, workVars
  <2> QED BY <2>1
<1>9. ASSUME NEW c \in Callers, UpdateLoadBalancer(c) \/ EnsureElsewhere(c)
      PROVE  NetworkFirst' /\ NetworksUnderWay'
    BY <1>9 DEF UpdateLoadBalancer, EnsureElsewhere, workVars, ruleVars
<1>10. CASE UNCHANGED vars
    BY <1>10 DEF vars, workVars, ruleVars
<1> QED
    BY <1>1, <1>2, <1>3, <1>4, <1>5, <1>6, <1>7, <1>8, <1>9, <1>10 DEF Next, Worker

\* syncNodes assigns the networks before the hosts (loadbalancer.go): in every state, and
\* wherever earlier attempts stopped, a host is behind the rule only with its network.
THEOREM NetworkAlwaysFirst == Spec => []NetworkFirst
<1>1. Init => NetworkInv
    BY NetworkInvInit
<1>2. NetworkInv /\ [Next]_vars => NetworkInv'
    BY NetworkInvStep
<1>3. NetworkInv => NetworkFirst
    BY DEF NetworkInv
<1> QED
    BY <1>1, <1>2, <1>3, PTL DEF Spec

-----------------------------------------------------------------------------
(* Type correctness.                                                       *)

\* updateNodes, complete or stopped, keeps the registry and the cache well-typed.
LEMMA UpdateType ==
    ASSUME RegistryTypeOK, NEW l \in NodeLists, UpdateAll(l) \/ UpdateSome(l)
    PROVE  /\ nodes' \in [Nodes -> [vmID : Vms, label : Labels] \cup {None}]
           /\ cache' \in [Nodes -> Vms \cup {None}]
           /\ faults' \in 0..MaxFaults
<1>1. ASSUME NEW n \in Nodes
      PROVE  virtualMachineByName(n) \in Vms \cup {None}
    BY <1>1 DEF RegistryTypeOK, virtualMachineByName
<1>2. ASSUME NEW n \in Nodes, l[n] # None
      PROVE  NodeInfo(n, l[n]) \in [vmID : Vms, label : Labels] \cup {None}
    BY <1>1, <1>2 DEF RegistryTypeOK, NodeInfo, NodeLists
<1>3. ASSUME NEW N, Looked(N)
      PROVE  cache' \in [Nodes -> Vms \cup {None}]
    BY <1>1, <1>3 DEF RegistryTypeOK, Looked
<1>4. CASE UpdateAll(l)
  <2>1. nodes' \in [Nodes -> [vmID : Vms, label : Labels] \cup {None}]
      BY <1>2, <1>4 DEF UpdateAll, Listed
  <2> QED BY <1>3, <1>4, <2>1 DEF UpdateAll, RegistryTypeOK
<1>5. CASE UpdateSome(l)
  <2>1. PICK stop \in Listed(l), done \in SUBSET Listed(l) :
            /\ faults' = faults \/ (faults < MaxFaults /\ faults' = faults + 1)
            /\ nodes' = [n \in Nodes |->
                           IF n \in done THEN NodeInfo(n, l[n])
                           ELSE IF n = stop /\ nodes[n] # None THEN NodeInfo(n, l[n])
                           ELSE nodes[n]]
            /\ Looked(done)
      BY <1>5 DEF UpdateSome
  <2>2. nodes' \in [Nodes -> [vmID : Vms, label : Labels] \cup {None}]
      BY <1>2, <2>1 DEF Listed, RegistryTypeOK
  <2>3. faults' \in 0..MaxFaults
      BY <2>1, RegistryAssumption DEF RegistryTypeOK
  <2> QED BY <1>3, <2>1, <2>2, <2>3
<1> QED BY <1>4, <1>5

\* A failed attempt leaves nothing behind that is not well-typed.
LEMMA FailedType ==
    ASSUME TypeOK, Failed
    PROVE  /\ queued' \in BOOLEAN /\ due' \in BOOLEAN /\ pc' = "idle"
           /\ want' = {} /\ assign' = {} /\ remove' = {} /\ nets' = {}
BY DEF TypeOK, Failed, Finish

\* Init establishes the type invariant.
LEMMA TypeInit == Init => TypeOK
<1> SUFFICES ASSUME Init PROVE TypeOK
    OBVIOUS
<1>1. RegistryTypeOK
    BY RegistryAssumption DEF Init, RegistryInit, RegistryTypeOK, NodeLists
<1> QED BY <1>1 DEF Init, TypeOK

\* Nothing is left from an earlier sync when the registry is read.  TypeOK compares the
\* differences with the wanted hosts, so it is not inductive without this.
NothingLeft == pc \in {"idle", "read", "list"} => assign = {} /\ remove = {}

\* NothingLeft is inductive.
LEMMA NothingLeftInductive ==
    /\ Init => NothingLeft
    /\ NothingLeft /\ [Next]_vars => NothingLeft'
<1>1. Init => NothingLeft
    BY DEF Init, NothingLeft
<1>2. ASSUME NothingLeft, [Next]_vars PROVE NothingLeft'
  <2>1. CASE Worker
      BY <1>2, <2>1 DEF Worker, Pop, ReadNodes, ListHosts, AssignNetwork, AssignHosts,
                        RemoveHosts, Failed, Finish, NothingLeft, workVars
  <2>2. CASE World \/ VmChange \/ UNCHANGED vars
      BY <1>2, <2>2 DEF World, VmChange, vars, workVars, NothingLeft
  <2>3. ASSUME NEW c \in Callers, UpdateLoadBalancer(c) \/ EnsureElsewhere(c)
        PROVE  NothingLeft'
      BY <1>2, <2>3 DEF UpdateLoadBalancer, EnsureElsewhere, workVars, NothingLeft
  <2> QED BY <1>2, <2>1, <2>2, <2>3 DEF Next
<1> QED BY <1>1, <1>2

\* Every step preserves the type invariant.
LEMMA TypeStep == TypeOK /\ NothingLeft /\ [Next]_vars => TypeOK'
<1> SUFFICES ASSUME TypeOK, NothingLeft, [Next]_vars PROVE TypeOK'
    OBVIOUS
<1>a. /\ RegistryTypeOK /\ queued \in BOOLEAN /\ due \in BOOLEAN
      /\ want \subseteq Vms /\ assign \subseteq want /\ remove \subseteq Vms \ want
      /\ nets \subseteq Networks /\ hosts \subseteq Vms /\ mapped \subseteq Networks
    BY DEF TypeOK
<1>b. ASSUME KeepRegistry, faults' = faults \/ Fault
      PROVE  RegistryTypeOK'
    BY <1>a, <1>b, RegistryAssumption DEF KeepRegistry, Fault, RegistryTypeOK, NodeLists
<1>1. CASE Pop
    BY <1>1, <1>a, <1>b DEF Pop, TypeOK, workVars, ruleVars
<1>2. CASE ReadNodes
  <2>1. RegistryTypeOK'
      BY <1>2, <1>b DEF ReadNodes, Works
  <2>2. CASE nodesForService = {}
      BY <1>2, <1>a, <2>1, <2>2, FailedType DEF ReadNodes, TypeOK, ruleVars
  <2>3. CASE nodesForService # {}
    <3>1. want' \subseteq Vms
        BY <1>2, <1>a, <2>3
           DEF ReadNodes, idsForNodes, nodesForService, RegistryTypeOK
    <3>2. assign' = {} /\ remove' = {}
        BY <1>2, <2>3 DEF ReadNodes, NothingLeft
    <3> QED BY <1>2, <1>a, <2>1, <2>3, <3>1, <3>2 DEF ReadNodes, TypeOK, Works, ruleVars
  <2> QED BY <2>2, <2>3
<1>3. CASE ListHosts
  <2>1. RegistryTypeOK'
      BY <1>3, <1>b DEF ListHosts, Works
  <2>2. CASE Failed
      BY <1>3, <1>a, <2>1, <2>2, FailedType DEF ListHosts, TypeOK, ruleVars
  <2>3. CASE ~Failed
    <3>1. networkIDs(want) \subseteq Networks
        BY <1>a DEF networkIDs, Networks
    <3> QED
        BY <1>3, <1>a, <2>1, <2>3, <3>1
           DEF ListHosts, TypeOK, Works, ruleVars, symmetricDifference
  <2> QED BY <2>2, <2>3
<1>4. CASE AssignNetwork
  <2>1. RegistryTypeOK'
      BY <1>4, <1>b DEF AssignNetwork, Works
  <2>2. mapped' \subseteq Networks /\ hosts' = hosts
      BY <1>4, <1>a DEF AssignNetwork
  <2>3. CASE Failed
      BY <1>a, <2>1, <2>2, <2>3, FailedType DEF TypeOK
  <2>4. CASE ~Failed
      BY <1>4, <1>a, <2>1, <2>2, <2>4 DEF AssignNetwork, TypeOK, Works
  <2> QED BY <2>3, <2>4
<1>5. CASE AssignHosts
  <2>1. RegistryTypeOK'
      BY <1>5, <1>b DEF AssignHosts, Works
  <2>2. hosts' \subseteq Vms /\ mapped' = mapped
      BY <1>5, <1>a DEF AssignHosts
  <2>3. CASE Failed
      BY <1>a, <2>1, <2>2, <2>3, FailedType DEF TypeOK
  <2>4. CASE ~Failed
      BY <1>5, <1>a, <2>1, <2>2, <2>4 DEF AssignHosts, TypeOK, Works, workVars
  <2> QED BY <2>3, <2>4
<1>6. CASE RemoveHosts
  <2>1. RegistryTypeOK'
      BY <1>6, <1>b DEF RemoveHosts, Works
  <2>2. hosts' \subseteq Vms /\ mapped' = mapped
      BY <1>6, <1>a DEF RemoveHosts
  <2>3. CASE Failed
      BY <1>a, <2>1, <2>2, <2>3, FailedType DEF TypeOK
  <2>4. CASE ~Failed
      BY <1>6, <1>a, <2>1, <2>2, <2>4 DEF RemoveHosts, TypeOK, Works, Finish
  <2> QED BY <2>3, <2>4
<1>7. CASE World
  <2>1. RegistryTypeOK'
    <3>1. CASE NodeChange
        BY <1>a, <3>1, RegistryAssumption DEF NodeChange, Counted, RegistryTypeOK, NodeLists
    <3>2. ASSUME NEW c \in Callers, ReadCluster(c) PROVE RegistryTypeOK'
        BY <1>a, <3>2 DEF ReadCluster, RegistryTypeOK, NodeLists
    <3> QED BY <1>7, <3>1, <3>2 DEF World
  <2> QED BY <1>7, <2>1 DEF World, TypeOK, workVars, ruleVars
<1>8. CASE VmChange
  <2>1. RegistryTypeOK'
      BY <1>8, <1>a, RegistryAssumption DEF VmChange, Counted, RegistryTypeOK, NodeLists
  <2>2. hosts' \subseteq Vms
      BY <1>8, <1>a DEF VmChange
  <2> QED BY <1>8, <2>1, <2>2 DEF VmChange, TypeOK, workVars
<1>9. ASSUME NEW c \in Callers, UpdateLoadBalancer(c) \/ EnsureElsewhere(c)
      PROVE  TypeOK'
  <2>1. list[c] \in NodeLists /\ (UpdateAll(list[c]) \/ UpdateSome(list[c]))
      BY <1>9, <1>a DEF UpdateLoadBalancer, EnsureElsewhere, RegistryTypeOK
  <2>2. /\ nodes' \in [Nodes -> [vmID : Vms, label : Labels] \cup {None}]
        /\ cache' \in [Nodes -> Vms \cup {None}]
        /\ faults' \in 0..MaxFaults
      BY <1>a, <2>1, UpdateType
  <2>3. list' \in [Callers -> NodeLists \cup {None}]
      BY <1>9, <1>a DEF UpdateLoadBalancer, EnsureElsewhere, RegistryTypeOK
  <2>4. RegistryTypeOK'
      BY <1>9, <1>a, <2>2, <2>3
         DEF UpdateLoadBalancer, EnsureElsewhere, RegistryTypeOK, NodeLists
  <2>5. queued' \in BOOLEAN /\ due' \in BOOLEAN
      BY <1>9, <1>a, Zenon DEF UpdateLoadBalancer, EnsureElsewhere, push
  <2> QED BY <1>9, <2>4, <2>5 DEF UpdateLoadBalancer, EnsureElsewhere, TypeOK, workVars, ruleVars
<1>10. CASE UNCHANGED vars
    BY <1>10 DEF vars, registryVars, workVars, ruleVars, TypeOK, RegistryTypeOK, NodeLists
<1> QED
    BY <1>1, <1>2, <1>3, <1>4, <1>5, <1>6, <1>7, <1>8, <1>9, <1>10 DEF Next, Worker

\* The registry, the slices of syncNodes and the rule keep their types; in particular no
\* host is ever both wanted and to be removed.
THEOREM TypeCorrect == Spec => []TypeOK
BY TypeInit, TypeStep, NothingLeftInductive, PTL DEF Spec

-----------------------------------------------------------------------------
(* The rule is never emptied.                                              *)

\* Two nodes never have the same virtual machine.
DistinctVms == \A m, n \in Nodes : m # n /\ vm[m] # None => vm[m] # vm[n]

\* A virtual machine that has been seen.  It may be destroyed, but then it does not come
\* back.
Known(v) == Alive(v) \/ v \in gone

\* What the registry and the cache of virtualMachineByName hold has been seen.
RegistryKnown == /\ \A n \in Nodes : nodes[n] # None => Known(nodes[n].vmID)
                 /\ \A n \in Nodes : cache[n] # None => Known(cache[n])

\* So have the machines a sync works with.
WantKnown == \A v \in want : Known(v)

\* While hosts are about to be assigned, every wanted machine that exists is behind the
\* rule or about to be; when hosts are about to be removed, it is behind the rule.
WantedServed ==
    /\ pc = "nets" => \A v \in want : Alive(v) => v \in hosts \cup assign
    /\ pc = "remove" => \A v \in want : Alive(v) => v \in hosts

\* The inductive invariant behind NeverEmptied.
ServedInv == TypeOK /\ NothingLeft /\ DistinctVms /\ RegistryKnown /\ WantKnown /\ WantedServed

\* Init establishes the invariant.
LEMMA ServedInit == Init => ServedInv
<1> SUFFICES ASSUME Init PROVE ServedInv
    OBVIOUS
<1>1. TypeOK /\ NothingLeft
    BY TypeInit, NothingLeftInductive
<1>2. DistinctVms /\ RegistryKnown /\ WantKnown /\ WantedServed
    BY DEF Init, RegistryInit, DistinctVms, RegistryKnown, WantKnown, WantedServed
<1> QED BY <1>1, <1>2 DEF ServedInv

\* updateNodes enters only machines that CloudStack has, or that are remembered.
LEMMA UpdateKnown ==
    ASSUME RegistryTypeOK, RegistryKnown, UNCHANGED <<vm, gone>>,
           NEW l \in NodeLists, UpdateAll(l) \/ UpdateSome(l)
    PROVE  RegistryKnown'
<1>1. PICK N \in SUBSET Nodes :
          /\ Looked(N)
          /\ \A n \in Nodes : nodes'[n] \in {nodes[n], None, NodeInfo(n, l[n])}
  <2>1. CASE UpdateAll(l)
      BY <2>1 DEF UpdateAll, Listed
  <2>2. CASE UpdateSome(l)
      BY <2>2 DEF UpdateSome, Listed
  <2> QED BY <2>1, <2>2
<1>2. \A v : Known(v)' <=> Known(v)
    BY DEF Known, Alive
<1>3. ASSUME NEW n \in Nodes, virtualMachineByName(n) # None
      PROVE  Known(virtualMachineByName(n))
    BY <1>3 DEF virtualMachineByName, RegistryKnown, Known, Alive
<1>4. ASSUME NEW n \in Nodes, cache'[n] # None
      PROVE  Known(cache'[n])
  <2>1. cache'[n] \in {cache[n], virtualMachineByName(n), None}
      BY <1>1 DEF Looked
  <2> QED BY <1>3, <1>4, <2>1 DEF RegistryKnown
<1>5. ASSUME NEW n \in Nodes, NodeInfo(n, l[n]) # None
      PROVE  Known(NodeInfo(n, l[n]).vmID)
  <2>1. CASE nodes[n] # None
    <3>1. nodes[n] \in [vmID : Vms, label : Labels] /\ Known(nodes[n].vmID)
        BY <2>1 DEF RegistryTypeOK, RegistryKnown
    <3>2. NodeInfo(n, l[n]).vmID = nodes[n].vmID
        BY <2>1, <3>1 DEF NodeInfo
    <3> QED BY <3>1, <3>2
  <2>2. CASE nodes[n] = None
      BY <1>3, <1>5, <2>2 DEF NodeInfo
  <2> QED BY <2>1, <2>2
<1>6. ASSUME NEW n \in Nodes, nodes'[n] # None PROVE Known(nodes'[n].vmID)
    BY <1>1, <1>5, <1>6 DEF RegistryKnown
<1> QED BY <1>2, <1>4, <1>6 DEF RegistryKnown

\* Steps of the worker preserve the invariant.  They touch neither the machines nor the
\* registry.
LEMMA ServedWorker ==
    ASSUME ServedInv, Worker
    PROVE  DistinctVms' /\ RegistryKnown' /\ WantKnown' /\ WantedServed'
<1> USE DEF ServedInv
<1>1. KeepRegistry
    BY DEF Worker, Pop, ReadNodes, ListHosts, AssignNetwork, AssignHosts, RemoveHosts
<1>2. /\ DistinctVms' /\ RegistryKnown'
      /\ \A v : (Alive(v)' <=> Alive(v)) /\ (Known(v)' <=> Known(v))
    BY <1>1 DEF KeepRegistry, DistinctVms, RegistryKnown, Known, Alive
<1>3. ASSUME Failed PROVE WantKnown' /\ WantedServed'
    BY <1>3 DEF Failed, Finish, WantKnown, WantedServed
<1>4. ASSUME want' = want PROVE WantKnown'
    BY <1>2, <1>4 DEF WantKnown
<1>5. CASE Pop
    BY <1>2, <1>4, <1>5 DEF Pop, workVars, WantedServed
<1>6. CASE ReadNodes /\ ~Failed
  <2>1. want' = {nodes[n].vmID : n \in nodesForService} /\ pc' = "list"
      BY <1>6 DEF ReadNodes, idsForNodes
  <2>2. WantKnown'
      BY <1>2, <2>1 DEF WantKnown, RegistryKnown, nodesForService
  <2> QED BY <1>2, <2>1, <2>2 DEF WantedServed
<1>7. CASE ListHosts /\ ~Failed
  <2>1. /\ want' = want /\ hosts' = hosts /\ assign' = want \ hosts
        /\ pc' = IF assign' # {} THEN "nets" ELSE "remove"
      BY <1>7 DEF ListHosts, symmetricDifference, ruleVars
  <2> QED BY <1>2, <1>4, <2>1 DEF WantedServed
<1>8. CASE AssignNetwork /\ ~Failed
    BY <1>2, <1>4, <1>8 DEF AssignNetwork, WantedServed
<1>9. CASE AssignHosts /\ ~Failed
  <2>1. want' = want /\ pc = "nets" /\ pc' = "remove" /\ hosts' = hosts \cup assign
      BY <1>9 DEF AssignHosts, workVars
  <2> QED BY <1>2, <1>4, <2>1 DEF WantedServed
<1>10. CASE RemoveHosts /\ ~Failed
    BY <1>2, <1>10 DEF RemoveHosts, Finish, WantKnown, WantedServed
<1> QED BY <1>2, <1>3, <1>5, <1>6, <1>7, <1>8, <1>9, <1>10 DEF Worker

\* A change of a virtual machine preserves the invariant: the machine that goes is that
\* of one node only, and the one that comes is none that a sync works with.
LEMMA ServedVm ==
    ASSUME ServedInv, VmChange
    PROVE  DistinctVms' /\ RegistryKnown' /\ WantKnown' /\ WantedServed'
<1> USE DEF ServedInv
<1>1. vm \in [Nodes -> Vms \cup {None}] /\ want \subseteq Vms
    BY DEF TypeOK, RegistryTypeOK
<1>2. PICK n \in Nodes, v \in Vms \cup {None} :
          /\ vm[n] # v /\ (v # None => ~Known(v))
          /\ vm' = [vm EXCEPT ![n] = v]
          /\ gone' = gone \cup ({vm[n]} \ {None})
          /\ hosts' = hosts \ {vm[n]}
    BY DEF VmChange, Known
<1>3. UNCHANGED <<cache, nodes, want, assign, pc>>
    BY DEF VmChange, workVars
<1>4. RegistryKnown' /\ WantKnown'
  <2>1. ASSUME NEW w, w # None, Known(w) PROVE Known(w)'
      BY <1>1, <1>2, <2>1 DEF Known, Alive
  <2>2. \A m \in Nodes : nodes[m] # None => nodes[m].vmID # None
      BY RegistryAssumption DEF TypeOK, RegistryTypeOK
  <2> QED BY <1>1, <1>3, <2>1, <2>2, RegistryAssumption DEF RegistryKnown, WantKnown
<1>5. DistinctVms'
    BY <1>1, <1>2 DEF DistinctVms, Known, Alive
<1>6. ASSUME NEW w \in want, Alive(w)' PROVE Alive(w) /\ w # vm[n]
  <2>1. PICK m \in Nodes : vm'[m] = w
      BY <1>6 DEF Alive
  <2>2. w # None /\ w # v
      BY <1>1, <1>2, RegistryAssumption DEF WantKnown
  <2>3. m # n /\ vm[m] = w
      BY <1>1, <1>2, <2>1, <2>2
  <2> QED BY <2>2, <2>3 DEF Alive, DistinctVms
<1>7. WantedServed'
    BY <1>2, <1>3, <1>6 DEF WantedServed
<1> QED BY <1>4, <1>5, <1>7

\* Every step preserves the invariant.
LEMMA ServedStep == ServedInv /\ [Next]_vars => ServedInv'
<1> SUFFICES ASSUME ServedInv, [Next]_vars PROVE ServedInv'
    OBVIOUS
<1>1. TypeOK' /\ NothingLeft'
    BY TypeStep, NothingLeftInductive DEF ServedInv
<1>2. CASE Worker
    BY <1>1, <1>2, ServedWorker DEF ServedInv
<1>3. CASE VmChange
    BY <1>1, <1>3, ServedVm DEF ServedInv
<1>4. CASE World \/ UNCHANGED vars
  <2>1. UNCHANGED <<vm, gone, cache, nodes, pc, want, assign, hosts>>
      BY <1>4 DEF World, NodeChange, ReadCluster, vars, registryVars, workVars, ruleVars
  <2> QED BY <1>1, <2>1
          DEF ServedInv, DistinctVms, RegistryKnown, WantKnown, WantedServed, Known, Alive
<1>5. ASSUME NEW c \in Callers, UpdateLoadBalancer(c) \/ EnsureElsewhere(c)
      PROVE  ServedInv'
  <2>1. RegistryTypeOK /\ RegistryKnown /\ list[c] \in NodeLists
      BY <1>5 DEF ServedInv, TypeOK, RegistryTypeOK, UpdateLoadBalancer, EnsureElsewhere
  <2>2. UNCHANGED <<vm, gone, pc, want, assign, hosts>>
      BY <1>5 DEF UpdateLoadBalancer, EnsureElsewhere, workVars, ruleVars
  <2>3. RegistryKnown'
      BY <1>5, <2>1, <2>2, UpdateKnown DEF UpdateLoadBalancer, EnsureElsewhere
  <2>4. DistinctVms' /\ WantKnown' /\ WantedServed'
      BY <2>2 DEF ServedInv, DistinctVms, WantKnown, WantedServed, Known, Alive
  <2> QED BY <1>1, <2>3, <2>4 DEF ServedInv
<1> QED BY <1>2, <1>3, <1>4, <1>5 DEF Next

\* syncNodes (loadbalancer.go) assigns before it removes and gives up on an error: however
\* registry, machines and earlier attempts went, no step of it takes the last host away
\* while a machine it was told to use exists.
THEOREM NeverEmptiedHolds == Spec => NeverEmptied
<1>1. ASSUME ServedInv, [Next]_vars, pc' # pc, hosts # {}, hosts' = {}
      PROVE  ~(\E v \in want : Alive(v))
  <2>1. Worker
      BY <1>1 DEF Next, World, VmChange, UpdateLoadBalancer, EnsureElsewhere, vars
  <2>2. RemoveHosts /\ hosts' = hosts \ remove
      BY <1>1, <2>1 DEF Worker, Pop, ReadNodes, ListHosts, AssignNetwork, AssignHosts,
                        RemoveHosts, ruleVars
  <2>3. remove \cap want = {} /\ \A v \in want : Alive(v) => v \in hosts
      BY <1>1, <2>2 DEF ServedInv, TypeOK, WantedServed, RemoveHosts
  <2> QED BY <1>1, <2>2, <2>3
<1>2. ServedInv /\ [Next]_vars
        => [pc' # pc /\ hosts # {} /\ hosts' = {} => ~(\E v \in want : Alive(v))]_vars
    BY <1>1
<1> QED BY <1>2, ServedInit, ServedStep, PTL DEF Spec, NeverEmptied
=============================================================================
