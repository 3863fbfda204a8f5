-------------------------- MODULE InstancesProofs --------------------------
(***************************************************************************)
(* That no node is lost while the machines it has claimed to be are there, *)
(* and that the NICs behind its addresses exist, for any number of         *)
(* machines and any indexes.                                               *)
(*                                                                         *)
(* Only the lifecycle controller deletes nodes, and it is at one node at a *)
(* time: the node it looks up by name is still there, with a project, when *)
(* the answer comes.  A node has run on the machine that registered it, in *)
(* the project the node leads to, so that an empty answer means that this  *)
(* machine is gone; an id in hand is of a machine that had the name.  Two  *)
(* machines never have one name at a time, so that an id that was found by *)
(* name and is not the one the node runs on shows that the latter is gone. *)
(***************************************************************************)
EXTENDS Instances, TLAPS

ConfigOK == config \in [internal : Indexes, external : Indexes]
CloudOK == /\ machine \in [Machines -> States \cup {"absent"}] /\ born \subseteq Machines
           /\ \A m \in Machines : Exists(m) => m \in born
KubeOK == kube \in [MachineNames -> NodeObjects \cup {Nothing}]
CallOK == call \in [Callers -> InstanceCalls \cup {Nothing}]

\* A machine that has been there, under a name.
Known(m, n) == m \in born /\ vmName[m] = n

\* A node has run on a machine of its name, which is in the project that the node leads to,
\* and its id is of a machine of its name.
NodeOK(n) == kube[n] # Nothing =>
    /\ Known(kube[n].runs, n)
    /\ projectOf(n) \in {Nothing, vmProject[kube[n].runs]}
    /\ kube[n].providerID \in Machines => Known(kube[n].providerID, n)

\* A call that has an id has one of its node; a lifecycle call that has none looks for a node
\* that is there and has a project.
InHand(c) == call[c] # Nothing =>
    /\ call[c].step # "byName" => Known(call[c].id, call[c].name)
    /\ call[c].step = "byName" /\ c = "lifecycle" =>
          kube[call[c].name] # Nothing /\ projectOf(call[c].name) # Nothing

\* The addresses of one node (AddressesSound).
AddressesOf(n) == kube[n] # Nothing /\ kube[n].providerID \in Machines =>
    /\ kube[n].addresses.internal \in 0..(vmNICs[kube[n].providerID] - 1)
    /\ kube[n].addresses.external # -1 =>
          /\ kube[n].addresses.external \in 0..(vmNICs[kube[n].providerID] - 1) \ {kube[n].addresses.internal}
          /\ kube[n].addresses.external = externalNIC(kube[n].providerID)

\* The inductive invariant.
IInv == /\ ConfigOK /\ CloudOK /\ KubeOK /\ CallOK
        /\ \A n \in MachineNames : NodeOK(n) /\ AddressesOf(n)
        /\ \A c \in Callers : InHand(c)
-----------------------------------------------------------------------------
\* A machine leads to a name and a project, which is one.
LEMMA MachineFacts ==
  ASSUME NEW m \in Machines
  PROVE  vmName[m] \in MachineNames /\ vmProject[m] \in MachineProjects /\ vmProject[m] # Nothing
BY NothingAssumption DEF MachineNames, MachineProjects

\* Whatever the indexes are: the NICs that nodeAddresses picks exist, if there is one.
LEMMA PickedNICs ==
  ASSUME ConfigOK, NEW m \in Machines, vmNICs[m] > 0
  PROVE  /\ nodeAddresses(m) \in Addresses
         /\ nodeAddresses(m).internal \in 0..(vmNICs[m] - 1)
         /\ nodeAddresses(m).external # -1 =>
               /\ nodeAddresses(m).external \in 0..(vmNICs[m] - 1) \ {nodeAddresses(m).internal}
               /\ nodeAddresses(m).external = externalNIC(m)
<1>1. config.internal \in Int /\ config.external \in Int /\ vmNICs[m] \in Nat
  BY IndexAssumption, MachineAssumption DEF ConfigOK
<1>2. nodeAddresses(m).internal = internalNIC(m) /\ nodeAddresses(m).external = announcedNIC(m)
  BY DEF nodeAddresses
<1>3. internalNIC(m) \in 0..(vmNICs[m] - 1)
  BY <1>1 DEF internalNIC
<1>4. announcedNIC(m) # -1 => /\ announcedNIC(m) \in 0..(vmNICs[m] - 1) \ {internalNIC(m)}
                              /\ announcedNIC(m) = externalNIC(m)
  BY <1>1 DEF announcedNIC, externalNIC
<1>5. internalNIC(m) \in Int /\ announcedNIC(m) \in Int
  BY <1>1, <1>3 DEF announcedNIC
<1>6. nodeAddresses(m) \in Addresses
  BY <1>5 DEF nodeAddresses, Addresses
<1> QED BY <1>2, <1>3, <1>4, <1>6

\* A call under way.
LEMMA CallFacts ==
  ASSUME IInv, NEW c \in Callers, call[c] # Nothing
  PROVE  /\ call[c] \in InstanceCalls /\ call[c].name \in MachineNames
         /\ call[c].id \in Machines \cup {Nothing} /\ InHand(c)
         /\ call[c].step # "byName" => call[c].id \in born /\ call[c].id \in Machines
<1>1. call[c] \in InstanceCalls /\ InHand(c)
  BY DEF IInv, CallOK
<1> QED BY <1>1 DEF InstanceCalls, InHand, Known, IInv, CloudOK

\* A node that is there.
LEMMA NodeFacts ==
  ASSUME IInv, NEW n \in MachineNames, kube[n] # Nothing
  PROVE  /\ kube[n] \in NodeObjects /\ NodeOK(n) /\ AddressesOf(n)
         /\ kube[n].runs \in Machines /\ kube[n].label \in MachineProjects \cup {Nothing}
         /\ kube[n].providerID \in Machines \cup {Foreign, Nothing}
<1>1. kube[n] \in NodeObjects /\ NodeOK(n) /\ AddressesOf(n)
  BY DEF IInv, KubeOK
<1> QED BY <1>1 DEF NodeObjects
-----------------------------------------------------------------------------
\* A node may be changed to one that is in order; the others stay as they are.
Becomes(n, o) == kube' = [kube EXCEPT ![n] = o]
Fits(n, o) == o # Nothing =>
    /\ o \in NodeObjects /\ Known(o.runs, n)
    /\ (IF o.label # Nothing THEN o.label ELSE DefaultProject) \in {Nothing, vmProject[o.runs]}
    /\ o.providerID \in Machines =>
          /\ Known(o.providerID, n)
          /\ o.addresses.internal \in 0..(vmNICs[o.providerID] - 1)
          /\ o.addresses.external # -1 =>
                /\ o.addresses.external \in 0..(vmNICs[o.providerID] - 1) \ {o.addresses.internal}
                /\ o.addresses.external = externalNIC(o.providerID)

NodesOK == KubeOK /\ \A n \in MachineNames : NodeOK(n) /\ AddressesOf(n)

\* A node in order fits.
LEMMA NodeFits ==
  ASSUME IInv, NEW n \in MachineNames
  PROVE  Fits(n, kube[n])
BY NodeFacts DEF Fits, NodeOK, AddressesOf, projectOf

\* Nodes that fit are in order.
LEMMA FitNodes ==
  ASSUME config' = config, born \subseteq born', KubeOK',
         \A n \in MachineNames : Fits(n, kube'[n])
  PROVE  NodesOK'
<1> SUFFICES ASSUME NEW n \in MachineNames PROVE NodeOK(n)' /\ AddressesOf(n)'
  BY DEF NodesOK
<1>1. Fits(n, kube'[n])
  OBVIOUS
<1>2. NodeOK(n)'
  BY <1>1 DEF Fits, NodeOK, Known, projectOf
<1>3. AddressesOf(n)'
  BY <1>1 DEF Fits, AddressesOf, externalNIC
<1> QED BY <1>2, <1>3

\* The nodes stay in order when one of them is changed, or none.
LEMMA NodesStay ==
  ASSUME IInv, config' = config, born \subseteq born',
         kube' = kube \/ \E n \in MachineNames : \E o \in NodeObjects \cup {Nothing} : Becomes(n, o) /\ Fits(n, o)
  PROVE  NodesOK'
<1>1. kube \in [MachineNames -> NodeObjects \cup {Nothing}]
  BY DEF IInv, KubeOK
<1>2. CASE kube' = kube
  <2>1. KubeOK'
    BY <1>1, <1>2 DEF KubeOK
  <2> QED BY <1>2, <2>1, NodeFits, FitNodes
<1>3. CASE kube' # kube
  <2>1. PICK n \in MachineNames, o \in NodeObjects \cup {Nothing} : Becomes(n, o) /\ Fits(n, o)
    BY <1>3
  <2>2. KubeOK' /\ kube'[n] = o /\ \A x \in MachineNames \ {n} : kube'[x] = kube[x]
    BY <1>1, <2>1 DEF Becomes, KubeOK
  <2>3. \A x \in MachineNames : Fits(x, kube'[x])
    BY <2>1, <2>2, NodeFits
  <2> QED BY <2>2, <2>3, FitNodes
<1> QED BY <1>2, <1>3
-----------------------------------------------------------------------------
\* A node that is there and has a project keeps both.
KeepsNode(n) == kube[n] # Nothing /\ projectOf(n) # Nothing => kube'[n] # Nothing /\ projectOf(n)' # Nothing
CallFits(c, x) == x # Nothing =>
    /\ x.step # "byName" => Known(x.id, x.name)
    /\ x.step = "byName" /\ c = "lifecycle" => kube[x.name] # Nothing /\ projectOf(x.name) # Nothing

\* The calls stay in order: each is as it was, or one that fits, and the nodes that the
\* lifecycle controller may be looking for are kept while it has a call.
LEMMA CallsStay ==
  ASSUME IInv, born \subseteq born', CallOK', \A c \in Callers : call'[c] = call[c] \/ CallFits(c, call'[c]),
         call'["lifecycle"] # Nothing => \A n \in MachineNames : KeepsNode(n)
  PROVE  \A c \in Callers : InHand(c)'
<1> SUFFICES ASSUME NEW c \in Callers, call'[c] # Nothing PROVE InHand(c)'
  BY DEF InHand
<1>1. call'[c] \in InstanceCalls /\ call'[c].name \in MachineNames
  BY DEF CallOK, InstanceCalls
<1>2. CallFits(c, call'[c])
  <2>1. ASSUME call[c] # Nothing PROVE CallFits(c, call[c])
    <3>1. InHand(c)
      BY <2>1, CallFacts
    <3> QED BY <2>1, <3>1 DEF InHand, CallFits
  <2> QED BY <2>1
<1>3. PICK n \in MachineNames : call'[c].name = n
  BY <1>1
<1>4. call'[c].step # "byName" => call'[c].id \in born' /\ vmName[call'[c].id] = n
  BY <1>2, <1>3 DEF CallFits, Known
<1>5. ASSUME call'[c].step = "byName", c = "lifecycle" PROVE kube'[n] # Nothing /\ projectOf(n)' # Nothing
  <2>1. kube[n] # Nothing /\ projectOf(n) # Nothing
    BY <1>2, <1>3, <1>5 DEF CallFits
  <2> QED BY <1>5, <2>1 DEF KeepsNode
<1> QED BY <1>3, <1>4, <1>5 DEF InHand, projectOf, Known

\* A call that moves is replaced by one, or by none, and the other stays as it is.
Called(c, x) == call' = [call EXCEPT ![c] = x]
LEMMA CallMoves ==
  ASSUME IInv, born \subseteq born', NEW c \in Callers, NEW x \in InstanceCalls \cup {Nothing},
         Called(c, x), CallFits(c, x),
         (c = "lifecycle" /\ x = Nothing) \/ (\A n \in MachineNames : KeepsNode(n))
  PROVE  CallOK' /\ \A d \in Callers : InHand(d)'
<1>1. CallOK' /\ call'[c] = x /\ \A d \in Callers \ {c} : call'[d] = call[d]
  BY DEF IInv, CallOK, Called
<1>2. "lifecycle" \in Callers
  BY DEF Callers
<1>3. call'["lifecycle"] # Nothing => \A n \in MachineNames : KeepsNode(n)
  BY <1>1
<1>4. \A d \in Callers : call'[d] = call[d] \/ CallFits(d, call'[d])
  BY <1>1
<1> QED BY <1>1, <1>3, <1>4, CallsStay

\* A call that is over.
LEMMA CallEnds ==
  ASSUME IInv, born' = born, NEW c \in Callers, Ends(c),
         c = "lifecycle" \/ \A n \in MachineNames : KeepsNode(n)
  PROVE  CallOK' /\ \A d \in Callers : InHand(d)'
<1>1. Called(c, Nothing) /\ CallFits(c, Nothing)
  BY DEF Ends, Called, CallFits
<1> QED BY <1>1, CallMoves

\* A call that goes on with an id that fits its node.
LEMMA CallGoesOn ==
  ASSUME IInv, born' = born, kube' = kube, NEW c \in Callers, call[c] # Nothing,
         NEW st \in {"byID", "addresses", "exists", "shutdown"}, NEW m \in Machines,
         Known(m, call[c].name), GoesOn(c, st, m)
  PROVE  CallOK' /\ \A d \in Callers : InHand(d)'
<1> DEFINE x == [call[c] EXCEPT !.step = st, !.id = m]
<1>1. x \in InstanceCalls /\ x.step = st /\ x.id = m /\ x.name = call[c].name
  BY CallFacts DEF InstanceCalls
<1>2. Called(c, x)
  BY DEF GoesOn, Called, IInv, CallOK
<1> HIDE DEF x
<1>3. CallFits(c, x)
  BY <1>1 DEF CallFits
<1>4. \A n \in MachineNames : KeepsNode(n)
  BY DEF KeepsNode, projectOf
<1> QED BY <1>1, <1>2, <1>3, <1>4, CallMoves

\* Deleting a node leaves the nodes in order.
LEMMA NodeDeleted ==
  ASSUME IInv, config' = config, born' = born, DeletesNode("lifecycle"), call["lifecycle"] # Nothing
  PROVE  NodesOK' /\ CallOK' /\ \A d \in Callers : InHand(d)'
<1>1. "lifecycle" \in Callers
  BY DEF Callers
<1>2. call["lifecycle"].name \in MachineNames
  BY <1>1, CallFacts
<1>3. Becomes(call["lifecycle"].name, Nothing) /\ Fits(call["lifecycle"].name, Nothing)
  BY DEF DeletesNode, SetNode, Becomes, Fits
<1>4. NodesOK'
  BY <1>2, <1>3, NodesStay
<1>5. Ends("lifecycle")
  BY DEF DeletesNode
<1> QED BY <1>1, <1>4, <1>5, CallEnds

\* What a lookup without a match leads to.
LEMMA NotFoundStep ==
  ASSUME IInv, NEW c \in Callers, call[c] # Nothing, NotFound(c)
  PROVE  NodesOK' /\ CallOK' /\ \A d \in Callers : InHand(d)'
<1>1. config' = config /\ born' = born
  BY DEF NotFound, KeepCloud
<1>2. CASE c = "lifecycle"
  <2>1. DeletesNode("lifecycle")
    BY <1>2 DEF NotFound
  <2> QED BY <1>1, <1>2, <2>1, NodeDeleted
<1>3. CASE c # "lifecycle"
  <2>1. Ends(c) /\ kube' = kube
    BY <1>3 DEF NotFound
  <2>2. \A n \in MachineNames : KeepsNode(n)
    BY <2>1 DEF KeepsNode, projectOf
  <2> QED BY <1>1, <2>1, <2>2, CallEnds, NodesStay
<1> QED BY <1>2, <1>3
-----------------------------------------------------------------------------
\* The controllers' steps keep nodes and calls in order.
LEMMA ControllerStep ==
  ASSUME IInv,
         \/ \E n \in MachineNames : NodeInit(n) \/ Monitor(n)
         \/ \E c \in Callers : InstanceByName(c) \/ InstanceByID(c) \/ CallFails(c)
         \/ NodeAddresses \/ InstanceExists \/ InstanceShutdown
  PROVE  NodesOK' /\ CallOK' /\ \A d \in Callers : InHand(d)'
<1> DEFINE Goal == NodesOK' /\ CallOK' /\ \A d \in Callers : InHand(d)'
<1>0. "lifecycle" \in Callers /\ "node" \in Callers
  BY DEF Callers
<1>1. config' = config /\ born' = born /\ machine' = machine
  BY DEF NodeInit, Monitor, InstanceByName, InstanceByID, CallFails, NodeAddresses, InstanceExists,
    InstanceShutdown, NotFound, KeepCloud
<1>2. kube' = kube => NodesOK' /\ \A n \in MachineNames : KeepsNode(n)
  BY <1>1, NodesStay DEF KeepsNode, projectOf
<1>a. ASSUME NEW n \in MachineNames, NodeInit(n) PROVE Goal
  <2> DEFINE x == [name |-> n, step |-> "byName", id |-> Nothing]
  <2>1. x \in InstanceCalls /\ x.step = "byName"
    BY DEF InstanceCalls
  <2>2. Called("node", x) /\ kube' = kube
    BY <1>a DEF NodeInit, Called
  <2> HIDE DEF x
  <2>3. CallFits("node", x)
    BY <2>1 DEF CallFits
  <2> QED BY <1>0, <1>1, <1>2, <2>1, <2>2, <2>3, CallMoves
<1>b. ASSUME NEW n \in MachineNames, Monitor(n) PROVE Goal
  <2> DEFINE id == kube[n].providerID
             x == [name |-> n, step |-> IF id = Nothing THEN "byName" ELSE "exists", id |-> id]
  <2>1. /\ kube[n] # Nothing /\ id # Foreign /\ (id = Nothing => projectOf(n) # Nothing)
        /\ Called("lifecycle", x) /\ kube' = kube
    BY <1>b DEF Monitor, Called
  <2>2. id \in Machines \cup {Nothing} /\ (id \in Machines => Known(id, n))
    BY <2>1, NodeFacts DEF NodeOK
  <2>3. x \in InstanceCalls /\ x.name = n /\ x.id = id /\ x.step = IF id = Nothing THEN "byName" ELSE "exists"
    BY <2>2 DEF InstanceCalls
  <2> HIDE DEF x, id
  <2>4. CallFits("lifecycle", x)
    BY <2>1, <2>2, <2>3 DEF CallFits
  <2> QED BY <1>0, <1>1, <1>2, <2>1, <2>3, <2>4, CallMoves
<1>c. ASSUME NEW c \in Callers, InstanceByName(c) PROVE Goal
  <2>1. call[c] # Nothing
    BY <1>c DEF InstanceByName
  <2>2. CASE ByNodeName(call[c].name) # {}
    <3>1. PICK m \in ByNodeName(call[c].name) : GoesOn(c, "byID", m) /\ kube' = kube
      BY <1>c, <2>2 DEF InstanceByName
    <3>2. m \in Machines /\ Known(m, call[c].name)
      BY DEF ByNodeName, Known, IInv, CloudOK
    <3> QED BY <1>1, <1>2, <2>1, <3>1, <3>2, CallGoesOn
  <2> QED BY <1>c, <2>1, <2>2, NotFoundStep DEF InstanceByName
<1>d. ASSUME NEW c \in Callers, InstanceByID(c) PROVE Goal
  <2>1. call[c] # Nothing /\ call[c].step = "byID"
    BY <1>d DEF InstanceByID
  <2>2. call[c].id \in Machines /\ Known(call[c].id, call[c].name)
    BY <2>1, CallFacts DEF InHand
  <2>3. CASE Exists(call[c].id)
    <3>1. PICK st \in {"addresses", "exists"} : GoesOn(c, st, call[c].id) /\ kube' = kube
      BY <1>d, <2>3 DEF InstanceByID
    <3> QED BY <1>1, <1>2, <2>1, <2>2, <3>1, CallGoesOn
  <2> QED BY <1>d, <2>1, <2>3, NotFoundStep DEF InstanceByID
<1>e. ASSUME NEW c \in Callers, CallFails(c) PROVE Goal
  BY <1>1, <1>2, <1>e, CallEnds DEF CallFails
<1>f. ASSUME NodeAddresses PROVE Goal
  <2>1. call["node"] # Nothing /\ call["node"].step = "addresses" /\ Ends("node")
    BY <1>f DEF NodeAddresses
  <2> DEFINE n == call["node"].name
             m == call["node"].id
             o == [kube[n] EXCEPT !.providerID = m, !.addresses = nodeAddresses(m)]
  <2>2. n \in MachineNames /\ m \in Machines /\ Known(m, n)
    BY <1>0, <2>1, CallFacts DEF InHand
  <2>3. CASE kube' = kube
    BY <1>0, <1>1, <1>2, <2>1, <2>3, CallEnds
  <2>4. CASE kube' # kube
    <3>1. vmNICs[m] > 0 /\ kube[n] # Nothing /\ Becomes(n, o)
      BY <1>f, <2>4 DEF NodeAddresses, SetNode, Becomes
    <3>2. kube[n] \in NodeObjects /\ NodeOK(n)
      BY <2>2, <3>1, NodeFacts
    <3>3. nodeAddresses(m) \in Addresses
      BY <2>2, <3>1, PickedNICs DEF IInv
    <3>4. /\ o \in NodeObjects /\ o.runs = kube[n].runs /\ o.label = kube[n].label
          /\ o.providerID = m /\ o.addresses = nodeAddresses(m)
      BY <2>2, <3>2, <3>3 DEF NodeObjects
    <3> HIDE DEF o, n, m
    <3>5. Fits(n, o)
      BY <2>2, <3>1, <3>2, <3>4, PickedNICs DEF Fits, NodeOK, projectOf, IInv
    <3>6. NodesOK'
      BY <1>1, <2>2, <3>1, <3>4, <3>5, NodesStay
    <3>7. \A k \in MachineNames : KeepsNode(k)
      <4>1. kube'[n] = o /\ \A k \in MachineNames \ {n} : kube'[k] = kube[k]
        BY <2>2, <3>1 DEF Becomes, IInv, KubeOK
      <4>2. o # Nothing
        BY <3>4, NodeAssumption
      <4> QED BY <3>4, <4>1, <4>2 DEF KeepsNode, projectOf
    <3> QED BY <1>0, <1>1, <2>1, <3>6, <3>7, CallEnds
  <2> QED BY <2>3, <2>4
<1>g. ASSUME InstanceExists PROVE Goal
  <2>1. call["lifecycle"] # Nothing /\ call["lifecycle"].step = "exists"
    BY <1>g DEF InstanceExists
  <2>2. call["lifecycle"].id \in Machines /\ Known(call["lifecycle"].id, call["lifecycle"].name)
    BY <1>0, <2>1, CallFacts DEF InHand
  <2>3. CASE Exists(call["lifecycle"].id)
    <3>1. GoesOn("lifecycle", "shutdown", call["lifecycle"].id) /\ kube' = kube
      BY <1>g, <2>3 DEF InstanceExists
    <3> QED BY <1>0, <1>1, <1>2, <2>1, <2>2, <3>1, CallGoesOn
  <2>4. CASE ~Exists(call["lifecycle"].id)
    BY <1>1, <1>g, <2>1, <2>4, NodeDeleted DEF InstanceExists
  <2> QED BY <2>3, <2>4
<1>h. ASSUME InstanceShutdown PROVE Goal
  <2>1. call["lifecycle"] # Nothing /\ Ends("lifecycle")
    BY <1>h DEF InstanceShutdown
  <2> DEFINE n == call["lifecycle"].name
             o == [kube[n] EXCEPT !.taint = TRUE]
  <2>2. n \in MachineNames
    BY <1>0, <2>1, CallFacts
  <2>3. CASE kube' # kube
    <3>1. kube[n] # Nothing /\ Becomes(n, o)
      BY <1>h, <2>3 DEF InstanceShutdown, SetNode, Becomes
    <3>2. kube[n] \in NodeObjects /\ Fits(n, kube[n])
      BY <2>2, <3>1, NodeFacts, NodeFits
    <3>3. /\ o \in NodeObjects /\ o.runs = kube[n].runs /\ o.label = kube[n].label
          /\ o.providerID = kube[n].providerID /\ o.addresses = kube[n].addresses
      BY <3>2 DEF NodeObjects
    <3> HIDE DEF o, n
    <3>4. Fits(n, o)
      BY <3>1, <3>2, <3>3 DEF Fits
    <3>5. NodesOK'
      BY <1>1, <2>2, <3>1, <3>3, <3>4, NodesStay
    <3> QED BY <1>0, <1>1, <2>1, <3>5, CallEnds
  <2> QED BY <1>0, <1>1, <1>2, <2>1, <2>3, CallEnds
<1> QED BY <1>a, <1>b, <1>c, <1>d, <1>e, <1>f, <1>g, <1>h

\* The steps of machines and kubelets keep nodes and calls in order.
LEMMA MachineStep ==
  ASSUME IInv, NEW m \in Machines, CreateMachine(m) \/ ChangeMachine(m) \/ ExpungeMachine(m) \/ Register(m) \/ StaticNAT(m)
  PROVE  NodesOK' /\ CallOK' /\ \A d \in Callers : InHand(d)'
<1>1. config' = config /\ call' = call /\ born \subseteq born' /\ CallOK'
  BY DEF CreateMachine, ChangeMachine, ExpungeMachine, Register, StaticNAT, KeepCalls, IInv, CallOK
<1>2. CASE kube' = kube
  <2>1. \A n \in MachineNames : KeepsNode(n)
    BY <1>2 DEF KeepsNode, projectOf
  <2> QED BY <1>1, <1>2, <2>1, NodesStay, CallsStay
<1>3. CASE Register(m)
  <2>1. vmName[m] \in MachineNames /\ vmProject[m] \in MachineProjects /\ vmProject[m] # Nothing
    BY MachineFacts
  <2>2. Known(m, vmName[m])
    BY <1>3 DEF Register, Known, IInv, CloudOK, Exists
  <2>3. \E o \in NodeObjects : /\ Becomes(vmName[m], o) /\ Fits(vmName[m], o)
                               /\ kube[vmName[m]] = Nothing \/ o.label # Nothing
    <3>1. CASE kube[vmName[m]] = Nothing
      <4>1. PICK label \in {vmProject[m], Nothing}, id \in {Nothing, Foreign} :
               /\ label = Nothing => DefaultProject \in {Nothing, vmProject[m]}
               /\ SetNode(vmName[m], [runs |-> m, label |-> label, providerID |-> id,
                                      addresses |-> NoAddresses, taint |-> FALSE])
        BY <1>3, <3>1 DEF Register
      <4> DEFINE o == [runs |-> m, label |-> label, providerID |-> id,
                       addresses |-> NoAddresses, taint |-> FALSE]
      <4>2. NoAddresses \in Addresses
        BY DEF NoAddresses, Addresses
      <4>3. o \in NodeObjects /\ o.runs = m /\ o.label = label /\ o.providerID = id
        BY <2>1, <4>2 DEF NodeObjects
      <4>4. Becomes(vmName[m], o)
        BY <4>1 DEF SetNode, Becomes
      <4> HIDE DEF o
      <4>5. id \notin Machines
        BY NothingAssumption
      <4>6. Fits(vmName[m], o)
        BY <2>1, <2>2, <4>1, <4>3, <4>5 DEF Fits
      <4> QED BY <3>1, <4>3, <4>4, <4>6
    <3>2. CASE kube[vmName[m]] # Nothing
      <4> DEFINE o == [kube[vmName[m]] EXCEPT !.runs = m, !.label = vmProject[m], !.taint = FALSE]
      <4>1. Becomes(vmName[m], o)
        BY <1>3, <3>2 DEF Register, SetNode, Becomes
      <4>2. kube[vmName[m]] \in NodeObjects /\ Fits(vmName[m], kube[vmName[m]])
        BY <2>1, <3>2, NodeFacts, NodeFits
      <4>3. /\ o \in NodeObjects /\ o.runs = m /\ o.label = vmProject[m]
            /\ o.providerID = kube[vmName[m]].providerID /\ o.addresses = kube[vmName[m]].addresses
        BY <2>1, <4>2 DEF NodeObjects
      <4> HIDE DEF o
      <4>4. Fits(vmName[m], o)
        BY <2>1, <2>2, <3>2, <4>2, <4>3 DEF Fits
      <4> QED BY <2>1, <4>1, <4>3, <4>4
    <3> QED BY <3>1, <3>2
  <2>4. PICK o \in NodeObjects : /\ Becomes(vmName[m], o) /\ Fits(vmName[m], o)
                                 /\ kube[vmName[m]] = Nothing \/ o.label # Nothing
    BY <2>3
  <2>5. NodesOK'
    BY <1>1, <2>1, <2>4, NodesStay
  <2>6. kube'[vmName[m]] = o /\ \A n \in MachineNames \ {vmName[m]} : kube'[n] = kube[n]
    BY <2>1, <2>4 DEF Becomes, IInv, KubeOK
  <2>7. o # Nothing
    BY NodeAssumption
  <2>8. \A n \in MachineNames : KeepsNode(n)
    BY <2>4, <2>6, <2>7 DEF KeepsNode, projectOf
  <2> QED BY <1>1, <2>5, <2>8, CallsStay
<1> QED BY <1>2, <1>3 DEF CreateMachine, ChangeMachine, ExpungeMachine, StaticNAT

\* A machine that is there has been created.
LEMMA CloudStep ==
  ASSUME IInv, [InstancesNext]_InstanceVars
  PROVE  CloudOK' /\ ConfigOK'
<1>1. CloudOK /\ ConfigOK
  BY DEF IInv
<1>2. CASE UNCHANGED <<config, machine, born>>
  BY <1>1, <1>2 DEF CloudOK, ConfigOK, Exists
<1>3. ASSUME NEW m \in Machines, CreateMachine(m) PROVE CloudOK' /\ ConfigOK'
  BY <1>1, <1>3 DEF CreateMachine, KeepCalls, CloudOK, ConfigOK, Exists, States
<1>4. ASSUME NEW m \in Machines, ChangeMachine(m) \/ ExpungeMachine(m) PROVE CloudOK' /\ ConfigOK'
  BY <1>1, <1>4 DEF ChangeMachine, ExpungeMachine, KeepCalls, CloudOK, ConfigOK, Exists, States
<1>5. ASSUME NEW m \in Machines, Register(m) \/ StaticNAT(m) PROVE UNCHANGED <<config, machine, born>>
  BY <1>5 DEF Register, StaticNAT, KeepCalls
<1>6. ASSUME \/ \E n \in MachineNames : NodeInit(n) \/ Monitor(n)
             \/ \E c \in Callers : InstanceByName(c) \/ InstanceByID(c) \/ CallFails(c)
             \/ NodeAddresses \/ InstanceExists \/ InstanceShutdown
      PROVE  UNCHANGED <<config, machine, born>>
  BY <1>6 DEF NodeInit, Monitor, InstanceByName, InstanceByID, CallFails, NodeAddresses, InstanceExists,
    InstanceShutdown, NotFound, KeepCloud
<1>7. UNCHANGED InstanceVars => UNCHANGED <<config, machine, born>>
  BY DEF InstanceVars
<1> QED BY <1>2, <1>3, <1>4, <1>5, <1>6, <1>7 DEF InstancesNext, InstancesStep

\* The invariant behind the theorems below.
THEOREM InstancesInvariant == InstancesSpec => []IInv
<1>1. InstancesInit => IInv
  <2> SUFFICES ASSUME InstancesInit PROVE IInv
    OBVIOUS
  <2>1. ConfigOK /\ CloudOK /\ KubeOK /\ CallOK
    BY DEF InstancesInit, ConfigOK, CloudOK, KubeOK, CallOK, Exists
  <2>2. \A n \in MachineNames : NodeOK(n) /\ AddressesOf(n)
    BY DEF InstancesInit, NodeOK, AddressesOf
  <2>3. \A c \in Callers : InHand(c)
    BY DEF InstancesInit, InHand
  <2> QED BY <2>1, <2>2, <2>3 DEF IInv
<1>2. IInv /\ [InstancesNext]_InstanceVars => IInv'
  <2> SUFFICES ASSUME IInv, [InstancesNext]_InstanceVars PROVE IInv'
    OBVIOUS
  <2>1. CloudOK' /\ ConfigOK'
    BY CloudStep
  <2>2. CASE UNCHANGED InstanceVars
    <3>1. config' = config /\ born' = born /\ kube' = kube /\ call' = call
      BY <2>2 DEF InstanceVars
    <3>2. \A n \in MachineNames : KeepsNode(n)
      BY <3>1 DEF KeepsNode, projectOf
    <3>3. CallOK'
      BY <3>1 DEF IInv, CallOK
    <3>4. NodesOK' /\ \A c \in Callers : InHand(c)'
      BY <3>1, <3>2, <3>3, NodesStay, CallsStay
    <3> QED BY <2>1, <3>3, <3>4 DEF IInv, NodesOK
  <2>3. CASE InstancesNext
    <3>1. NodesOK' /\ CallOK' /\ \A d \in Callers : InHand(d)'
      BY <2>3, ControllerStep, MachineStep DEF InstancesNext, InstancesStep
    <3> QED BY <2>1, <3>1 DEF IInv, NodesOK
  <2> QED BY <2>2, <2>3
<1> QED BY <1>1, <1>2, PTL DEF InstancesSpec

\* Whatever the two indexes of the configuration are: the addresses of NICs saved for a node
\* belong to NICs its machine has, and the external one to that of the load balancer's network.
THEOREM AddressesAreSound == InstancesSpec => []AddressesSound
<1>1. IInv => AddressesSound
  BY DEF IInv, AddressesOf, AddressesSound
<1> QED BY <1>1, InstancesInvariant, PTL

-----------------------------------------------------------------------------
\* A machine that is gone does not come back, and two never have one name.
Gone(m) == m \in born /\ ~Exists(m)
UniqueNames == \A m, o \in Machines : Exists(m) /\ Exists(o) /\ vmName[m] = vmName[o] => m = o

\* What the lifecycle controller has in hand is a machine that the node it is at has claimed
\* to be, or such a machine is gone.
ClaimOK == call["lifecycle"] # Nothing =>
    /\ ClaimsOf(kube[call["lifecycle"].name]) \subseteq claimed
    /\ call["lifecycle"].step # "byName" =>
          \/ call["lifecycle"].id \in claimed
          \/ \E m \in claimed : vmName[m] = call["lifecycle"].name /\ Gone(m)

LEMMA GoneStays ==
  ASSUME IInv, [InstancesNext]_InstanceVars, NEW m \in Machines, Gone(m)
  PROVE  Gone(m)'
<1>1. CASE machine' = machine /\ born' = born
  BY <1>1 DEF Gone, Exists
<1>2. ASSUME NEW k \in Machines, CreateMachine(k) \/ ChangeMachine(k) \/ ExpungeMachine(k)
      PROVE  Gone(m)'
  BY <1>2 DEF CreateMachine, ChangeMachine, ExpungeMachine, Gone, Exists, IInv, CloudOK
<1>3. ASSUME NEW k \in Machines, Register(k) \/ StaticNAT(k) PROVE machine' = machine /\ born' = born
  BY <1>3 DEF Register, StaticNAT
<1>4. ASSUME \/ \E n \in MachineNames : NodeInit(n) \/ Monitor(n)
             \/ \E c \in Callers : InstanceByName(c) \/ InstanceByID(c) \/ CallFails(c)
             \/ NodeAddresses \/ InstanceExists \/ InstanceShutdown
      PROVE  machine' = machine /\ born' = born
  BY <1>4 DEF NodeInit, Monitor, InstanceByName, InstanceByID, CallFails, NodeAddresses, InstanceExists,
    InstanceShutdown, NotFound, KeepCloud
<1>5. UNCHANGED InstanceVars => machine' = machine /\ born' = born
  BY DEF InstanceVars
<1> QED BY <1>1, <1>2, <1>3, <1>4, <1>5 DEF InstancesNext, InstancesStep

LEMMA UniqueStays ==
  ASSUME IInv, UniqueNames, [InstancesNext]_InstanceVars
  PROVE  UniqueNames'
<1>1. CASE machine' = machine
  BY <1>1 DEF UniqueNames, Exists
<1>2. ASSUME NEW k \in Machines, CreateMachine(k) PROVE UniqueNames'
  BY <1>2 DEF CreateMachine, UniqueNames, Exists, IInv, CloudOK
<1>3. ASSUME NEW k \in Machines, ChangeMachine(k) \/ ExpungeMachine(k) PROVE UniqueNames'
  BY <1>3 DEF ChangeMachine, ExpungeMachine, UniqueNames, Exists, IInv, CloudOK
<1>4. ASSUME NEW k \in Machines, Register(k) \/ StaticNAT(k) PROVE machine' = machine
  BY <1>4 DEF Register, StaticNAT
<1>5. ASSUME \/ \E n \in MachineNames : NodeInit(n) \/ Monitor(n)
             \/ \E c \in Callers : InstanceByName(c) \/ InstanceByID(c) \/ CallFails(c)
             \/ NodeAddresses \/ InstanceExists \/ InstanceShutdown
      PROVE  machine' = machine
  BY <1>5 DEF NodeInit, Monitor, InstanceByName, InstanceByID, CallFails, NodeAddresses, InstanceExists,
    InstanceShutdown, NotFound, KeepCloud
<1>6. UNCHANGED InstanceVars => machine' = machine
  BY DEF InstanceVars
<1> QED BY <1>1, <1>2, <1>3, <1>4, <1>5, <1>6 DEF InstancesNext, InstancesStep

\* Where the id that the lifecycle controller has after a step comes from: it was there, it
\* is the provider id of the node, or it was found by name.
LEMMA WhereIdsComeFrom ==
  ASSUME IInv, InstancesStep, call'["lifecycle"] # Nothing, call'["lifecycle"].step # "byName"
  PROVE  \/ /\ call["lifecycle"] # Nothing /\ call["lifecycle"].step # "byName"
            /\ call'["lifecycle"].id = call["lifecycle"].id
            /\ call'["lifecycle"].name = call["lifecycle"].name
         \/ \E n \in MachineNames : /\ call'["lifecycle"].name = n /\ kube' = kube /\ kube[n] # Nothing
                                     /\ call'["lifecycle"].id = kube[n].providerID
                                     /\ kube[n].providerID \in Machines
         \/ /\ call["lifecycle"] # Nothing /\ kube' = kube /\ machine' = machine /\ born' = born
            /\ kube[call["lifecycle"].name] # Nothing
            /\ call'["lifecycle"].name = call["lifecycle"].name
            /\ call'["lifecycle"].id \in ByNodeName(call["lifecycle"].name)
<1>0. "lifecycle" \in Callers /\ "node" \in Callers /\ call \in [Callers -> InstanceCalls \cup {Nothing}]
  BY DEF Callers, IInv, CallOK
<1>1. CASE call'["lifecycle"] = call["lifecycle"]
  BY <1>1
<1>2. ASSUME NEW n \in MachineNames, Monitor(n)
      PROVE  /\ call'["lifecycle"].name = n /\ kube' = kube /\ kube[n] # Nothing
             /\ call'["lifecycle"].id = kube[n].providerID /\ kube[n].providerID \in Machines
  BY <1>0, <1>2, NodeFacts DEF Monitor
<1>3. ASSUME InstanceByName("lifecycle")
      PROVE  /\ call["lifecycle"] # Nothing /\ kube' = kube /\ machine' = machine /\ born' = born
             /\ kube[call["lifecycle"].name] # Nothing
             /\ call'["lifecycle"].name = call["lifecycle"].name
             /\ call'["lifecycle"].id \in ByNodeName(call["lifecycle"].name)
  <2>1. ByNodeName(call["lifecycle"].name) # {}
    BY <1>0, <1>3 DEF InstanceByName, NotFound, DeletesNode, Ends
  <2>2. PICK m \in ByNodeName(call["lifecycle"].name) : GoesOn("lifecycle", "byID", m)
    BY <1>3, <2>1 DEF InstanceByName
  <2>3. call'["lifecycle"] = [call["lifecycle"] EXCEPT !.step = "byID", !.id = m]
    BY <1>0, <2>2 DEF GoesOn
  <2>4. call["lifecycle"] \in InstanceCalls
    BY <1>0, <1>3 DEF InstanceByName
  <2>5. call'["lifecycle"].name = call["lifecycle"].name /\ call'["lifecycle"].id = m
    BY <2>3, <2>4 DEF InstanceCalls
  <2> QED BY <1>3, <2>1, <2>5 DEF InstanceByName, KeepCloud
<1>4. ASSUME InstanceByID("lifecycle") \/ InstanceExists
      PROVE  /\ call["lifecycle"] # Nothing /\ call["lifecycle"].step # "byName"
             /\ call'["lifecycle"].id = call["lifecycle"].id
             /\ call'["lifecycle"].name = call["lifecycle"].name
  <2>1. call["lifecycle"] # Nothing /\ call["lifecycle"].step \in {"byID", "exists"}
    BY <1>4 DEF InstanceByID, InstanceExists
  <2>2. PICK st \in {"exists", "shutdown"} : GoesOn("lifecycle", st, call["lifecycle"].id)
    BY <1>0, <1>4 DEF InstanceByID, InstanceExists, NotFound, DeletesNode, Ends
  <2>3. call'["lifecycle"] = [call["lifecycle"] EXCEPT !.step = st, !.id = call["lifecycle"].id]
    BY <1>0, <2>2 DEF GoesOn
  <2>4. call["lifecycle"] \in InstanceCalls
    BY <1>0, <2>1
  <2> QED BY <2>1, <2>3, <2>4 DEF InstanceCalls
<1>5. ASSUME CallFails("lifecycle") \/ InstanceShutdown PROVE FALSE
  BY <1>0, <1>5 DEF CallFails, InstanceShutdown, Ends
<1>6. ASSUME \/ \E n \in MachineNames : NodeInit(n)
             \/ InstanceByName("node") \/ InstanceByID("node") \/ CallFails("node") \/ NodeAddresses
             \/ \E m \in Machines : \/ CreateMachine(m) \/ ChangeMachine(m) \/ ExpungeMachine(m)
                                   \/ Register(m) \/ StaticNAT(m)
      PROVE  call'["lifecycle"] = call["lifecycle"]
  BY <1>0, <1>6 DEF NodeInit, InstanceByName, InstanceByID, CallFails, NodeAddresses, NotFound, Ends, GoesOn,
    CreateMachine, ChangeMachine, ExpungeMachine, Register, StaticNAT, KeepCalls
<1> QED BY <1>1, <1>2, <1>3, <1>4, <1>5, <1>6 DEF InstancesStep, Callers

\* What the lifecycle controller has in hand has been claimed, or a claim is void.
THEOREM ClaimsInvariant == InstancesSpec => [](UniqueNames /\ ClaimOK)
<1>1. InstancesInit => UniqueNames /\ ClaimOK
  BY DEF InstancesInit, UniqueNames, ClaimOK, Exists, Callers
<1>2. IInv /\ UniqueNames /\ ClaimOK /\ [InstancesNext]_InstanceVars => UniqueNames' /\ ClaimOK'
  <2> SUFFICES ASSUME IInv, UniqueNames, ClaimOK, [InstancesNext]_InstanceVars PROVE ClaimOK'
    BY UniqueStays
  <2> DEFINE x == call["lifecycle"]
             y == call'["lifecycle"]
  <2>0. "lifecycle" \in Callers
    BY DEF Callers
  <2>1. CASE UNCHANGED InstanceVars
    BY <2>1 DEF InstanceVars, ClaimOK, ClaimsOf, Gone, Exists
  <2>2. CASE InstancesNext
    <3> SUFFICES ASSUME y # Nothing PROVE ClaimOK'
      BY DEF ClaimOK
    <3>1. claimed' = claimed \cup ClaimsOf(kube'[y.name])
      BY <2>2 DEF InstancesNext, Observe
    <3>2. ASSUME y.step # "byName"
          PROVE  y.id \in claimed' \/ \E m \in claimed' : vmName[m] = y.name /\ Gone(m)'
      <4>1. CASE x # Nothing /\ x.step # "byName" /\ y.id = x.id /\ y.name = x.name
        <5>1. x.id \in claimed \/ \E m \in claimed : vmName[m] = x.name /\ Gone(m)
          BY <4>1 DEF ClaimOK
        <5>2. ASSUME NEW m, Gone(m) PROVE Gone(m)'
          BY <5>2, GoneStays DEF Gone, IInv, CloudOK
        <5> QED BY <3>1, <4>1, <5>1, <5>2
      <4>2. CASE \E n \in MachineNames : /\ y.name = n /\ kube' = kube /\ kube[n] # Nothing
                                        /\ y.id = kube[n].providerID /\ kube[n].providerID \in Machines
        BY <3>1, <4>2 DEF ClaimsOf
      <4>3. CASE /\ x # Nothing /\ kube' = kube /\ machine' = machine /\ born' = born
                 /\ kube[x.name] # Nothing /\ y.name = x.name /\ y.id \in ByNodeName(x.name)
        <5>1. x.name \in MachineNames
          BY <2>0, <4>3, CallFacts
        <5>2. PICK m \in Machines : m = kube[x.name].runs /\ m \in born /\ vmName[m] = x.name
          BY <4>3, <5>1, NodeFacts DEF NodeOK, Known
        <5>3. m \in claimed'
          BY <3>1, <4>3, <5>2 DEF ClaimsOf
        <5>4. y.id \in Machines /\ Exists(y.id) /\ vmName[y.id] = x.name
          BY <4>3 DEF ByNodeName
        <5>5. y.id = m \/ ~Exists(m)
          BY <5>2, <5>4 DEF UniqueNames
        <5>6. Exists(m)' = Exists(m)
          BY <4>3 DEF Exists
        <5> QED BY <4>3, <5>2, <5>3, <5>5, <5>6 DEF Gone
      <4> QED BY <2>2, <3>2, <4>1, <4>2, <4>3, WhereIdsComeFrom DEF InstancesNext
    <3>3. ClaimsOf(kube'[y.name]) \subseteq claimed'
      BY <3>1
    <3> QED BY <3>2, <3>3 DEF ClaimOK, ClaimsOf
  <2> QED BY <2>1, <2>2
<1> QED BY <1>1, <1>2, InstancesInvariant, PTL DEF InstancesSpec

\* A node is deleted only if a machine is gone that the node has run on, or has had for its
\* provider id, since the check that deletes it began, however the requests of the two
\* controllers interleave with machines that come, go and are replaced.
THEOREM DeletedNodesAreGone == InstancesSpec => DeletedIsGone
<1>1. ASSUME IInv, ClaimOK, [InstancesNext]_InstanceVars, NEW n \in MachineNames, kube[n] # Nothing, kube'[n] = Nothing
      PROVE  \E m \in claimed : vmName[m] = n /\ ~Exists(m)
  <2>0. "lifecycle" \in Callers
    BY DEF Callers
  <2>1. /\ DeletesNode("lifecycle") /\ call["lifecycle"] # Nothing
        /\ InstanceByName("lifecycle") \/ InstanceByID("lifecycle") \/ InstanceExists
    <3>1. ASSUME NEW k \in MachineNames, NEW o \in NodeObjects, Becomes(k, o) PROVE FALSE
      BY <1>1, <3>1, NodeAssumption DEF Becomes, IInv, KubeOK
    <3>2. kube' # kube
      BY <1>1
    <3>3. ASSUME NEW m \in Machines, Register(m) PROVE FALSE
      <4>1. vmName[m] \in MachineNames /\ vmProject[m] \in MachineProjects
        BY MachineFacts
      <4>2. CASE kube[vmName[m]] = Nothing
        <5>1. PICK label \in {vmProject[m], Nothing}, id \in {Nothing, Foreign} :
                 SetNode(vmName[m], [runs |-> m, label |-> label, providerID |-> id,
                                     addresses |-> NoAddresses, taint |-> FALSE])
          BY <3>3, <4>2 DEF Register
        <5> QED BY <1>1, <4>1, <4>2, <5>1 DEF SetNode, IInv, KubeOK
      <4>3. CASE kube[vmName[m]] # Nothing
        <5> DEFINE o == [kube[vmName[m]] EXCEPT !.runs = m, !.label = vmProject[m], !.taint = FALSE]
        <5>1. Becomes(vmName[m], o)
          BY <3>3, <4>3 DEF Register, SetNode, Becomes
        <5>2. o \in NodeObjects
          BY <1>1, <4>1, <4>3, NodeFacts DEF NodeObjects
        <5> HIDE DEF o
        <5> QED BY <3>1, <4>1, <5>1, <5>2
      <4> QED BY <4>2, <4>3
    <3>4. ASSUME NodeAddresses PROVE FALSE
      <4> DEFINE k == call["node"].name
                 m == call["node"].id
                 o == [kube[k] EXCEPT !.providerID = m, !.addresses = nodeAddresses(m)]
      <4>1. /\ call["node"] # Nothing /\ call["node"].step = "addresses" /\ vmNICs[m] > 0
            /\ kube[k] # Nothing /\ Becomes(k, o)
        BY <3>2, <3>4 DEF NodeAddresses, SetNode, Becomes
      <4>2. k \in MachineNames /\ m \in Machines
        BY <1>1, <4>1, CallFacts DEF Callers
      <4>3. kube[k] \in NodeObjects /\ nodeAddresses(m) \in Addresses
        BY <1>1, <4>1, <4>2, NodeFacts, PickedNICs DEF IInv
      <4>4. o \in NodeObjects
        BY <4>2, <4>3 DEF NodeObjects
      <4> HIDE DEF o, k
      <4> QED BY <3>1, <4>1, <4>2, <4>4
    <3>5. ASSUME InstanceShutdown PROVE FALSE
      <4> DEFINE k == call["lifecycle"].name
                 o == [kube[k] EXCEPT !.taint = TRUE]
      <4>1. call["lifecycle"] # Nothing /\ kube[k] # Nothing /\ Becomes(k, o)
        BY <3>2, <3>5 DEF InstanceShutdown, SetNode, Becomes
      <4>2. k \in MachineNames
        BY <1>1, <2>0, <4>1, CallFacts
      <4>3. kube[k] \in NodeObjects
        BY <1>1, <4>1, <4>2, NodeFacts
      <4>4. o \in NodeObjects
        BY <4>3 DEF NodeObjects
      <4> HIDE DEF o, k
      <4> QED BY <3>1, <4>1, <4>2, <4>4
    <3>6. PICK c \in Callers : InstanceByName(c) \/ InstanceByID(c) \/ (InstanceExists /\ c = "lifecycle")
      <4>1. ASSUME NEW k \in MachineNames, NodeInit(k) \/ Monitor(k) PROVE FALSE
        BY <3>2, <4>1 DEF NodeInit, Monitor
      <4>2. ASSUME NEW m \in Machines, CreateMachine(m) \/ ChangeMachine(m) \/ ExpungeMachine(m) \/ StaticNAT(m)
            PROVE  FALSE
        BY <3>2, <4>2 DEF CreateMachine, ChangeMachine, ExpungeMachine, StaticNAT
      <4>3. ASSUME NEW c \in Callers, CallFails(c) PROVE FALSE
        BY <3>2, <4>3 DEF CallFails
      <4>4. InstancesStep
        BY <1>1, <3>2 DEF InstanceVars, InstancesNext
      <4> QED BY <2>0, <3>3, <3>4, <3>5, <4>1, <4>2, <4>3, <4>4 DEF InstancesStep
    <3>7. call[c] # Nothing /\ DeletesNode(c) /\ c = "lifecycle"
      BY <3>2, <3>6 DEF InstanceByName, InstanceByID, InstanceExists, NotFound
    <3> QED BY <3>6, <3>7
  <2>2. call["lifecycle"].name = n
    BY <1>1, <2>1 DEF DeletesNode, SetNode, IInv, KubeOK
  <2>3. InHand("lifecycle")
    BY <1>1, <2>0 DEF IInv
  <2>4. CASE InstanceByName("lifecycle") /\ call["lifecycle"].step = "byName"
    <3>1. projectOf(n) # Nothing
      BY <2>1, <2>2, <2>3, <2>4 DEF InHand
    <3>2. Known(kube[n].runs, n) /\ projectOf(n) = vmProject[kube[n].runs] /\ kube[n].runs \in Machines
      BY <1>1, <3>1, NodeFacts DEF NodeOK
    <3>3. ByNodeName(n) = {}
      <4>1. CASE ByNodeName(n) # {}
        <5>1. kube' = kube
          BY <2>2, <2>4, <4>1 DEF InstanceByName
        <5> QED BY <1>1, <5>1
      <4> QED BY <4>1
    <3>4. ~Exists(kube[n].runs)
      BY <3>2, <3>3 DEF ByNodeName, Known
    <3>5. kube[n].runs \in claimed
      BY <1>1, <2>1, <2>2 DEF ClaimOK, ClaimsOf
    <3> QED BY <3>2, <3>4, <3>5 DEF Known
  <2>5. CASE (InstanceByID("lifecycle") \/ InstanceExists) /\ call["lifecycle"].step # "byName"
    <3>1. Known(call["lifecycle"].id, n)
      BY <2>1, <2>2, <2>3, <2>5 DEF InHand
    <3>2. ~Exists(call["lifecycle"].id)
      <4>1. CASE Exists(call["lifecycle"].id)
        <5>1. kube' = kube
          BY <2>5, <4>1 DEF InstanceByID, InstanceExists
        <5> QED BY <1>1, <5>1
      <4> QED BY <4>1
    <3>3. \/ call["lifecycle"].id \in claimed
          \/ \E m \in claimed : vmName[m] = n /\ Gone(m)
      BY <1>1, <2>1, <2>2, <2>5 DEF ClaimOK
    <3> QED BY <3>1, <3>2, <3>3 DEF Known, Gone
  <2> QED BY <2>1, <2>4, <2>5 DEF InstanceByName, InstanceByID, InstanceExists
<1>2. IInv /\ ClaimOK /\ [InstancesNext]_InstanceVars =>
        \A n \in MachineNames : kube[n] # Nothing /\ kube'[n] = Nothing
          => \E m \in claimed : vmName[m] = n /\ ~Exists(m)
  BY <1>1
<1> QED BY <1>2, InstancesInvariant, ClaimsInvariant, PTL DEF InstancesSpec, DeletedIsGone
=============================================================================
