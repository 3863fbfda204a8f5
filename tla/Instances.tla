----------------------------- MODULE Instances -----------------------------
(***************************************************************************)
(* instances.go: what the controllers of Kubernetes learn about the        *)
(* machine of a node, and what they do with the answers.  The cloud node   *)
(* controller asks for InstanceID and NodeAddresses of a new node and      *)
(* saves them; the lifecycle controller asks whether the machine of a node *)
(* that is not ready still exists, and deletes the node if not, or whether *)
(* it is shut down, and taints the node if so.  A wrong "not found"        *)
(* therefore costs a node.                                                 *)
(*                                                                         *)
(* A step is one request to CloudStack; machines come and go in between.   *)
(* External: both controllers, kubelet, CloudStack, and go-cloudstack,     *)
(* whose lookups return a count of 0 with their error when there is no     *)
(* match, and of -1 when the request failed.                               *)
(***************************************************************************)
EXTENDS Integers, FiniteSets

CONSTANTS Machines,        \* virtual machines (ids); for each of them,
          vmName,          \* its name,
          vmProject,       \* its project
          vmNICs,          \* and the number of its NICs
          DefaultProject,  \* Environment.ProjectID, or Nothing
          Indexes,         \* values of Global.InternalIPIndex and ExternalIPIndex
          Foreign,         \* a provider id that parseProviderID rejects
          Nothing

MachineNames == {vmName[m] : m \in Machines}
MachineProjects == {vmProject[m] : m \in Machines}
Callers == {"node", "lifecycle"}   \* the two controllers

ASSUME MachineAssumption == /\ DOMAIN vmName = Machines /\ DOMAIN vmProject = Machines
                            /\ vmNICs \in [Machines -> Nat]
ASSUME IndexAssumption == Indexes \subseteq Int
ASSUME NothingAssumption == /\ Nothing \notin Machines \cup MachineProjects
                            /\ Foreign \notin Machines \cup {Nothing}

VARIABLES
    config,    \* the two indexes
    machine,   \* CloudStack: the state of every machine, "absent" before and after its life
    born,      \* CloudStack: the machines that have been created (ids are not used again)
    natted,    \* CloudStack: the machines that static NAT gives a public IP
    kube,      \* the Node objects: Nothing, or [runs, label, providerID, addresses, taint],
               \* where a provider id (env/project/vmID) is a machine or Foreign
    call,      \* what each controller is at: Nothing, or [name, step, id]
    claimed    \* history: the machines that the node the lifecycle controller is at has run
               \* on, or has had for its provider id, since that check began

InstanceVars == <<config, machine, born, natted, kube, call, claimed>>

Shutdown == {"Stopping", "Stopped", "Destroyed", "Expunging", "Shutdowned", "Error"}
States == {"Running", "Stopped", "Unknown"}

\* A NIC is given by its number from 0; -1 stands for none.  The public IP of the machine
\* is of no NIC.
NoAddresses == [internal |-> -1, external |-> -1, public |-> FALSE]
Addresses == [internal : Int, external : Int, public : BOOLEAN]

NodeObjects == [runs : Machines, label : MachineProjects \cup {Nothing},
                providerID : Machines \cup {Foreign, Nothing},
                addresses : Addresses, taint : BOOLEAN]
InstanceCalls == [name : MachineNames, step : {"byName", "byID", "addresses", "exists", "shutdown"},
                  id : Machines \cup {Nothing}]

ASSUME NodeAssumption == Nothing \notin NodeObjects \cup InstanceCalls

InstancesInit == /\ config \in [internal : Indexes, external : Indexes]
                 /\ machine = [m \in Machines |-> "absent"] /\ born = {}
                 /\ natted = {} /\ claimed = {}
                 /\ kube = [n \in MachineNames |-> Nothing]
                 /\ call = [c \in Callers |-> Nothing]
-----------------------------------------------------------------------------
(* What the code makes of a node and of a machine.                         *)

\* newNode, projectForMeta: the label, or else the project of the environment.
projectOf(n) == IF kube[n].label # Nothing THEN kube[n].label ELSE DefaultProject

Exists(m) == machine[m] # "absent"
\* The machines CloudStack lists by that name in the node's project; at most one.
ByNodeName(n) == {m \in Machines : Exists(m) /\ vmName[m] = n /\ vmProject[m] = projectOf(n)}

\* nodeAddresses: the NICs announced, and whether the public IP of the machine is.
internalNIC(m) == IF config.internal < 0 \/ config.internal >= vmNICs[m] THEN 0 ELSE config.internal
\* Faulty variant: the index may equal the number of NICs.
announcedNICLoose(m) ==
    IF config.external # internalNIC(m) /\ config.external >= 0 /\ config.external <= vmNICs[m]
    THEN config.external ELSE -1
announcedNIC(m) ==
    IF config.external # internalNIC(m) /\ config.external >= 0 /\ config.external < vmNICs[m]
    THEN config.external ELSE -1
nodeAddresses(m) == [internal |-> internalNIC(m), external |-> announcedNIC(m),
                     public |-> m \in natted]

\* externalNIC: the NIC whose network the load balancer gets.
externalNIC(m) == IF config.external >= 0 /\ config.external < vmNICs[m] THEN config.external ELSE 0
-----------------------------------------------------------------------------
(* Calls.                                                                  *)

Ends(c) == call' = [call EXCEPT ![c] = Nothing]
GoesOn(c, step, id) == call' = [call EXCEPT ![c].step = step, ![c].id = id]
KeepCloud == UNCHANGED <<config, machine, born, natted>>
SetNode(n, node) == kube' = [kube EXCEPT ![n] = node]

\* The lifecycle controller deletes the node; it may be gone already.
DeletesNode(c) == Ends(c) /\ SetNode(call[c].name, Nothing)

\* An error is logged, and the next round tries again.
CallFails(c) == call[c] # Nothing /\ Ends(c) /\ UNCHANGED kube /\ KeepCloud

\* The node controller looks at a node it has not set up yet.
NodeInit(n) == /\ call["node"] = Nothing /\ kube[n] # Nothing
               /\ kube[n].providerID = Nothing /\ projectOf(n) # Nothing
               /\ call' = [call EXCEPT !["node"] = [name |-> n, step |-> "byName", id |-> Nothing]]
               /\ UNCHANGED kube /\ KeepCloud

\* The lifecycle controller looks at a node that is not ready: its machine is not
\* running, or does not answer.  Without a provider id it asks for InstanceID first,
\* which fails for a node without a project; one that does not parse is an error, too.
Monitor(n) == /\ call["lifecycle"] = Nothing /\ kube[n] # Nothing
              /\ kube[n].providerID # Foreign
              /\ LET id == kube[n].providerID IN
                 /\ id = Nothing => projectOf(n) # Nothing
                 /\ call' = [call EXCEPT !["lifecycle"] =
                        [name |-> n, step |-> IF id = Nothing THEN "byName" ELSE "exists", id |-> id]]
              /\ UNCHANGED kube /\ KeepCloud

\* InstanceNotFound: only the lifecycle controller acts on it.
NotFound(c) == /\ IF c = "lifecycle" THEN DeletesNode(c) ELSE Ends(c) /\ UNCHANGED kube
               /\ KeepCloud

\* getInstanceForNode asks for the id by name ...
InstanceByName(c) == /\ call[c] # Nothing /\ call[c].step = "byName" /\ kube[call[c].name] # Nothing
                     /\ IF ByNodeName(call[c].name) = {} THEN NotFound(c)
                        ELSE /\ \E m \in ByNodeName(call[c].name) : GoesOn(c, "byID", m)
                             /\ UNCHANGED kube /\ KeepCloud

\* ... and then for the machine by id.  InstanceID is env/project/id.
InstanceByID(c) == /\ call[c] # Nothing /\ call[c].step = "byID"
                   /\ IF ~Exists(call[c].id) THEN NotFound(c)
                      ELSE /\ GoesOn(c, IF c = "node" THEN "addresses" ELSE "exists", call[c].id)
                           /\ UNCHANGED kube /\ KeepCloud

\* NodeAddressesByProviderID.  The controller saves the id and the addresses together.
NodeAddresses == LET c == "node" IN
    /\ call[c] # Nothing /\ call[c].step = "addresses"
    /\ IF Exists(call[c].id) /\ vmNICs[call[c].id] > 0 /\ kube[call[c].name] # Nothing
       THEN SetNode(call[c].name, [kube[call[c].name] EXCEPT !.providerID = call[c].id,
                                                             !.addresses = nodeAddresses(call[c].id)])
       ELSE UNCHANGED kube
    /\ Ends(c) /\ KeepCloud

\* Faulty variant: whatever comes back with an error is taken for "not found".
InstanceExistsOnError == LET c == "lifecycle" IN
    /\ call[c] # Nothing /\ call[c].step = "exists"
    /\ DeletesNode(c)
    /\ KeepCloud
\* InstanceExistsByProviderID.
InstanceExists == LET c == "lifecycle" IN
    /\ call[c] # Nothing /\ call[c].step = "exists"
    /\ IF ~Exists(call[c].id) THEN DeletesNode(c)
       ELSE GoesOn(c, "shutdown", call[c].id) /\ UNCHANGED kube
    /\ KeepCloud

isShutdown(state) == state \in Shutdown

\* InstanceShutdownByProviderID.  The state "Unknown" is an error, and so is a machine
\* that is gone by now.
InstanceShutdown == LET c == "lifecycle"  m == call[c].id IN
    /\ call[c] # Nothing /\ call[c].step = "shutdown"
    /\ Ends(c)
    /\ IF Exists(m) /\ isShutdown(machine[m]) /\ kube[call[c].name] # Nothing
       THEN SetNode(call[c].name, [kube[call[c].name] EXCEPT !.taint = TRUE])
       ELSE UNCHANGED kube
    /\ KeepCloud
-----------------------------------------------------------------------------
(* Machines and their kubelets.                                            *)

KeepCalls == UNCHANGED <<config, call>>

CreateMachine(m) == /\ m \notin born /\ \A o \in Machines : Exists(o) => vmName[o] # vmName[m]
                    /\ machine' = [machine EXCEPT ![m] = "Running"] /\ born' = born \cup {m}
                    /\ UNCHANGED <<natted, kube>> /\ KeepCalls
ChangeMachine(m) == /\ Exists(m)
                    /\ \E s \in States \ {machine[m]} : machine' = [machine EXCEPT ![m] = s]
                    /\ UNCHANGED <<born, natted, kube>> /\ KeepCalls
ExpungeMachine(m) == /\ Exists(m) /\ machine' = [machine EXCEPT ![m] = "absent"]
                     /\ natted' = natted \ {m}
                     /\ UNCHANGED <<born, kube>> /\ KeepCalls
\* Static NAT is enabled for the machine, or disabled.
StaticNAT(m) == /\ Exists(m)
                /\ natted' = IF m \in natted THEN natted \ {m} ELSE natted \cup {m}
                /\ UNCHANGED <<machine, born, kube>> /\ KeepCalls

\* kubelet registers a node, labelled with its project unless that is the default one,
\* perhaps with an id of its own; a node object that is still there is taken over.
Register(m) == /\ machine[m] = "Running"
               /\ IF kube[vmName[m]] = Nothing
                  THEN \E label \in {vmProject[m], Nothing}, id \in {Nothing, Foreign} :
                         /\ label = Nothing => DefaultProject \in {Nothing, vmProject[m]}
                         /\ SetNode(vmName[m], [runs |-> m, label |-> label, providerID |-> id,
                                             addresses |-> NoAddresses, taint |-> FALSE])
                  ELSE /\ kube[vmName[m]].runs # m
                       /\ SetNode(vmName[m], [kube[vmName[m]] EXCEPT !.runs = m, !.label = vmProject[m],
                                                               !.taint = FALSE])
               /\ UNCHANGED <<machine, born, natted>> /\ KeepCalls

\* The machines a node claims to be: the one it runs on, and the one it is registered as.
ClaimsOf(o) == IF o = Nothing THEN {} ELSE {o.runs} \cup ({o.providerID} \cap Machines)
Observe == LET check == call'["lifecycle"] IN
    claimed' = IF check = Nothing THEN {} ELSE claimed \cup ClaimsOf(kube'[check.name])

InstancesStep ==
    \/ \E n \in MachineNames : NodeInit(n) \/ Monitor(n)
    \/ \E c \in Callers : InstanceByName(c) \/ InstanceByID(c) \/ CallFails(c)
    \/ NodeAddresses \/ InstanceExists \/ InstanceShutdown
    \/ \E m \in Machines : CreateMachine(m) \/ ChangeMachine(m) \/ ExpungeMachine(m) \/ Register(m)
                         \/ StaticNAT(m)

InstancesNext == InstancesStep /\ Observe

InstancesSpec == InstancesInit /\ [][InstancesNext]_InstanceVars
-----------------------------------------------------------------------------
\* A node is deleted only when a machine is gone that the node has run on, or has had for
\* its provider id, since the check that deletes it began: never because a request failed,
\* because of a machine of its name from before, or because of one it was never registered
\* for, however the two controllers, and the two requests of a lookup by name, interleave
\* with machines being replaced.  (That another machine has taken the node over meanwhile,
\* or under the provider id of the one that is gone, does not save the node.)
DeletedIsGone ==
    [][\A n \in MachineNames : kube[n] # Nothing /\ kube'[n] = Nothing
          => \E m \in claimed : vmName[m] = n /\ ~Exists(m)]_InstanceVars

\* Whatever the two indexes are, the addresses of NICs that are saved for a node belong to
\* NICs the machine has, the external one to another NIC than the internal one and to the
\* one whose network the load balancer uses.  (A public IP by static NAT, announced as one
\* more external address, is of no NIC.)
AddressesSound ==
    \A n \in MachineNames : kube[n] # Nothing /\ kube[n].providerID \in Machines =>
        LET m == kube[n].providerID  a == kube[n].addresses IN
        /\ a.internal \in 0..(vmNICs[m] - 1)
        /\ a.external # -1 => a.external \in 0..(vmNICs[m] - 1) \ {a.internal} /\ a.external = externalNIC(m)
=============================================================================
