---------------------------- MODULE LoadBalancer ----------------------------
(***************************************************************************)
(* loadbalancer.go: the life of the load balancer of ONE service, its rule *)
(* and its public IP in CloudStack, under EnsureLoadBalancer and           *)
(* EnsureLoadBalancerDeleted.  Both hold the service lock from start to    *)
(* end, so they never overlap; what makes them hard is that each is a long *)
(* sequence of API calls, any of which can fail, with or without having    *)
(* had its effect, or be the last one before the process dies.  The        *)
(* service controller then calls again, and all the next attempt has to go *)
(* by is what it finds in CloudStack: names, tags and addresses.           *)
(*                                                                         *)
(* A step is one API call that writes, or a run of calls that only read    *)
(* (nobody else writes in between; endpoints that change between the       *)
(* translation of the ports and the creation of the rule might as well     *)
(* change after both).  CloudStack itself is external: a rule or an IP is  *)
(* what the calls of this code put there, from the moment the call is      *)
(* accepted (the answer carries its id even when a job follows).  People   *)
(* make rules by hand between calls, under names that no rule has.         *)
(* Projects, networks and environments are one each, and a tag is present  *)
(* with the value of this service or absent.                               *)
(***************************************************************************)
EXTENDS Integers, Sequences, FiniteSets

CONSTANTS
    Specs,       \* what a user may ask for: records [name, ports, algorithm, ip, remove]
    UserIPs,     \* public IPs reserved by people, allocated from the start
    PoolIPs,     \* public IPs CloudStack hands out
    RuleIds,     \* ids of rules, more than can exist at a time
    None,
    Unsupported, \* ports or an affinity the code rejects
    Named,       \* ports with a target given by name, which the endpoints translate
    Targets,     \* what the endpoints can translate Named to
    Operator,    \* what people do in CloudStack: a subset of {"handmade", "ignore"}
    FaultPoints, \* the calls that may fail: see Points
    MaxFaults,   \* bound: failed calls and crashes
    MaxEdits     \* bound: what users, operators and rollouts do

IPs == UserIPs \cup PoolIPs

\* tagsForService, in the order in which setResourceTags creates them.
TagOrder == <<"cloudprovider", "kubernetes_namespace", "kubernetes_service">>
Tags == {TagOrder[i] : i \in DOMAIN TagOrder}
ignoreTag == "cloudprovider-ignore"

\* A call may fail before it has had its effect, or (the names in "-late") after:
\* the answer is lost, or waitJob gives up on a job that still completes.  "lookup"
\* stands for everything EnsureLoadBalancer does before it looks for an IP, "push"
\* for the queue refusing the entry or the controller not saving the status.
Points == {"lookup", "readIP", "associate", "associate-late", "tagIP", "tagIP-late",
           "release", "release-late", "deleteRule", "deleteRule-late", "updateRule",
           "createRule", "createRule-late", "tagRule", "tagRule-late", "push",
           "crash", "crash-tagging-rule", "crash-tagging-IP"}

ASSUME PointAssumption == FaultPoints \subseteq Points
ASSUME SpecAssumption ==
    \A s \in Specs : /\ DOMAIN s = {"name", "ports", "algorithm", "ip", "remove"}
                     /\ s.ip \in UserIPs \cup {None} /\ s.remove \in BOOLEAN
ASSUME BoundAssumption == MaxFaults \in Nat /\ MaxEdits \in Nat
ASSUME NoneAssumption == None \notin IPs /\ UserIPs \cap PoolIPs = {}

VARIABLES
    spec,     \* Service.Spec, and the labels that name the load balancer
    wanted,   \* the service exists; otherwise it is being, or has been, deleted
    status,   \* Service.Status.LoadBalancer.Ingress: None, or [ip, hostname]
    rules,    \* CloudStack: the load balancer rules
    ips,      \* CloudStack: which public IPs are allocated, and their tags
    pc,       \* where the call in progress is
    svc,      \* the service it was called with: None, or [spec, status]
    lb,       \* its loadBalancer: [rule, ip]
    old,      \* oldIP of updateLoadBalancerIP
    todo,     \* index of the next tag to create
    target,   \* what the endpoints say of Named now: Unsupported if there is no such name
    published,\* history: the hostnames the status has ever had
    lost,     \* history: the allocations whose answer got lost, or that a crash cut short
    moved,    \* history: the user has asked for an address or deleted the service, or
              \* somebody has made a rule by a name it has been published under
    faults, edits

userVars == <<spec, wanted, target, moved, edits>>
history == <<published, lost>>
callVars == <<pc, svc, lb, old, todo>>
vars == <<userVars, status, rules, ips, callVars, history, faults>>

Names == {s.name : s \in Specs}
\* There are more ids than rules can exist at a time, one for each name.
ASSUME IdAssumption ==
    \A f \in [RuleIds -> Names] : \E i, j \in RuleIds : i # j /\ f[i] = f[j]

\* byHand is history: whether a person, and not this code, made the rule.
Rules == [id : RuleIds, name : Names, ports : {s.ports : s \in Specs} \cup Targets,
          algorithm : {s.algorithm : s \in Specs}, ip : IPs, tags : SUBSET (Tags \cup {ignoreTag}),
          byHand : BOOLEAN]
Ingress == [ip : IPs, hostname : Names]
Statuses == Ingress \cup {None}
Calls == [spec : Specs, status : Statuses]

ASSUME RecordAssumption == None \notin Rules \cup Ingress \cup Calls

EnsurePCs == {"lookup", "findIP", "associate", "tagIP", "rollback", "changeIP", "changeDelete",
              "changeRelease", "check", "update", "tagRule", "recreate", "create", "ensured"}
DeletePCs == {"deleteLookup", "deleteRule", "deleteRelease", "deleted"}

\* The variables range over the program's values.
TypeOK == /\ spec \in Specs /\ wanted \in BOOLEAN /\ status \in Statuses
          /\ rules \in SUBSET Rules
          /\ ips \in [IPs -> [allocated : BOOLEAN, tags : SUBSET Tags]]
          /\ pc \in EnsurePCs \cup DeletePCs \cup {"idle"}
          /\ svc \in Calls \cup {None}
          /\ (svc = None) = (pc = "idle")
          /\ lb \in [rule : Rules \cup {None}, ip : IPs \cup {None}]
          /\ old \in IPs \cup {None}
          /\ todo \in DOMAIN TagOrder
          /\ target \in Targets \cup {Unsupported}
          /\ published \subseteq Names /\ lost \in 0..MaxFaults /\ moved \in BOOLEAN
          /\ faults \in 0..MaxFaults /\ edits \in 0..MaxEdits

NoLB == [rule |-> None, ip |-> None]
NewRule(id, s, ports, ip, byHand) ==
    [id |-> id, name |-> s.name, ports |-> ports, algorithm |-> s.algorithm, ip |-> ip,
     tags |-> {}, byHand |-> byHand]

Init == /\ spec \in Specs /\ wanted = TRUE /\ status = None
        /\ rules = {} /\ target \in Targets \cup {Unsupported}
        /\ ips = [i \in IPs |-> [allocated |-> i \in UserIPs, tags |-> {}]]
        /\ pc = "idle" /\ svc = None /\ lb = NoLB /\ old = None /\ todo = 1
        /\ published = {} /\ lost = 0 /\ moved = (spec.ip # None) /\ faults = 0 /\ edits = 0

-----------------------------------------------------------------------------
(* What the code reads and decides.                                        *)

Allocated(i) == ips[i].allocated

\* matchAllTags, shouldManageIP: cloudprovider, namespace and service tags all match.
matchAllTags(tags) == Tags \subseteq tags

ByName(name) == {r \in rules : r.name = name}

\* Faulty variant: the lookup by name is forgotten.
getLoadBalancerRuleTagsOnly(name) == {r \in rules : matchAllTags(r.tags)}

\* getLoadBalancerRule: the candidates, by exact name or else by all the tags.  More
\* than one is an error.
getLoadBalancerRule(name) ==
    IF ByName(name) # {} THEN ByName(name) ELSE {r \in rules : matchAllTags(r.tags)}

The(S) == CHOOSE x \in S : TRUE
FreeId == The(RuleIds \ {r.id : r \in rules})

\* Faulty variant: a service without a status is trusted with any rule of its name.
shouldManageLBNew(r) ==
    /\ ignoreTag \notin r.tags
    /\ \/ Tags \ {"kubernetes_namespace"} \subseteq r.tags
       \/ svc.status # None => svc.status.hostname = svc.spec.name

\* Faulty variant: the tags do not suffice, the hostname must match too.
shouldManageLBStrict(r) ==
    /\ ignoreTag \notin r.tags
    /\ Tags \ {"kubernetes_namespace"} \subseteq r.tags
    /\ svc.status # None => svc.status.hostname = svc.spec.name

\* shouldManageLB: a rule without the ignore tag that carries the tags of the service
\* (the namespace tag may be missing), or any rule by the name in the service's status.
shouldManageLB(r) ==
    /\ ignoreTag \notin r.tags
    /\ \/ Tags \ {"kubernetes_namespace"} \subseteq r.tags
       \/ svc.status # None /\ svc.status.hostname = svc.spec.name

\* Faulty variant: only the provider tag is looked for.
hasMissingTagsFirst(r) == "cloudprovider" \notin r.tags

hasMissingTags(r) == ~(Tags \subseteq r.tags)

\* EnsureLoadBalancerDeleted: what may be deleted, and when there is nothing to do.
Deletable(r) == svc.spec.remove /\ shouldManageLB(r)
\* Faulty variant: a missing rule is not expected.
NothingToDeleteIfFound(found) == \E r \in found : found = {r} /\ ~Deletable(r)
NothingToDelete(found) == found = {} \/ \E r \in found : found = {r} /\ ~Deletable(r)

\* tryPublicIPAddressByTags: the IPs tagged for the service.
TaggedIPs == {i \in IPs : Allocated(i) /\ matchAllTags(ips[i].tags)}

\* Where EnsureLoadBalancer goes once it has the address `ip'.
WithIP(ip) == IF svc.spec.ip \notin {None, ip} THEN "changeIP" ELSE "check"

-----------------------------------------------------------------------------
(* What the calls do to CloudStack.                                        *)

Allocate(i) == ips' = [ips EXCEPT ![i].allocated = TRUE]
TagAnIP(i, tag) == ips' = [ips EXCEPT ![i].tags = @ \cup {tag}]
Free(i) == ips' = [ips EXCEPT ![i] = [allocated |-> FALSE, tags |-> {}]]
RemoveRule(id) == rules' = {r \in rules : r.id # id}
ChangeRule(id, New(_)) == rules' = {IF r.id = id THEN New(r) ELSE r : r \in rules}
TagARule(id, tag) == LET Tagged(r) == [r EXCEPT !.tags = @ \cup {tag}] IN ChangeRule(id, Tagged)

-----------------------------------------------------------------------------
(* Steps of a call.  Each either goes on or returns an error.              *)

Goto(l) == pc' = l /\ UNCHANGED <<svc, old, todo>>
Return == pc' = "idle" /\ svc' = None /\ lb' = NoLB /\ old' = None /\ todo' = 1

Works == UNCHANGED faults
Fault(point) == point \in FaultPoints /\ faults < MaxFaults /\ faults' = faults + 1

\* A failed call ends the operation with an error.
Fails(point) == Fault(point) /\ Return
KeepCloud == UNCHANGED <<rules, ips>>
KeepUser == UNCHANGED <<userVars, status>>

\* EnsureLoadBalancer, called by the service controller, which retries after an error.
EnsureStart == /\ pc = "idle" /\ wanted
               /\ pc' = "lookup" /\ svc' = [spec |-> spec, status |-> status]
               /\ Works /\ KeepUser /\ KeepCloud /\ UNCHANGED <<lb, old, todo, history>>

\* getLoadBalancer, setAlgorithm and shouldManageLB.
Lookup == /\ pc = "lookup"
          /\ LET found == getLoadBalancerRule(svc.spec.name) IN
             \/ Fails("lookup")
             \/ /\ \/ Cardinality(found) > 1
                   \/ svc.spec.algorithm = Unsupported
                   \/ \E r \in found : ~shouldManageLB(r)
                /\ Works /\ Return
             \/ /\ svc.spec.algorithm # Unsupported
                /\ found = {}
                /\ Works /\ Goto("findIP") /\ UNCHANGED lb
             \/ /\ svc.spec.algorithm # Unsupported
                /\ \E r \in found : /\ found = {r} /\ shouldManageLB(r)
                                    /\ lb' = [rule |-> r, ip |-> r.ip]
                                    /\ Goto(WithIP(r.ip))
                /\ Works
          /\ KeepUser /\ KeepCloud /\ UNCHANGED history

\* getLoadBalancerIP down to the allocation: the IP tagged for the service, else the
\* one in the spec, else the one in the status, else a new one.
FindIP == /\ pc = "findIP"
          /\ \/ Fails("readIP")
             \/ Cardinality(TaggedIPs) > 1 /\ Works /\ Return
             \/ \E i \in TaggedIPs : /\ TaggedIPs = {i}
                                     /\ lb' = [lb EXCEPT !.ip = i]
                                     /\ Works /\ Goto(WithIP(i))
             \/ /\ TaggedIPs = {} /\ svc.spec.ip # None
                /\ IF Allocated(svc.spec.ip)
                   THEN lb' = [lb EXCEPT !.ip = svc.spec.ip] /\ Goto("check")
                   ELSE Return
                /\ Works
             \/ /\ TaggedIPs = {} /\ svc.spec.ip = None
                /\ IF svc.status # None /\ Allocated(svc.status.ip)
                   THEN lb' = [lb EXCEPT !.ip = svc.status.ip] /\ Goto("tagIP")
                   ELSE Goto("associate") /\ UNCHANGED lb
                /\ Works
          /\ KeepUser /\ KeepCloud /\ UNCHANGED history

\* associatePublicIPAddress.  When its job fails or times out the new IP is forgotten.
Associate == /\ pc = "associate"
             /\ \/ Fails("associate") /\ UNCHANGED <<ips, lost>>
                \/ /\ ~(\E i \in PoolIPs : ~Allocated(i))
                   /\ Works /\ Return /\ UNCHANGED <<ips, lost>>
                \/ \E i \in PoolIPs :
                      /\ ~Allocated(i) /\ Allocate(i)
                      /\ \/ Works /\ lb' = [lb EXCEPT !.ip = i] /\ Goto("tagIP") /\ UNCHANGED lost
                         \/ Fails("associate-late") /\ lost' = lost + 1
             /\ KeepUser /\ UNCHANGED <<rules, published>>

\* Faulty variant: the loop runs once too often.
NextTagLate(done) == /\ pc' = IF todo <= Len(TagOrder) THEN pc ELSE done
                     /\ todo' = IF todo <= Len(TagOrder) THEN todo + 1 ELSE 1
NextTag(done) == /\ pc' = IF todo < Len(TagOrder) THEN pc ELSE done
                 /\ todo' = IF todo < Len(TagOrder) THEN todo + 1 ELSE 1

\* assignTagsToIP, one tag at a time; an error is followed by the rollback.
TagIP == /\ pc = "tagIP"
         /\ \/ TagAnIP(lb.ip, TagOrder[todo]) /\ Works /\ NextTag("check") /\ UNCHANGED <<svc, old>>
            \/ Fault("tagIP") /\ Goto("rollback") /\ UNCHANGED ips
            \/ Fault("tagIP-late") /\ TagAnIP(lb.ip, TagOrder[todo]) /\ Goto("rollback")
         /\ KeepUser /\ UNCHANGED <<rules, lb, history>>

\* Faulty variant: the rollback is forgotten.
RollbackSkipped == /\ pc = "rollback" /\ Return
                   /\ Works /\ KeepUser /\ KeepCloud /\ UNCHANGED history

\* The release after tagging failed; EnsureLoadBalancer returns an error either way.
Rollback == /\ pc = "rollback" /\ Return
            /\ \/ Works /\ Free(lb.ip)
               \/ Fault("release") /\ UNCHANGED ips
            /\ KeepUser /\ UNCHANGED <<rules, history>>

\* updateLoadBalancerIP: the spec names another address.
ChangeIP == /\ pc = "changeIP"
            /\ \/ Fails("readIP")
               \/ ~Allocated(svc.spec.ip) /\ Works /\ Return
               \/ /\ Allocated(svc.spec.ip) /\ Works
                  /\ old' = lb.ip /\ lb' = [lb EXCEPT !.ip = svc.spec.ip]
                  /\ pc' = IF lb.rule = None THEN "changeRelease" ELSE "changeDelete"
                  /\ UNCHANGED <<svc, todo>>
            /\ KeepUser /\ KeepCloud /\ UNCHANGED history

\* Faulty variant: the address goes with the rule.
deleteLoadBalancerRuleAndIP(from, to) ==
    /\ pc = from
    /\ Works /\ RemoveRule(lb.rule.id) /\ lb' = [lb EXCEPT !.rule = None] /\ Goto(to)
    /\ Free(lb.ip)
    /\ KeepUser /\ UNCHANGED history

\* deleteLoadBalancerRule at `from', going on at `to'.
deleteLoadBalancerRule(from, to) ==
    /\ pc = from
    /\ \/ Fails("deleteRule") /\ UNCHANGED rules
       \/ Fails("deleteRule-late") /\ RemoveRule(lb.rule.id)
       \/ Works /\ RemoveRule(lb.rule.id) /\ lb' = [lb EXCEPT !.rule = None] /\ Goto(to)
    /\ KeepUser /\ UNCHANGED <<ips, history>>

\* releaseIPIfManaged: only an IP tagged for the service is released.
releaseIPIfManaged(from, ip, to) ==
    /\ pc = from
    /\ \/ (Fails("readIP") \/ (~Allocated(ip) /\ Works /\ Return)) /\ UNCHANGED ips
       \/ /\ Allocated(ip) /\ ~matchAllTags(ips[ip].tags)
          /\ Works /\ Goto(to) /\ UNCHANGED <<lb, ips>>
       \/ /\ Allocated(ip) /\ matchAllTags(ips[ip].tags)
          /\ \/ Fails("release") /\ UNCHANGED ips
             \/ Fails("release-late") /\ Free(ip)
             \/ Works /\ Free(ip) /\ Goto(to) /\ UNCHANGED lb
    /\ KeepUser /\ UNCHANGED <<rules, history>>

ChangeDelete == deleteLoadBalancerRule("changeDelete", "changeRelease")
ChangeRelease == releaseIPIfManaged("changeRelease", old, "check")

\* serviceToLBPorts, by the endpoints as they are now.  It fails on mixed or unknown
\* protocols, and on a target port that is not found.
serviceToLBPorts == IF svc.spec.ports = Named THEN target ELSE svc.spec.ports
BadPorts == serviceToLBPorts = Unsupported

\* checkLoadBalancerRule: ports and name cannot be updated in place.
Check == /\ pc = "check"
         /\ \/ lb.rule = None /\ Works /\ Goto("create") /\ UNCHANGED lb
            \/ /\ lb.rule # None /\ BadPorts
               /\ Works /\ Return
            \/ /\ lb.rule # None /\ ~BadPorts
               /\ Works /\ UNCHANGED lb
               /\ IF lb.rule.ports # serviceToLBPorts \/ lb.rule.name # svc.spec.name
                  THEN Goto("recreate")
                  ELSE Goto(IF lb.rule.algorithm # svc.spec.algorithm THEN "update"
                            ELSE IF hasMissingTags(lb.rule) THEN "tagRule" ELSE "ensured")
         /\ KeepUser /\ KeepCloud /\ UNCHANGED history

\* updateLoadBalancerRule.
UpdateRule == /\ pc = "update"
              /\ \/ Fails("updateRule") /\ UNCHANGED rules
                 \/ /\ LET Updated(r) == [r EXCEPT !.algorithm = svc.spec.algorithm]
                       IN ChangeRule(lb.rule.id, Updated)
                    /\ Works /\ UNCHANGED lb
                    /\ Goto(IF hasMissingTags(lb.rule) THEN "tagRule" ELSE "ensured")
              /\ KeepUser /\ UNCHANGED <<ips, history>>

\* The deletion that ends checkLoadBalancerRule when the rule cannot be updated.
RecreateRule == deleteLoadBalancerRule("recreate", "create")

\* createLoadBalancerRule, which translates the ports again: a name that was found when the
\* old rule was checked may be gone now that the rule is deleted.
CreateRule == /\ pc = "create"
              /\ \/ BadPorts /\ Works /\ Return /\ UNCHANGED rules
                 \/ Fails("createRule") /\ UNCHANGED rules
                 \/ /\ ~BadPorts
                    /\ LET new == NewRule(FreeId, svc.spec, serviceToLBPorts, lb.ip, FALSE)
                       IN /\ rules' = rules \cup {new}
                          /\ \/ Fails("createRule-late")
                             \/ Works /\ lb' = [lb EXCEPT !.rule = new] /\ Goto("tagRule")
              /\ KeepUser /\ UNCHANGED <<ips, history>>

\* assignTagsToRule, one tag at a time.  An error is returned, and nothing rolled back.
TagRule == /\ pc = "tagRule"
           /\ \/ /\ TagARule(lb.rule.id, TagOrder[todo]) /\ Works
                 /\ NextTag("ensured") /\ UNCHANGED <<svc, old, lb>>
              \/ Fails("tagRule") /\ UNCHANGED rules
              \/ Fails("tagRule-late") /\ TagARule(lb.rule.id, TagOrder[todo])
           /\ KeepUser /\ UNCHANGED <<ips, history>>

\* EnsureLoadBalancer queues the sync of the nodes and returns the status, which the
\* controller saves.
EnsureReturn == /\ pc = "ensured" /\ Return
                /\ \/ /\ Works /\ status' = [ip |-> lb.ip, hostname |-> svc.spec.name]
                      /\ published' = published \cup {svc.spec.name}
                   \/ Fault("push") /\ UNCHANGED <<status, published>>
                /\ KeepCloud /\ UNCHANGED <<userVars, lost>>

\* EnsureLoadBalancerDeleted.
DeleteStart == /\ pc = "idle" /\ ~wanted
               /\ pc' = "deleteLookup" /\ svc' = [spec |-> spec, status |-> status]
               /\ Works /\ KeepUser /\ KeepCloud /\ UNCHANGED <<lb, old, todo, history>>

\* Nothing is deleted when there is no rule, removal is disabled or the rule is not ours.
DeleteLookup == /\ pc = "deleteLookup"
                /\ LET found == getLoadBalancerRule(svc.spec.name)
                   IN \/ Fails("lookup")
                      \/ Cardinality(found) > 1 /\ Works /\ Return
                      \/ NothingToDelete(found) /\ Works /\ Goto("deleted") /\ UNCHANGED lb
                      \/ \E r \in found : /\ found = {r} /\ Deletable(r)
                                          /\ lb' = [rule |-> r, ip |-> r.ip]
                                          /\ Works /\ Goto("deleteRule")
                /\ KeepUser /\ KeepCloud /\ UNCHANGED history

DeleteRule == deleteLoadBalancerRule("deleteRule", "deleteRelease")
DeleteRelease == releaseIPIfManaged("deleteRelease", lb.ip, "deleted")

DeleteReturn == /\ pc = "deleted" /\ Return
                /\ Works /\ KeepUser /\ KeepCloud /\ UNCHANGED history

\* The process dies, and with it what the call knew.
Crash == /\ pc # "idle"
         /\ Fails(CASE pc = "tagRule" -> "crash-tagging-rule"
                    [] pc \in {"tagIP", "rollback"} -> "crash-tagging-IP"
                    [] OTHER -> "crash")
         /\ lost' = IF pc \in {"tagIP", "rollback"} THEN lost + 1 ELSE lost
         /\ KeepUser /\ KeepCloud /\ UNCHANGED published

-----------------------------------------------------------------------------
(* The users of the cluster and of CloudStack.                             *)

Counted == edits < MaxEdits /\ edits' = edits + 1

\* The user writes a spec.
Write(specs) == spec' \in specs /\ moved' = (moved \/ spec'.ip # None)

Edit == wanted /\ Counted /\ Write(Specs \ {spec}) /\ UNCHANGED <<wanted, status>>
UserDelete == wanted /\ Counted /\ wanted' = FALSE /\ moved' = TRUE /\ UNCHANGED <<spec, status>>
UserCreate == ~wanted /\ pc = "idle" /\ Counted /\ wanted' = TRUE /\ status' = None /\ Write(Specs)

User == /\ Edit \/ UserDelete \/ UserCreate
        /\ UNCHANGED <<target, rules, ips, callVars, history, faults>>

\* The endpoints change.
Rollout == /\ Counted /\ \E t \in (Targets \cup {Unsupported}) \ {target} : target' = t
           /\ UNCHANGED <<spec, wanted, moved, status, rules, ips, callVars, history, faults>>

\* Somebody makes a rule by hand, on an IP of theirs, under a name the service may use.
OperatorCreates ==
    /\ "handmade" \in Operator /\ pc = "idle" /\ Counted
    /\ \E s \in Specs, ip \in UserIPs :
          /\ s.ports \notin {Named, Unsupported} /\ s.algorithm # Unsupported
          /\ ByName(s.name) = {} /\ Allocated(ip)
          /\ rules' = rules \cup {NewRule(FreeId, s, s.ports, ip, TRUE)}
          /\ moved' = (moved \/ s.name \in published)
    /\ UNCHANGED <<spec, wanted, target, status, ips, callVars, history, faults>>

\* An operator takes a rule away from this controller (between calls: a call under way
\* does not look at the tags again).
OperatorIgnores == /\ "ignore" \in Operator /\ pc = "idle" /\ Counted
                   /\ \E r \in rules : ignoreTag \notin r.tags /\ TagARule(r.id, ignoreTag)
                   /\ UNCHANGED <<spec, wanted, target, moved, status, ips, callVars, history, faults>>

Ensure == \/ EnsureStart \/ Lookup \/ FindIP \/ Associate \/ TagIP \/ Rollback
          \/ ChangeIP \/ ChangeDelete \/ ChangeRelease \/ Check \/ UpdateRule
          \/ RecreateRule \/ CreateRule \/ TagRule \/ EnsureReturn
DeleteLB == DeleteStart \/ DeleteLookup \/ DeleteRule \/ DeleteRelease \/ DeleteReturn

Next == Ensure \/ DeleteLB \/ Crash \/ User \/ Rollout \/ OperatorCreates \/ OperatorIgnores

Spec == Init /\ [][Next]_vars

\* A call that has begun runs to its end, and the controller calls again after an error.
FairSpec == Spec /\ WF_vars(Ensure \/ DeleteLB)

-----------------------------------------------------------------------------
(* Properties.                                                             *)

\* Retries, renames and lost answers never leave two rules by one name, nor two IPs
\* tagged for the service: both make getLoadBalancerRule or tryPublicIPAddressByTags
\* fail for good.
LookupUnambiguous == /\ \A name \in Names : Cardinality(ByName(name)) <= 1
                     /\ Cardinality(TaggedIPs) <= 1

\* When EnsureLoadBalancer succeeds, the rule it worked on is in CloudStack as the
\* service asked for it, on the address reported, fully tagged, and is the one rule the
\* next call will find, whatever earlier calls that failed half-way have left behind.
\* (Where a target given by name leads is EnsuredRoutes of Pools.)
EnsuredMatches ==
    pc = "ensured" =>
        \E r \in rules : /\ r.id = lb.rule.id /\ r.ip = lb.ip
                        /\ r.name = svc.spec.name /\ svc.spec.ports \in {Named, r.ports}
                        /\ r.algorithm = svc.spec.algorithm
                        /\ svc.spec.ip \in {None, r.ip}
                        /\ matchAllTags(r.tags)
                        /\ getLoadBalancerRule(svc.spec.name) = {r}

\* No call changes or deletes a rule with the ignore tag, nor a rule made by hand under a
\* name the service uses, unless the service has been published under that name.  (Then the
\* hostname in the status makes shouldManageLB take the rule for the service's own.)
UnmanagedUntouched ==
    [][pc # "idle" => \A r \in rules :
          ignoreTag \in r.tags \/ (r.byHand /\ r.name \notin published) => r \in rules']_vars

\* getLoadBalancerIP of the address in the spec: "we'll also tag the IP address so that we
\* can reuse or free it in the future".
SpecIPTagged == pc = "ensured" /\ svc.spec.ip # None => lb.ip \in TaggedIPs

\* The IPs taken from the pool that no later call can find.
Leaked == {i \in PoolIPs : /\ Allocated(i) /\ ~matchAllTags(ips[i].tags)
                           /\ ~(pc \in {"tagIP", "rollback"} /\ lb.ip = i)}

\* It takes two failures to leak an IP, one while tagging it and one while rolling back,
\* unless its allocation got lost or the process died over it (these count twice).
LeakTakesTwoFaults == 2 * Cardinality(Leaked) <= faults + lost

\* As long as its user neither asks for an address nor deletes the service, and nobody makes
\* a rule by a name it has been published under, it keeps the address once published, through
\* changes of name, ports, targets and affinity, failures and crashes.  (A deletion may leave
\* a second rule of the service behind, on an address it has released; a service created
\* again may then find that rule, and lose the address.)
StableAddress == [][~moved /\ status # None /\ status' # None => status'.ip = status.ip]_vars

\* While the service exists, and so do the address it asks for and the target it names, a
\* call of EnsureLoadBalancer eventually succeeds.
WantedIsEnsured ==
    []<>(\/ pc = "ensured" \/ ~wanted
         \/ spec.ip \in {i \in UserIPs : ~Allocated(i)}
         \/ spec.ports = Named /\ target = Unsupported)

\* Once the service is gone, a call of EnsureLoadBalancerDeleted eventually succeeds.
UnwantedIsDeleted == []<>(pc = "deleted" \/ wanted)

=============================================================================
