------------------------------ MODULE Services ------------------------------
(***************************************************************************)
(* loadbalancer.go, nodes.go: how the services of a cluster share one      *)
(* CloudStack.  Calls for one service exclude each other by its lock, but  *)
(* calls for several run at the same time, and what tells their rules      *)
(* apart is a name, three tags and a project.  The project of a service is *)
(* its label, or the default of the environment, or else that of one of    *)
(* the nodes that happen to be registered: EnsureLoadBalancer writes that  *)
(* one into the label, so that later calls look in the same place.         *)
(*                                                                         *)
(* A step is a request to CloudStack or Kubernetes.  Public IPs, hosts and *)
(* the algorithm are left to LoadBalancer and NodeSync, and rules can      *)
(* always be removed (isLBRemovalEnabled).  External: CloudStack, the      *)
(* service controller, which calls again after an error and passes its own *)
(* copy of the service, and the people who edit services.                  *)
(***************************************************************************)
EXTENDS Integers, FiniteSets

CONSTANTS
    Services,        \* for each of them,
    Meta,            \* its namespace and name, [ns, svc],
    SpecsOf,         \* and the [name, ports] of the load balancers it may ask for
    Projects,
    EnvProject,      \* Environment.ProjectID, or NoValue
    NoValue,         \* no label, no project, nothing found, nothing under way
    MaxRules,        \* bound: rules at a time
    MaxCloudFaults,  \* bound: failed requests and restarts
    MaxUserEdits     \* bound: changes by people

ASSUME MetaAssumption ==
    /\ \A s \in Services : Meta[s] \in [ns : STRING, svc : STRING]
    /\ \A s, t \in Services : Meta[s] = Meta[t] => s = t
ASSUME SpecsAssumption ==
    \A s \in Services : \A c \in SpecsOf[s] : DOMAIN c = {"name", "ports"} /\ c # NoValue
ASSUME ProjectAssumption == NoValue \notin Projects /\ EnvProject \in Projects \cup {NoValue}
ASSUME ServicesBoundAssumption == {MaxRules, MaxCloudFaults, MaxUserEdits} \subseteq Nat

VARIABLES
    object,    \* the services, as the controller has them: [wanted, spec, label, status]
    saved,     \* the label, as Kubernetes has it
    nodesIn,   \* the projects of the nodes in the registry
    csRules,   \* CloudStack: the rules, [id, project, name, ports, tags]
    svcCall,   \* what is under way for each service: NoValue, or [op, project, step, spec,
               \* status, rule], the service as it was passed and the rule as it was found
    excused,   \* history: the services whose label was once not saved, that were deleted
               \* while a rule they may not touch bore their name, or that took over a rule
               \* by its name alone while another one carried their tags
    svcFaults, svcEdits

ServicesVars == <<object, saved, nodesIn, csRules, svcCall, excused, svcFaults, svcEdits>>

\* In the order in which setResourceTags creates them.
TagKeys == <<"cloudprovider", "kubernetes_namespace", "kubernetes_service">>
TagNames == {TagKeys[i] : i \in DOMAIN TagKeys}
TagValues == {"custom-cloudstack"} \cup UNION {{Meta[s].ns, Meta[s].svc} : s \in Services}
Ids == 1..MaxRules

AllSpecs == UNION {SpecsOf[s] : s \in Services}
AllNames == {c.name : c \in AllSpecs}
ProjectOrNone == Projects \cup {NoValue}
ServiceObjects == [wanted : BOOLEAN, spec : AllSpecs \cup {NoValue}, label : ProjectOrNone,
                   status : AllNames \cup {NoValue}]
RuleRecords == [id : Ids, project : Projects, name : AllNames, ports : {c.ports : c \in AllSpecs},
                tags : UNION {[D -> TagValues] : D \in SUBSET TagNames}]
CallRecords == [op : {"ensure", "delete"}, project : ProjectOrNone,
                step : {"byName", "byTags", "patch", "create", "remove", "tag", "return"},
                spec : AllSpecs, status : AllNames \cup {NoValue}, rule : RuleRecords \cup {NoValue}]

ASSUME NoValueAssumption == NoValue \notin RuleRecords \cup CallRecords

tagsForService(s) == [cloudprovider |-> "custom-cloudstack",
                      kubernetes_namespace |-> Meta[s].ns, kubernetes_service |-> Meta[s].svc]

\* Reference: the rule of a service carries all its tags.
Owns(s, r) == r.tags = tagsForService(s)

NoService == [wanted |-> FALSE, spec |-> NoValue, label |-> NoValue, status |-> NoValue]
-----------------------------------------------------------------------------
(* Where to look, what to find, and whether to touch it.                   *)

projectForMeta(s) == IF object[s].label # NoValue THEN object[s].label ELSE EnvProject

\* nodesForService, idsForNodes: the project of any of the service's nodes, in map order.
idsForService(s) == {p \in nodesIn : projectForMeta(s) \in {NoValue, p}}

\* Faulty variant: rules of every project are listed.
listInEverywhere(p) == csRules
\* listLoadBalancerRules (external): without a project, only what is in none.
listIn(p) == {r \in csRules : r.project = p}

ByName(p, name) == {r \in listIn(p) : r.name = name}
\* Faulty variant: the answer is not filtered by the tags that are not in the query.
matchAllTagsQueried(r, tags) == LET k == TagKeys[3] IN k \in DOMAIN r.tags /\ r.tags[k] = tags[k]
matchAllTags(r, tags) == \A k \in DOMAIN tags : k \in DOMAIN r.tags /\ r.tags[k] = tags[k]
ByTags(p, s) == {r \in listIn(p) : matchAllTags(r, tagsForService(s))}

\* shouldManageLB, for the rule as it was read and the service as it was passed.  The tag
\* of the namespace is optional; the hostname in the status can stand in for all tags.
ManagedByTags(s, r) ==
    \A k \in DOMAIN tagsForService(s) :
        \/ k = TagKeys[2] /\ k \notin DOMAIN r.tags
        \/ k \in DOMAIN r.tags /\ r.tags[k] = tagsForService(s)[k]
shouldManageLB(s, r, c) == ManagedByTags(s, r) \/ c.status = c.spec.name

\* A rule without the tags of the service is taken over for its name, since the lookup
\* stops there, although another rule has the tags.
TakesOver(s, r, c) == /\ r # NoValue /\ ~ManagedByTags(s, r) /\ c.status = c.spec.name
                      /\ ByTags(c.project, s) # {}

hasMissingTags(r) == \E i \in 1..3 : TagKeys[i] \notin DOMAIN r.tags
-----------------------------------------------------------------------------
\* What a call has found is a rule of the project it works in, even if it is gone by now
\* or has changed; two rules never share an id.
ServicesTypeOK ==
    /\ object \in [Services -> ServiceObjects] /\ saved \in [Services -> ProjectOrNone]
    /\ \A s \in Services : object[s] = NoService \/ object[s].spec \in SpecsOf[s]
    /\ nodesIn \in SUBSET Projects \ {{}}
    /\ csRules \in SUBSET RuleRecords /\ \A r, q \in csRules : r.id = q.id => r = q
    /\ svcCall \in [Services -> CallRecords \cup {NoValue}]
    /\ \A s \in Services : svcCall[s] # NoValue =>
          /\ svcCall[s].op = "ensure" => svcCall[s].project \in Projects
          /\ svcCall[s].rule # NoValue => svcCall[s].rule.project = svcCall[s].project
    /\ excused \subseteq Services /\ svcFaults \in 0..MaxCloudFaults /\ svcEdits \in 0..MaxUserEdits

ServicesInit == /\ object = [s \in Services |-> NoService]
                /\ saved = [s \in Services |-> NoValue]
                /\ nodesIn \in SUBSET Projects \ {{}}
                /\ csRules = {} /\ svcCall = [s \in Services |-> NoValue] /\ excused = {}
                /\ svcFaults = 0 /\ svcEdits = 0

KeepCluster == UNCHANGED <<nodesIn, svcEdits>>
NoFault == UNCHANGED <<excused, svcFaults>>
Fault == svcFaults < MaxCloudFaults /\ svcFaults' = svcFaults + 1

CallAt(s, op, step) == svcCall[s] # NoValue /\ svcCall[s].op = op /\ svcCall[s].step = step
CallEnds(s) == svcCall' = [svcCall EXCEPT ![s] = NoValue]
CallGoesTo(s, step) == svcCall' = [svcCall EXCEPT ![s].step = step]

CallBegins(s, op, project) ==
    svcCall' = [svcCall EXCEPT ![s] = [op |-> op, project |-> project, step |-> "byName",
                                 spec |-> object[s].spec, status |-> object[s].status, rule |-> NoValue]]
-----------------------------------------------------------------------------
(* Both calls look for the rule.                                           *)

\* EnsureLoadBalancer, up to its first request; without nodes it is an error.
EnsureStart(s) == /\ svcCall[s] = NoValue /\ object[s].wanted
                  /\ \E p \in idsForService(s) : CallBegins(s, "ensure", p)
                  /\ UNCHANGED <<object, saved, csRules>> /\ KeepCluster /\ NoFault

\* Faulty variant: the project is taken from the nodes, as EnsureLoadBalancer does.
DeleteStartByNodes(s) == /\ svcCall[s] = NoValue /\ ~object[s].wanted /\ object[s] # NoService
                         /\ \E p \in nodesIn : CallBegins(s, "delete", p)
                         /\ UNCHANGED <<object, saved, csRules>> /\ KeepCluster /\ NoFault
\* EnsureLoadBalancerDeleted, up to its first request.
DeleteStart(s) == /\ svcCall[s] = NoValue /\ ~object[s].wanted /\ object[s] # NoService
                  /\ CallBegins(s, "delete", projectForMeta(s))
                  /\ UNCHANGED <<object, saved, csRules>> /\ KeepCluster /\ NoFault

\* Faulty variant: the label is not written.
needsPatchNot(s) == FALSE
needsPatch(s) == object[s].label = NoValue

\* What EnsureLoadBalancer does about the rule it has found: shouldManageLB, then
\* checkLoadBalancerRule.  A rule it may not touch is an error.
Manage(s, r) ==
    IF r = NoValue THEN CallGoesTo(s, "create")
    ELSE IF ~shouldManageLB(s, r, svcCall[s]) THEN CallEnds(s)
    ELSE svcCall' = [svcCall EXCEPT ![s].rule = r, ![s].step =
            IF r.name # svcCall[s].spec.name \/ r.ports # svcCall[s].spec.ports THEN "remove"
            ELSE IF hasMissingTags(r) THEN "tag" ELSE "return"]

\* With the lookup done: EnsureLoadBalancer writes the label first if there is none, and
\* EnsureLoadBalancerDeleted succeeds at once without a rule it may touch.
RuleFound(s, r) ==
    IF svcCall[s].op = "ensure"
    THEN /\ IF needsPatch(s) THEN svcCall' = [svcCall EXCEPT ![s].rule = r, ![s].step = "patch"]
            ELSE Manage(s, r)
         /\ excused' = IF TakesOver(s, r, svcCall[s]) THEN excused \cup {s} ELSE excused
         /\ UNCHANGED <<object, saved>>
    ELSE IF r = NoValue \/ ~shouldManageLB(s, r, svcCall[s])
    THEN /\ CallEnds(s) /\ object' = [object EXCEPT ![s] = NoService] /\ saved' = [saved EXCEPT ![s] = NoValue]
         /\ excused' = IF r = NoValue THEN excused ELSE excused \cup {s}
    ELSE /\ svcCall' = [svcCall EXCEPT ![s].rule = r, ![s].step = "remove"] /\ UNCHANGED <<object, saved>>
         /\ excused' = IF TakesOver(s, r, svcCall[s]) THEN excused \cup {s} ELSE excused

\* getLoadBalancerRuleByName.  More than one is an error.
LookupByName(s) ==
    /\ svcCall[s] # NoValue /\ svcCall[s].step = "byName"
    /\ LET found == ByName(svcCall[s].project, svcCall[s].spec.name) IN
       CASE found = {} -> CallGoesTo(s, "byTags") /\ UNCHANGED <<object, saved, excused>>
         [] Cardinality(found) = 1 -> \E r \in found : RuleFound(s, r)
         [] OTHER -> CallEnds(s) /\ UNCHANGED <<object, saved, excused>>
    /\ UNCHANGED <<csRules, svcFaults>> /\ KeepCluster

\* getLoadBalancerByTags.
LookupByTags(s) ==
    /\ svcCall[s] # NoValue /\ svcCall[s].step = "byTags"
    /\ LET found == ByTags(svcCall[s].project, s) IN
       CASE found = {} -> RuleFound(s, NoValue)
         [] Cardinality(found) = 1 -> \E r \in found : RuleFound(s, r)
         [] OTHER -> CallEnds(s) /\ UNCHANGED <<object, saved, excused>>
    /\ UNCHANGED <<csRules, svcFaults>> /\ KeepCluster
-----------------------------------------------------------------------------
(* The rest of EnsureLoadBalancer.                                         *)

\* The label is set in the copy of the service first, and then in Kubernetes.
Patch(s) == /\ CallAt(s, "ensure", "patch")
            /\ object' = [object EXCEPT ![s].label = svcCall[s].project]
            /\ saved' = [saved EXCEPT ![s] = svcCall[s].project]
            /\ Manage(s, svcCall[s].rule)
            /\ UNCHANGED csRules /\ KeepCluster /\ NoFault

PatchFails(s) == /\ CallAt(s, "ensure", "patch") /\ Fault
                 /\ object' = [object EXCEPT ![s].label = svcCall[s].project]
                 /\ excused' = excused \cup {s}
                 /\ CallEnds(s)
                 /\ UNCHANGED <<saved, csRules>> /\ KeepCluster

\* deleteLoadBalancerRule.  A rule that somebody else has deleted is an error.
RemoveRule(s) ==
    /\ svcCall[s] # NoValue /\ svcCall[s].step = "remove"
    /\ LET there == {r \in csRules : r.id = svcCall[s].rule.id} IN
       /\ csRules' = csRules \ there
       /\ IF there = {} THEN CallEnds(s) /\ UNCHANGED <<object, saved>>
          ELSE IF svcCall[s].op = "ensure"
          THEN svcCall' = [svcCall EXCEPT ![s].rule = NoValue, ![s].step = "create"] /\ UNCHANGED <<object, saved>>
          ELSE CallEnds(s) /\ object' = [object EXCEPT ![s] = NoService] /\ saved' = [saved EXCEPT ![s] = NoValue]
    /\ KeepCluster /\ NoFault

\* Its answer is lost.
RemoveLost(s) == /\ svcCall[s] # NoValue /\ svcCall[s].step = "remove" /\ Fault
                 /\ csRules' = {r \in csRules : r.id # svcCall[s].rule.id}
                 /\ CallEnds(s)
                 /\ UNCHANGED <<object, saved, excused>> /\ KeepCluster

\* Ids of rules that exist, or that a call still refers to.
UsedIds == {r.id : r \in csRules} \cup
           {svcCall[s].rule.id : s \in {t \in Services : svcCall[t] # NoValue /\ svcCall[t].rule # NoValue}}
NewRule(s) == [id |-> CHOOSE i \in Ids \ UsedIds : TRUE,
               project |-> svcCall[s].project, name |-> svcCall[s].spec.name, ports |-> svcCall[s].spec.ports,
               tags |-> [k \in {} |-> NoValue]]

\* createLoadBalancerRule.
CreateRule(s) == /\ CallAt(s, "ensure", "create") /\ Ids \ UsedIds # {}
                 /\ csRules' = csRules \cup {NewRule(s)}
                 /\ svcCall' = [svcCall EXCEPT ![s].rule = NewRule(s), ![s].step = "tag"]
                 /\ UNCHANGED <<object, saved>> /\ KeepCluster /\ NoFault

\* Its answer is lost, or the wait for its job runs out.
CreateLost(s) == /\ CallAt(s, "ensure", "create") /\ Ids \ UsedIds # {} /\ Fault
                 /\ csRules' = csRules \cup {NewRule(s)}
                 /\ CallEnds(s)
                 /\ UNCHANGED <<object, saved, excused>> /\ KeepCluster

\* setResourceTags up to the n-th tag: one that exists keeps its value.
TaggedRule(r, s, n) ==
    LET new == {TagKeys[i] : i \in 1..n} \cap DOMAIN tagsForService(s)
    IN  [r EXCEPT !.tags = [k \in DOMAIN r.tags \cup new |->
                               IF k \in DOMAIN r.tags THEN r.tags[k] ELSE tagsForService(s)[k]]]

\* assignTagsToRule.
TagRule(s) ==
    /\ CallAt(s, "ensure", "tag")
    /\ LET there == {r \in csRules : r.id = svcCall[s].rule.id} IN
       IF there = {} THEN CallEnds(s) /\ UNCHANGED csRules
       ELSE CallGoesTo(s, "return") /\ csRules' = (csRules \ there) \cup {TaggedRule(r, s, 3) : r \in there}
    /\ UNCHANGED <<object, saved>> /\ KeepCluster /\ NoFault

TagFails(s) ==
    /\ CallAt(s, "ensure", "tag") /\ Fault
    /\ LET there == {r \in csRules : r.id = svcCall[s].rule.id} IN
       \E n \in 1..2 : csRules' = (csRules \ there) \cup {TaggedRule(r, s, n) : r \in there}
    /\ CallEnds(s)
    /\ UNCHANGED <<object, saved, excused>> /\ KeepCluster

\* EnsureLoadBalancer returns, and the controller writes the status.
EnsureReturn(s) == /\ CallAt(s, "ensure", "return")
                   /\ object' = [object EXCEPT ![s].status = svcCall[s].spec.name]
                   /\ CallEnds(s)
                   /\ UNCHANGED <<saved, csRules>> /\ KeepCluster /\ NoFault

\* A request fails without having done anything.
RequestFails(s) == /\ svcCall[s] # NoValue /\ svcCall[s].step # "patch" /\ Fault /\ CallEnds(s)
                   /\ UNCHANGED <<object, saved, csRules, excused>> /\ KeepCluster

\* The process starts again, with what Kubernetes has.
Restart == /\ Fault
           /\ svcCall' = [s \in Services |-> NoValue]
           /\ object' = [s \in Services |-> [object[s] EXCEPT !.label = saved[s]]]
           /\ UNCHANGED <<saved, csRules, excused>> /\ KeepCluster
-----------------------------------------------------------------------------
(* People.                                                                 *)

UserEdit == svcEdits < MaxUserEdits /\ svcEdits' = svcEdits + 1
KeepRest == UNCHANGED <<csRules, svcCall, excused, svcFaults>>

\* A service, perhaps with a label of its own.
UserCreate(s) == /\ UserEdit /\ object[s] = NoService
                 /\ \E c \in SpecsOf[s], l \in Projects \cup {NoValue} :
                       /\ object' = [object EXCEPT ![s] = [wanted |-> TRUE, spec |-> c, label |-> l, status |-> NoValue]]
                       /\ saved' = [saved EXCEPT ![s] = l]
                 /\ UNCHANGED nodesIn /\ KeepRest
UserEditSpec(s) == /\ UserEdit /\ object[s].wanted
                   /\ \E c \in SpecsOf[s] \ {object[s].spec} : object' = [object EXCEPT ![s].spec = c]
                   /\ UNCHANGED <<saved, nodesIn>> /\ KeepRest
UserDelete(s) == /\ UserEdit /\ object[s].wanted
                 /\ object' = [object EXCEPT ![s].wanted = FALSE]
                 /\ UNCHANGED <<saved, nodesIn>> /\ KeepRest
\* Nodes come and go, and the registry learns of it.
NodesMove == /\ UserEdit
             /\ \E p \in SUBSET Projects \ {{}, nodesIn} : nodesIn' = p
             /\ UNCHANGED <<object, saved>> /\ KeepRest

ServicesNext == \/ \E s \in Services :
                      \/ EnsureStart(s) \/ DeleteStart(s) \/ LookupByName(s) \/ LookupByTags(s)
                      \/ Patch(s) \/ PatchFails(s) \/ RemoveRule(s) \/ RemoveLost(s)
                      \/ CreateRule(s) \/ CreateLost(s) \/ TagRule(s) \/ TagFails(s) \/ EnsureReturn(s) \/ RequestFails(s)
                      \/ UserCreate(s) \/ UserEditSpec(s) \/ UserDelete(s)
                \/ Restart \/ NodesMove

ServicesSpec == ServicesInit /\ [][ServicesNext]_ServicesVars
-----------------------------------------------------------------------------
\* Whatever nodes are registered when, all rules that carry the tags of a service are in
\* one project: later calls find what earlier ones, and earlier processes, have made.
\* Excused are services whose label could not be saved, whose deletion stopped at a rule
\* that has their name but is not theirs, or that took over such a rule for the hostname in
\* their status while another rule had their tags.
OneProject ==
    \A s \in Services \ excused : \A r, q \in csRules :
        Owns(s, r) /\ Owns(s, q) => r.project = q.project

\* No call deletes or changes a rule that carries the tags of another service, however the
\* calls for the two interleave.
OnlyOwnRules ==
    [][\A s \in Services : svcCall[s] # NoValue /\ svcCall'[s] # svcCall[s] =>
          \A r \in csRules \ csRules' : \A t \in Services \ {s} : ~Owns(t, r)]_ServicesVars

\* When EnsureLoadBalancerDeleted succeeds, no rule with the tags of the service is left in
\* any project (with the same excuses).
DeletedLeavesNothing ==
    [][\A s \in Services \ excused' : object[s] # NoService /\ object'[s] = NoService =>
          \A r \in csRules' : ~Owns(s, r)]_ServicesVars
=============================================================================
