--------------------------- MODULE ServicesProofs ---------------------------
(***************************************************************************)
(* What keeps the services of a cluster apart in CloudStack, for any       *)
(* number of services, projects, failures and edits.                       *)
(*                                                                         *)
(* The types hold whatever services ask for.  That no call touches a rule  *)
(* of another service, that the rules of a service stay in one project and *)
(* that its deletion leaves none behind, holds if no two services ask for  *)
(* load balancers of one name (the run services_takeover shows what happens  *)
(* otherwise).  The argument: a rule in hand is named as its service asks, *)
(* so that it is its own; a label, once there, is where all its tagged     *)
(* rules are; and a call that has looked for the rule knows the only one.  *)
(***************************************************************************)
EXTENDS Services, TLAPS

NamesOf(s) == {c.name : c \in SpecsOf[s]}

\* No load balancer name is asked for by two services.
DistinctNames == \A s, t \in Services : \A c \in SpecsOf[s], d \in SpecsOf[t] : c.name = d.name => s = t

\* A service has its own specs only, and no label is left when it is gone.
Present(s) == object[s].spec \in SpecsOf[s]
ObjectOK(s) == (object[s] = NoService /\ saved[s] = NoValue) \/ Present(s)
ObjectsOK == /\ object \in [Services -> ServiceObjects] /\ saved \in [Services -> ProjectOrNone]
             /\ \A s \in Services : ObjectOK(s)
RulesOK == csRules \in SUBSET RuleRecords /\ \A r, q \in csRules : r.id = q.id => r = q

SameRule(r, q) == r.id = q.id /\ r.name = q.name /\ r.project = q.project
\* A call has a service that exists, and what it has in hand once was, and still is if it
\* exists, a rule of the project it works in.
CallOK(s) == svcCall[s] # NoValue =>
    /\ Present(s) /\ svcCall[s].spec \in SpecsOf[s]
    /\ svcCall[s].op = "ensure" => svcCall[s].project \in Projects
    /\ svcCall[s].step \in {"patch", "create", "tag", "return"} => svcCall[s].op = "ensure"
    /\ svcCall[s].step \in {"byName", "byTags", "create"} => svcCall[s].rule = NoValue
    /\ svcCall[s].step \in {"remove", "tag", "return"} => svcCall[s].rule # NoValue
    /\ svcCall[s].rule # NoValue =>
          /\ svcCall[s].rule.project = svcCall[s].project
          /\ \A r \in csRules : r.id = svcCall[s].rule.id => SameRule(r, svcCall[s].rule)
CallsOK == svcCall \in [Services -> CallRecords \cup {NoValue}] /\ \A s \in Services : CallOK(s)
CountsOK == /\ nodesIn \in SUBSET Projects \ {{}} /\ excused \subseteq Services
            /\ svcFaults \in 0..MaxCloudFaults /\ svcEdits \in 0..MaxUserEdits

\* The part of the invariant that needs nothing of the names.
TInv == ObjectsOK /\ RulesOK /\ CallsOK /\ CountsOK

\* The tags are created in order.
FirstTags(s, n) == [k \in {TagKeys[i] : i \in 1..n} |-> tagsForService(s)[k]]
\* A rule by a name of a service carries the first tags of that service, and no others.
TagsByName == \A s \in Services : \A r \in csRules :
    r.name \in NamesOf(s) => \E n \in 0..3 : r.tags = FirstTags(s, n)
InHandByName == \A s \in Services :
    svcCall[s] # NoValue /\ svcCall[s].rule # NoValue => svcCall[s].rule.name \in NamesOf(s)

Own(s) == {r \in csRules : Owns(s, r)}
\* The tagged rule of a service is one, and is where the label says.
OwnAt(s) == /\ object[s].label = saved[s]
            /\ \A r, q \in Own(s) : r = q
            /\ \A r \in Own(s) : Present(s) /\ object[s].label = r.project
\* A call looks in the project of the label, and once it has looked it knows the tagged rule.
KnownTo(s) == svcCall[s] # NoValue =>
    /\ object[s].label \in {NoValue, svcCall[s].project}
    /\ svcCall[s].step = "patch" => object[s].label = NoValue
    /\ svcCall[s].op = "ensure" /\ svcCall[s].step \in {"create", "remove", "tag", "return"}
          => object[s].label = svcCall[s].project
    /\ svcCall[s].step \in {"create", "remove", "tag"} =>
          \A r \in Own(s) : svcCall[s].rule # NoValue /\ r.id = svcCall[s].rule.id
Located(s) == s \notin excused => OwnAt(s) /\ KnownTo(s)

\* The inductive invariant for services with distinct names.
NInv == TInv /\ TagsByName /\ InHandByName /\ \A s \in Services : Located(s)
-----------------------------------------------------------------------------
\* The tags of a service.
LEMMA KeyFacts ==
  /\ DOMAIN TagKeys = 1..3 /\ TagKeys[1] = "cloudprovider" /\ TagKeys[2] = "kubernetes_namespace"
  /\ TagKeys[3] = "kubernetes_service"
  /\ TagNames = {"cloudprovider", "kubernetes_namespace", "kubernetes_service"}
  /\ \A i \in 1..3 : TagKeys[i] \in TagNames
  /\ \A s \in Services : /\ DOMAIN tagsForService(s) = TagNames
                         /\ \A k \in TagNames : tagsForService(s)[k] \in TagValues
<1>1. /\ DOMAIN TagKeys = 1..3 /\ TagKeys[1] = "cloudprovider"
      /\ TagKeys[2] = "kubernetes_namespace" /\ TagKeys[3] = "kubernetes_service"
  BY DEF TagKeys
<1>2. TagNames = {"cloudprovider", "kubernetes_namespace", "kubernetes_service"}
  BY <1>1 DEF TagNames
<1>3. ASSUME NEW s \in Services
      PROVE  /\ DOMAIN tagsForService(s) = TagNames
             /\ \A k \in TagNames : tagsForService(s)[k] \in TagValues
  BY <1>2 DEF tagsForService, TagValues
<1> QED BY <1>1, <1>2, <1>3

\* A service that is there is not the one that is gone.
LEMMA PresentFacts ==
  ASSUME TInv, NEW s \in Services
  PROVE  /\ Present(s) => object[s] # NoService
         /\ object[s] # NoService => Present(s)
         /\ object[s].wanted => Present(s)
         /\ object[s] \in ServiceObjects
<1>1. NoService.spec = NoValue /\ NoService.wanted = FALSE
  BY DEF NoService
<1> QED BY <1>1, SpecsAssumption DEF Present, TInv, ObjectsOK, ObjectOK

\* A call with another rule in hand, at another step.
With(c, r, st) == [c EXCEPT !.rule = r, !.step = st]
Steps == {"byName", "byTags", "patch", "create", "remove", "tag", "return"}
LEMMA WithFacts ==
  ASSUME NEW c \in CallRecords, NEW r \in RuleRecords \cup {NoValue}, NEW st \in Steps
  PROVE  /\ With(c, r, st) \in CallRecords /\ With(c, r, st) # NoValue
         /\ With(c, r, st).rule = r /\ With(c, r, st).step = st
         /\ With(c, r, st).op = c.op /\ With(c, r, st).project = c.project
         /\ With(c, r, st).spec = c.spec /\ With(c, r, st).status = c.status
<1>1. With(c, r, st) \in CallRecords
  BY DEF CallRecords, With, Steps
<1>2. /\ With(c, r, st).rule = r /\ With(c, r, st).step = st
      /\ With(c, r, st).op = c.op /\ With(c, r, st).project = c.project
      /\ With(c, r, st).spec = c.spec /\ With(c, r, st).status = c.status
  BY DEF CallRecords, With
<1> QED BY <1>1, <1>2, NoValueAssumption

\* A call under way.
LEMMA CallFacts ==
  ASSUME TInv, NEW s \in Services, svcCall[s] # NoValue
  PROVE  /\ svcCall[s] \in CallRecords /\ CallOK(s) /\ Present(s)
         /\ svcCall[s].spec \in SpecsOf[s] /\ svcCall[s].rule \in RuleRecords \cup {NoValue}
         /\ svcCall[s].project \in ProjectOrNone /\ svcCall[s].step \in Steps
         /\ svcCall[s].op \in {"ensure", "delete"}
<1>1. svcCall[s] \in CallRecords /\ CallOK(s)
  BY DEF TInv, CallsOK
<1> QED BY <1>1 DEF CallRecords, Steps, CallOK

\* A step of a call ends it, or goes on with some rule in hand.
GoesOn(s, r, st) == svcCall' = [svcCall EXCEPT ![s] = With(svcCall[s], r, st)]

LEMMA GoesToForm ==
  ASSUME TInv, NEW s \in Services, svcCall[s] # NoValue, NEW st \in Steps, CallGoesTo(s, st)
  PROVE  GoesOn(s, svcCall[s].rule, st)
<1>1. [svcCall[s] EXCEPT !.step = st] = With(svcCall[s], svcCall[s].rule, st)
  BY CallFacts DEF With, CallRecords
<1> QED BY <1>1 DEF CallGoesTo, GoesOn

\* EnsureLoadBalancer, with what its lookup has found.
LEMMA ManageForm ==
  ASSUME TInv, NEW s \in Services, svcCall[s] # NoValue, NEW r \in RuleRecords \cup {NoValue},
         r = NoValue => svcCall[s].rule = NoValue, Manage(s, r)
  PROVE  \/ CallEnds(s)
         \/ r = NoValue /\ GoesOn(s, r, "create")
         \/ /\ r # NoValue /\ shouldManageLB(s, r, svcCall[s])
            /\ \E st \in {"remove", "tag", "return"} : GoesOn(s, r, st)
<1>1. CASE r = NoValue
  <2>1. CallGoesTo(s, "create")
    BY <1>1 DEF Manage
  <2> QED BY <1>1, <2>1, GoesToForm DEF Steps
<1>2. CASE r # NoValue /\ shouldManageLB(s, r, svcCall[s])
  <2>1. PICK st \in {"remove", "tag", "return"} :
            svcCall' = [svcCall EXCEPT ![s].rule = r, ![s].step = st]
    BY <1>2 DEF Manage
  <2>2. GoesOn(s, r, st)
    BY <2>1 DEF GoesOn, With, TInv, CallsOK
  <2> QED BY <1>2, <2>2
<1>3. CASE r # NoValue /\ ~shouldManageLB(s, r, svcCall[s])
  BY <1>3 DEF Manage
<1> QED BY <1>1, <1>2, <1>3

\* Deletion is over: the service is gone.
Gone(s) == /\ CallEnds(s) /\ object' = [object EXCEPT ![s] = NoService]
           /\ saved' = [saved EXCEPT ![s] = NoValue]
KeepObjects == UNCHANGED <<object, saved>>

\* Both calls, with what their lookup has found.
LEMMA FoundForm ==
  ASSUME TInv, NEW s \in Services, svcCall[s] # NoValue, svcCall[s].rule = NoValue,
         NEW r \in RuleRecords \cup {NoValue}, RuleFound(s, r)
  PROVE  \/ /\ KeepObjects /\ excused' = IF TakesOver(s, r, svcCall[s]) THEN excused \cup {s} ELSE excused
            /\ \/ CallEnds(s)
               \/ svcCall[s].op = "ensure" /\ needsPatch(s) /\ GoesOn(s, r, "patch")
               \/ svcCall[s].op = "ensure" /\ ~needsPatch(s) /\ r = NoValue /\ GoesOn(s, r, "create")
               \/ /\ svcCall[s].op = "ensure" => ~needsPatch(s)
                  /\ r # NoValue /\ shouldManageLB(s, r, svcCall[s])
                  /\ \E st \in {"remove", "tag", "return"} :
                        GoesOn(s, r, st) /\ (st # "remove" => svcCall[s].op = "ensure")
         \/ /\ svcCall[s].op = "delete" /\ Gone(s)
            /\ \/ r = NoValue /\ excused' = excused
               \/ r # NoValue /\ excused' = excused \cup {s}
<1>1. svcCall[s].op \in {"ensure", "delete"}
  BY CallFacts
<1>2. ASSUME NEW st \in Steps, svcCall' = [svcCall EXCEPT ![s].rule = r, ![s].step = st]
      PROVE  GoesOn(s, r, st)
  BY <1>2 DEF GoesOn, With, TInv, CallsOK
<1>3. CASE svcCall[s].op = "ensure"
  <2>1. KeepObjects /\ excused' = IF TakesOver(s, r, svcCall[s]) THEN excused \cup {s} ELSE excused
    BY <1>3 DEF RuleFound, KeepObjects
  <2>2. CASE needsPatch(s)
    BY <1>2, <1>3, <2>1, <2>2 DEF RuleFound, Steps
  <2>3. CASE ~needsPatch(s)
    <3>1. Manage(s, r)
      BY <1>3, <2>3 DEF RuleFound
    <3> QED BY <1>3, <2>1, <2>3, <3>1, ManageForm
  <2> QED BY <2>2, <2>3
<1>4. CASE svcCall[s].op = "delete"
  <2>1. CASE r = NoValue \/ ~shouldManageLB(s, r, svcCall[s])
    BY <1>4, <2>1 DEF RuleFound, Gone
  <2>2. CASE ~(r = NoValue \/ ~shouldManageLB(s, r, svcCall[s]))
    BY <1>2, <1>4, <2>2 DEF RuleFound, KeepObjects, Steps
  <2> QED BY <2>1, <2>2
<1> QED BY <1>1, <1>3, <1>4
-----------------------------------------------------------------------------
\* What getLoadBalancerRuleByName and getLoadBalancerByTags lead to.
LookedUp(s, r) == \/ r \in ByName(svcCall[s].project, svcCall[s].spec.name)
                  \/ r \in ByTags(svcCall[s].project, s)
                  \/ r = NoValue /\ ByTags(svcCall[s].project, s) = {}
LEMMA LookupForm ==
  ASSUME TInv, NEW s \in Services, LookupByName(s) \/ LookupByTags(s)
  PROVE  /\ svcCall[s] # NoValue /\ svcCall[s].step \in {"byName", "byTags"}
         /\ svcCall[s].rule = NoValue
         /\ UNCHANGED <<csRules, svcFaults, nodesIn, svcEdits>>
         /\ \/ CallEnds(s) /\ KeepObjects /\ excused' = excused
            \/ GoesOn(s, NoValue, "byTags") /\ KeepObjects /\ excused' = excused
            \/ \E r \in RuleRecords \cup {NoValue} : LookedUp(s, r) /\ RuleFound(s, r)
<1>1. /\ svcCall[s] # NoValue /\ svcCall[s].step \in {"byName", "byTags"}
      /\ UNCHANGED <<csRules, svcFaults, nodesIn, svcEdits>>
  BY DEF LookupByName, LookupByTags, KeepCluster
<1>2. svcCall[s].rule = NoValue
  BY <1>1, CallFacts DEF CallOK
<1>3. \A r \in csRules : r \in RuleRecords
  BY DEF TInv, RulesOK
<1>4. CASE LookupByName(s)
  <2> DEFINE found == ByName(svcCall[s].project, svcCall[s].spec.name)
  <2>1. \A r \in found : r \in RuleRecords /\ LookedUp(s, r)
    BY <1>3 DEF ByName, listIn, LookedUp
  <2>2. CASE found = {}
    <3>1. CallGoesTo(s, "byTags") /\ KeepObjects /\ excused' = excused
      BY <1>4, <2>2 DEF LookupByName, KeepObjects
    <3> QED BY <1>1, <1>2, <3>1, GoesToForm DEF Steps
  <2>3. CASE found # {}
    <3>1. \/ \E r \in found : RuleFound(s, r)
          \/ CallEnds(s) /\ KeepObjects /\ excused' = excused
      BY <1>4, <2>3 DEF LookupByName, KeepObjects
    <3> QED BY <1>1, <1>2, <2>1, <3>1
  <2> QED BY <2>2, <2>3
<1>5. CASE LookupByTags(s)
  <2> DEFINE found == ByTags(svcCall[s].project, s)
  <2>1. \A r \in found : r \in RuleRecords /\ LookedUp(s, r)
    BY <1>3 DEF ByTags, listIn, LookedUp
  <2>2. \/ \E r \in found : RuleFound(s, r)
        \/ found = {} /\ RuleFound(s, NoValue)
        \/ CallEnds(s) /\ KeepObjects /\ excused' = excused
    BY <1>5 DEF LookupByTags, KeepObjects
  <2> QED BY <1>1, <1>2, <2>1, <2>2 DEF LookedUp
<1> QED BY <1>4, <1>5

\* The services and their labels stay well formed.
LEMMA ObjectsStep ==
  ASSUME TInv, [ServicesNext]_ServicesVars
  PROVE  ObjectsOK'
<1>1. ObjectsOK
  BY DEF TInv
<1>2. CASE KeepObjects
  BY <1>1, <1>2 DEF KeepObjects, ObjectsOK, ObjectOK, Present
<1>3. ASSUME NEW s \in Services, NEW o \in ServiceObjects, NEW l \in ProjectOrNone,
             object' = [object EXCEPT ![s] = o], saved' = [saved EXCEPT ![s] = l],
             (o = NoService /\ l = NoValue) \/ o.spec \in SpecsOf[s]
      PROVE  ObjectsOK'
  <2>1. object' \in [Services -> ServiceObjects] /\ saved' \in [Services -> ProjectOrNone]
    BY <1>1, <1>3 DEF ObjectsOK
  <2>2. ASSUME NEW t \in Services PROVE ObjectOK(t)'
    <3>1. t # s => object'[t] = object[t] /\ saved'[t] = saved[t]
      BY <1>1, <1>3 DEF ObjectsOK
    <3>2. t = s => object'[t] = o /\ saved'[t] = l
      BY <1>1, <1>3 DEF ObjectsOK
    <3>3. ObjectOK(t)
      BY <1>1 DEF ObjectsOK
    <3> QED BY <1>3, <3>1, <3>2, <3>3 DEF ObjectOK, Present
  <2> QED BY <2>1, <2>2 DEF ObjectsOK
<1>4. ASSUME NEW s \in Services, NEW o \in ServiceObjects, object' = [object EXCEPT ![s] = o],
             saved' = saved, o.spec \in SpecsOf[s]
      PROVE  ObjectsOK'
  <2>1. saved' = [saved EXCEPT ![s] = saved[s]] /\ saved[s] \in ProjectOrNone
    BY <1>1, <1>4 DEF ObjectsOK
  <2> QED BY <1>3, <1>4, <2>1
<1>5. NoService \in ServiceObjects
  BY DEF NoService, ServiceObjects, ProjectOrNone
<1>6. ASSUME NEW s \in Services, Gone(s) PROVE ObjectsOK'
  BY <1>3, <1>5, <1>6 DEF Gone, ProjectOrNone
<1>a. ASSUME NEW s \in Services, LookupByName(s) \/ LookupByTags(s) PROVE ObjectsOK'
  <2>1. CASE \E r \in RuleRecords \cup {NoValue} : RuleFound(s, r)
    <3>1. svcCall[s] # NoValue /\ svcCall[s].rule = NoValue
      BY <1>a, LookupForm
    <3> QED BY <1>2, <1>6, <2>1, <3>1, FoundForm
  <2> QED BY <1>2, <1>a, <2>1, LookupForm
<1>b. ASSUME NEW s \in Services, Patch(s) \/ PatchFails(s) PROVE ObjectsOK'
  <2> DEFINE o == [object[s] EXCEPT !.label = svcCall[s].project]
  <2>1. svcCall[s].project \in ProjectOrNone /\ Present(s)
    BY <1>b, CallFacts DEF Patch, PatchFails, CallAt
  <2>2. o \in ServiceObjects /\ o.spec \in SpecsOf[s]
    BY <2>1, PresentFacts DEF ServiceObjects, Present
  <2>3. object' = [object EXCEPT ![s] = o]
    BY <1>b DEF Patch, PatchFails
  <2> HIDE DEF o
  <2>4. CASE Patch(s)
    BY <1>3, <2>1, <2>2, <2>3, <2>4 DEF Patch
  <2>5. CASE PatchFails(s)
    BY <1>4, <2>2, <2>3, <2>5 DEF PatchFails
  <2> QED BY <1>b, <2>4, <2>5
<1>c. ASSUME NEW s \in Services, RemoveRule(s) PROVE ObjectsOK'
  BY <1>2, <1>6, <1>c DEF RemoveRule, KeepObjects, Gone
<1>d. ASSUME NEW s \in Services, EnsureReturn(s) PROVE ObjectsOK'
  <2> DEFINE o == [object[s] EXCEPT !.status = svcCall[s].spec.name]
  <2>1. svcCall[s].spec \in SpecsOf[s] /\ Present(s)
    BY <1>d, CallFacts DEF EnsureReturn, CallAt
  <2>2. o \in ServiceObjects /\ o.spec \in SpecsOf[s]
    BY <2>1, PresentFacts DEF ServiceObjects, Present, AllNames, AllSpecs
  <2>3. object' = [object EXCEPT ![s] = o] /\ saved' = saved
    BY <1>d DEF EnsureReturn
  <2> HIDE DEF o
  <2> QED BY <1>4, <2>2, <2>3
<1>e. ASSUME Restart PROVE ObjectsOK'
  <2>1. saved' = saved /\ object' = [s \in Services |-> [object[s] EXCEPT !.label = saved[s]]]
    BY <1>e DEF Restart
  <2>2. ASSUME NEW s \in Services PROVE object'[s] \in ServiceObjects /\ ObjectOK(s)'
    <3>1. object'[s] = [object[s] EXCEPT !.label = saved[s]]
      BY <2>1
    <3>2. object[s] \in ServiceObjects /\ saved[s] \in ProjectOrNone /\ ObjectOK(s)
      BY <1>1 DEF ObjectsOK
    <3>3. object'[s] \in ServiceObjects /\ object'[s].spec = object[s].spec
      BY <3>1, <3>2 DEF ServiceObjects
    <3>4. object[s] = NoService /\ saved[s] = NoValue => object'[s] = NoService
      <4> DEFINE o == [NoService EXCEPT !.label = NoValue]
      <4>1. NoService.label = NoValue
        BY DEF NoService
      <4>2. /\ o \in ServiceObjects /\ o.wanted = NoService.wanted /\ o.spec = NoService.spec
            /\ o.label = NoService.label /\ o.status = NoService.status
        BY <1>5, <4>1 DEF ServiceObjects, ProjectOrNone
      <4> HIDE DEF o
      <4>3. o = NoService
        BY <1>5, <4>2 DEF ServiceObjects
      <4> QED BY <3>1, <4>3 DEF o
    <3> QED BY <2>1, <3>2, <3>3, <3>4 DEF ObjectOK, Present
  <2> QED BY <1>1, <2>1, <2>2 DEF ObjectsOK
<1>f. ASSUME NEW s \in Services, UserCreate(s) PROVE ObjectsOK'
  <2>1. PICK c \in SpecsOf[s], l \in ProjectOrNone :
            /\ object' = [object EXCEPT ![s] = [wanted |-> TRUE, spec |-> c, label |-> l,
                                                status |-> NoValue]]
            /\ saved' = [saved EXCEPT ![s] = l]
    BY <1>f DEF UserCreate, ProjectOrNone
  <2> DEFINE o == [wanted |-> TRUE, spec |-> c, label |-> l, status |-> NoValue]
  <2>2. o \in ServiceObjects /\ o.spec \in SpecsOf[s]
    BY DEF ServiceObjects, AllSpecs
  <2> HIDE DEF o
  <2> QED BY <1>3, <2>1, <2>2 DEF o
<1>g. ASSUME NEW s \in Services, UserEditSpec(s) PROVE ObjectsOK'
  <2>1. PICK c \in SpecsOf[s] : object' = [object EXCEPT ![s].spec = c]
    BY <1>g DEF UserEditSpec
  <2> DEFINE o == [object[s] EXCEPT !.spec = c]
  <2>2. o \in ServiceObjects /\ o.spec \in SpecsOf[s]
    BY PresentFacts DEF ServiceObjects, AllSpecs
  <2>3. object' = [object EXCEPT ![s] = o] /\ saved' = saved
    BY <1>g, <2>1 DEF UserEditSpec
  <2> HIDE DEF o
  <2> QED BY <1>4, <2>2, <2>3
<1>h. ASSUME NEW s \in Services, UserDelete(s) PROVE ObjectsOK'
  <2> DEFINE o == [object[s] EXCEPT !.wanted = FALSE]
  <2>1. Present(s)
    BY <1>h, PresentFacts DEF UserDelete
  <2>2. o \in ServiceObjects /\ o.spec \in SpecsOf[s]
    BY <2>1, PresentFacts DEF ServiceObjects, Present
  <2>3. object' = [object EXCEPT ![s] = o] /\ saved' = saved
    BY <1>h DEF UserDelete
  <2> HIDE DEF o
  <2> QED BY <1>4, <2>2, <2>3
<1>i. ASSUME NEW s \in Services,
             \/ EnsureStart(s) \/ DeleteStart(s) \/ RemoveLost(s) \/ CreateRule(s)
             \/ CreateLost(s) \/ TagRule(s) \/ TagFails(s) \/ RequestFails(s)
      PROVE  ObjectsOK'
  BY <1>2, <1>i DEF EnsureStart, DeleteStart, RemoveLost, CreateRule, CreateLost, TagRule,
    TagFails, RequestFails, KeepObjects
<1>j. ASSUME NodesMove \/ UNCHANGED ServicesVars PROVE ObjectsOK'
  BY <1>2, <1>j DEF NodesMove, ServicesVars, KeepObjects
<1> QED BY <1>a, <1>b, <1>c, <1>d, <1>e, <1>f, <1>g, <1>h, <1>i, <1>j DEF ServicesNext
-----------------------------------------------------------------------------
\* What a step may do to the rules: those that are there afterwards were there before, with
\* other tags perhaps, or have an id that no call refers to.
RulesKept == /\ csRules' \in SUBSET RuleRecords
             /\ \A r, q \in csRules' : r.id = q.id => r = q
             /\ \A r \in csRules' : (\E q \in csRules : SameRule(r, q)) \/ r.id \notin UsedIds

\* Rules that stay as they are, or go.
LEMMA FewerRules ==
  ASSUME TInv, csRules' \subseteq csRules
  PROVE  RulesKept
BY DEF TInv, RulesOK, RulesKept, SameRule

\* A rule with more tags is a rule.
LEMMA TaggedFacts ==
  ASSUME NEW r \in RuleRecords, NEW s \in Services, NEW n \in 1..3
  PROVE  TaggedRule(r, s, n) \in RuleRecords /\ SameRule(TaggedRule(r, s, n), r)
<1> DEFINE new == {TagKeys[i] : i \in 1..n} \cap DOMAIN tagsForService(s)
           D == DOMAIN r.tags \cup new
           T == [k \in D |-> IF k \in DOMAIN r.tags THEN r.tags[k] ELSE tagsForService(s)[k]]
<1>1. new \subseteq TagNames /\ \A k \in new : tagsForService(s)[k] \in TagValues
  BY KeyFacts
<1>2. DOMAIN r.tags \subseteq TagNames /\ \A k \in DOMAIN r.tags : r.tags[k] \in TagValues
  <2>1. PICK B \in SUBSET TagNames : r.tags \in [B -> TagValues]
    BY DEF RuleRecords
  <2> QED BY <2>1
<1>3. T \in [D -> TagValues] /\ D \in SUBSET TagNames
  BY <1>1, <1>2
<1>4. TaggedRule(r, s, n) = [r EXCEPT !.tags = T]
  BY DEF TaggedRule
<1> HIDE DEF T, D, new
<1>5. [r EXCEPT !.tags = T] \in RuleRecords
  BY <1>3 DEF RuleRecords
<1>6. SameRule([r EXCEPT !.tags = T], r)
  BY DEF RuleRecords, SameRule
<1> QED BY <1>4, <1>5, <1>6

\* A rule that gets more tags.
LEMMA MoreTags ==
  ASSUME TInv, NEW s \in Services, NEW n \in 1..3, NEW id,
         csRules' = (csRules \ {r \in csRules : r.id = id})
                       \cup {TaggedRule(r, s, n) : r \in {r \in csRules : r.id = id}}
  PROVE  RulesKept
<1>1. \A r \in csRules : r \in RuleRecords
  BY DEF TInv, RulesOK
<1>2. \A r \in csRules : TaggedRule(r, s, n) \in RuleRecords /\ SameRule(TaggedRule(r, s, n), r)
  BY <1>1, TaggedFacts
<1>3. ASSUME NEW r \in csRules'
      PROVE  r \in RuleRecords /\ \E q \in csRules : SameRule(r, q)
                /\ (q.id = id => r = TaggedRule(q, s, n)) /\ (q.id # id => r = q)
  BY <1>1, <1>2 DEF SameRule
<1>4. ASSUME NEW r \in csRules', NEW q \in csRules', r.id = q.id PROVE r = q
  <2>1. PICK a \in csRules : SameRule(r, a)
                /\ (a.id = id => r = TaggedRule(a, s, n)) /\ (a.id # id => r = a)
    BY <1>3
  <2>2. PICK b \in csRules : SameRule(q, b)
                /\ (b.id = id => q = TaggedRule(b, s, n)) /\ (b.id # id => q = b)
    BY <1>3
  <2>3. a = b
    BY <1>4, <2>1, <2>2 DEF SameRule, TInv, RulesOK
  <2> QED BY <2>1, <2>2, <2>3
<1> QED BY <1>3, <1>4 DEF RulesKept

\* A new rule has an id that nothing refers to, and no tags.
LEMMA NewRuleFacts ==
  ASSUME TInv, NEW s \in Services, CallAt(s, "ensure", "create"), Ids \ UsedIds # {}
  PROVE  /\ NewRule(s) \in RuleRecords /\ NewRule(s).id \notin UsedIds
         /\ NewRule(s).project = svcCall[s].project /\ NewRule(s).name = svcCall[s].spec.name
         /\ DOMAIN NewRule(s).tags = {}
<1> DEFINE i == CHOOSE j \in Ids \ UsedIds : TRUE
           T == [k \in {} |-> NoValue]
<1>1. i \in Ids /\ i \notin UsedIds
  OBVIOUS
<1>2. T \in [{} -> TagValues] /\ DOMAIN T = {}
  OBVIOUS
<1>3. svcCall[s].project \in Projects /\ svcCall[s].spec \in AllSpecs
  BY CallFacts DEF CallAt, CallOK, AllSpecs
<1>4. NewRule(s) = [id |-> i, project |-> svcCall[s].project, name |-> svcCall[s].spec.name,
                    ports |-> svcCall[s].spec.ports, tags |-> T]
  BY DEF NewRule
<1> HIDE DEF i, T
<1>5. T \in UNION {[D -> TagValues] : D \in SUBSET TagNames}
  BY <1>2
<1> QED BY <1>1, <1>2, <1>3, <1>4, <1>5 DEF RuleRecords, AllNames

\* The rules that are there and one more.
LEMMA OneMore ==
  ASSUME TInv, NEW s \in Services, CallAt(s, "ensure", "create"), Ids \ UsedIds # {},
         csRules' = csRules \cup {NewRule(s)}
  PROVE  RulesKept
<1>1. NewRule(s) \in RuleRecords /\ NewRule(s).id \notin UsedIds
  BY NewRuleFacts
<1>2. \A r \in csRules : r.id \in UsedIds
  BY DEF UsedIds
<1> HIDE DEF NewRule
<1> QED BY <1>1, <1>2 DEF TInv, RulesOK, RulesKept, SameRule

\* What any step does to the rules.
LEMMA RulesStep ==
  ASSUME TInv, [ServicesNext]_ServicesVars
  PROVE  RulesKept
<1>1. CASE csRules' \subseteq csRules
  BY <1>1, FewerRules
<1>2. ASSUME NEW s \in Services, CreateRule(s) \/ CreateLost(s) PROVE RulesKept
  BY <1>2, OneMore DEF CreateRule, CreateLost, CallAt
<1>3. ASSUME NEW s \in Services, TagRule(s) \/ TagFails(s) PROVE RulesKept
  <2>1. CASE csRules' = csRules
    BY <1>1, <2>1
  <2>2. CASE csRules' # csRules
    <3>1. PICK n \in 1..3 : csRules' = (csRules \ {r \in csRules : r.id = svcCall[s].rule.id})
             \cup {TaggedRule(r, s, n) : r \in {r \in csRules : r.id = svcCall[s].rule.id}}
      BY <1>3, <2>2 DEF TagRule, TagFails
    <3> QED BY <3>1, MoreTags
  <2> QED BY <2>1, <2>2
<1>4. ASSUME NEW s \in Services,
             \/ EnsureStart(s) \/ DeleteStart(s) \/ LookupByName(s) \/ LookupByTags(s) \/ Patch(s)
             \/ PatchFails(s) \/ RemoveRule(s) \/ RemoveLost(s) \/ EnsureReturn(s)
             \/ RequestFails(s) \/ UserCreate(s) \/ UserEditSpec(s) \/ UserDelete(s)
      PROVE  RulesKept
  BY <1>1, <1>4 DEF EnsureStart, DeleteStart, LookupByName, LookupByTags, Patch, PatchFails,
    RemoveRule, RemoveLost, EnsureReturn, RequestFails, UserCreate, UserEditSpec, UserDelete, KeepRest
<1>5. ASSUME Restart \/ NodesMove \/ UNCHANGED ServicesVars PROVE RulesKept
  BY <1>1, <1>5 DEF Restart, NodesMove, KeepRest, ServicesVars
<1> QED BY <1>2, <1>3, <1>4, <1>5 DEF ServicesNext
-----------------------------------------------------------------------------
\* The steps of one service.
StepOf(s) == \/ EnsureStart(s) \/ DeleteStart(s) \/ LookupByName(s) \/ LookupByTags(s)
             \/ Patch(s) \/ PatchFails(s) \/ RemoveRule(s) \/ RemoveLost(s) \/ CreateRule(s)
             \/ CreateLost(s) \/ TagRule(s) \/ TagFails(s) \/ EnsureReturn(s) \/ RequestFails(s)
UserStepOf(s) == UserCreate(s) \/ UserEditSpec(s) \/ UserDelete(s)
KeepsOthers(s) == \A t \in Services \ {s} :
    object'[t] = object[t] /\ saved'[t] = saved[t] /\ svcCall'[t] = svcCall[t]

\* A function changed at one argument.
ChangedAt(f, g, s) == \E v : g = [f EXCEPT ![s] = v]

\* A step of a service leaves the objects, labels and calls of the others alone.
LEMMA OthersKept ==
  ASSUME TInv, NEW s \in Services, StepOf(s) \/ UserStepOf(s)
  PROVE  KeepsOthers(s)
<1>1. /\ object \in [Services -> ServiceObjects] /\ saved \in [Services -> ProjectOrNone]
      /\ svcCall \in [Services -> CallRecords \cup {NoValue}]
  BY DEF TInv, ObjectsOK, CallsOK
<1>2. ASSUME object' = object \/ ChangedAt(object, object', s),
             saved' = saved \/ ChangedAt(saved, saved', s),
             svcCall' = svcCall \/ ChangedAt(svcCall, svcCall', s)
      PROVE  KeepsOthers(s)
  BY <1>1, <1>2 DEF ChangedAt, KeepsOthers
<1>3. ASSUME CallEnds(s) \/ \E r, st : GoesOn(s, r, st)
      PROVE  ChangedAt(svcCall, svcCall', s)
  BY <1>3 DEF CallEnds, GoesOn, ChangedAt
<1>4. KeepObjects => object' = object /\ saved' = saved
  BY DEF KeepObjects
<1>5. Gone(s) => /\ ChangedAt(object, object', s) /\ ChangedAt(saved, saved', s)
                 /\ ChangedAt(svcCall, svcCall', s)
  BY <1>3 DEF Gone, ChangedAt
<1>a. CASE LookupByName(s) \/ LookupByTags(s)
  <2>1. CASE \E r \in RuleRecords \cup {NoValue} : RuleFound(s, r)
    <3>1. svcCall[s] # NoValue /\ svcCall[s].rule = NoValue
      BY <1>a, LookupForm
    <3>2. PICK r \in RuleRecords \cup {NoValue} : RuleFound(s, r)
      BY <2>1
    <3>3. \/ Gone(s)
          \/ KeepObjects /\ (CallEnds(s) \/ \E st : GoesOn(s, r, st))
      BY <3>1, <3>2, FoundForm
    <3> QED BY <1>2, <1>3, <1>4, <1>5, <3>3
  <2>2. CASE KeepObjects /\ (CallEnds(s) \/ GoesOn(s, NoValue, "byTags"))
    BY <1>2, <1>3, <1>4, <2>2
  <2> QED BY <1>a, <2>1, <2>2, LookupForm
<1>b. CASE EnsureStart(s) \/ DeleteStart(s)
  BY <1>1, <1>b DEF EnsureStart, DeleteStart, CallBegins, KeepsOthers
<1>c. CASE Patch(s) \/ PatchFails(s)
  <2>1. \A t \in Services \ {s} : object'[t] = object[t] /\ saved'[t] = saved[t]
    BY <1>1, <1>c DEF Patch, PatchFails
  <2>2. svcCall[s] # NoValue /\ svcCall[s].rule \in RuleRecords \cup {NoValue}
    BY <1>c, CallFacts DEF Patch, PatchFails, CallAt
  <2>3. CallEnds(s) \/ \E r, st : GoesOn(s, r, st)
    BY <1>c, <2>2, ManageForm DEF Patch, PatchFails
  <2>4. \A t \in Services \ {s} : svcCall'[t] = svcCall[t]
    BY <1>1, <1>3, <2>3 DEF ChangedAt
  <2> QED BY <2>1, <2>4 DEF KeepsOthers
<1>d. CASE RemoveRule(s)
  BY <1>1, <1>d DEF RemoveRule, CallEnds, KeepsOthers
<1>e. CASE CreateRule(s) \/ TagRule(s) \/ EnsureReturn(s)
  BY <1>1, <1>e DEF CreateRule, TagRule, EnsureReturn, CallEnds, CallGoesTo, KeepsOthers
<1>f. CASE RemoveLost(s) \/ CreateLost(s) \/ TagFails(s) \/ RequestFails(s)
  BY <1>1, <1>f DEF RemoveLost, CreateLost, TagFails, RequestFails, CallEnds, KeepsOthers
<1>g. CASE UserStepOf(s)
  BY <1>1, <1>g DEF UserStepOf, UserCreate, UserEditSpec, UserDelete, KeepRest, KeepsOthers
<1> QED BY <1>a, <1>b, <1>c, <1>d, <1>e, <1>f, <1>g DEF StepOf

\* A call that a step does not move stays in order.
LEMMA WaitingCall ==
  ASSUME TInv, RulesKept, NEW t \in Services, svcCall'[t] = svcCall[t], Present(t) => Present(t)'
  PROVE  CallOK(t)'
<1> SUFFICES ASSUME svcCall[t] # NoValue PROVE CallOK(t)'
  BY DEF CallOK
<1>1. CallOK(t)
  BY CallFacts
<1>2. ASSUME svcCall[t].rule # NoValue, NEW r \in csRules', r.id = svcCall[t].rule.id
      PROVE  SameRule(r, svcCall[t].rule)
  <2>1. r.id \in UsedIds
    BY <1>2 DEF UsedIds
  <2>2. PICK q \in csRules : SameRule(r, q)
    BY <2>1 DEF RulesKept
  <2>3. SameRule(q, svcCall[t].rule)
    BY <1>1, <1>2, <2>2 DEF CallOK, SameRule
  <2> QED BY <2>2, <2>3 DEF SameRule
<1> QED BY <1>1, <1>2 DEF CallOK

\* A call that goes on is in order.
LEMMA MovedCall ==
  ASSUME TInv, NEW s \in Services, svcCall[s] # NoValue, Present(s)',
         NEW r \in RuleRecords \cup {NoValue}, NEW st \in Steps, GoesOn(s, r, st),
         st \in {"patch", "create", "tag", "return"} => svcCall[s].op = "ensure",
         st \in {"byName", "byTags", "create"} => r = NoValue,
         st \in {"remove", "tag", "return"} => r # NoValue,
         r # NoValue => /\ r.project = svcCall[s].project
                        /\ \A q \in csRules' : q.id = r.id => SameRule(q, r)
  PROVE  CallOK(s)' /\ svcCall' \in [Services -> CallRecords \cup {NoValue}]
<1>1. svcCall[s] \in CallRecords /\ CallOK(s)
  BY CallFacts
<1> DEFINE c == With(svcCall[s], r, st)
<1>2. /\ c \in CallRecords /\ c.rule = r /\ c.step = st /\ c.op = svcCall[s].op
      /\ c.project = svcCall[s].project /\ c.spec = svcCall[s].spec
  BY <1>1, WithFacts
<1> HIDE DEF c
<1>3. svcCall' = [svcCall EXCEPT ![s] = c] /\ svcCall \in [Services -> CallRecords \cup {NoValue}]
  BY DEF GoesOn, TInv, CallsOK, c
<1>4. svcCall'[s] = c
  BY <1>3
<1>5. CallOK(s)'
  BY <1>1, <1>2, <1>4 DEF CallOK
<1> QED BY <1>2, <1>3, <1>5

\* A call that ends.
LEMMA EndedCall ==
  ASSUME TInv, NEW s \in Services, CallEnds(s)
  PROVE  CallOK(s)' /\ svcCall' \in [Services -> CallRecords \cup {NoValue}] /\ svcCall'[s] = NoValue
BY DEF CallEnds, CallOK, TInv, CallsOK

\* A call that begins.
LEMMA BegunCall ==
  ASSUME TInv, NEW s \in Services, Present(s), object' = object,
         NEW op \in {"ensure", "delete"}, NEW p \in ProjectOrNone, op = "ensure" => p \in Projects,
         CallBegins(s, op, p)
  PROVE  /\ CallOK(s)' /\ svcCall' \in [Services -> CallRecords \cup {NoValue}]
         /\ svcCall'[s] # NoValue /\ svcCall'[s].op = op /\ svcCall'[s].project = p
         /\ svcCall'[s].step = "byName" /\ svcCall'[s].rule = NoValue
<1> DEFINE c == [op |-> op, project |-> p, step |-> "byName", spec |-> object[s].spec,
                 status |-> object[s].status, rule |-> NoValue]
<1>1. /\ c.op = op /\ c.project = p /\ c.step = "byName" /\ c.spec = object[s].spec
      /\ c.rule = NoValue
  OBVIOUS
<1>2. object[s].spec \in AllSpecs /\ object[s].status \in AllNames \cup {NoValue}
  BY PresentFacts DEF Present, AllSpecs, ServiceObjects
<1>3. c \in CallRecords
  BY <1>2 DEF CallRecords
<1>4. svcCall' = [svcCall EXCEPT ![s] = c] /\ svcCall \in [Services -> CallRecords \cup {NoValue}]
  BY DEF CallBegins, TInv, CallsOK
<1> HIDE DEF c
<1>5. svcCall'[s] = c
  BY <1>4
<1>6. CallOK(s)'
  BY <1>1, <1>5 DEF CallOK, Present
<1> QED BY <1>1, <1>3, <1>4, <1>5, <1>6, NoValueAssumption

\* Where a call looks.
LEMMA ProjectFacts ==
  ASSUME TInv, NEW s \in Services
  PROVE  projectForMeta(s) \in ProjectOrNone /\ idsForService(s) \subseteq Projects
<1>1. object[s].label \in ProjectOrNone
  BY PresentFacts DEF ServiceObjects
<1> QED BY <1>1, ProjectAssumption DEF projectForMeta, idsForService, ProjectOrNone, TInv, CountsOK

\* What a lookup has found is in order.
LEMMA FoundRule ==
  ASSUME TInv, NEW s \in Services, NEW r \in RuleRecords, r # NoValue, LookedUp(s, r)
  PROVE  /\ r \in csRules /\ r.project = svcCall[s].project
         /\ \A q \in csRules : q.id = r.id => SameRule(q, r)
BY DEF LookedUp, ByName, ByTags, listIn, SameRule, TInv, RulesOK

\* The call of the service that takes a step stays in order.
LEMMA OwnCallStep ==
  ASSUME TInv, NEW s \in Services, StepOf(s), RulesKept
  PROVE  CallOK(s)' /\ svcCall' \in [Services -> CallRecords \cup {NoValue}]
<1> DEFINE Goal == CallOK(s)' /\ svcCall' \in [Services -> CallRecords \cup {NoValue}]
<1>1. CallEnds(s) => Goal
  BY EndedCall
<1>2. ASSUME svcCall[s] # NoValue, object' = object PROVE Present(s)'
  BY <1>2, CallFacts DEF Present
<1>a. CASE EnsureStart(s)
  <2>1. PICK p \in idsForService(s) : CallBegins(s, "ensure", p)
    BY <1>a DEF EnsureStart
  <2>2. Present(s) /\ object' = object /\ p \in Projects
    BY <1>a, PresentFacts, ProjectFacts DEF EnsureStart
  <2> QED BY <2>1, <2>2, BegunCall DEF ProjectOrNone
<1>b. CASE DeleteStart(s)
  BY <1>b, PresentFacts, ProjectFacts, BegunCall DEF DeleteStart
<1>c. CASE LookupByName(s) \/ LookupByTags(s)
  <2>1. svcCall[s] # NoValue /\ svcCall[s].rule = NoValue /\ csRules' = csRules
    BY <1>c, LookupForm
  <2>2. CASE GoesOn(s, NoValue, "byTags") /\ KeepObjects
    <3>1. Present(s)'
      BY <1>2, <2>1, <2>2 DEF KeepObjects
    <3> QED BY <2>1, <2>2, <3>1, MovedCall DEF Steps
  <2>3. CASE \E r \in RuleRecords \cup {NoValue} : LookedUp(s, r) /\ RuleFound(s, r)
    <3>1. PICK r \in RuleRecords \cup {NoValue} : LookedUp(s, r) /\ RuleFound(s, r)
      BY <2>3
    <3>2. r # NoValue => r.project = svcCall[s].project /\ \A q \in csRules' : q.id = r.id => SameRule(q, r)
      BY <2>1, <3>1, FoundRule
    <3>3. CASE CallEnds(s)
      BY <1>1, <3>3
    <3>4. CASE ~CallEnds(s)
      <4>1. PICK st \in Steps :
               /\ KeepObjects /\ GoesOn(s, r, st) /\ st \in {"patch", "create", "remove", "tag", "return"}
               /\ st # "remove" => svcCall[s].op = "ensure"
               /\ st = "create" => r = NoValue
               /\ st \in {"remove", "tag", "return"} => r # NoValue
        BY <2>1, <3>1, <3>4, FoundForm DEF Gone, Steps
      <4>2. Present(s)'
        BY <1>2, <2>1, <4>1 DEF KeepObjects
      <4> QED BY <2>1, <3>2, <4>1, <4>2, MovedCall
    <3> QED BY <3>3, <3>4
  <2> QED BY <1>1, <1>c, <2>2, <2>3, LookupForm
<1>d. CASE Patch(s)
  <2>1. /\ svcCall[s] # NoValue /\ svcCall[s].op = "ensure" /\ csRules' = csRules
        /\ Manage(s, svcCall[s].rule) /\ object' = [object EXCEPT ![s].label = svcCall[s].project]
    BY <1>d DEF Patch, CallAt
  <2>2. CallOK(s) /\ Present(s) /\ svcCall[s].rule \in RuleRecords \cup {NoValue}
    BY <2>1, CallFacts
  <2>3. Present(s)'
    <3>1. object'[s] = [object[s] EXCEPT !.label = svcCall[s].project]
      BY <2>1 DEF TInv, ObjectsOK
    <3>2. object'[s].spec = object[s].spec
      BY <3>1, PresentFacts DEF ServiceObjects
    <3> QED BY <2>2, <3>2 DEF Present
  <2>4. CASE ~CallEnds(s)
    <3>1. PICK st \in Steps : /\ GoesOn(s, svcCall[s].rule, st) /\ st \in {"create", "remove", "tag", "return"}
                              /\ st = "create" => svcCall[s].rule = NoValue
                              /\ st \in {"remove", "tag", "return"} => svcCall[s].rule # NoValue
      BY <2>1, <2>2, <2>4, ManageForm DEF Steps
    <3>2. svcCall[s].rule # NoValue =>
             /\ svcCall[s].rule.project = svcCall[s].project
             /\ \A q \in csRules' : q.id = svcCall[s].rule.id => SameRule(q, svcCall[s].rule)
      BY <2>1, <2>2 DEF CallOK
    <3> QED BY <2>1, <2>2, <2>3, <3>1, <3>2, MovedCall
  <2> QED BY <1>1, <2>4
<1>e. CASE RemoveRule(s)
  <2>1. CASE ~CallEnds(s)
    <3>1. /\ svcCall[s] # NoValue /\ svcCall[s].op = "ensure" /\ KeepObjects
          /\ svcCall' = [svcCall EXCEPT ![s].rule = NoValue, ![s].step = "create"]
      BY <1>e, <2>1, CallFacts DEF RemoveRule, KeepObjects
    <3>2. GoesOn(s, NoValue, "create")
      BY <3>1 DEF GoesOn, With, TInv, CallsOK
    <3>3. Present(s)'
      BY <1>2, <3>1 DEF KeepObjects
    <3> QED BY <3>1, <3>2, <3>3, MovedCall DEF Steps
  <2> QED BY <1>1, <2>1
<1>f. CASE CreateRule(s)
  <2>1. /\ svcCall[s] # NoValue /\ svcCall[s].op = "ensure" /\ object' = object
        /\ csRules' = csRules \cup {NewRule(s)}
        /\ svcCall' = [svcCall EXCEPT ![s].rule = NewRule(s), ![s].step = "tag"]
    BY <1>f DEF CreateRule, CallAt
  <2>2. NewRule(s) \in RuleRecords /\ NewRule(s).project = svcCall[s].project /\ NewRule(s) # NoValue
    BY <1>f, NewRuleFacts, NoValueAssumption DEF CreateRule
  <2>3. GoesOn(s, NewRule(s), "tag")
    BY <2>1 DEF GoesOn, With, TInv, CallsOK
  <2>4. \A q \in csRules' : q.id = NewRule(s).id => SameRule(q, NewRule(s))
    BY <2>1 DEF RulesKept, SameRule
  <2>5. Present(s)'
    BY <1>2, <2>1
  <2> QED BY <2>1, <2>2, <2>3, <2>4, <2>5, MovedCall DEF Steps
<1>g. CASE TagRule(s)
  <2>1. CASE ~CallEnds(s)
    <3>1. /\ svcCall[s] # NoValue /\ svcCall[s].op = "ensure" /\ svcCall[s].step = "tag"
          /\ object' = object /\ CallGoesTo(s, "return")
      BY <1>g, <2>1 DEF TagRule, CallAt
    <3>2. CallOK(s) /\ svcCall[s].rule # NoValue /\ svcCall[s].rule \in RuleRecords
      BY <3>1, CallFacts DEF CallOK
    <3>3. GoesOn(s, svcCall[s].rule, "return") /\ Present(s)'
      BY <1>2, <3>1, GoesToForm DEF Steps
    <3>4. \A r \in csRules' : r.id = svcCall[s].rule.id => SameRule(r, svcCall[s].rule)
      <4> SUFFICES ASSUME NEW r \in csRules', r.id = svcCall[s].rule.id
                   PROVE  SameRule(r, svcCall[s].rule)
        OBVIOUS
      <4>1. r.id \in UsedIds
        BY <3>1, <3>2 DEF UsedIds
      <4>2. PICK q \in csRules : SameRule(r, q)
        BY <4>1 DEF RulesKept
      <4>3. SameRule(q, svcCall[s].rule)
        BY <3>1, <3>2, <4>2 DEF CallOK, SameRule
      <4> QED BY <4>2, <4>3 DEF SameRule
    <3>5. svcCall[s].rule.project = svcCall[s].project
      BY <3>1, <3>2 DEF CallOK
    <3> QED BY <3>1, <3>2, <3>3, <3>4, <3>5, MovedCall DEF Steps
  <2> QED BY <1>1, <2>1
<1>h. CASE PatchFails(s) \/ RemoveLost(s) \/ CreateLost(s) \/ TagFails(s) \/ EnsureReturn(s) \/ RequestFails(s)
  BY <1>1, <1>h DEF PatchFails, RemoveLost, CreateLost, TagFails, EnsureReturn, RequestFails
<1> QED BY <1>a, <1>b, <1>c, <1>d, <1>e, <1>f, <1>g, <1>h DEF StepOf

\* The calls stay in order.
LEMMA CallsStep ==
  ASSUME TInv, [ServicesNext]_ServicesVars
  PROVE  CallsOK'
<1>0. RulesKept
  BY RulesStep
<1>1. ASSUME NEW s \in Services, StepOf(s) PROVE CallsOK'
  <2>1. CallOK(s)' /\ svcCall' \in [Services -> CallRecords \cup {NoValue}]
    BY <1>0, <1>1, OwnCallStep
  <2>2. ASSUME NEW t \in Services \ {s} PROVE CallOK(t)'
    <3>1. svcCall'[t] = svcCall[t] /\ object'[t] = object[t]
      BY <1>1, OthersKept DEF KeepsOthers
    <3> QED BY <1>0, <3>1, WaitingCall DEF Present
  <2> QED BY <2>1, <2>2 DEF CallsOK
<1>2. ASSUME NEW s \in Services, UserStepOf(s) PROVE CallsOK'
  <2>1. svcCall' = svcCall
    BY <1>2 DEF UserStepOf, UserCreate, UserEditSpec, UserDelete, KeepRest
  <2>2. ASSUME NEW t \in Services, Present(t) PROVE Present(t)'
    <3>1. CASE t # s
      BY <1>2, <2>2, <3>1, OthersKept DEF KeepsOthers, Present
    <3>2. CASE t = s
      <4>1. object[s] \in ServiceObjects /\ object[s] # NoService /\ object \in [Services -> ServiceObjects]
        BY <2>2, <3>2, PresentFacts DEF TInv, ObjectsOK
      <4>2. CASE UserEditSpec(s)
        <5>1. PICK c \in SpecsOf[s] : object' = [object EXCEPT ![s].spec = c]
          BY <4>2 DEF UserEditSpec
        <5>2. object'[s].spec = c
          BY <4>1, <5>1 DEF ServiceObjects
        <5> QED BY <3>2, <5>2 DEF Present
      <4>3. CASE UserDelete(s)
        <5>1. object'[s].spec = object[s].spec
          BY <4>1, <4>3 DEF UserDelete, ServiceObjects
        <5> QED BY <2>2, <3>2, <5>1 DEF Present
      <4> QED BY <1>2, <4>1, <4>2, <4>3 DEF UserStepOf, UserCreate
    <3> QED BY <3>1, <3>2
  <2>3. \A t \in Services : CallOK(t)'
    BY <1>0, <2>1, <2>2, WaitingCall
  <2> QED BY <2>1, <2>3 DEF CallsOK, TInv
<1>3. CASE Restart
  BY <1>3 DEF Restart, CallsOK, CallOK
<1>4. CASE NodesMove \/ UNCHANGED ServicesVars
  <2>1. svcCall' = svcCall /\ object' = object
    BY <1>4 DEF NodesMove, KeepRest, ServicesVars
  <2>2. \A t \in Services : CallOK(t)'
    BY <1>0, <2>1, WaitingCall DEF Present
  <2> QED BY <2>1, <2>2 DEF CallsOK, TInv
<1> QED BY <1>1, <1>2, <1>3, <1>4 DEF ServicesNext, StepOf, UserStepOf

\* The counters stay in their bounds.
LEMMA CountsStep ==
  ASSUME TInv, [ServicesNext]_ServicesVars
  PROVE  CountsOK'
<1>1. MaxCloudFaults \in Nat /\ MaxUserEdits \in Nat
  BY ServicesBoundAssumption
<1>2. svcFaults' = svcFaults \/ Fault => svcFaults' \in 0..MaxCloudFaults
  BY <1>1 DEF Fault, TInv, CountsOK
<1>3. svcEdits' = svcEdits \/ UserEdit => svcEdits' \in 0..MaxUserEdits
  BY <1>1 DEF UserEdit, TInv, CountsOK
<1>4. nodesIn \in SUBSET Projects \ {{}} /\ excused \subseteq Services
  BY DEF TInv, CountsOK
<1>5. ASSUME NEW s \in Services, StepOf(s) \/ UserStepOf(s)
      PROVE  /\ nodesIn' = nodesIn /\ (svcFaults' = svcFaults \/ Fault)
             /\ (svcEdits' = svcEdits \/ UserEdit) /\ (excused' = excused \/ excused' = excused \cup {s})
  <2>1. CASE LookupByName(s) \/ LookupByTags(s)
    <3>1. UNCHANGED <<svcFaults, nodesIn, svcEdits>>
      BY <2>1, LookupForm
    <3>2. excused' = excused \/ excused' = excused \cup {s}
      <4>1. CASE \E r \in RuleRecords \cup {NoValue} : RuleFound(s, r)
        <5>1. svcCall[s] # NoValue /\ svcCall[s].rule = NoValue
          BY <2>1, LookupForm
        <5> QED BY <4>1, <5>1, FoundForm
      <4> QED BY <2>1, <4>1, LookupForm
    <3> QED BY <3>1, <3>2
  <2>2. CASE \/ EnsureStart(s) \/ DeleteStart(s) \/ Patch(s) \/ PatchFails(s) \/ RemoveRule(s) \/ RemoveLost(s)
             \/ CreateRule(s) \/ CreateLost(s)
    BY <2>2 DEF EnsureStart, DeleteStart, Patch, PatchFails, RemoveRule, RemoveLost, CreateRule,
      CreateLost, KeepCluster, NoFault
  <2>3. CASE \/ TagRule(s) \/ TagFails(s) \/ EnsureReturn(s) \/ RequestFails(s) \/ UserStepOf(s)
    BY <2>3 DEF TagRule, TagFails, EnsureReturn, RequestFails, UserStepOf, UserCreate, UserEditSpec,
      UserDelete, KeepRest, KeepCluster, NoFault
  <2> QED BY <1>5, <2>1, <2>2, <2>3 DEF StepOf
<1>6. CASE Restart \/ NodesMove \/ UNCHANGED ServicesVars
  <2>1. nodesIn' \in SUBSET Projects \ {{}} /\ excused' = excused
    BY <1>4, <1>6 DEF Restart, NodesMove, KeepCluster, KeepRest, ServicesVars
  <2>2. (svcFaults' = svcFaults \/ Fault) /\ (svcEdits' = svcEdits \/ UserEdit)
    BY <1>6 DEF Restart, NodesMove, KeepCluster, KeepRest, ServicesVars
  <2>3. svcFaults' \in 0..MaxCloudFaults /\ svcEdits' \in 0..MaxUserEdits
    BY <1>2, <1>3, <2>2
  <2>4. excused' \subseteq Services
    BY <1>4, <2>1
  <2> QED BY <2>1, <2>3, <2>4 DEF CountsOK
<1>7. ASSUME NEW s \in Services, StepOf(s) \/ UserStepOf(s) PROVE CountsOK'
  BY <1>2, <1>3, <1>4, <1>5, <1>7 DEF CountsOK
<1> QED BY <1>6, <1>7 DEF ServicesNext, StepOf, UserStepOf

\* What the first state is like.
LEMMA InitTypes == ServicesInit => TInv
<1> SUFFICES ASSUME ServicesInit PROVE TInv
  OBVIOUS
<1>1. NoService \in ServiceObjects
  BY DEF NoService, ServiceObjects, ProjectOrNone
<1>2. ObjectsOK
  BY <1>1 DEF ServicesInit, ObjectsOK, ObjectOK, ProjectOrNone
<1>3. RulesOK /\ CallsOK
  BY DEF ServicesInit, RulesOK, CallsOK, CallOK
<1>4. CountsOK
  BY ServicesBoundAssumption DEF ServicesInit, CountsOK
<1> QED BY <1>2, <1>3, <1>4 DEF TInv

\* The types are an invariant, whatever names the services ask for.
THEOREM TypesInvariant == ServicesSpec => []TInv
<1>1. TInv /\ [ServicesNext]_ServicesVars => TInv'
  <2> SUFFICES ASSUME TInv, [ServicesNext]_ServicesVars PROVE TInv'
    OBVIOUS
  <2>1. RulesOK'
    BY RulesStep DEF RulesKept, RulesOK
  <2> QED BY <2>1, ObjectsStep, CallsStep, CountsStep DEF TInv
<1> QED BY <1>1, InitTypes, PTL DEF ServicesSpec

\* However the calls for several services interleave, fail and start again: a call works on
\* a rule of the project it has chosen, and no two rules share an id.
THEOREM ServicesTypeCorrect == ServicesSpec => []ServicesTypeOK
<1>1. TInv => ServicesTypeOK
  <2> SUFFICES ASSUME TInv PROVE ServicesTypeOK
    OBVIOUS
  <2>1. \A s \in Services : object[s] = NoService \/ object[s].spec \in SpecsOf[s]
    BY DEF TInv, ObjectsOK, ObjectOK, Present
  <2>2. \A s \in Services : svcCall[s] # NoValue =>
          /\ svcCall[s].op = "ensure" => svcCall[s].project \in Projects
          /\ svcCall[s].rule # NoValue => svcCall[s].rule.project = svcCall[s].project
    BY DEF TInv, CallsOK, CallOK
  <2> QED BY <2>1, <2>2 DEF TInv, ObjectsOK, RulesOK, CallsOK, CountsOK, ServicesTypeOK
<1> QED BY <1>1, TypesInvariant, PTL
-----------------------------------------------------------------------------
\* The first tags of a service.
LEMMA FirstTagsFacts ==
  ASSUME NEW s \in Services, NEW n \in 0..3
  PROVE  /\ DOMAIN FirstTags(s, n) = {TagKeys[i] : i \in 1..n}
         /\ \A i \in 1..3 : TagKeys[i] \in DOMAIN FirstTags(s, n) <=> i <= n
         /\ \A k \in DOMAIN FirstTags(s, n) : FirstTags(s, n)[k] = tagsForService(s)[k]
<1>1. /\ DOMAIN FirstTags(s, n) = {TagKeys[i] : i \in 1..n}
      /\ \A k \in DOMAIN FirstTags(s, n) : FirstTags(s, n)[k] = tagsForService(s)[k]
  BY DEF FirstTags
<1>2. \A i, j \in 1..3 : TagKeys[i] = TagKeys[j] => i = j
  BY KeyFacts
<1>3. \A i \in 1..3 : TagKeys[i] \in DOMAIN FirstTags(s, n) <=> i <= n
  <2> SUFFICES ASSUME NEW i \in 1..3 PROVE TagKeys[i] \in {TagKeys[j] : j \in 1..n} <=> i <= n
    BY <1>1
  <2>1. i <= n => TagKeys[i] \in {TagKeys[j] : j \in 1..n}
    OBVIOUS
  <2>2. ASSUME NEW j \in 1..n, TagKeys[i] = TagKeys[j] PROVE i <= n
    BY <1>2, <2>2
  <2> QED BY <2>1, <2>2
<1> QED BY <1>1, <1>3

\* All three tags are the tags of the service.
LEMMA AllTags ==
  ASSUME NEW s \in Services
  PROVE  FirstTags(s, 3) = tagsForService(s)
<1>1. {TagKeys[i] : i \in 1..3} = TagNames
  BY KeyFacts DEF TagNames
<1>2. DOMAIN tagsForService(s) = TagNames /\ tagsForService(s) = [k \in TagNames |-> tagsForService(s)[k]]
  BY KeyFacts DEF tagsForService
<1> QED BY <1>1, <1>2 DEF FirstTags

\* Two services differ in their tags.
LEMMA TagsTellApart ==
  ASSUME NEW s \in Services, NEW t \in Services,
         \A i \in 2..3 : tagsForService(s)[TagKeys[i]] = tagsForService(t)[TagKeys[i]]
  PROVE  s = t
<1>1. Meta[s].ns = Meta[t].ns /\ Meta[s].svc = Meta[t].svc
  BY KeyFacts DEF tagsForService
<1>2. Meta[s] \in [ns : STRING, svc : STRING] /\ Meta[t] \in [ns : STRING, svc : STRING]
  BY MetaAssumption
<1>3. Meta[s] = Meta[t]
  BY <1>1, <1>2
<1> QED BY <1>3, MetaAssumption

\* For a rule that has the first tags of some service, shouldManageLB's comparison of the
\* tags, with its optional one, and the filter matchAllTags both mean that the rule is owned.
LEMMA TagsDecide ==
  ASSUME NEW s \in Services, NEW t \in Services, NEW n \in 0..3, NEW r, r.tags = FirstTags(t, n),
         ManagedByTags(s, r) \/ matchAllTags(r, tagsForService(s)) \/ Owns(s, r)
  PROVE  s = t /\ n = 3 /\ Owns(s, r)
<1>1. DOMAIN tagsForService(s) = TagNames /\ \A i \in 1..3 : TagKeys[i] \in TagNames
  BY KeyFacts
<1>2. /\ \A i \in 1..3 : TagKeys[i] \in DOMAIN r.tags <=> i <= n
      /\ \A k \in DOMAIN r.tags : r.tags[k] = tagsForService(t)[k]
  BY FirstTagsFacts
<1>3. TagKeys[3] # TagKeys[2]
  BY KeyFacts
<1>4. TagKeys[3] \in DOMAIN r.tags
  BY <1>1, <1>3 DEF ManagedByTags, matchAllTags, Owns
<1>5. n = 3
  BY <1>2, <1>4
<1>6. \A i \in 2..3 : TagKeys[i] \in DOMAIN r.tags /\ r.tags[TagKeys[i]] = tagsForService(s)[TagKeys[i]]
  BY <1>1, <1>2, <1>5 DEF ManagedByTags, matchAllTags, Owns
<1>7. s = t
  BY <1>2, <1>6, TagsTellApart
<1> QED BY <1>5, <1>7, AllTags DEF Owns

\* More tags.
LEMMA TaggedTags ==
  ASSUME NEW s \in Services, NEW m \in 0..3, NEW n \in 1..3, NEW r \in RuleRecords, r.tags = FirstTags(s, m)
  PROVE  \E i \in 0..3 : TaggedRule(r, s, n).tags = FirstTags(s, i)
<1> DEFINE i == IF m < n THEN n ELSE m
           new == {TagKeys[j] : j \in 1..n} \cap DOMAIN tagsForService(s)
           T == [k \in DOMAIN r.tags \cup new |->
                    IF k \in DOMAIN r.tags THEN r.tags[k] ELSE tagsForService(s)[k]]
<1>1. TaggedRule(r, s, n).tags = T
  <2> HIDE DEF new, T
  <2>1. TaggedRule(r, s, n) = [r EXCEPT !.tags = T]
    BY DEF TaggedRule, new, T
  <2> QED BY <2>1 DEF RuleRecords
<1>2. new = {TagKeys[j] : j \in 1..n}
  BY KeyFacts
<1>3. DOMAIN r.tags = {TagKeys[j] : j \in 1..m} /\ \A k \in DOMAIN r.tags : r.tags[k] = tagsForService(s)[k]
  BY FirstTagsFacts
<1>4. DOMAIN r.tags \cup new = {TagKeys[j] : j \in 1..i}
  <2>1. ASSUME NEW k \in DOMAIN r.tags \cup new PROVE k \in {TagKeys[j] : j \in 1..i}
    BY <1>2, <1>3
  <2>2. ASSUME NEW j \in 1..i PROVE TagKeys[j] \in DOMAIN r.tags \cup new
    BY <1>2, <1>3
  <2> QED BY <2>1, <2>2
<1>5. T = [k \in {TagKeys[j] : j \in 1..i} |-> tagsForService(s)[k]]
  BY <1>3, <1>4
<1>6. i \in 0..3
  OBVIOUS
<1> QED BY <1>1, <1>5, <1>6 DEF FirstTags

\* A rule is named as some service asks for.
LEMMA NamedForSome ==
  ASSUME NEW r \in RuleRecords
  PROVE  \E u \in Services : r.name \in NamesOf(u)
BY DEF RuleRecords, AllNames, AllSpecs, NamesOf

\* A rule that a service owns, by any of the code's tests, has a name of that service.
LEMMA OwnIsNamed ==
  ASSUME TInv, TagsByName, NEW s \in Services, NEW r \in csRules,
         ManagedByTags(s, r) \/ matchAllTags(r, tagsForService(s)) \/ Owns(s, r)
  PROVE  Owns(s, r) /\ r.name \in NamesOf(s)
<1>1. PICK u \in Services : r.name \in NamesOf(u)
  BY NamedForSome DEF TInv, RulesOK
<1>2. PICK n \in 0..3 : r.tags = FirstTags(u, n)
  BY <1>1 DEF TagsByName
<1>3. s = u /\ Owns(s, r)
  BY <1>2, TagsDecide
<1> QED BY <1>1, <1>3

\* A rule with a name of a service is owned by no other.
LEMMA NamedIsOwn ==
  ASSUME TagsByName, NEW s \in Services, NEW t \in Services, NEW r \in csRules,
         r.name \in NamesOf(s), Owns(t, r)
  PROVE  s = t
<1>1. PICK n \in 0..3 : r.tags = FirstTags(s, n)
  BY DEF TagsByName
<1> QED BY <1>1, TagsDecide

\* The rule that a call has in hand, if it exists, has a name of its service.
LEMMA InHandFacts ==
  ASSUME TInv, InHandByName, NEW s \in Services, svcCall[s] # NoValue, svcCall[s].rule # NoValue,
         NEW r \in csRules, r.id = svcCall[s].rule.id
  PROVE  r.name \in NamesOf(s) /\ r.project = svcCall[s].project
<1>1. SameRule(r, svcCall[s].rule) /\ svcCall[s].rule.project = svcCall[s].project
  BY CallFacts DEF CallOK
<1> QED BY <1>1 DEF InHandByName, SameRule

\* The name in the spec of a call is a name of its service.
LEMMA AskedName ==
  ASSUME TInv, NEW s \in Services, svcCall[s] # NoValue
  PROVE  svcCall[s].spec.name \in NamesOf(s)
BY CallFacts DEF NamesOf

\* What a call has in hand still has a name of its service after a step.
LEMMA InHandStep ==
  ASSUME TInv, TagsByName, InHandByName, NEW s \in Services, StepOf(s)
  PROVE  InHandByName'
<1> DEFINE Fine == svcCall'[s] # NoValue /\ svcCall'[s].rule # NoValue => svcCall'[s].rule.name \in NamesOf(s)
<1>1. ASSUME Fine PROVE InHandByName'
  <2>1. ASSUME NEW t \in Services \ {s}, svcCall'[t] # NoValue, svcCall'[t].rule # NoValue
        PROVE  svcCall'[t].rule.name \in NamesOf(t)
    <3>1. svcCall'[t] = svcCall[t]
      BY OthersKept DEF KeepsOthers
    <3> QED BY <2>1, <3>1 DEF InHandByName
  <2> QED BY <1>1, <2>1 DEF InHandByName
<1>2. CallEnds(s) => Fine
  BY EndedCall
<1>3. ASSUME svcCall[s] # NoValue, NEW r \in RuleRecords \cup {NoValue}, NEW st \in Steps, GoesOn(s, r, st),
             r # NoValue => r.name \in NamesOf(s)
      PROVE  Fine
  <2>1. svcCall'[s] = With(svcCall[s], r, st)
    BY <1>3 DEF GoesOn, TInv, CallsOK
  <2>2. svcCall[s] \in CallRecords
    BY <1>3, CallFacts
  <2>3. With(svcCall[s], r, st).rule = r
    BY <2>2, WithFacts
  <2> QED BY <1>3, <2>1, <2>3
<1>a. CASE EnsureStart(s) \/ DeleteStart(s)
  <2>1. svcCall'[s].rule = NoValue
    <3>1. CASE EnsureStart(s)
      <4>1. PICK p \in idsForService(s) : CallBegins(s, "ensure", p)
        BY <3>1 DEF EnsureStart
      <4> QED BY <4>1 DEF CallBegins, TInv, CallsOK
    <3>2. CASE DeleteStart(s)
      BY <3>2 DEF DeleteStart, CallBegins, TInv, CallsOK
    <3> QED BY <1>a, <3>1, <3>2
  <2> QED BY <1>1, <2>1
<1>b. CASE LookupByName(s) \/ LookupByTags(s)
  <2>1. svcCall[s] # NoValue /\ svcCall[s].rule = NoValue
    BY <1>b, LookupForm
  <2>2. CASE GoesOn(s, NoValue, "byTags")
    BY <1>1, <1>3, <2>1, <2>2 DEF Steps
  <2>3. CASE \E r \in RuleRecords \cup {NoValue} : LookedUp(s, r) /\ RuleFound(s, r)
    <3>1. PICK r \in RuleRecords \cup {NoValue} : LookedUp(s, r) /\ RuleFound(s, r)
      BY <2>3
    <3>2. r # NoValue => r.name \in NamesOf(s)
      <4> SUFFICES ASSUME r # NoValue PROVE r.name \in NamesOf(s)
        OBVIOUS
      <4>1. r \in csRules
        BY <3>1, FoundRule
      <4>2. CASE r \in ByName(svcCall[s].project, svcCall[s].spec.name)
        BY <2>1, <4>2, AskedName DEF ByName
      <4>3. CASE r \in ByTags(svcCall[s].project, s)
        BY <4>1, <4>3, OwnIsNamed DEF ByTags
      <4> QED BY <3>1, <4>2, <4>3 DEF LookedUp
    <3>3. CallEnds(s) \/ \E st \in Steps : GoesOn(s, r, st)
      BY <2>1, <3>1, FoundForm DEF Gone, Steps
    <3> QED BY <1>1, <1>2, <1>3, <2>1, <3>2, <3>3
  <2> QED BY <1>1, <1>2, <1>b, <2>2, <2>3, LookupForm
<1>c. CASE Patch(s)
  <2>1. svcCall[s] # NoValue /\ Manage(s, svcCall[s].rule)
    BY <1>c DEF Patch, CallAt
  <2>2. svcCall[s].rule \in RuleRecords \cup {NoValue}
    BY <2>1, CallFacts
  <2>3. CallEnds(s) \/ \E st \in Steps : GoesOn(s, svcCall[s].rule, st)
    BY <2>1, <2>2, ManageForm DEF Steps
  <2>4. svcCall[s].rule # NoValue => svcCall[s].rule.name \in NamesOf(s)
    BY <2>1 DEF InHandByName
  <2> QED BY <1>1, <1>2, <1>3, <2>1, <2>2, <2>3, <2>4
<1>d. CASE RemoveRule(s)
  <2>1. CASE ~CallEnds(s)
    <3>1. svcCall[s] # NoValue /\ svcCall' = [svcCall EXCEPT ![s].rule = NoValue, ![s].step = "create"]
      BY <1>d, <2>1 DEF RemoveRule
    <3>2. GoesOn(s, NoValue, "create")
      BY <3>1 DEF GoesOn, With, TInv, CallsOK
    <3> QED BY <1>1, <1>3, <3>1, <3>2 DEF Steps
  <2> QED BY <1>1, <1>2, <2>1
<1>e. CASE CreateRule(s)
  <2>1. /\ svcCall[s] # NoValue /\ svcCall' = [svcCall EXCEPT ![s].rule = NewRule(s), ![s].step = "tag"]
    BY <1>e DEF CreateRule, CallAt
  <2>2. NewRule(s) \in RuleRecords /\ NewRule(s).name \in NamesOf(s)
    BY <1>e, <2>1, NewRuleFacts, AskedName DEF CreateRule
  <2>3. GoesOn(s, NewRule(s), "tag")
    BY <2>1 DEF GoesOn, With, TInv, CallsOK
  <2> QED BY <1>1, <1>3, <2>1, <2>2, <2>3 DEF Steps
<1>f. CASE TagRule(s)
  <2>1. CASE ~CallEnds(s)
    <3>1. svcCall[s] # NoValue /\ CallGoesTo(s, "return")
      BY <1>f, <2>1 DEF TagRule, CallAt
    <3>2. svcCall[s].rule \in RuleRecords \cup {NoValue} /\ GoesOn(s, svcCall[s].rule, "return")
      BY <3>1, CallFacts, GoesToForm DEF Steps
    <3>3. svcCall[s].rule # NoValue => svcCall[s].rule.name \in NamesOf(s)
      BY <3>1 DEF InHandByName
    <3> QED BY <1>1, <1>3, <3>1, <3>2, <3>3 DEF Steps
  <2> QED BY <1>1, <1>2, <2>1
<1>g. CASE PatchFails(s) \/ RemoveLost(s) \/ CreateLost(s) \/ TagFails(s) \/ EnsureReturn(s) \/ RequestFails(s)
  BY <1>1, <1>2, <1>g DEF PatchFails, RemoveLost, CreateLost, TagFails, EnsureReturn, RequestFails
<1> QED BY <1>a, <1>b, <1>c, <1>d, <1>e, <1>f, <1>g DEF StepOf

\* A call changes rules with a name of its service only, and tags them with its first tags.
LEMMA ChangedRules ==
  ASSUME TInv, TagsByName, InHandByName, NEW s \in Services, StepOf(s)
  PROVE  /\ \A r \in csRules \ csRules' : r.name \in NamesOf(s)
         /\ \A r \in csRules' \ csRules : r.name \in NamesOf(s) /\ \E n \in 0..3 : r.tags = FirstTags(s, n)
<1>1. CASE csRules' = csRules
  BY <1>1
<1>2. CASE RemoveRule(s) \/ RemoveLost(s)
  <2>1. /\ svcCall[s] # NoValue /\ svcCall[s].step = "remove"
        /\ csRules' = {r \in csRules : r.id # svcCall[s].rule.id}
    BY <1>2 DEF RemoveRule, RemoveLost
  <2>2. svcCall[s].rule # NoValue
    BY <2>1, CallFacts DEF CallOK
  <2> QED BY <2>1, <2>2, InHandFacts
<1>3. CASE CreateRule(s) \/ CreateLost(s)
  <2>1. /\ CallAt(s, "ensure", "create") /\ Ids \ UsedIds # {} /\ csRules' = csRules \cup {NewRule(s)}
        /\ svcCall[s] # NoValue
    BY <1>3 DEF CreateRule, CreateLost, CallAt
  <2>2. NewRule(s).name \in NamesOf(s)
    BY <2>1, NewRuleFacts, AskedName
  <2>3. NewRule(s).tags = FirstTags(s, 0)
    <3>1. NewRule(s).tags = [k \in {} |-> NoValue]
      BY DEF NewRule
    <3>2. {TagKeys[i] : i \in 1..0} = {}
      OBVIOUS
    <3>3. [k \in {} |-> NoValue] = [k \in {} |-> tagsForService(s)[k]]
      OBVIOUS
    <3> QED BY <3>1, <3>2, <3>3 DEF FirstTags
  <2> HIDE DEF NewRule
  <2> QED BY <2>1, <2>2, <2>3
<1>4. CASE (TagRule(s) \/ TagFails(s)) /\ csRules' # csRules
  <2>1. svcCall[s] # NoValue /\ svcCall[s].rule # NoValue
    BY <1>4, CallFacts DEF TagRule, TagFails, CallAt, CallOK
  <2>2. PICK n \in 1..3 : csRules' = (csRules \ {r \in csRules : r.id = svcCall[s].rule.id})
             \cup {TaggedRule(r, s, n) : r \in {r \in csRules : r.id = svcCall[s].rule.id}}
    BY <1>4 DEF TagRule, TagFails
  <2>3. \A r \in csRules \ csRules' : r.name \in NamesOf(s)
    BY <2>1, <2>2, InHandFacts
  <2>4. ASSUME NEW r \in csRules' \ csRules
        PROVE  r.name \in NamesOf(s) /\ \E i \in 0..3 : r.tags = FirstTags(s, i)
    <3>1. PICK q \in csRules : q.id = svcCall[s].rule.id /\ r = TaggedRule(q, s, n)
      BY <2>2
    <3>2. q.name \in NamesOf(s) /\ q \in RuleRecords
      BY <2>1, <3>1, InHandFacts DEF TInv, RulesOK
    <3>3. PICK m \in 0..3 : q.tags = FirstTags(s, m)
      BY <3>2 DEF TagsByName
    <3>4. r.name = q.name
      BY <3>1, <3>2, TaggedFacts DEF SameRule
    <3>5. \E i \in 0..3 : r.tags = FirstTags(s, i)
      BY <3>1, <3>2, <3>3, TaggedTags
    <3> QED BY <3>2, <3>4, <3>5
  <2> QED BY <2>3, <2>4
<1>5. CASE LookupByName(s) \/ LookupByTags(s)
  BY <1>1, <1>5, LookupForm
<1>6. CASE EnsureStart(s) \/ DeleteStart(s) \/ Patch(s) \/ PatchFails(s) \/ EnsureReturn(s) \/ RequestFails(s)
  BY <1>1, <1>6 DEF EnsureStart, DeleteStart, Patch, PatchFails, EnsureReturn, RequestFails
<1> QED BY <1>1, <1>2, <1>3, <1>4, <1>5, <1>6 DEF StepOf

\* With distinct names, tags and names go together after a step, too.
LEMMA TagsStep ==
  ASSUME DistinctNames, TInv, TagsByName, InHandByName, NEW s \in Services, StepOf(s)
  PROVE  TagsByName'
<1> SUFFICES ASSUME NEW t \in Services, NEW r \in csRules', r.name \in NamesOf(t)
             PROVE  \E n \in 0..3 : r.tags = FirstTags(t, n)
  BY DEF TagsByName, NamesOf, FirstTags
<1>1. CASE r \in csRules
  BY <1>1 DEF TagsByName
<1>2. CASE r \notin csRules
  <2>1. r.name \in NamesOf(s) /\ \E n \in 0..3 : r.tags = FirstTags(s, n)
    BY <1>2, ChangedRules
  <2>2. s = t
    BY <2>1 DEF DistinctNames, NamesOf
  <2> QED BY <2>1, <2>2
<1> QED BY <1>1, <1>2

\* The rules of the other services stay as they are.
LEMMA OthersOwn ==
  ASSUME TInv, TagsByName, InHandByName, NEW s \in Services, StepOf(s), NEW t \in Services \ {s}
  PROVE  Own(t)' = Own(t)
<1>1. ASSUME NEW r \in csRules \ csRules' PROVE ~Owns(t, r)
  <2>1. r.name \in NamesOf(s)
    BY ChangedRules
  <2> QED BY <2>1, NamedIsOwn
<1>2. ASSUME NEW r \in csRules' \ csRules PROVE ~Owns(t, r)
  <2>1. PICK n \in 0..3 : r.tags = FirstTags(s, n)
    BY ChangedRules
  <2> QED BY <2>1, TagsDecide
<1>3. \A r : r \in Own(t)' <=> r \in csRules' /\ Owns(t, r)
  BY DEF Own, Owns
<1>4. \A r : r \in Own(t) <=> r \in csRules /\ Owns(t, r)
  BY DEF Own
<1> QED BY <1>1, <1>2, <1>3, <1>4

\* What a step does not touch stays located.
LEMMA LocatedKept ==
  ASSUME NEW t \in Services, Located(t), object'[t] = object[t], saved'[t] = saved[t],
         svcCall'[t] = svcCall[t], Own(t)' = Own(t), t \in excused => t \in excused'
  PROVE  Located(t)'
BY DEF Located, OwnAt, KnownTo, Present
-----------------------------------------------------------------------------
\* A service without a label has no tagged rule, and one whose calls find none in their
\* project has none anywhere.
LEMMA NothingElsewhere ==
  ASSUME TInv, NEW s \in Services, OwnAt(s)
  PROVE  /\ object[s].label = NoValue => Own(s) = {}
         /\ \A r \in Own(s) : object[s].label = r.project /\ r.project # NoValue /\ r \in ByTags(r.project, s)
         /\ svcCall[s] # NoValue /\ KnownTo(s) /\ ByTags(svcCall[s].project, s) = {} => Own(s) = {}
<1>1. ASSUME NEW r \in Own(s)
      PROVE  object[s].label = r.project /\ r.project # NoValue /\ r \in ByTags(r.project, s)
  <2>1. r \in csRules /\ r \in RuleRecords /\ Owns(s, r) /\ object[s].label = r.project
    BY <1>1 DEF Own, OwnAt, TInv, RulesOK
  <2>2. r.project # NoValue
    BY <2>1, ProjectAssumption DEF RuleRecords
  <2>3. matchAllTags(r, tagsForService(s))
    BY <2>1 DEF matchAllTags, Owns
  <2> QED BY <2>1, <2>2, <2>3 DEF ByTags, listIn
<1> QED BY <1>1 DEF KnownTo

\* The tagged rules stay where they are if the rules and the label do.
LEMMA OwnKept ==
  ASSUME NEW s \in Services, OwnAt(s), csRules' = csRules, object'[s].label = object[s].label,
         saved'[s] = saved[s], Present(s) => Present(s)'
  PROVE  OwnAt(s)' /\ Own(s)' = Own(s)
BY DEF OwnAt, Own, Owns, tagsForService

\* A call that goes on, as it is afterwards.
LEMMA GoneOn ==
  ASSUME TInv, NEW s \in Services, svcCall[s] # NoValue, NEW r \in RuleRecords \cup {NoValue},
         NEW st \in Steps, GoesOn(s, r, st)
  PROVE  /\ svcCall'[s] # NoValue /\ svcCall'[s].rule = r /\ svcCall'[s].step = st
         /\ svcCall'[s].op = svcCall[s].op /\ svcCall'[s].project = svcCall[s].project
<1>1. svcCall'[s] = With(svcCall[s], r, st)
  BY DEF GoesOn, TInv, CallsOK
<1>2. svcCall[s] \in CallRecords
  BY CallFacts
<1> QED BY <1>1, <1>2, WithFacts

\* The lookups: what is found with the tags, or may be taken over because nothing has them,
\* is all there is.
LEMMA LookupLocates ==
  ASSUME TInv, TagsByName, NEW s \in Services, Located(s), LookupByName(s) \/ LookupByTags(s)
  PROVE  Located(s)'
<1> SUFFICES ASSUME s \notin excused' PROVE OwnAt(s)' /\ KnownTo(s)'
  BY DEF Located
<1>1. svcCall[s] # NoValue /\ svcCall[s].rule = NoValue /\ csRules' = csRules
  BY LookupForm
<1>2. s \notin excused
  <2>1. CASE \E r \in RuleRecords \cup {NoValue} : RuleFound(s, r)
    BY <1>1, <2>1, FoundForm
  <2> QED BY <2>1, LookupForm
<1>3. OwnAt(s) /\ KnownTo(s)
  BY <1>2 DEF Located
<1>4. ASSUME KeepObjects PROVE OwnAt(s)' /\ Own(s)' = Own(s) /\ object'[s] = object[s]
  BY <1>1, <1>3, <1>4, OwnKept DEF KeepObjects, Present
<1>5. ASSUME KeepObjects, CallEnds(s) PROVE OwnAt(s)' /\ KnownTo(s)'
  BY <1>4, <1>5, EndedCall DEF KnownTo
<1>6. ASSUME KeepObjects, GoesOn(s, NoValue, "byTags") PROVE OwnAt(s)' /\ KnownTo(s)'
  <2>1. /\ svcCall'[s].step = "byTags" /\ svcCall'[s].project = svcCall[s].project
    BY <1>1, <1>6, GoneOn DEF Steps
  <2> QED BY <1>1, <1>3, <1>4, <1>6, <2>1 DEF KnownTo
<1>7. ASSUME NEW r \in RuleRecords \cup {NoValue}, LookedUp(s, r), RuleFound(s, r)
      PROVE  OwnAt(s)' /\ KnownTo(s)'
  <2>1. r = NoValue => Own(s) = {}
    <3>1. r = NoValue => r \notin csRules
      BY NoValueAssumption DEF TInv, RulesOK
    <3>2. r = NoValue => ByTags(svcCall[s].project, s) = {}
      BY <1>7, <3>1 DEF LookedUp, ByName, ByTags, listIn
    <3> QED BY <1>1, <1>3, <3>2, NothingElsewhere
  <2>2. CASE Gone(s) /\ (r = NoValue \/ excused' = excused \cup {s})
    <3>1. r = NoValue
      BY <2>2
    <3>2. Own(s)' = {}
      BY <1>1, <2>1, <3>1 DEF Own, Owns, tagsForService
    <3>3. object'[s] = NoService /\ saved'[s] = NoValue /\ svcCall'[s] = NoValue
      BY <2>2, EndedCall DEF Gone, TInv, ObjectsOK
    <3>4. object'[s].label = NoValue
      BY <3>3 DEF NoService
    <3> QED BY <3>2, <3>3, <3>4 DEF OwnAt, KnownTo
  <2>3. CASE ~CallEnds(s)
    <3>1. /\ KeepObjects /\ (excused' = IF TakesOver(s, r, svcCall[s]) THEN excused \cup {s} ELSE excused)
          /\ \/ svcCall[s].op = "ensure" /\ needsPatch(s) /\ GoesOn(s, r, "patch")
             \/ svcCall[s].op = "ensure" /\ ~needsPatch(s) /\ r = NoValue /\ GoesOn(s, r, "create")
             \/ /\ svcCall[s].op = "ensure" => ~needsPatch(s)
                /\ r # NoValue /\ shouldManageLB(s, r, svcCall[s])
                /\ \E st \in {"remove", "tag", "return"} :
                      GoesOn(s, r, st) /\ (st # "remove" => svcCall[s].op = "ensure")
      BY <1>1, <1>7, <2>3, FoundForm DEF Gone
    <3>2. OwnAt(s)' /\ Own(s)' = Own(s) /\ object'[s] = object[s]
      BY <1>4, <3>1
    <3>3. CASE svcCall[s].op = "ensure" /\ needsPatch(s) /\ GoesOn(s, r, "patch")
      <4>1. svcCall'[s].step = "patch" /\ svcCall'[s].project = svcCall[s].project
        BY <1>1, <3>3, GoneOn DEF Steps
      <4> QED BY <3>2, <3>3, <4>1 DEF KnownTo, needsPatch
    <3>4. CASE svcCall[s].op = "ensure" /\ ~needsPatch(s) /\ r = NoValue /\ GoesOn(s, r, "create")
      <4>1. svcCall'[s].step = "create" /\ svcCall'[s].project = svcCall[s].project
        BY <1>1, <3>4, GoneOn DEF Steps
      <4>2. object[s].label = svcCall[s].project
        BY <1>1, <1>3, <3>4 DEF KnownTo, needsPatch
      <4> QED BY <2>1, <3>2, <3>4, <4>1, <4>2 DEF KnownTo
    <3>5. CASE /\ svcCall[s].op = "ensure" => ~needsPatch(s)
               /\ r # NoValue /\ shouldManageLB(s, r, svcCall[s])
               /\ \E st \in {"remove", "tag", "return"} : GoesOn(s, r, st)
      <4>1. PICK st \in {"remove", "tag", "return"} : GoesOn(s, r, st)
        BY <3>5
      <4>2. /\ svcCall'[s].step = st /\ svcCall'[s].project = svcCall[s].project
            /\ svcCall'[s].rule = r /\ svcCall'[s].op = svcCall[s].op
        BY <1>1, <4>1, GoneOn DEF Steps
      <4>3. object[s].label \in {NoValue, svcCall[s].project}
        BY <1>1, <1>3 DEF KnownTo
      <4>4. svcCall[s].op = "ensure" => object[s].label = svcCall[s].project
        BY <3>5, <4>3 DEF needsPatch
      <4>5. \A q \in Own(s) : q = r
        <5>1. ~TakesOver(s, r, svcCall[s])
          BY <3>1
        <5>2. ManagedByTags(s, r) \/ ByTags(svcCall[s].project, s) = {}
          BY <3>5, <5>1 DEF TakesOver, shouldManageLB
        <5>3. r \in csRules
          BY <1>7, <3>5, FoundRule
        <5>4. ManagedByTags(s, r) => r \in Own(s)
          BY <5>3, OwnIsNamed DEF Own
        <5> QED BY <1>1, <1>3, <5>2, <5>4, NothingElsewhere DEF OwnAt
      <4> QED BY <3>2, <3>5, <4>2, <4>3, <4>4, <4>5 DEF KnownTo
    <3> QED BY <3>1, <3>2, <3>3, <3>4, <3>5
  <2>4. CASE CallEnds(s) /\ KeepObjects
    BY <1>5, <2>4
  <2> QED BY <1>1, <1>7, <2>2, <2>3, <2>4, FoundForm
<1> QED BY <1>5, <1>6, <1>7, LookupForm

\* A call that ends knows nothing any more.
LEMMA EndKnows ==
  ASSUME TInv, NEW s \in Services, CallEnds(s)
  PROVE  KnownTo(s)'
BY EndedCall DEF KnownTo

\* The start of a call, in the project of the label if there is one.
LEMMA StartLocates ==
  ASSUME TInv, NEW s \in Services, Located(s), EnsureStart(s) \/ DeleteStart(s)
  PROVE  Located(s)'
<1> SUFFICES ASSUME s \notin excused' PROVE OwnAt(s)' /\ KnownTo(s)'
  BY DEF Located
<1>1. excused' = excused /\ csRules' = csRules /\ object' = object /\ saved' = saved
  BY DEF EnsureStart, DeleteStart, NoFault
<1>2. OwnAt(s)'
  BY <1>1, OwnKept DEF Located, Present
<1>3. Present(s)
  BY PresentFacts DEF EnsureStart, DeleteStart
<1>4. PICK op \in {"ensure", "delete"}, p \in ProjectOrNone :
         /\ CallBegins(s, op, p) /\ (op = "ensure" => p \in Projects)
         /\ object[s].label \in {NoValue, p}
  <2>1. CASE EnsureStart(s)
    <3>1. PICK p \in idsForService(s) : CallBegins(s, "ensure", p)
      BY <2>1 DEF EnsureStart
    <3>2. p \in Projects /\ projectForMeta(s) \in {NoValue, p}
      BY ProjectFacts DEF idsForService
    <3>3. object[s].label \in {NoValue, p}
      BY <3>2 DEF projectForMeta
    <3> QED BY <3>1, <3>2, <3>3 DEF ProjectOrNone
  <2>2. CASE DeleteStart(s)
    <3>1. CallBegins(s, "delete", projectForMeta(s)) /\ projectForMeta(s) \in ProjectOrNone
      BY <2>2, ProjectFacts DEF DeleteStart
    <3>2. object[s].label \in {NoValue, projectForMeta(s)}
      BY DEF projectForMeta
    <3> QED BY <3>1, <3>2
  <2> QED BY <2>1, <2>2
<1>5. svcCall'[s].project = p /\ svcCall'[s].step = "byName"
  BY <1>1, <1>3, <1>4, BegunCall
<1> QED BY <1>1, <1>2, <1>4, <1>5 DEF KnownTo

\* The label is written where no rule is yet.
LEMMA PatchLocates ==
  ASSUME TInv, NEW s \in Services, Located(s), Patch(s)
  PROVE  Located(s)'
<1> SUFFICES ASSUME s \notin excused' PROVE OwnAt(s)' /\ KnownTo(s)'
  BY DEF Located
<1>1. /\ excused' = excused /\ csRules' = csRules /\ Manage(s, svcCall[s].rule)
      /\ svcCall[s] # NoValue /\ svcCall[s].step = "patch" /\ svcCall[s].op = "ensure"
      /\ object' = [object EXCEPT ![s].label = svcCall[s].project]
      /\ saved' = [saved EXCEPT ![s] = svcCall[s].project]
  BY DEF Patch, CallAt, NoFault
<1>2. Own(s) = {}
  BY <1>1, NothingElsewhere DEF Located, KnownTo
<1>3. Own(s)' = {}
  BY <1>1, <1>2 DEF Own, Owns, tagsForService
<1>4. object'[s].label = svcCall[s].project /\ saved'[s] = svcCall[s].project
  BY <1>1 DEF TInv, ObjectsOK, ServiceObjects
<1>5. OwnAt(s)'
  BY <1>3, <1>4 DEF OwnAt
<1>6. CASE ~CallEnds(s)
  <2>1. svcCall[s].rule \in RuleRecords \cup {NoValue}
    BY <1>1, CallFacts
  <2>2. PICK st \in {"create", "remove", "tag", "return"} : GoesOn(s, svcCall[s].rule, st)
    BY <1>1, <1>6, <2>1, ManageForm
  <2>3. svcCall'[s].step = st /\ svcCall'[s].project = svcCall[s].project
    BY <1>1, <2>1, <2>2, GoneOn DEF Steps
  <2> QED BY <1>3, <1>4, <1>5, <2>3 DEF KnownTo
<1> QED BY <1>5, <1>6, EndKnows

\* The rule that is removed was the only one.
LEMMA RemoveLocates ==
  ASSUME TInv, NEW s \in Services, Located(s), RemoveRule(s) \/ RemoveLost(s)
  PROVE  Located(s)'
<1> SUFFICES ASSUME s \notin excused' PROVE OwnAt(s)' /\ KnownTo(s)'
  BY DEF Located
<1>1. /\ excused' = excused /\ svcCall[s] # NoValue /\ svcCall[s].step = "remove"
      /\ csRules' = {r \in csRules : r.id # svcCall[s].rule.id}
  BY DEF RemoveRule, RemoveLost, NoFault
<1>2. OwnAt(s) /\ KnownTo(s)
  BY <1>1 DEF Located
<1>3. Own(s)' = {}
  BY <1>1, <1>2 DEF KnownTo, Own, Owns, tagsForService
<1>4. CASE KeepObjects
  <2>1. OwnAt(s)' /\ object'[s] = object[s]
    BY <1>2, <1>3, <1>4 DEF KeepObjects, OwnAt
  <2>2. CASE ~CallEnds(s)
    <3>1. svcCall[s].op = "ensure" /\ svcCall' = [svcCall EXCEPT ![s].rule = NoValue, ![s].step = "create"]
      BY <2>2 DEF RemoveRule, RemoveLost
    <3>2. GoesOn(s, NoValue, "create")
      BY <3>1 DEF GoesOn, With, TInv, CallsOK
    <3>3. svcCall'[s].step = "create" /\ svcCall'[s].project = svcCall[s].project
      BY <1>1, <3>2, GoneOn DEF Steps
    <3>4. object[s].label = svcCall[s].project
      BY <1>1, <1>2, <3>1 DEF KnownTo
    <3> QED BY <1>3, <2>1, <3>3, <3>4 DEF KnownTo
  <2> QED BY <2>1, <2>2, EndKnows
<1>5. CASE Gone(s)
  <2>1. object'[s].label = NoValue /\ saved'[s] = NoValue
    BY <1>5 DEF Gone, NoService, TInv, ObjectsOK
  <2> QED BY <1>3, <1>5, <2>1, EndKnows DEF OwnAt, Gone
<1> QED BY <1>4, <1>5 DEF RemoveRule, RemoveLost, KeepObjects, Gone

\* A rule is created where the service has none.
LEMMA CreateLocates ==
  ASSUME TInv, NEW s \in Services, Located(s), CreateRule(s) \/ CreateLost(s)
  PROVE  Located(s)'
<1> SUFFICES ASSUME s \notin excused' PROVE OwnAt(s)' /\ KnownTo(s)'
  BY DEF Located
<1>1. /\ excused' = excused /\ CallAt(s, "ensure", "create") /\ Ids \ UsedIds # {}
      /\ csRules' = csRules \cup {NewRule(s)} /\ object' = object /\ saved' = saved
      /\ svcCall[s] # NoValue /\ svcCall[s].step = "create" /\ svcCall[s].op = "ensure"
  BY DEF CreateRule, CreateLost, NoFault, CallAt
<1>2. OwnAt(s) /\ KnownTo(s)
  BY <1>1 DEF Located
<1>3. svcCall[s].rule = NoValue
  BY <1>1, CallFacts DEF CallOK
<1>4. Own(s) = {}
  BY <1>1, <1>2, <1>3 DEF KnownTo
<1>5. ~Owns(s, NewRule(s))
  BY <1>1, NewRuleFacts, KeyFacts DEF Owns
<1>6. Own(s)' = {}
  <2>1. \A r : r \in Own(s)' <=> r \in csRules' /\ Owns(s, r)
    BY DEF Own, Owns
  <2>2. \A r \in csRules : ~Owns(s, r)
    BY <1>4 DEF Own
  <2> QED BY <1>1, <1>5, <2>1, <2>2
<1>7. OwnAt(s)'
  BY <1>1, <1>2, <1>6 DEF OwnAt
<1>8. CASE CreateRule(s)
  <2>1. svcCall' = [svcCall EXCEPT ![s].rule = NewRule(s), ![s].step = "tag"]
    BY <1>8 DEF CreateRule
  <2>2. GoesOn(s, NewRule(s), "tag") /\ NewRule(s) \in RuleRecords
    BY <1>1, <2>1, NewRuleFacts DEF GoesOn, With, TInv, CallsOK
  <2>3. svcCall'[s].step = "tag" /\ svcCall'[s].project = svcCall[s].project
    BY <1>1, <2>2, GoneOn DEF Steps
  <2>4. object[s].label = svcCall[s].project
    BY <1>1, <1>2 DEF KnownTo
  <2> QED BY <1>1, <1>6, <1>7, <2>3, <2>4 DEF KnownTo
<1>9. CASE CreateLost(s)
  BY <1>7, <1>9, EndKnows DEF CreateLost
<1> QED BY <1>8, <1>9

\* Tags are added to the rule in hand, the only one that can carry them all.
LEMMA TagLocates ==
  ASSUME TInv, InHandByName, NEW s \in Services, Located(s), TagRule(s) \/ TagFails(s)
  PROVE  Located(s)'
<1> SUFFICES ASSUME s \notin excused' PROVE OwnAt(s)' /\ KnownTo(s)'
  BY DEF Located
<1>1. /\ excused' = excused /\ object' = object /\ saved' = saved
      /\ svcCall[s] # NoValue /\ svcCall[s].step = "tag" /\ svcCall[s].op = "ensure"
  BY DEF TagRule, TagFails, NoFault, CallAt
<1>2. OwnAt(s) /\ KnownTo(s)
  BY <1>1 DEF Located
<1>3. svcCall[s].rule # NoValue /\ Present(s) /\ svcCall[s].rule \in RuleRecords \cup {NoValue}
  BY <1>1, CallFacts DEF CallOK
<1>4. object[s].label = svcCall[s].project
  BY <1>1, <1>2 DEF KnownTo
<1>5. ASSUME NEW r \in Own(s)' PROVE r.id = svcCall[s].rule.id /\ r.project = svcCall[s].project /\ r \in csRules'
  <2>1. r \in csRules' /\ Owns(s, r)
    BY <1>5 DEF Own, Owns, tagsForService
  <2>2. CASE r \in csRules
    <3>1. r.id = svcCall[s].rule.id
      BY <1>1, <1>2, <2>1, <2>2 DEF KnownTo, Own
    <3> QED BY <1>1, <1>3, <2>1, <2>2, <3>1, InHandFacts
  <2>3. CASE r \notin csRules
    <3>1. PICK n \in 1..3 : csRules' = (csRules \ {q \in csRules : q.id = svcCall[s].rule.id})
             \cup {TaggedRule(q, s, n) : q \in {q \in csRules : q.id = svcCall[s].rule.id}}
      BY <2>1, <2>3 DEF TagRule, TagFails
    <3>2. PICK q \in csRules : q.id = svcCall[s].rule.id /\ r = TaggedRule(q, s, n)
      BY <2>1, <2>3, <3>1
    <3>3. q \in RuleRecords /\ q.project = svcCall[s].project
      BY <1>1, <1>3, <3>2, InHandFacts DEF TInv, RulesOK
    <3>4. SameRule(r, q)
      BY <3>2, <3>3, TaggedFacts
    <3> QED BY <2>1, <3>2, <3>3, <3>4 DEF SameRule
  <2> QED BY <2>2, <2>3
<1>6. \A r, q \in csRules' : r.id = q.id => r = q
  <2>1. [ServicesNext]_ServicesVars
    BY DEF ServicesNext
  <2> QED BY <2>1, RulesStep DEF RulesKept
<1>7. OwnAt(s)'
  <2>1. \A r, q \in Own(s)' : r = q
    BY <1>5, <1>6
  <2>2. object'[s].label = saved'[s] /\ Present(s)' /\ object'[s].label = svcCall[s].project
    BY <1>1, <1>2, <1>3, <1>4 DEF OwnAt, Present
  <2>3. \A r \in Own(s)' : object'[s].label = r.project
    BY <1>5, <2>2
  <2> QED BY <2>1, <2>2, <2>3 DEF OwnAt
<1>8. CASE ~CallEnds(s)
  <2>1. CallGoesTo(s, "return")
    BY <1>8 DEF TagRule, TagFails
  <2>2. GoesOn(s, svcCall[s].rule, "return")
    BY <1>1, <2>1, GoesToForm DEF Steps
  <2>3. svcCall'[s].step = "return" /\ svcCall'[s].project = svcCall[s].project
    BY <1>1, <1>3, <2>2, GoneOn DEF Steps
  <2> QED BY <1>1, <1>4, <1>7, <2>3 DEF KnownTo
<1> QED BY <1>7, <1>8, EndKnows

\* A call that returns, or a request that fails.
LEMMA EndLocates ==
  ASSUME TInv, NEW s \in Services, Located(s), EnsureReturn(s) \/ RequestFails(s) \/ PatchFails(s)
  PROVE  Located(s)'
<1>1. CASE PatchFails(s)
  BY <1>1 DEF PatchFails, Located
<1>2. CASE EnsureReturn(s) \/ RequestFails(s)
  <2> SUFFICES ASSUME s \notin excused' PROVE OwnAt(s)' /\ KnownTo(s)'
    BY DEF Located
  <2>1. excused' = excused /\ csRules' = csRules /\ saved' = saved /\ CallEnds(s)
    BY <1>2 DEF EnsureReturn, RequestFails, NoFault
  <2>2. object'[s].label = object[s].label /\ object'[s].spec = object[s].spec
    BY <1>2 DEF EnsureReturn, RequestFails, TInv, ObjectsOK, ServiceObjects
  <2>3. OwnAt(s)
    BY <2>1 DEF Located
  <2> QED BY <2>1, <2>2, <2>3, OwnKept, EndKnows DEF Present
<1> QED BY <1>1, <1>2

\* People change no label of a service that has rules or a call.
LEMMA UserLocates ==
  ASSUME TInv, NEW s \in Services, Located(s), UserStepOf(s)
  PROVE  Located(s)'
<1> SUFFICES ASSUME s \notin excused' PROVE OwnAt(s)' /\ KnownTo(s)'
  BY DEF Located
<1>1. excused' = excused /\ csRules' = csRules /\ svcCall' = svcCall
  BY DEF UserStepOf, UserCreate, UserEditSpec, UserDelete, KeepRest
<1>2. OwnAt(s) /\ KnownTo(s) /\ object[s] \in ServiceObjects /\ object \in [Services -> ServiceObjects]
  BY <1>1, PresentFacts DEF Located, TInv, ObjectsOK
<1>3. Own(s)' = Own(s)
  BY <1>1 DEF Own, Owns, tagsForService
<1>4. CASE UserCreate(s)
  <2>1. ~Present(s)
    BY <1>4, PresentFacts DEF UserCreate
  <2>2. Own(s) = {} /\ svcCall[s] = NoValue
    BY <1>2, <2>1, CallFacts DEF OwnAt
  <2>3. object'[s].label = saved'[s]
    BY <1>2, <1>4 DEF UserCreate, TInv, ObjectsOK
  <2> QED BY <1>1, <1>3, <2>2, <2>3 DEF OwnAt, KnownTo
<1>5. CASE UserEditSpec(s)
  <2>1. PICK c \in SpecsOf[s] : object' = [object EXCEPT ![s].spec = c]
    BY <1>5 DEF UserEditSpec
  <2>2. object'[s].label = object[s].label /\ object'[s].spec = c /\ saved' = saved
    BY <1>2, <1>5, <2>1 DEF UserEditSpec, ServiceObjects
  <2> QED BY <1>1, <1>2, <1>3, <2>2 DEF OwnAt, KnownTo, Present
<1>6. CASE UserDelete(s)
  <2>1. object'[s].label = object[s].label /\ object'[s].spec = object[s].spec /\ saved' = saved
    BY <1>2, <1>6 DEF UserDelete, ServiceObjects
  <2> QED BY <1>1, <1>2, <1>3, <2>1 DEF OwnAt, KnownTo, Present
<1> QED BY <1>4, <1>5, <1>6 DEF UserStepOf

\* A restart brings back the label as it was saved.
LEMMA RestartLocates ==
  ASSUME TInv, NEW s \in Services, Located(s), Restart
  PROVE  Located(s)'
<1> SUFFICES ASSUME s \notin excused' PROVE OwnAt(s)' /\ KnownTo(s)'
  BY DEF Located
<1>1. excused' = excused /\ csRules' = csRules /\ saved' = saved /\ svcCall'[s] = NoValue
  BY DEF Restart
<1>2. OwnAt(s) /\ object[s] \in ServiceObjects
  BY <1>1, PresentFacts DEF Located
<1>3. object'[s].label = saved[s] /\ object'[s].spec = object[s].spec
  BY <1>2 DEF Restart, ServiceObjects
<1>4. OwnAt(s)'
  BY <1>1, <1>2, <1>3, OwnKept DEF OwnAt, Present
<1> QED BY <1>1, <1>4 DEF KnownTo

\* No step makes an excuse void.
LEMMA ExcusesStay ==
  ASSUME TInv, NEW s \in Services, StepOf(s) \/ UserStepOf(s)
  PROVE  excused \subseteq excused'
<1>1. CASE LookupByName(s) \/ LookupByTags(s)
  <2>1. CASE \E r \in RuleRecords \cup {NoValue} : RuleFound(s, r)
    <3>1. svcCall[s] # NoValue /\ svcCall[s].rule = NoValue
      BY <1>1, LookupForm
    <3> QED BY <2>1, <3>1, FoundForm
  <2> QED BY <1>1, <2>1, LookupForm
<1>2. CASE ~(LookupByName(s) \/ LookupByTags(s))
  BY <1>2 DEF StepOf, UserStepOf, EnsureStart, DeleteStart, Patch, PatchFails, RemoveRule, RemoveLost,
    CreateRule, CreateLost, TagRule, TagFails, EnsureReturn, RequestFails, UserCreate, UserEditSpec,
    UserDelete, KeepRest, NoFault
<1> QED BY <1>1, <1>2

\* The invariant for distinct names is inductive.
LEMMA NamesStep ==
  ASSUME DistinctNames, NInv, [ServicesNext]_ServicesVars, TInv'
  PROVE  NInv'
<1>0. TInv /\ TagsByName /\ InHandByName /\ \A s \in Services : Located(s)
  BY DEF NInv
<1>1. ASSUME NEW s \in Services, StepOf(s) PROVE NInv'
  <2>1. Located(s)'
    BY <1>0, <1>1, LookupLocates, StartLocates, PatchLocates, RemoveLocates, CreateLocates, TagLocates,
      EndLocates DEF StepOf
  <2>2. ASSUME NEW t \in Services \ {s} PROVE Located(t)'
    <3>1. object'[t] = object[t] /\ saved'[t] = saved[t] /\ svcCall'[t] = svcCall[t]
      BY <1>0, <1>1, OthersKept DEF KeepsOthers
    <3>2. Own(t)' = Own(t) /\ (t \in excused => t \in excused')
      BY <1>0, <1>1, OthersOwn, ExcusesStay
    <3> QED BY <1>0, <3>1, <3>2, LocatedKept
  <2>3. TagsByName' /\ InHandByName'
    BY <1>0, <1>1, TagsStep, InHandStep
  <2> QED BY <2>1, <2>2, <2>3 DEF NInv
<1>2. ASSUME csRules' = csRules PROVE TagsByName' /\ \A t \in Services : Own(t)' = Own(t)
  BY <1>0, <1>2 DEF TagsByName, NamesOf, FirstTags, tagsForService, Own, Owns
<1>3. ASSUME NEW s \in Services, UserStepOf(s) PROVE NInv'
  <2>1. csRules' = csRules /\ svcCall' = svcCall
    BY <1>3 DEF UserStepOf, UserCreate, UserEditSpec, UserDelete, KeepRest
  <2>2. ASSUME NEW t \in Services \ {s} PROVE Located(t)'
    <3>1. object'[t] = object[t] /\ saved'[t] = saved[t] /\ svcCall'[t] = svcCall[t]
      BY <1>0, <1>3, OthersKept DEF KeepsOthers
    <3>2. Own(t)' = Own(t) /\ (t \in excused => t \in excused')
      BY <1>0, <1>2, <1>3, <2>1, ExcusesStay
    <3> QED BY <1>0, <3>1, <3>2, LocatedKept
  <2>3. InHandByName'
    BY <1>0, <2>1 DEF InHandByName
  <2> QED BY <1>0, <1>2, <1>3, <2>1, <2>2, <2>3, UserLocates DEF NInv
<1>4. CASE Restart
  <2>1. csRules' = csRules /\ svcCall' = [s \in Services |-> NoValue]
    BY <1>4 DEF Restart
  <2>2. InHandByName'
    BY <2>1 DEF InHandByName
  <2> QED BY <1>0, <1>2, <1>4, <2>1, <2>2, RestartLocates DEF NInv
<1>5. CASE NodesMove \/ UNCHANGED ServicesVars
  <2>1. /\ csRules' = csRules /\ svcCall' = svcCall /\ object' = object /\ saved' = saved
        /\ excused' = excused
    BY <1>5 DEF NodesMove, KeepRest, ServicesVars
  <2>2. InHandByName'
    BY <1>0, <2>1 DEF InHandByName
  <2>3. \A t \in Services : Located(t)'
    BY <1>0, <1>2, <2>1, LocatedKept
  <2> QED BY <1>2, <2>1, <2>2, <2>3 DEF NInv
<1> QED BY <1>1, <1>3, <1>4, <1>5 DEF ServicesNext, StepOf, UserStepOf

\* The invariant behind the three theorems below.
THEOREM NamesInvariant ==
  ASSUME DistinctNames
  PROVE  ServicesSpec => []NInv
<1>1. ServicesInit => NInv
  <2> SUFFICES ASSUME ServicesInit PROVE NInv
    OBVIOUS
  <2>1. TInv
    BY InitTypes
  <2>2. TagsByName /\ InHandByName
    BY DEF ServicesInit, TagsByName, InHandByName
  <2>3. ASSUME NEW s \in Services PROVE Located(s)
    <3>1. Own(s) = {} /\ svcCall[s] = NoValue /\ object[s] = NoService /\ saved[s] = NoValue
      BY DEF ServicesInit, Own
    <3>2. object[s].label = NoValue
      BY <3>1 DEF NoService
    <3> QED BY <3>1, <3>2 DEF Located, OwnAt, KnownTo
  <2> QED BY <2>1, <2>2, <2>3 DEF NInv
<1>2. NInv /\ TInv' /\ [ServicesNext]_ServicesVars => NInv'
  BY NamesStep
<1> QED BY <1>1, <1>2, TypesInvariant, PTL DEF ServicesSpec

\* Whatever nodes are registered when, and however often calls fail and start again: all
\* rules with the tags of a service are in one project, the one in its label.
THEOREM RulesInOneProject ==
  ASSUME DistinctNames
  PROVE  ServicesSpec => []OneProject
<1>1. NInv => OneProject
  <2> SUFFICES ASSUME NInv, NEW s \in Services \ excused, NEW r \in csRules, NEW q \in csRules,
                      Owns(s, r), Owns(s, q)
               PROVE  r.project = q.project
    BY DEF OneProject
  <2> QED BY DEF NInv, Located, OwnAt, Own
<1> QED BY <1>1, NamesInvariant, PTL

\* A call for one service never deletes or changes a rule with the tags of another, however
\* the calls interleave.
THEOREM CallsTouchOwnRules ==
  ASSUME DistinctNames
  PROVE  ServicesSpec => OnlyOwnRules
<1>1. ASSUME NInv, [ServicesNext]_ServicesVars, NEW s \in Services, svcCall'[s] # svcCall[s],
             NEW r \in csRules \ csRules', NEW t \in Services \ {s}
      PROVE  ~Owns(t, r)
  <2>0. TInv /\ TagsByName /\ InHandByName
    BY <1>1 DEF NInv
  <2>1. PICK u \in Services : StepOf(u)
    <3>1. ASSUME NEW u \in Services, UserStepOf(u) PROVE csRules' = csRules
      BY <3>1 DEF UserStepOf, UserCreate, UserEditSpec, UserDelete, KeepRest
    <3>2. Restart \/ NodesMove \/ UNCHANGED ServicesVars => csRules' = csRules
      BY DEF Restart, NodesMove, KeepRest, ServicesVars
    <3> QED BY <1>1, <3>1, <3>2 DEF ServicesNext, StepOf, UserStepOf
  <2>2. u = s
    BY <1>1, <2>0, <2>1, OthersKept DEF KeepsOthers
  <2>3. r.name \in NamesOf(s)
    BY <1>1, <2>0, <2>1, <2>2, ChangedRules
  <2> QED BY <1>1, <2>0, <2>3, NamedIsOwn
<1>2. NInv /\ [ServicesNext]_ServicesVars =>
        \A s \in Services : svcCall[s] # NoValue /\ svcCall'[s] # svcCall[s] =>
          \A r \in csRules \ csRules' : \A t \in Services \ {s} : ~Owns(t, r)
  BY <1>1
<1> QED BY <1>2, NamesInvariant, PTL DEF ServicesSpec, OnlyOwnRules

\* When EnsureLoadBalancerDeleted succeeds, no rule with the tags of the service is left in
\* any project.
THEOREM DeletionLeavesNothing ==
  ASSUME DistinctNames
  PROVE  ServicesSpec => DeletedLeavesNothing
<1>1. ASSUME NInv', NEW s \in Services \ excused', object'[s] = NoService, NEW r \in csRules'
      PROVE  ~Owns(s, r)
  <2>1. TInv' /\ OwnAt(s)'
    BY <1>1 DEF NInv, Located
  <2>2. ~Present(s)'
    <3>1. NoService.spec = NoValue
      BY DEF NoService
    <3> QED BY <1>1, <3>1, SpecsAssumption DEF Present
  <2>3. Own(s)' = {}
    BY <2>1, <2>2 DEF OwnAt
  <2> QED BY <1>1, <2>3 DEF Own, Owns, tagsForService
<1>2. NInv' => \A s \in Services \ excused' : object[s] # NoService /\ object'[s] = NoService =>
          \A r \in csRules' : ~Owns(s, r)
  BY <1>1
<1> QED BY <1>2, NamesInvariant, PTL DEF ServicesSpec, DeletedLeavesNothing
=============================================================================
