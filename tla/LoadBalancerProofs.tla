------------------------- MODULE LoadBalancerProofs -------------------------
(***************************************************************************)
(* The safety of EnsureLoadBalancer and EnsureLoadBalancerDeleted for any  *)
(* specs, addresses, points of failure and bounds.                         *)
(*                                                                         *)
(* A call knows CloudStack only through copies it has read or written      *)
(* (lb, old, svc).  The inductive invariant says, for each place in the    *)
(* call, what those copies still tell about CloudStack: the rule the call  *)
(* works on, the address it has settled on, and that the name it is about  *)
(* to create is free.                                                      *)
(***************************************************************************)
EXTENDS LoadBalancer, FiniteSetTheorems, TLAPS

\* Where a call has a rule in hand, and where it may have one.
WorksOnRule == {"changeDelete", "update", "tagRule", "recreate", "ensured", "deleteRule"}
MayHaveRule == WorksOnRule \cup {"changeIP", "check"}
\* Where EnsureLoadBalancer has settled on an address.
Settled == {"check", "update", "tagRule", "recreate", "create", "ensured"}

\* Rules are told apart by their names and by their ids.
OneByName == \A r, s \in rules : r.name = s.name => r = s
OneById == \A r, s \in rules : r.id = s.id => r = s

\* A call starts with empty hands, and counts tags only while it creates them.
Clean == /\ pc \in {"idle", "lookup", "findIP", "associate", "deleteLookup"} => lb.rule = None
         /\ pc \in {"idle", "lookup", "findIP", "associate", "deleteLookup"} => lb.ip = None
         /\ pc \in {"idle", "lookup", "deleteLookup"} => old = None
         /\ pc \notin {"tagIP", "rollback", "tagRule"} => todo = 1

\* A hand-made rule has no tags of the controller until the service has been published
\* under its name, and what the status says has been published.
HandMadeKept ==
    /\ status # None => status.hostname \in published
    /\ svc # None /\ svc.status # None => svc.status.hostname \in published
    /\ \A r \in rules : r.byHand /\ r.name \notin published => r.tags \subseteq {ignoreTag}

TagsBefore(n) == {TagOrder[i] : i \in 1..(n - 1)}

\* The rule in CloudStack of which lb.rule is a copy.
IsCopied(r) == /\ r.id = lb.rule.id /\ r.name = lb.rule.name /\ r.ports = lb.rule.ports
               /\ r.ip = lb.rule.ip /\ r.byHand = lb.rule.byHand
               /\ ignoreTag \notin r.tags /\ lb.rule.tags \subseteq r.tags
               /\ pc \in {"changeIP", "check", "update"} => r.algorithm = lb.rule.algorithm
               /\ pc \in {"tagRule", "ensured"} => r.algorithm = svc.spec.algorithm
               /\ pc = "tagRule" => TagsBefore(todo) \subseteq r.tags
               /\ pc = "ensured" => Tags \subseteq r.tags

\* The rule a call has in hand is one of the service's, or goes by a name it has been
\* published under, and is still there.
RuleInHand == /\ lb.rule # None => /\ pc \in MayHaveRule
                                   /\ lb.rule.byHand => lb.rule.name \in published
              /\ pc \in WorksOnRule => lb.rule # None
              /\ lb.rule # None => \E r \in rules : IsCopied(r)
              /\ pc \in {"update", "tagRule", "ensured"} =>
                    lb.rule.name = svc.spec.name /\ svc.spec.ports \in {Named, lb.rule.ports}

\* The name the service asks for is free, or taken by the rule in hand.
NameIsOurs == pc \in EnsurePCs \ {"lookup"} => \A r \in rules :
    r.name = svc.spec.name => lb.rule # None /\ r.id = lb.rule.id

\* The address a call has settled on, or is about to.
AddressInHand ==
    /\ pc \in Settled => /\ lb.ip # None /\ svc.spec.ip \in {None, lb.ip}
                         /\ lb.rule # None => lb.rule.ip = lb.ip
    /\ pc \in {"changeDelete", "changeRelease"} => lb.ip = svc.spec.ip /\ old # None
    /\ pc \in {"changeIP", "changeDelete", "changeRelease"} => svc.spec.ip # None
    /\ pc \in {"associate", "tagIP", "rollback"} => svc.spec.ip = None
    /\ pc \in {"changeIP", "tagIP", "rollback", "deleteRule", "deleteRelease"} => lb.ip # None

\* At most one address is completely tagged, and a call that is tagging one has no other.
TaggedOne == \A i, j \in TaggedIPs : i = j
IPsInOrder ==
    /\ TaggedOne
    /\ pc = "associate" => TaggedIPs = {}
    /\ pc \in {"tagIP", "rollback"} => TaggedIPs \subseteq {lb.ip}
    /\ pc = "tagIP" => Allocated(lb.ip) /\ TagsBefore(todo) \subseteq ips[lb.ip].tags

\* Every leaked address has cost two failures, and a rollback under way one more.
LeaksPaid == /\ IsFiniteSet(Leaked)
             /\ 2 * Cardinality(Leaked) + (IF pc = "rollback" THEN 1 ELSE 0) <= faults + lost
             /\ lost <= faults

\* While nobody has asked for an address, deleted the service or made a rule by one of its
\* published names: everything of the service that names an address names the tagged one.
OnTagged(r) == /\ ~r.byHand => r.ip \in TaggedIPs
               /\ r.byHand => r.name \notin published
Stable == ~moved =>
    /\ wanted /\ spec.ip = None /\ pc \notin DeletePCs
    /\ svc # None => svc.spec.ip = None
    /\ \A r \in rules : OnTagged(r)
    /\ status # None => status.ip \in TaggedIPs
    /\ svc # None /\ svc.status # None => svc.status.ip \in TaggedIPs
    /\ pc \in Settled => lb.ip \in TaggedIPs
    /\ pc \in {"associate", "tagIP", "rollback"} =>
          /\ status = None /\ svc.status = None /\ \A r \in rules : r.byHand

\* The inductive invariant.
IInv == /\ TypeOK /\ Clean /\ OneByName /\ OneById /\ HandMadeKept /\ RuleInHand /\ NameIsOurs
        /\ AddressInHand /\ IPsInOrder /\ LeaksPaid /\ Stable
-----------------------------------------------------------------------------
\* What the calls do to the rules, rule by rule: a change that keeps id, name, ports,
\* address and maker.
Moves == {m \in [Rules -> Rules] : \A r \in Rules :
             /\ m[r].id = r.id /\ m[r].name = r.name /\ m[r].ports = r.ports /\ m[r].ip = r.ip
             /\ m[r].byHand = r.byHand}
Moved(m) == {m[r] : r \in rules}

\* Such a change keeps rules apart.
LEMMA MovedForm ==
  ASSUME rules \in SUBSET Rules, OneByName, OneById, NEW m \in Moves, rules' = Moved(m)
  PROVE  /\ rules' \in SUBSET Rules /\ OneByName' /\ OneById'
         /\ \A r \in rules : m[r] \in rules'
         /\ \A s \in rules' : \E r \in rules : s = m[r]
<1>1. /\ \A r \in rules : m[r] \in rules'
      /\ \A s \in rules' : \E r \in rules : s = m[r]
  BY DEF Moved
<1>2. \A r \in rules : m[r] \in Rules /\ m[r].id = r.id /\ m[r].name = r.name
  BY DEF Moves
<1>3. rules' \in SUBSET Rules
  BY <1>1, <1>2
<1>4. OneByName'
  BY <1>1, <1>2 DEF OneByName
<1>5. OneById'
  BY <1>1, <1>2 DEF OneById
<1> QED BY <1>1, <1>3, <1>4, <1>5

\* createTags on a rule, and the same when m is what it does to each rule.
Tagging(m, id, tag) == \A r \in Rules :
    /\ m[r].algorithm = r.algorithm
    /\ m[r].tags = IF r.id = id THEN r.tags \cup {tag} ELSE r.tags
    /\ r.id # id => m[r] = r
LEMMA TaggedForm ==
  ASSUME rules \in SUBSET Rules, NEW id, NEW tag \in Tags \cup {ignoreTag}, TagARule(id, tag)
  PROVE  \E m \in Moves : rules' = Moved(m) /\ Tagging(m, id, tag)
<1> DEFINE m == [r \in Rules |-> IF r.id = id THEN [r EXCEPT !.tags = @ \cup {tag}] ELSE r]
<1>1. ASSUME NEW r \in Rules
      PROVE  LET s == [r EXCEPT !.tags = @ \cup {tag}]
             IN /\ s \in Rules /\ s.id = r.id /\ s.name = r.name /\ s.ports = r.ports
                /\ s.ip = r.ip /\ s.algorithm = r.algorithm /\ s.tags = r.tags \cup {tag}
                /\ s.byHand = r.byHand
  BY DEF Rules
<1>2. m \in Moves
  BY <1>1 DEF Moves
<1>3. Tagging(m, id, tag)
  BY <1>1 DEF Tagging
<1>4. rules' = Moved(m)
  BY DEF TagARule, ChangeRule, Moved
<1> QED BY <1>2, <1>3, <1>4

\* updateLoadBalancerRule
Rebalancing(m, id, a) == \A r \in Rules :
    /\ m[r].tags = r.tags
    /\ r.id = id => m[r].algorithm = a
    /\ r.id # id => m[r] = r
LEMMA UpdatedForm ==
  ASSUME rules \in SUBSET Rules, NEW id, NEW a \in {s.algorithm : s \in Specs},
         rules' = {IF r.id = id THEN [r EXCEPT !.algorithm = a] ELSE r : r \in rules}
  PROVE  \E m \in Moves : rules' = Moved(m) /\ Rebalancing(m, id, a)
<1> DEFINE m == [r \in Rules |-> IF r.id = id THEN [r EXCEPT !.algorithm = a] ELSE r]
<1>1. ASSUME NEW r \in Rules
      PROVE  LET s == [r EXCEPT !.algorithm = a]
             IN /\ s \in Rules /\ s.id = r.id /\ s.name = r.name /\ s.ports = r.ports
                /\ s.ip = r.ip /\ s.algorithm = a /\ s.tags = r.tags /\ s.byHand = r.byHand
  BY DEF Rules
<1>2. m \in Moves
  BY <1>1 DEF Moves
<1>3. Rebalancing(m, id, a)
  BY <1>1 DEF Rebalancing
<1>4. rules' = Moved(m)
  BY DEF Moved
<1> QED BY <1>2, <1>3, <1>4

\* A new rule gets an id of its own: the rules have different names, and there are more ids
\* than names.
LEMMA FreshId ==
  ASSUME rules \in SUBSET Rules, OneByName
  PROVE  FreeId \in RuleIds /\ \A r \in rules : r.id # FreeId
<1>1. SUFFICES ASSUME \A i \in RuleIds : \E r \in rules : r.id = i PROVE FALSE
  BY DEF FreeId, The
<1> DEFINE f == [i \in RuleIds |-> (CHOOSE r \in rules : r.id = i).name]
<1>2. \A i \in RuleIds : LET r == CHOOSE r \in rules : r.id = i IN r \in rules /\ r.id = i
  BY <1>1
<1>3. f \in [RuleIds -> Names]
  BY <1>2 DEF Rules
<1>4. PICK i, j \in RuleIds : i # j /\ f[i] = f[j]
  BY <1>3, IdAssumption
<1> QED BY <1>2, <1>4 DEF OneByName

\* The tags of a service, in the order of tagsForService.
LEMMA TagFacts ==
  /\ Len(TagOrder) = 3 /\ DOMAIN TagOrder = 1..3 /\ Tags # {}
  /\ \A n \in 1..3 : TagOrder[n] \in Tags /\ TagOrder[n] # ignoreTag
  /\ TagsBefore(1) = {}
  /\ \A n \in 1..2 : TagsBefore(n + 1) = TagsBefore(n) \cup {TagOrder[n]}
  /\ Tags = TagsBefore(3) \cup {TagOrder[3]} /\ ignoreTag \notin Tags
  /\ "cloudprovider" \in Tags \ {"kubernetes_namespace"}
<1>1. Len(TagOrder) = 3 /\ DOMAIN TagOrder = 1..3
  BY DEF TagOrder
<1>2. Tags = {"cloudprovider", "kubernetes_namespace", "kubernetes_service"}
  BY <1>1 DEF Tags, TagOrder
<1>3. /\ TagOrder[1] = "cloudprovider" /\ TagOrder[2] = "kubernetes_namespace"
      /\ TagOrder[3] = "kubernetes_service"
  BY DEF TagOrder
<1>4. \A n \in 1..3 : TagOrder[n] \in Tags /\ TagOrder[n] # ignoreTag
  BY <1>2, <1>3 DEF ignoreTag
<1>5. TagsBefore(1) = {} /\ TagsBefore(2) = {TagOrder[1]}
      /\ TagsBefore(3) = {TagOrder[1], TagOrder[2]}
  BY DEF TagsBefore
<1> QED BY <1>1, <1>2, <1>3, <1>4, <1>5 DEF ignoreTag
-----------------------------------------------------------------------------
\* The service a call was made with.
LEMMA InCall ==
  ASSUME TypeOK, pc # "idle"
  PROVE  /\ svc \in Calls /\ svc # None /\ svc.spec \in Specs /\ svc.status \in Statuses
         /\ svc.spec.ip \in UserIPs \cup {None} /\ svc.spec.ip \in IPs \cup {None}
         /\ svc.spec.name \in Names
         /\ svc.spec.algorithm \in {s.algorithm : s \in Specs}
         /\ svc.spec.ports \in {s.ports : s \in Specs}
<1>1. svc \in Calls /\ svc # None
  BY RecordAssumption DEF TypeOK
<1>2. svc.spec \in Specs /\ svc.status \in Statuses
  BY <1>1 DEF Calls
<1> QED BY <1>1, <1>2, SpecAssumption DEF Names, IPs

\* The rule createLoadBalancerRule makes.
LEMMA CreatedForm ==
  ASSUME TypeOK, OneByName, pc = "create", lb.ip \in IPs, ~BadPorts,
         NEW new, new = NewRule(FreeId, svc.spec, serviceToLBPorts, lb.ip, FALSE)
  PROVE  /\ new \in Rules /\ new # None /\ new.id = FreeId /\ new.name = svc.spec.name
         /\ svc.spec.ports \in {Named, new.ports} /\ new.algorithm = svc.spec.algorithm
         /\ new.ip = lb.ip /\ new.tags = {} /\ ~new.byHand
<1>1. serviceToLBPorts \in {s.ports : s \in Specs} \cup Targets
  BY InCall DEF TypeOK, BadPorts, serviceToLBPorts
<1>2. svc.spec.ports \in {Named, serviceToLBPorts}
  BY DEF serviceToLBPorts
<1>3. FreeId \in RuleIds
  BY FreshId DEF TypeOK
<1>4. /\ new.id = FreeId /\ new.name = svc.spec.name /\ new.ports = serviceToLBPorts
      /\ new.algorithm = svc.spec.algorithm /\ new.ip = lb.ip /\ new.tags = {}
      /\ new.byHand = FALSE
  BY DEF NewRule
<1>5. new \in Rules
  BY <1>1, <1>3, InCall DEF NewRule, Rules
<1> QED BY <1>2, <1>4, <1>5, RecordAssumption

\* A rule made by hand.
LEMMA HandMadeForm ==
  ASSUME TypeOK, OneByName, OperatorCreates
  PROVE  \E new \in Rules : /\ rules' = rules \cup {new} /\ new.id = FreeId
                            /\ new.byHand /\ new.tags = {}
                            /\ \A r \in rules : r.name # new.name
                            /\ moved' = (moved \/ new.name \in published)
<1>1. PICK s \in Specs, ip \in UserIPs :
          /\ ByName(s.name) = {}
          /\ rules' = rules \cup {NewRule(FreeId, s, s.ports, ip, TRUE)}
          /\ moved' = (moved \/ s.name \in published)
  BY DEF OperatorCreates
<1>2. FreeId \in RuleIds
  BY FreshId DEF TypeOK
<1>3. PICK new : new = NewRule(FreeId, s, s.ports, ip, TRUE)
  OBVIOUS
<1>4. new \in Rules /\ new.id = FreeId /\ new.name = s.name /\ new.byHand = TRUE /\ new.tags = {}
  BY <1>2, <1>3 DEF NewRule, Rules, Names, IPs
<1>5. \A r \in rules : r.name # s.name
  BY <1>1 DEF ByName
<1> QED BY <1>1, <1>3, <1>4, <1>5

\* What a call keeps for itself.
CallTypes == /\ pc \in EnsurePCs \cup DeletePCs \cup {"idle"}
             /\ svc \in Calls \cup {None} /\ (svc = None) = (pc = "idle")
             /\ lb \in [rule : Rules \cup {None}, ip : IPs \cup {None}]
             /\ old \in IPs \cup {None} /\ todo \in DOMAIN TagOrder

CallInv == CallTypes /\ Clean /\ AddressInHand

\* A call that returns, with an error or without, leaves nothing to be shown about it.
LEMMA ReturnForm == Return => CallInv' /\ pc' = "idle" /\ lb'.rule = None /\ svc' = None
BY TagFacts DEF Return, NoLB, CallInv, CallTypes, Clean, AddressInHand, EnsurePCs,
                Settled

\* What others do between two steps of a call does not touch what it keeps.
LEMMA CallUnchanged == CallInv /\ UNCHANGED callVars => CallInv'
BY DEF CallInv, CallTypes, Clean, AddressInHand, callVars

\* Every step of a call, and every error path, leaves its own variables in order.
LEMMA CallStep ==
  ASSUME IInv, [Next]_vars
  PROVE  CallInv'
<1> USE DEF CallInv
<1>1. CallInv /\ TypeOK
  BY DEF IInv, CallTypes, TypeOK
<1>2. pc # "idle" => svc.spec.ip \in IPs \cup {None} /\ svc # None /\ svc \in Calls
  BY <1>1, InCall
<1>3. lb.rule \in Rules \cup {None} /\ lb.ip \in IPs \cup {None}
  BY <1>1 DEF TypeOK
<1>4. \A r \in rules : r \in Rules /\ r # None /\ r.ip \in IPs
  BY <1>1, RecordAssumption DEF TypeOK, Rules
<1>5. ASSUME Return PROVE CallInv'
  BY <1>5, ReturnForm
<1>6. ASSUME UNCHANGED callVars PROVE CallInv'
  BY <1>1, <1>6, CallUnchanged
<1> HIDE DEF CallInv
<1>a. ASSUME EnsureStart \/ DeleteStart PROVE CallInv'
  <2>1. [spec |-> spec, status |-> status] \in Calls
    BY <1>1 DEF TypeOK, Calls
  <2> QED BY <1>1, <1>a, <2>1, RecordAssumption
      DEF EnsureStart, DeleteStart, CallInv, CallTypes, Clean, AddressInHand,
          EnsurePCs, DeletePCs, Settled
<1>b. ASSUME Lookup PROVE CallInv'
  <2>1. CASE Return
    BY <2>1, <1>5
  <2>2. CASE Goto("findIP") /\ UNCHANGED lb
    BY <1>1, <1>2, <1>b, <2>2
      DEF Lookup, Goto, CallInv, CallTypes, Clean, AddressInHand, EnsurePCs,
          DeletePCs, Settled
  <2>3. ASSUME NEW r \in rules, lb' = [rule |-> r, ip |-> r.ip], Goto(WithIP(r.ip))
        PROVE  CallInv'
    <3>1. lb' \in [rule : Rules \cup {None}, ip : IPs \cup {None}] /\ lb'.rule = r /\ lb'.ip = r.ip
      BY <1>4, <2>3
    <3>2. CallTypes' /\ Clean'
      BY <1>1, <1>2, <1>b, <2>3, <3>1
        DEF Lookup, Goto, WithIP, CallInv, CallTypes, Clean, EnsurePCs, DeletePCs
    <3>3. AddressInHand'
      BY <1>1, <1>2, <1>4, <1>b, <2>3, <3>1, NoneAssumption
        DEF Lookup, Goto, WithIP, AddressInHand, EnsurePCs, Settled
    <3> QED BY <3>2, <3>3 DEF CallInv
  <2>4. \A r \in getLoadBalancerRule(svc.spec.name) : r \in rules
    BY DEF getLoadBalancerRule, ByName
  <2> QED BY <1>b, <2>1, <2>2, <2>3, <2>4 DEF Lookup, Fails
<1>c. ASSUME FindIP PROVE CallInv'
  <2>1. CASE Return
    BY <2>1, <1>5
  <2>2. ASSUME NEW i \in IPs, NEW l \in {"check", "tagIP", "changeIP"}, Goto(l),
               lb' = [lb EXCEPT !.ip = i],
               l = "check" => svc.spec.ip \in {None, i},
               l = "tagIP" => svc.spec.ip = None, l = "changeIP" => svc.spec.ip # None
        PROVE  CallInv'
    <3>1. lb' \in [rule : Rules \cup {None}, ip : IPs \cup {None}]
          /\ lb'.rule = None /\ lb'.ip = i /\ pc = "findIP"
      BY <1>1, <1>c, <2>2 DEF TypeOK, CallInv, Clean, FindIP
    <3>2. CallTypes' /\ Clean'
      BY <1>1, <1>2, <2>2, <3>1 DEF Goto, CallInv, CallTypes, Clean, EnsurePCs, DeletePCs
    <3>3. AddressInHand'
      BY <1>1, <1>2, <2>2, <3>1, NoneAssumption
        DEF Goto, CallInv, AddressInHand, EnsurePCs, Settled
    <3> QED BY <3>2, <3>3 DEF CallInv
  <2>3. CASE svc.spec.ip = None /\ Goto("associate") /\ UNCHANGED lb
    BY <1>1, <1>2, <1>c, <2>3
      DEF FindIP, Goto, CallInv, CallTypes, Clean, AddressInHand, EnsurePCs,
          DeletePCs, Settled
  <2>4. pc = "findIP" /\ svc.spec.ip \in IPs \cup {None} /\ svc.status \in Statuses
    BY <1>1, <1>2, <1>c, InCall DEF FindIP
  <2>5. svc.status # None => svc.status.ip \in IPs
    BY <2>4 DEF Statuses, Ingress
  <2>6. CASE \E i \in TaggedIPs : lb' = [lb EXCEPT !.ip = i] /\ Goto(WithIP(i))
    BY <2>2, <2>4, <2>6, NoneAssumption DEF TaggedIPs, WithIP
  <2>7. CASE svc.spec.ip # None /\ lb' = [lb EXCEPT !.ip = svc.spec.ip] /\ Goto("check")
    BY <2>2, <2>4, <2>7
  <2>8. CASE svc.spec.ip = None /\ svc.status # None /\ lb' = [lb EXCEPT !.ip = svc.status.ip]
             /\ Goto("tagIP")
    BY <2>2, <2>5, <2>8
  <2> QED BY <1>c, <2>1, <2>3, <2>6, <2>7, <2>8 DEF FindIP, Fails
<1>d. ASSUME Associate PROVE CallInv'
  <2>1. CASE Return
    BY <2>1, <1>5
  <2>2. ASSUME NEW i \in PoolIPs, lb' = [lb EXCEPT !.ip = i], Goto("tagIP")
        PROVE  CallInv'
    <3>1. lb' \in [rule : Rules \cup {None}, ip : IPs \cup {None}]
          /\ lb'.rule = None /\ lb'.ip = i /\ pc = "associate" /\ i \in IPs
      BY <1>1, <1>d, <2>2 DEF TypeOK, CallInv, Clean, Associate, IPs
    <3> QED BY <1>1, <1>2, <2>2, <3>1, NoneAssumption
      DEF Goto, CallInv, CallTypes, Clean, AddressInHand, EnsurePCs,
          DeletePCs, Settled
  <2> QED BY <1>d, <2>1, <2>2 DEF Associate, Fails
<1>e. ASSUME TagIP PROVE CallInv'
  <2>1. pc = "tagIP" /\ lb' = lb /\ svc' = svc /\ old' = old /\ lb.rule = None
    BY <1>1, <1>e DEF TagIP, Goto, IInv, RuleInHand, MayHaveRule, WorksOnRule
  <2>2. CASE Goto("rollback")
    BY <1>1, <1>2, <2>1, <2>2
      DEF Goto, CallInv, CallTypes, Clean, AddressInHand, EnsurePCs,
          DeletePCs, Settled
  <2>3. CASE NextTag("check")
    BY <1>1, <1>2, <2>1, <2>3, TagFacts
      DEF NextTag, CallInv, CallTypes, Clean, AddressInHand, EnsurePCs,
          DeletePCs, Settled
  <2> QED BY <1>e, <2>2, <2>3 DEF TagIP
<1>f. ASSUME ChangeIP PROVE CallInv'
  <2>1. CASE Return
    BY <2>1, <1>5
  <2>2. CASE /\ old' = lb.ip /\ lb' = [lb EXCEPT !.ip = svc.spec.ip]
             /\ pc' = IF lb.rule = None THEN "changeRelease" ELSE "changeDelete"
             /\ UNCHANGED <<svc, todo>>
    <3>1. pc = "changeIP" /\ svc.spec.ip # None /\ svc.spec.ip \in IPs
      BY <1>1, <1>2, <1>f DEF ChangeIP, CallInv, AddressInHand
    <3>2. lb' \in [rule : Rules \cup {None}, ip : IPs \cup {None}]
          /\ lb'.rule = lb.rule /\ lb'.ip = svc.spec.ip
      BY <1>1, <2>2, <3>1 DEF TypeOK
    <3> QED BY <1>1, <1>2, <1>3, <2>2, <3>1, <3>2
      DEF CallInv, CallTypes, Clean, AddressInHand, EnsurePCs, DeletePCs, Settled
  <2> QED BY <1>f, <2>1, <2>2 DEF ChangeIP, Fails
<1>g. ASSUME ChangeDelete \/ RecreateRule \/ DeleteRule PROVE CallInv'
  <2>1. CASE Return
    BY <2>1, <1>5
  <2>2. CASE /\ lb' = [lb EXCEPT !.rule = None]
             /\ \/ pc = "changeDelete" /\ Goto("changeRelease")
                \/ pc = "recreate" /\ Goto("create")
                \/ pc = "deleteRule" /\ Goto("deleteRelease")
    <3>1. lb' \in [rule : Rules \cup {None}, ip : IPs \cup {None}]
          /\ lb'.rule = None /\ lb'.ip = lb.ip
      BY <1>1, <2>2 DEF TypeOK
    <3> QED BY <1>1, <1>2, <2>2, <3>1
      DEF Goto, CallInv, CallTypes, Clean, AddressInHand, EnsurePCs, DeletePCs,
          Settled
  <2> QED BY <1>g, <2>1, <2>2
    DEF ChangeDelete, RecreateRule, DeleteRule, deleteLoadBalancerRule, Fails
<1>h. ASSUME ChangeRelease \/ DeleteRelease PROVE CallInv'
  <2>1. CASE Return
    BY <2>1, <1>5
  <2>2. CASE UNCHANGED lb /\ \/ pc = "changeRelease" /\ Goto("check")
                             \/ pc = "deleteRelease" /\ Goto("deleted")
    <3>1. lb.rule = None
      BY <2>2 DEF IInv, RuleInHand, MayHaveRule, WorksOnRule
    <3> QED BY <1>1, <1>2, <2>2, <3>1
      DEF Goto, CallInv, CallTypes, Clean, AddressInHand, EnsurePCs, DeletePCs,
          Settled
  <2> QED BY <1>h, <2>1, <2>2 DEF ChangeRelease, DeleteRelease, releaseIPIfManaged, Fails
<1>i. ASSUME Check \/ UpdateRule PROVE CallInv'
  <2>1. CASE Return
    BY <2>1, <1>5
  <2>2. CASE UNCHANGED lb /\ pc = "check" /\ Goto("create")
    BY <1>1, <1>2, <2>2
      DEF Goto, CallInv, CallTypes, Clean, AddressInHand, EnsurePCs, DeletePCs,
          Settled
  <2>3. ASSUME NEW l \in {"recreate", "update", "tagRule", "ensured"}, UNCHANGED lb, Goto(l),
               pc \in {"check", "update"}
        PROVE  CallInv'
    BY <1>1, <1>2, <2>3
      DEF Goto, CallInv, CallTypes, Clean, AddressInHand, EnsurePCs, DeletePCs,
          Settled
  <2>4. CASE Check
    BY <2>4, <2>1, <2>2, <2>3 DEF Check
  <2>5. CASE UpdateRule
    BY <2>5, <2>1, <2>3 DEF UpdateRule, Fails
  <2> QED BY <1>i, <2>4, <2>5
<1>j. ASSUME CreateRule PROVE CallInv'
  <2>1. CASE Return
    BY <2>1, <1>5
  <2>2. ASSUME NEW new, new = NewRule(FreeId, svc.spec, serviceToLBPorts, lb.ip, FALSE), ~BadPorts,
               lb' = [lb EXCEPT !.rule = new], Goto("tagRule")
        PROVE  CallInv'
    <3>1. pc = "create" /\ lb.ip \in IPs
      BY <1>3, <1>1, <1>j DEF CreateRule, CallInv, AddressInHand, Settled
    <3>2. new \in Rules /\ new # None /\ new.ip = lb.ip
      BY <1>1, <2>2, <3>1, CreatedForm DEF IInv
    <3>3. lb' \in [rule : Rules \cup {None}, ip : IPs \cup {None}]
          /\ lb'.rule = new /\ lb'.ip = lb.ip
      BY <1>1, <2>2, <3>2 DEF TypeOK
    <3> QED BY <1>1, <1>2, <2>2, <3>1, <3>2, <3>3
      DEF Goto, CallInv, CallTypes, Clean, AddressInHand, EnsurePCs, DeletePCs,
          Settled
  <2> QED BY <1>j, <2>1, <2>2 DEF CreateRule, Fails
<1>k. ASSUME TagRule PROVE CallInv'
  <2>1. CASE Return
    BY <2>1, <1>5
  <2>2. CASE NextTag("ensured") /\ UNCHANGED <<svc, old, lb>> /\ pc = "tagRule"
    BY <1>1, <1>2, <2>2, TagFacts
      DEF NextTag, CallInv, CallTypes, Clean, AddressInHand, EnsurePCs,
          DeletePCs, Settled
  <2> QED BY <1>k, <2>1, <2>2 DEF TagRule, Fails
<1>l. ASSUME DeleteLookup PROVE CallInv'
  <2>1. CASE Return
    BY <2>1, <1>5
  <2>2. CASE Goto("deleted") /\ UNCHANGED lb
    BY <1>1, <1>2, <1>l, <2>2
      DEF DeleteLookup, Goto, CallInv, CallTypes, Clean, AddressInHand, EnsurePCs,
          DeletePCs, Settled
  <2>3. ASSUME NEW r \in rules, lb' = [rule |-> r, ip |-> r.ip], Goto("deleteRule")
        PROVE  CallInv'
    <3>1. lb' \in [rule : Rules \cup {None}, ip : IPs \cup {None}]
          /\ lb'.rule = r /\ lb'.ip = r.ip /\ r.ip # None
      BY <1>4, <2>3, NoneAssumption
    <3> QED BY <1>1, <1>2, <1>l, <2>3, <3>1
      DEF DeleteLookup, Goto, CallInv, CallTypes, Clean, AddressInHand, EnsurePCs,
          DeletePCs, Settled
  <2>4. \A r \in getLoadBalancerRule(svc.spec.name) : r \in rules
    BY DEF getLoadBalancerRule, ByName
  <2> QED BY <1>l, <2>1, <2>2, <2>3, <2>4 DEF DeleteLookup, Fails
<1>m. ASSUME Rollback \/ EnsureReturn \/ DeleteReturn \/ Crash PROVE CallInv'
  BY <1>5, <1>m DEF Rollback, EnsureReturn, DeleteReturn, Crash, Fails
<1>n. ASSUME User \/ Rollout \/ OperatorCreates \/ OperatorIgnores \/ UNCHANGED vars PROVE CallInv'
  BY <1>6, <1>n DEF User, Rollout, OperatorCreates, OperatorIgnores, vars
<1> QED BY <1>a, <1>b, <1>c, <1>d, <1>e, <1>f, <1>g, <1>h, <1>i, <1>j, <1>k, <1>l, <1>m, <1>n
  DEF Next, Ensure, DeleteLB
-----------------------------------------------------------------------------
\* Every failure is counted, one at a time, every allocation that is lost is a failure, and
\* what has been published is not forgotten.
LEMMA FaultStep ==
  ASSUME IInv, [Next]_vars
  PROVE  /\ \/ faults' = faults /\ lost' = lost
            \/ faults' = faults + 1 /\ faults < MaxFaults /\ lost' \in {lost, lost + 1}
         /\ published \subseteq published' /\ published' \subseteq Names
         /\ EnsureReturn \/ published' = published
<1>1. published \subseteq Names
  BY DEF IInv, TypeOK
<1>a. CASE EnsureStart \/ Lookup \/ FindIP \/ ChangeIP \/ Check \/ DeleteStart \/ DeleteLookup
  BY <1>1, <1>a DEF EnsureStart, Lookup, FindIP, ChangeIP, Check, DeleteStart, DeleteLookup, Works,
    Fails, Fault, history
<1>b. CASE Associate \/ TagIP \/ Rollback
  BY <1>1, <1>b DEF Associate, TagIP, Rollback, Works, Fails, Fault, history
<1>c. CASE ChangeDelete \/ RecreateRule \/ DeleteRule
  BY <1>1, <1>c DEF ChangeDelete, RecreateRule, DeleteRule, deleteLoadBalancerRule, Works, Fails,
    Fault, history
<1>d. CASE ChangeRelease \/ DeleteRelease
  BY <1>1, <1>d DEF ChangeRelease, DeleteRelease, releaseIPIfManaged, Works, Fails, Fault,
    history
<1>e. CASE UpdateRule \/ CreateRule \/ TagRule \/ DeleteReturn \/ Crash
  BY <1>1, <1>e DEF UpdateRule, CreateRule, TagRule, DeleteReturn, Crash, Works,
    Fails, Fault, history
<1>f. CASE EnsureReturn
  <2>1. svc.spec.name \in Names
    BY <1>f, InCall DEF IInv, EnsureReturn
  <2> QED BY <1>1, <1>f, <2>1 DEF EnsureReturn, Works, Fault
<1>g. CASE User \/ Rollout \/ OperatorCreates \/ OperatorIgnores \/ UNCHANGED vars
  BY <1>1, <1>g DEF User, Rollout, OperatorCreates, OperatorIgnores, vars, history
<1> QED BY <1>a, <1>b, <1>c, <1>d, <1>e, <1>f, <1>g DEF Next, Ensure, DeleteLB
-----------------------------------------------------------------------------
\* The rules in CloudStack, apart from what the call in progress does with them.
RuleSet == rules \in SUBSET Rules /\ OneByName /\ OneById /\ HandMadeKept

\* No step makes two rules alike, or tags a hand-made rule unless the service has been
\* published under its name.
LEMMA RuleSetStep ==
  ASSUME IInv, [Next]_vars
  PROVE  RuleSet'
<1>1. RuleSet /\ TypeOK
  BY DEF IInv, RuleSet, TypeOK
<1>p. published \subseteq published'
  BY FaultStep
<1>2. ASSUME rules' \in SUBSET Rules, OneByName', OneById', svc' \in {svc, None},
             status' \in {status, None},
             \A s \in rules' : s.byHand /\ s.name \notin published => s.tags \subseteq {ignoreTag}
      PROVE  RuleSet'
  BY <1>1, <1>2, <1>p DEF RuleSet, HandMadeKept
<1>3. ASSUME rules' \subseteq rules, svc' \in {svc, None}, status' \in {status, None}
      PROVE  RuleSet'
  <2>1. rules' \in SUBSET Rules /\ OneByName' /\ OneById'
    BY <1>1, <1>3 DEF RuleSet, OneByName, OneById
  <2>2. \A s \in rules' : s.byHand /\ s.name \notin published => s.tags \subseteq {ignoreTag}
    BY <1>1, <1>3 DEF RuleSet, HandMadeKept
  <2> QED BY <1>2, <1>3, <2>1, <2>2
<1>4. ASSUME NEW id, NEW tag \in Tags \cup {ignoreTag}, TagARule(id, tag),
             \/ tag = ignoreTag
             \/ \A r \in rules : r.id = id /\ r.byHand => r.name \in published,
             svc' \in {svc, None}, status' = status
      PROVE  RuleSet'
  <2>1. PICK m \in Moves : rules' = Moved(m) /\ Tagging(m, id, tag)
    BY <1>1, <1>4, TaggedForm DEF RuleSet
  <2>2. /\ rules' \in SUBSET Rules /\ OneByName' /\ OneById'
        /\ \A s \in rules' : \E r \in rules : s = m[r]
    BY <1>1, <2>1, MovedForm DEF RuleSet
  <2>3. ASSUME NEW s \in rules', s.byHand, s.name \notin published
        PROVE  s.tags \subseteq {ignoreTag}
    <3>1. PICK r \in rules : s = m[r]
      BY <2>2
    <3>2. r \in Rules /\ s.id = r.id /\ s.name = r.name /\ s.byHand = r.byHand
      BY <1>1, <2>1, <3>1 DEF RuleSet, Moves
    <3>3. s.tags = IF r.id = id THEN r.tags \cup {tag} ELSE r.tags
      BY <2>1, <3>1, <3>2 DEF Tagging
    <3>4. r.tags \subseteq {ignoreTag} /\ (r.id = id => tag = ignoreTag)
      BY <1>1, <1>4, <2>3, <3>2 DEF RuleSet, HandMadeKept
    <3> QED BY <3>3, <3>4
  <2> QED BY <1>2, <1>4, <2>2, <2>3
<1>5. lb.rule # None => \A r \in rules : r.id = lb.rule.id /\ r.byHand => r.name \in published
  <2> SUFFICES ASSUME lb.rule # None, NEW r \in rules, r.id = lb.rule.id, r.byHand
               PROVE  r.name \in published
    OBVIOUS
  <2>1. PICK s \in rules : s.id = lb.rule.id /\ s.name = lb.rule.name /\ s.byHand = lb.rule.byHand
    BY DEF IInv, RuleInHand, IsCopied
  <2>2. s = r
    BY <1>1, <2>1 DEF RuleSet, OneById
  <2> QED BY <2>1, <2>2 DEF IInv, RuleInHand
<1>6. ASSUME NEW new \in Rules, rules' = rules \cup {new}, new.id = FreeId, new.tags = {},
             \A r \in rules : r.name # new.name, svc' \in {svc, None}, status' = status
      PROVE  RuleSet'
  <2>1. \A r \in rules : r.id # new.id
    BY <1>1, <1>6, FreshId DEF RuleSet
  <2>2. rules' \in SUBSET Rules /\ OneByName' /\ OneById'
    BY <1>1, <1>6, <2>1 DEF RuleSet, OneByName, OneById
  <2>3. \A s \in rules' : s.byHand /\ s.name \notin published => s.tags \subseteq {ignoreTag}
    BY <1>1, <1>6 DEF RuleSet, HandMadeKept
  <2> QED BY <1>2, <1>6, <2>2, <2>3
<1>a. ASSUME EnsureStart \/ DeleteStart PROVE RuleSet'
  <2>1. rules' = rules /\ status' = status /\ svc' = [spec |-> spec, status |-> status]
    BY <1>a DEF EnsureStart, DeleteStart, KeepCloud, KeepUser
  <2>2. svc'.status = status
    BY <2>1
  <2> QED BY <1>1, <1>p, <2>1, <2>2 DEF RuleSet, OneByName, OneById, HandMadeKept
<1>b. ASSUME Lookup \/ FindIP \/ Associate \/ TagIP \/ Rollback \/ ChangeIP \/ Check
             \/ ChangeRelease \/ DeleteRelease \/ DeleteLookup \/ DeleteReturn \/ Crash
      PROVE  RuleSet'
  <2>1. rules' = rules /\ status' = status
    BY <1>b DEF Lookup, FindIP, Associate, TagIP, Rollback, ChangeIP, Check, ChangeRelease,
      DeleteRelease, releaseIPIfManaged, DeleteLookup, DeleteReturn, Crash, KeepCloud, KeepUser
  <2>2. svc' \in {svc, None}
    <3>1. CASE Lookup \/ FindIP \/ Associate \/ TagIP
      BY <3>1 DEF Lookup, FindIP, Associate, TagIP, Goto, Return, Fails
    <3>2. CASE ~(Lookup \/ FindIP \/ Associate \/ TagIP)
      BY <1>b, <3>2 DEF Rollback, ChangeIP, Check, ChangeRelease, DeleteRelease,
        releaseIPIfManaged, DeleteLookup, DeleteReturn, Crash, Goto, Return, Fails
    <3> QED BY <3>1, <3>2
  <2> QED BY <1>3, <2>1, <2>2
<1>c. ASSUME ChangeDelete \/ RecreateRule \/ DeleteRule PROVE RuleSet'
  <2>1. rules' \subseteq rules
    BY <1>c DEF ChangeDelete, RecreateRule, DeleteRule, deleteLoadBalancerRule, RemoveRule
  <2> QED BY <1>3, <1>c, <2>1 DEF ChangeDelete, RecreateRule, DeleteRule,
    deleteLoadBalancerRule, Goto, Return, Fails, KeepUser
<1>d. ASSUME UpdateRule PROVE RuleSet'
  <2>1. pc = "update" /\ status' = status /\ svc' \in {svc, None}
    BY <1>d DEF UpdateRule, KeepUser, Goto, Return, Fails
  <2>2. CASE rules' = rules
    BY <1>3, <2>1, <2>2
  <2>3. CASE rules' # rules
    <3>1. rules' = {IF r.id = lb.rule.id THEN [r EXCEPT !.algorithm = svc.spec.algorithm] ELSE r
                       : r \in rules}
      BY <1>d, <2>3 DEF UpdateRule, ChangeRule
    <3>2. svc.spec.algorithm \in {s.algorithm : s \in Specs}
      BY <1>1, <2>1, InCall
    <3>3. PICK m \in Moves : rules' = Moved(m) /\ Rebalancing(m, lb.rule.id, svc.spec.algorithm)
      BY <1>1, <3>1, <3>2, UpdatedForm DEF RuleSet
    <3>4. /\ rules' \in SUBSET Rules /\ OneByName' /\ OneById'
          /\ \A s \in rules' : \E r \in rules : s = m[r]
      BY <1>1, <3>3, MovedForm DEF RuleSet
    <3>5. ASSUME NEW s \in rules', s.byHand, s.name \notin published
          PROVE  s.tags \subseteq {ignoreTag}
      <4>1. PICK r \in rules : s = m[r]
        BY <3>4
      <4>2. r \in Rules /\ s.name = r.name /\ s.byHand = r.byHand
        BY <1>1, <3>3, <4>1 DEF RuleSet, Moves
      <4>3. s.tags = r.tags
        BY <3>3, <4>1, <4>2 DEF Rebalancing
      <4> QED BY <1>1, <3>5, <4>2, <4>3 DEF RuleSet, HandMadeKept
    <3> QED BY <1>2, <2>1, <3>4, <3>5
  <2> QED BY <2>2, <2>3
<1>e. ASSUME CreateRule PROVE RuleSet'
  <2>1. pc = "create" /\ status' = status /\ svc' \in {svc, None}
    BY <1>e DEF CreateRule, KeepUser, Goto, Return, Fails
  <2>2. CASE rules' = rules
    BY <1>3, <2>1, <2>2
  <2>3. CASE rules' # rules
    <3>1. PICK new : /\ new = NewRule(FreeId, svc.spec, serviceToLBPorts, lb.ip, FALSE)
                     /\ rules' = rules \cup {new} /\ ~BadPorts
      BY <1>e, <2>3 DEF CreateRule
    <3>2. lb.ip \in IPs
      BY <2>1, <1>1 DEF IInv, AddressInHand, Settled, TypeOK
    <3>3. new \in Rules /\ new.id = FreeId /\ new.name = svc.spec.name /\ new.tags = {}
      BY <1>1, <2>1, <3>1, <3>2, CreatedForm DEF RuleSet
    <3>4. \A r \in rules : r.name # svc.spec.name
      BY <2>1 DEF IInv, NameIsOurs, RuleInHand, MayHaveRule, WorksOnRule, EnsurePCs
    <3> QED BY <1>6, <2>1, <3>1, <3>3, <3>4
  <2> QED BY <2>2, <2>3
<1>f. ASSUME TagRule PROVE RuleSet'
  <2>1. pc = "tagRule" /\ status' = status /\ svc' \in {svc, None}
    BY <1>f DEF TagRule, KeepUser, Goto, Return, Fails
  <2>2. lb.rule # None /\ TagOrder[todo] \in Tags
    BY <1>1, <2>1, TagFacts DEF IInv, RuleInHand, WorksOnRule, TypeOK
  <2>3. CASE rules' = rules
    BY <1>3, <2>1, <2>3
  <2>4. CASE TagARule(lb.rule.id, TagOrder[todo])
    BY <1>4, <1>5, <2>1, <2>2, <2>4
  <2> QED BY <1>f, <2>3, <2>4 DEF TagRule
<1>g. ASSUME EnsureReturn PROVE RuleSet'
  <2>1. /\ rules' = rules /\ svc' = None
        /\ \/ status' = status
           \/ /\ status' = [ip |-> lb.ip, hostname |-> svc.spec.name]
              /\ published' = published \cup {svc.spec.name}
    BY <1>g DEF EnsureReturn, Return, KeepCloud
  <2>2. CASE status' = status
    BY <1>3, <2>1, <2>2
  <2>3. CASE status' # status
    <3>1. status'.hostname \in published'
      BY <2>1, <2>3
    <3> QED BY <1>1, <1>p, <2>1, <3>1 DEF RuleSet, HandMadeKept, OneByName, OneById
  <2> QED BY <2>2, <2>3
<1>h. ASSUME User \/ Rollout \/ UNCHANGED vars PROVE RuleSet'
  BY <1>3, <1>h DEF User, Rollout, Edit, UserDelete, UserCreate, callVars, vars
<1>i. ASSUME OperatorIgnores PROVE RuleSet'
  <2>1. PICK r \in rules : TagARule(r.id, ignoreTag)
    BY <1>i DEF OperatorIgnores
  <2> QED BY <1>4, <1>i, <2>1 DEF OperatorIgnores, callVars
<1>j. ASSUME OperatorCreates PROVE RuleSet'
  <2>1. PICK new \in Rules : /\ rules' = rules \cup {new} /\ new.id = FreeId /\ new.tags = {}
                             /\ \A r \in rules : r.name # new.name
    BY <1>1, <1>j, HandMadeForm DEF RuleSet
  <2> QED BY <1>6, <1>j, <2>1 DEF OperatorCreates, callVars
<1> QED BY <1>a, <1>b, <1>c, <1>d, <1>e, <1>f, <1>g, <1>h, <1>i, <1>j DEF Next, Ensure, DeleteLB
-----------------------------------------------------------------------------
\* What the call in progress knows of the rules.
HandInv == RuleInHand /\ NameIsOurs

\* The rule in hand stays a copy of one in CloudStack, and the name asked for stays free
\* or its own, at every place of a call.
LEMMA HandStep ==
  ASSUME IInv, [Next]_vars
  PROVE  HandInv'
<1>1. HandInv /\ RuleSet /\ TypeOK /\ Clean
  BY DEF IInv, RuleSet, HandInv, TypeOK
<1>p. published \subseteq published'
  BY FaultStep
<1>2. ASSUME Return PROVE HandInv'
  BY <1>2, ReturnForm DEF HandInv, RuleInHand, NameIsOurs, WorksOnRule, EnsurePCs
<1>3. ASSUME lb'.rule = None, pc' \notin WorksOnRule,
             pc' \in EnsurePCs \ {"lookup"} => \A r \in rules' : r.name # svc'.spec.name
      PROVE  HandInv'
  BY <1>3 DEF HandInv, RuleInHand, NameIsOurs, WorksOnRule
<1>4. ASSUME lb.rule = None, lb'.rule = None, rules' = rules, svc' = svc,
             pc \in EnsurePCs \ {"lookup"}, pc' \in EnsurePCs \ WorksOnRule
      PROVE  HandInv'
  BY <1>1, <1>3, <1>4 DEF HandInv, NameIsOurs
<1>5. \A r \in rules : r \in Rules /\ r # None
  BY <1>1, RecordAssumption DEF RuleSet
<1>6. \A r \in getLoadBalancerRule(svc.spec.name) : r \in rules
  BY DEF getLoadBalancerRule, ByName
<1>7. ASSUME pc # "idle", NEW r, getLoadBalancerRule(svc.spec.name) = {r}, shouldManageLB(r)
      PROVE  /\ r \in rules /\ (r.byHand => r.name \in published) /\ ignoreTag \notin r.tags
             /\ \A s \in rules : s.name = svc.spec.name => s = r
  <2>1. r \in rules
    BY <1>6, <1>7
  <2>2. \A s \in rules : s.name = svc.spec.name => s = r
    BY <1>7 DEF getLoadBalancerRule, ByName
  <2>3. ASSUME r.byHand, r.name \notin published PROVE FALSE
    <3>1. r.tags \subseteq {ignoreTag} /\ "cloudprovider" \notin r.tags
      BY <1>1, <2>1, <2>3, TagFacts DEF RuleSet, HandMadeKept
    <3>2. svc # None /\ svc.status # None /\ svc.status.hostname = svc.spec.name
      BY <1>1, <1>7, <3>1, TagFacts, InCall DEF shouldManageLB
    <3>3. r.name = svc.spec.name
      BY <1>7, <3>1, TagFacts DEF getLoadBalancerRule, ByName, matchAllTags
    <3> QED BY <1>1, <2>1, <2>3, <3>2, <3>3 DEF RuleSet, HandMadeKept
  <2> QED BY <1>7, <2>1, <2>2, <2>3 DEF shouldManageLB
<1>8. lb.rule # None => \E r \in rules : IsCopied(r)
  BY <1>1 DEF HandInv, RuleInHand
<1>a. ASSUME EnsureStart \/ DeleteStart PROVE HandInv'
  BY <1>1, <1>3, <1>a DEF EnsureStart, DeleteStart, Clean, WorksOnRule, EnsurePCs
<1>b. ASSUME Lookup PROVE HandInv'
  <2>1. CASE Return
    BY <1>2, <2>1
  <2>2. CASE getLoadBalancerRule(svc.spec.name) = {} /\ Goto("findIP") /\ UNCHANGED lb
    BY <1>1, <1>3, <1>b, <2>2
      DEF Lookup, KeepCloud, Goto, Clean, getLoadBalancerRule, ByName, WorksOnRule
  <2>3. ASSUME NEW r, getLoadBalancerRule(svc.spec.name) = {r}, shouldManageLB(r),
               lb' = [rule |-> r, ip |-> r.ip], Goto(WithIP(r.ip))
        PROVE  HandInv'
    <3>1. /\ r \in rules /\ (r.byHand => r.name \in published) /\ ignoreTag \notin r.tags
          /\ \A s \in rules : s.name = svc.spec.name => s = r
      BY <1>b, <1>7, <2>3 DEF Lookup
    <3>2. lb'.rule = r /\ r # None /\ rules' = rules /\ svc' = svc /\ pc' \in {"changeIP", "check"}
      BY <1>b, <1>5, <2>3, <3>1 DEF Lookup, KeepCloud, Goto, WithIP
    <3>3. IsCopied(r)'
      BY <3>1, <3>2 DEF IsCopied
    <3> QED BY <1>p, <3>1, <3>2, <3>3 DEF HandInv, RuleInHand, NameIsOurs, MayHaveRule, WorksOnRule
  <2> QED BY <1>b, <2>1, <2>2, <2>3 DEF Lookup, Fails
<1>c. ASSUME FindIP \/ Associate \/ TagIP PROVE HandInv'
  <2>1. CASE Return
    BY <1>2, <2>1
  <2>2. CASE ~Return
    <3>1. /\ rules' = rules /\ svc' = svc /\ pc \in {"findIP", "associate", "tagIP"}
          /\ pc' \in {"check", "changeIP", "tagIP", "associate", "rollback"}
          /\ lb' = lb \/ \E i \in IPs : lb' = [lb EXCEPT !.ip = i]
      <4>1. CASE FindIP
        <5>1. pc = "findIP" /\ svc.spec.ip \in IPs \cup {None}
              /\ (svc.status # None => svc.status.ip \in IPs)
          BY <1>1, <4>1, InCall DEF FindIP, Statuses, Ingress
        <5> QED BY <2>2, <4>1, <5>1 DEF FindIP, KeepCloud, Goto, WithIP, TaggedIPs, Fails
      <4>2. CASE Associate
        BY <2>2, <4>2 DEF Associate, Goto, Fails, IPs
      <4>3. CASE TagIP
        BY <4>3 DEF TagIP, Goto, NextTag
      <4> QED BY <1>c, <4>1, <4>2, <4>3
    <3>2. lb.rule = None /\ lb'.rule = None
      BY <1>1, <3>1 DEF HandInv, RuleInHand, MayHaveRule, WorksOnRule, TypeOK
    <3> QED BY <1>4, <3>1, <3>2 DEF EnsurePCs, WorksOnRule
  <2> QED BY <2>1, <2>2
<1>d. ASSUME ChangeIP PROVE HandInv'
  <2>1. CASE Return
    BY <1>2, <2>1
  <2>2. CASE /\ lb' = [lb EXCEPT !.ip = svc.spec.ip]
             /\ pc' = IF lb.rule = None THEN "changeRelease" ELSE "changeDelete"
             /\ UNCHANGED <<svc, todo>>
    <3>1. lb'.rule = lb.rule /\ rules' = rules /\ pc = "changeIP"
      BY <1>1, <1>d, <2>2 DEF TypeOK, ChangeIP, KeepCloud
    <3>2. CASE lb.rule = None
      BY <1>4, <2>2, <3>1, <3>2 DEF EnsurePCs, WorksOnRule
    <3>3. CASE lb.rule # None
      <4>1. PICK r \in rules : IsCopied(r)
        BY <1>8, <3>3
      <4>2. IsCopied(r)'
        BY <2>2, <3>1, <3>3, <4>1 DEF IsCopied
      <4> QED BY <1>1, <1>p, <2>2, <3>1, <3>3, <4>2
        DEF HandInv, RuleInHand, NameIsOurs, MayHaveRule, WorksOnRule, EnsurePCs
    <3> QED BY <3>2, <3>3
  <2> QED BY <1>d, <2>1, <2>2 DEF ChangeIP, Fails
<1>e. ASSUME ChangeDelete \/ RecreateRule \/ DeleteRule PROVE HandInv'
  <2>1. CASE Return
    BY <1>2, <2>1
  <2>2. CASE /\ lb' = [lb EXCEPT !.rule = None] /\ RemoveRule(lb.rule.id)
             /\ \/ pc = "changeDelete" /\ Goto("changeRelease")
                \/ pc = "recreate" /\ Goto("create")
                \/ pc = "deleteRule" /\ Goto("deleteRelease")
    <3>1. lb'.rule = None /\ svc' = svc
      BY <1>1, <2>2 DEF TypeOK, Goto
    <3>2. pc' \in EnsurePCs => \A r \in rules' : r.name # svc'.spec.name
      BY <1>1, <2>2, <3>1 DEF Goto, HandInv, NameIsOurs, RemoveRule, EnsurePCs
    <3> QED BY <1>3, <2>2, <3>1, <3>2 DEF Goto, WorksOnRule
  <2> QED BY <1>e, <2>1, <2>2
    DEF ChangeDelete, RecreateRule, DeleteRule, deleteLoadBalancerRule, Fails
<1>f. ASSUME ChangeRelease \/ DeleteRelease PROVE HandInv'
  <2>1. CASE Return
    BY <1>2, <2>1
  <2>2. CASE UNCHANGED lb /\ \/ pc = "changeRelease" /\ Goto("check")
                             \/ pc = "deleteRelease" /\ Goto("deleted")
    <3>1. lb.rule = None /\ rules' = rules
      BY <1>1, <1>f, <2>2 DEF HandInv, RuleInHand, MayHaveRule, WorksOnRule, ChangeRelease,
        DeleteRelease, releaseIPIfManaged
    <3> QED BY <1>3, <1>4, <2>2, <3>1 DEF Goto, WorksOnRule, EnsurePCs
  <2> QED BY <1>f, <2>1, <2>2 DEF ChangeRelease, DeleteRelease, releaseIPIfManaged, Fails
<1>g. ASSUME Check PROVE HandInv'
  <2>1. CASE Return
    BY <1>2, <2>1
  <2>2. CASE lb.rule = None /\ Goto("create") /\ UNCHANGED lb
    BY <1>4, <1>g, <2>2 DEF Check, KeepCloud, Goto, EnsurePCs, WorksOnRule
  <2>3. CASE lb.rule # None /\ UNCHANGED lb /\ ~Return
    <3>1. PICK r \in rules : IsCopied(r)
      BY <1>8, <2>3
    <3>2. /\ pc = "check" /\ rules' = rules /\ svc' = svc /\ todo' = todo /\ todo = 1
          /\ pc' \in {"recreate", "update", "tagRule", "ensured"}
          /\ pc' # "recreate" => /\ svc.spec.ports \in {Named, lb.rule.ports}
                                /\ lb.rule.name = svc.spec.name
          /\ pc' \in {"tagRule", "ensured"} => lb.rule.algorithm = svc.spec.algorithm
          /\ pc' = "ensured" => Tags \subseteq lb.rule.tags
      BY <1>1, <1>g, <2>3 DEF Check, KeepCloud, Goto, Clean, hasMissingTags, serviceToLBPorts
    <3>3. IsCopied(r)'
      BY <2>3, <3>1, <3>2, TagFacts DEF IsCopied
    <3>4. RuleInHand'
      BY <1>1, <1>p, <2>3, <3>2, <3>3 DEF HandInv, RuleInHand, MayHaveRule, WorksOnRule
    <3> QED BY <1>1, <2>3, <3>2, <3>4 DEF HandInv, NameIsOurs, EnsurePCs
  <2> QED BY <1>g, <2>1, <2>2, <2>3 DEF Check
<1>h. ASSUME UpdateRule PROVE HandInv'
  <2>1. CASE Return
    BY <1>2, <2>1
  <2>2. CASE ~Return
    <3>1. /\ pc = "update" /\ lb' = lb /\ svc' = svc /\ todo' = todo /\ todo = 1
          /\ pc' \in {"tagRule", "ensured"}
          /\ pc' = "ensured" => Tags \subseteq lb.rule.tags
          /\ rules' = {IF r.id = lb.rule.id THEN [r EXCEPT !.algorithm = svc.spec.algorithm]
                       ELSE r : r \in rules}
      BY <1>1, <1>h, <2>2 DEF UpdateRule, Goto, Clean, hasMissingTags, ChangeRule, Fails
    <3>2. svc.spec.algorithm \in {s.algorithm : s \in Specs}
      BY <1>1, <3>1, InCall
    <3>3. PICK m \in Moves : rules' = Moved(m) /\ Rebalancing(m, lb.rule.id, svc.spec.algorithm)
      BY <1>1, <3>1, <3>2, UpdatedForm DEF RuleSet
    <3>4. /\ \A r \in rules : m[r] \in rules'
          /\ \A s \in rules' : \E r \in rules : s = m[r]
      BY <1>1, <3>3, MovedForm DEF RuleSet
    <3>5. PICK r \in rules : IsCopied(r)
      BY <1>1, <1>8, <3>1 DEF HandInv, RuleInHand, WorksOnRule
    <3>6. /\ m[r].id = r.id /\ m[r].name = r.name /\ m[r].ports = r.ports /\ m[r].ip = r.ip
          /\ m[r].tags = r.tags /\ m[r].algorithm = svc.spec.algorithm /\ m[r].byHand = r.byHand
      BY <1>5, <3>3, <3>5 DEF Moves, Rebalancing, IsCopied
    <3>7. IsCopied(m[r])'
      BY <3>1, <3>5, <3>6, TagFacts DEF IsCopied
    <3>8. RuleInHand'
      BY <1>1, <1>p, <3>1, <3>4, <3>7 DEF HandInv, RuleInHand, MayHaveRule, WorksOnRule
    <3>9. \A s \in rules' : \E t \in rules : s.id = t.id /\ s.name = t.name
      BY <1>5, <3>3, <3>4 DEF Moves
    <3> QED BY <1>1, <3>1, <3>8, <3>9 DEF HandInv, NameIsOurs, EnsurePCs
  <2> QED BY <2>1, <2>2
<1>i. ASSUME CreateRule PROVE HandInv'
  <2>1. CASE Return
    BY <1>2, <2>1
  <2>2. CASE ~Return
    <3>1. PICK new : /\ new = NewRule(FreeId, svc.spec, serviceToLBPorts, lb.ip, FALSE) /\ ~BadPorts
                     /\ rules' = rules \cup {new} /\ lb' = [lb EXCEPT !.rule = new]
      BY <1>i, <2>2 DEF CreateRule, Fails
    <3>2. pc = "create" /\ svc' = svc /\ todo' = todo /\ todo = 1 /\ pc' = "tagRule"
      BY <1>1, <1>i, <2>2 DEF CreateRule, Goto, Clean, Fails
    <3>3. lb.ip \in IPs
      BY <3>2, <1>1 DEF IInv, AddressInHand, Settled, TypeOK
    <3>4. /\ new \in Rules /\ new # None /\ new.name = svc.spec.name /\ ~new.byHand
          /\ svc.spec.ports \in {Named, new.ports} /\ new.algorithm = svc.spec.algorithm
          /\ new.tags = {}
      BY <1>1, <3>1, <3>2, <3>3, CreatedForm DEF RuleSet
    <3>5. \A r \in rules : r.name # svc.spec.name
      BY <1>1, <3>2 DEF HandInv, NameIsOurs, RuleInHand, MayHaveRule, WorksOnRule, EnsurePCs
    <3>6. lb'.rule = new
      BY <1>1, <3>1 DEF TypeOK
    <3>7. IsCopied(new)'
      BY <3>2, <3>4, <3>6, TagFacts DEF IsCopied
    <3> QED BY <3>1, <3>2, <3>4, <3>5, <3>6, <3>7
      DEF HandInv, RuleInHand, NameIsOurs, MayHaveRule, WorksOnRule
  <2> QED BY <2>1, <2>2
<1>j. ASSUME TagRule PROVE HandInv'
  <2>1. CASE Return
    BY <1>2, <2>1
  <2>2. CASE ~Return
    <3>1. /\ pc = "tagRule" /\ lb' = lb /\ svc' = svc /\ NextTag("ensured") /\ todo \in 1..3
          /\ TagARule(lb.rule.id, TagOrder[todo])
      BY <1>1, <1>j, <2>2, TagFacts DEF TagRule, TypeOK, Fails
    <3>2. PICK m \in Moves : rules' = Moved(m) /\ Tagging(m, lb.rule.id, TagOrder[todo])
      BY <1>1, <3>1, TaggedForm, TagFacts DEF RuleSet
    <3>3. /\ \A r \in rules : m[r] \in rules'
          /\ \A s \in rules' : \E r \in rules : s = m[r]
      BY <1>1, <3>2, MovedForm DEF RuleSet
    <3>4. PICK r \in rules : IsCopied(r)
      BY <1>1, <1>8, <3>1 DEF HandInv, RuleInHand, WorksOnRule
    <3>5. /\ m[r].id = r.id /\ m[r].name = r.name /\ m[r].ports = r.ports /\ m[r].ip = r.ip
          /\ m[r].algorithm = r.algorithm /\ m[r].tags = r.tags \cup {TagOrder[todo]}
          /\ m[r].byHand = r.byHand
      BY <1>5, <3>2, <3>4 DEF Moves, Tagging, IsCopied
    <3>6. \/ pc' = "tagRule" /\ todo \in 1..2 /\ todo' = todo + 1
          \/ pc' = "ensured" /\ todo = 3
      BY <3>1, TagFacts DEF NextTag
    <3>7. TagsBefore(todo) \subseteq r.tags
      BY <3>1, <3>4 DEF IsCopied
    <3>8. /\ pc' = "tagRule" => TagsBefore(todo') \subseteq m[r].tags
          /\ pc' = "ensured" => Tags \subseteq m[r].tags
      BY <3>5, <3>6, <3>7, TagFacts
    <3>9. IsCopied(m[r])'
      <4>1. TagOrder[todo] # ignoreTag
        BY <3>1, TagFacts
      <4> QED BY <3>1, <3>4, <3>5, <3>6, <3>8, <4>1 DEF IsCopied
    <3>10. RuleInHand'
      BY <1>1, <1>p, <3>1, <3>3, <3>6, <3>9 DEF HandInv, RuleInHand, MayHaveRule, WorksOnRule
    <3>11. \A s \in rules' : \E t \in rules : s.id = t.id /\ s.name = t.name
      BY <1>5, <3>2, <3>3 DEF Moves
    <3> QED BY <1>1, <3>1, <3>6, <3>10, <3>11 DEF HandInv, NameIsOurs, EnsurePCs
  <2> QED BY <2>1, <2>2
<1>k. ASSUME DeleteLookup PROVE HandInv'
  <2>1. CASE Return
    BY <1>2, <2>1
  <2>2. CASE Goto("deleted") /\ UNCHANGED lb
    BY <1>1, <1>3, <1>k, <2>2 DEF DeleteLookup, Goto, Clean, WorksOnRule, EnsurePCs
  <2>3. ASSUME NEW r, getLoadBalancerRule(svc.spec.name) = {r}, Deletable(r),
               lb' = [rule |-> r, ip |-> r.ip], Goto("deleteRule")
        PROVE  HandInv'
    <3>1. r \in rules /\ (r.byHand => r.name \in published) /\ ignoreTag \notin r.tags
      BY <1>k, <1>7, <2>3 DEF DeleteLookup, Deletable
    <3>2. lb'.rule = r /\ r # None /\ rules' = rules /\ pc' = "deleteRule"
      BY <1>k, <1>5, <2>3, <3>1 DEF DeleteLookup, KeepCloud, Goto
    <3>3. IsCopied(r)'
      BY <3>1, <3>2 DEF IsCopied
    <3> QED BY <1>p, <3>1, <3>2, <3>3
      DEF HandInv, RuleInHand, NameIsOurs, MayHaveRule, WorksOnRule, EnsurePCs
  <2> QED BY <1>k, <2>1, <2>2, <2>3 DEF DeleteLookup, Fails
<1>l. ASSUME Rollback \/ EnsureReturn \/ DeleteReturn \/ Crash PROVE HandInv'
  BY <1>2, <1>l DEF Rollback, EnsureReturn, DeleteReturn, Crash, Fails
<1>m. ASSUME User \/ Rollout \/ UNCHANGED vars PROVE HandInv'
  <2>1. UNCHANGED <<pc, svc, lb, todo, rules>>
    BY <1>m DEF User, Rollout, vars, callVars
  <2> QED BY <1>1, <1>p, <2>1 DEF HandInv, RuleInHand, NameIsOurs, IsCopied
<1>n. ASSUME OperatorCreates \/ OperatorIgnores PROVE HandInv'
  BY <1>1, <1>3, <1>n DEF OperatorCreates, OperatorIgnores, callVars, Clean, WorksOnRule, EnsurePCs
<1> QED BY <1>a, <1>b, <1>c, <1>d, <1>e, <1>f, <1>g, <1>h, <1>i, <1>j, <1>k, <1>l, <1>m, <1>n
  DEF Next, Ensure, DeleteLB
-----------------------------------------------------------------------------
\* The public addresses.
IPTable == [IPs -> [allocated : BOOLEAN, tags : SUBSET Tags]]
IPInv == ips \in IPTable /\ IPsInOrder

\* Releasing an address takes it, and only it, off the tagged ones.
LEMMA FreeForm ==
  ASSUME ips \in IPTable, NEW i \in IPs, Free(i)
  PROVE  /\ ips' \in IPTable /\ ~ips'[i].allocated /\ ips'[i].tags = {}
         /\ \A j \in IPs : j # i => ips'[j] = ips[j]
         /\ TaggedIPs' = TaggedIPs \ {i}
<1> DEFINE f == [allocated |-> FALSE, tags |-> {}]
<1>1. f \in [allocated : BOOLEAN, tags : SUBSET Tags] /\ ~f.allocated /\ f.tags = {}
  OBVIOUS
<1>2. ips' = [ips EXCEPT ![i] = f]
  BY DEF Free
<1> HIDE DEF f
<1>3. ips' \in IPTable /\ ips'[i] = f /\ \A j \in IPs : j # i => ips'[j] = ips[j]
  BY <1>1, <1>2 DEF IPTable
<1> QED BY <1>1, <1>3, TagFacts DEF TaggedIPs, Allocated, matchAllTags

\* Tagging an address adds a tag to it, and leaves the others as they are.
LEMMA TagIPForm ==
  ASSUME ips \in IPTable, NEW i \in IPs, NEW tag \in Tags, TagAnIP(i, tag)
  PROVE  /\ ips' \in IPTable /\ ips'[i].allocated = ips[i].allocated
         /\ ips'[i].tags = ips[i].tags \cup {tag}
         /\ \A j \in IPs : j # i => ips'[j] = ips[j]
         /\ TaggedIPs \subseteq TaggedIPs' /\ TaggedIPs' \subseteq TaggedIPs \cup {i}
<1> DEFINE f == [ips[i] EXCEPT !.tags = @ \cup {tag}]
<1>1. ips[i] \in [allocated : BOOLEAN, tags : SUBSET Tags]
  BY DEF IPTable
<1>2. /\ f \in [allocated : BOOLEAN, tags : SUBSET Tags]
      /\ f.allocated = ips[i].allocated /\ f.tags = ips[i].tags \cup {tag}
  BY <1>1
<1>3. ips' = [ips EXCEPT ![i] = f]
  BY DEF TagAnIP
<1> HIDE DEF f
<1>4. ips' \in IPTable /\ ips'[i] = f /\ \A j \in IPs : j # i => ips'[j] = ips[j]
  BY <1>2, <1>3 DEF IPTable
<1> QED BY <1>2, <1>4 DEF TaggedIPs, Allocated, matchAllTags

\* Associating an address allocates it.
LEMMA AllocateForm ==
  ASSUME ips \in IPTable, NEW i \in IPs, Allocate(i)
  PROVE  /\ ips' \in IPTable /\ ips'[i].allocated /\ ips'[i].tags = ips[i].tags
         /\ \A j \in IPs : j # i => ips'[j] = ips[j]
         /\ TaggedIPs \subseteq TaggedIPs' /\ TaggedIPs' \subseteq TaggedIPs \cup {i}
<1> DEFINE f == [ips[i] EXCEPT !.allocated = TRUE]
<1>1. ips[i] \in [allocated : BOOLEAN, tags : SUBSET Tags]
  BY DEF IPTable
<1>2. /\ f \in [allocated : BOOLEAN, tags : SUBSET Tags]
      /\ f.allocated /\ f.tags = ips[i].tags
  BY <1>1
<1>3. ips' = [ips EXCEPT ![i] = f]
  BY DEF Allocate
<1> HIDE DEF f
<1>4. ips' \in IPTable /\ ips'[i] = f /\ \A j \in IPs : j # i => ips'[j] = ips[j]
  BY <1>2, <1>3 DEF IPTable
<1> QED BY <1>2, <1>4 DEF TaggedIPs, Allocated, matchAllTags

\* At most one address is tagged for the service, whatever fails in between.
LEMMA IPStep ==
  ASSUME IInv, [Next]_vars
  PROVE  IPInv'
<1>1. IPInv /\ TypeOK
  BY DEF IInv, IPInv, TypeOK, IPTable
<1>2. ASSUME ips' = ips, pc' \notin {"associate", "tagIP", "rollback"} PROVE IPInv'
  BY <1>1, <1>2 DEF IPInv, IPTable, IPsInOrder, TaggedOne, TaggedIPs, Allocated
<1>3. ASSUME NEW i \in IPs, Free(i), pc' \notin {"associate", "tagIP", "rollback"} PROVE IPInv'
  <2>1. ips' \in IPTable /\ TaggedIPs' = TaggedIPs \ {i}
    BY <1>1, <1>3, FreeForm DEF IPInv
  <2>2. TaggedOne'
    BY <1>1, <2>1 DEF IPInv, IPsInOrder, TaggedOne
  <2> QED BY <1>3, <2>1, <2>2 DEF IPInv, IPsInOrder
<1>4. lb.ip \in IPs \cup {None} /\ old \in IPs \cup {None}
  BY <1>1 DEF TypeOK
<1>5. pc \in {"tagIP", "rollback"} => lb.ip \in IPs
  BY <1>4 DEF IInv, AddressInHand
<1>a. ASSUME FindIP PROVE IPInv'
  <2>1. ips' = ips /\ pc = "findIP" /\ todo = 1
    BY <1>a DEF FindIP, KeepCloud, IInv, Clean
  <2>2. CASE /\ TaggedIPs = {} /\ svc.status # None /\ Allocated(svc.status.ip)
             /\ lb' = [lb EXCEPT !.ip = svc.status.ip] /\ Goto("tagIP")
    <3>1. lb'.ip = svc.status.ip /\ pc' = "tagIP" /\ todo' = 1
      BY <1>1, <2>1, <2>2 DEF TypeOK, Goto
    <3> QED BY <1>1, <2>1, <2>2, <3>1, TagFacts
      DEF IPInv, IPTable, IPsInOrder, TaggedOne, TaggedIPs, Allocated
  <2>3. CASE TaggedIPs = {} /\ Goto("associate")
    BY <1>1, <2>1, <2>3
      DEF Goto, IPInv, IPTable, IPsInOrder, TaggedOne, TaggedIPs, Allocated
  <2>4. CASE pc' \notin {"associate", "tagIP", "rollback"}
    BY <1>2, <2>1, <2>4
  <2> QED BY <1>a, <2>2, <2>3, <2>4 DEF FindIP, Fails, Return, Goto, WithIP
<1>b. ASSUME Associate PROVE IPInv'
  <2>1. pc = "associate" /\ TaggedIPs = {} /\ todo = 1
    BY <1>1, <1>b DEF Associate, IPInv, IPsInOrder, IInv, Clean
  <2>2. CASE ips' = ips /\ Return
    BY <1>2, <2>1, <2>2 DEF Return
  <2>3. ASSUME NEW i \in PoolIPs, Allocate(i),
               \/ Return
               \/ lb' = [lb EXCEPT !.ip = i] /\ Goto("tagIP")
        PROVE  IPInv'
    <3>1. i \in IPs /\ (lb' = [lb EXCEPT !.ip = i] => lb'.ip = i)
      BY <1>1 DEF IPs, TypeOK
    <3>2. /\ ips' \in IPTable /\ ips'[i].allocated /\ ips'[i].tags = ips[i].tags
          /\ \A j \in IPs : j # i => ips'[j] = ips[j]
          /\ TaggedIPs' \subseteq {i}
      BY <1>1, <2>1, <2>3, <3>1, AllocateForm DEF IPInv
    <3>3. TaggedOne'
      BY <3>2 DEF TaggedOne
    <3> QED BY <2>1, <2>3, <3>1, <3>2, <3>3, TagFacts
      DEF IPInv, IPsInOrder, Return, Goto, Allocated
  <2> QED BY <1>b, <2>2, <2>3 DEF Associate, Fails
<1>c. ASSUME TagIP PROVE IPInv'
  <2>1. /\ pc = "tagIP" /\ lb' = lb /\ lb.ip \in IPs /\ todo \in 1..3
        /\ TagOrder[todo] \in Tags
    BY <1>1, <1>5, <1>c, TagFacts DEF TagIP, TypeOK
  <2>2. CASE UNCHANGED ips /\ Goto("rollback")
    BY <1>1, <2>1, <2>2
      DEF Goto, IPInv, IPTable, IPsInOrder, TaggedOne, TaggedIPs, Allocated
  <2>3. CASE TagAnIP(lb.ip, TagOrder[todo]) /\ (Goto("rollback") \/ NextTag("check"))
    <3>1. /\ ips' \in IPTable /\ ips'[lb.ip].allocated = ips[lb.ip].allocated
          /\ ips'[lb.ip].tags = ips[lb.ip].tags \cup {TagOrder[todo]}
          /\ \A j \in IPs : j # lb.ip => ips'[j] = ips[j]
          /\ TaggedIPs' \subseteq TaggedIPs \cup {lb.ip}
      BY <1>1, <2>1, <2>3, TagIPForm DEF IPInv
    <3>2. TaggedIPs' \subseteq {lb.ip} /\ TaggedOne'
      BY <1>1, <2>1, <3>1 DEF IPInv, IPsInOrder, TaggedOne
    <3>3. \/ pc' = "tagIP" /\ todo \in 1..2 /\ todo' = todo + 1
          \/ pc' \in {"check", "rollback"}
      BY <2>1, <2>3, TagFacts DEF Goto, NextTag
    <3>4. pc' = "tagIP" => ips'[lb.ip].allocated /\ TagsBefore(todo') \subseteq ips'[lb.ip].tags
      BY <1>1, <2>1, <3>1, <3>3, TagFacts DEF IPInv, IPsInOrder, Allocated
    <3> QED BY <2>1, <3>1, <3>2, <3>3, <3>4 DEF IPInv, IPsInOrder, Allocated
  <2> QED BY <1>c, <2>2, <2>3 DEF TagIP
<1>d. ASSUME Rollback PROVE IPInv'
  <2>1. pc = "rollback" /\ pc' = "idle" /\ lb.ip \in IPs
    BY <1>5, <1>d DEF Rollback, Return
  <2> QED BY <1>2, <1>3, <1>d, <2>1 DEF Rollback
<1>e. ASSUME ChangeRelease \/ DeleteRelease PROVE IPInv'
  <2>1. PICK ip \in {old, lb.ip} :
            /\ ip \in IPs /\ pc' \in {"idle", "check", "deleted"}
            /\ ips' = ips \/ Free(ip)
    <3>1. pc = "changeRelease" => old \in IPs
      BY <1>4 DEF IInv, AddressInHand
    <3>2. pc = "deleteRelease" => lb.ip \in IPs
      BY <1>4 DEF IInv, AddressInHand
    <3>3. CASE ChangeRelease
      BY <3>1, <3>3 DEF ChangeRelease, releaseIPIfManaged, Fails, Return, Goto
    <3>4. CASE DeleteRelease
      BY <3>2, <3>4 DEF DeleteRelease, releaseIPIfManaged, Fails, Return, Goto
    <3> QED BY <1>e, <3>3, <3>4
  <2> QED BY <1>2, <1>3, <2>1
<1>f. ASSUME EnsureStart \/ DeleteStart \/ Lookup \/ ChangeIP \/ ChangeDelete \/ Check
             \/ UpdateRule \/ RecreateRule \/ CreateRule \/ TagRule \/ EnsureReturn
             \/ DeleteLookup \/ DeleteRule \/ DeleteReturn \/ Crash
      PROVE  IPInv'
  <2>1. ips' = ips
    BY <1>f DEF EnsureStart, DeleteStart, Lookup, ChangeIP, ChangeDelete, Check, UpdateRule,
      RecreateRule, deleteLoadBalancerRule, CreateRule, TagRule, EnsureReturn, DeleteLookup,
      DeleteRule, DeleteReturn, Crash, KeepCloud
  <2>2. pc' \notin {"associate", "tagIP", "rollback"}
    <3>1. CASE EnsureStart \/ DeleteStart \/ Lookup \/ ChangeIP \/ ChangeDelete \/ Check
      BY <3>1 DEF EnsureStart, DeleteStart, Lookup, ChangeIP, ChangeDelete, Check,
        deleteLoadBalancerRule, Fails, Return, Goto, WithIP
    <3>2. CASE UpdateRule \/ RecreateRule \/ CreateRule \/ TagRule
      BY <3>2 DEF UpdateRule, RecreateRule, deleteLoadBalancerRule, CreateRule, TagRule, NextTag,
        Fails, Return, Goto
    <3>3. CASE EnsureReturn \/ DeleteLookup \/ DeleteRule \/ DeleteReturn \/ Crash
      BY <3>3 DEF EnsureReturn, DeleteLookup, DeleteRule, deleteLoadBalancerRule, DeleteReturn,
        Crash, Fails, Return, Goto
    <3> QED BY <1>f, <3>1, <3>2, <3>3
  <2> QED BY <1>2, <2>1, <2>2
<1>g. ASSUME User \/ Rollout \/ OperatorCreates \/ OperatorIgnores \/ UNCHANGED vars PROVE IPInv'
  <2>1. UNCHANGED <<ips, pc, lb, todo>>
    BY <1>g DEF User, Rollout, OperatorCreates, OperatorIgnores, vars, callVars
  <2> QED BY <1>1, <2>1
    DEF IPInv, IPTable, IPsInOrder, TaggedOne, TaggedIPs, Allocated
<1> QED BY <1>a, <1>b, <1>c, <1>d, <1>e, <1>f, <1>g DEF Next, Ensure, DeleteLB
-----------------------------------------------------------------------------
\* A leaked address has been paid for, by a failure to tag it and a failure to release it,
\* or by a lost allocation.
LEMMA LeakStep ==
  ASSUME IInv, [Next]_vars
  PROVE  LeaksPaid'
<1>1. LeaksPaid /\ TypeOK /\ IPInv /\ faults \in Nat /\ lost \in Nat
  BY BoundAssumption DEF IInv, IPInv, IPTable, TypeOK
<1>2. \/ faults' = faults /\ lost' = lost
      \/ faults' = faults + 1 /\ lost' \in {lost, lost + 1}
  BY FaultStep
<1>3. ASSUME Leaked' \subseteq Leaked, pc' = "rollback" => pc = "rollback" \/ faults' = faults + 1
      PROVE  LeaksPaid'
  <2>1. /\ IsFiniteSet(Leaked') /\ Cardinality(Leaked') <= Cardinality(Leaked)
        /\ Cardinality(Leaked) \in Nat /\ Cardinality(Leaked') \in Nat
    BY <1>1, <1>3, FS_Subset, FS_CardinalityType DEF LeaksPaid
  <2> QED BY <1>1, <1>2, <1>3, <2>1 DEF LeaksPaid
<1>4. ASSUME NEW i, Leaked' \subseteq Leaked \cup {i}, faults' = faults + 1,
             lost' = lost + 1 \/ pc = "rollback", pc' # "rollback"
      PROVE  LeaksPaid'
  <2>1. /\ IsFiniteSet(Leaked \cup {i}) /\ Cardinality(Leaked \cup {i}) <= Cardinality(Leaked) + 1
        /\ Cardinality(Leaked) \in Nat
    <3>1. IsFiniteSet(Leaked) /\ Cardinality(Leaked) \in Nat
      BY <1>1, FS_CardinalityType DEF LeaksPaid
    <3> QED BY <3>1, FS_AddElement
  <2>2. /\ IsFiniteSet(Leaked') /\ Cardinality(Leaked') <= Cardinality(Leaked \cup {i})
        /\ Cardinality(Leaked') \in Nat /\ Cardinality(Leaked \cup {i}) \in Nat
    BY <1>4, <2>1, FS_Subset, FS_CardinalityType
  <2> QED BY <1>1, <1>2, <1>4, <2>1, <2>2 DEF LeaksPaid
<1>5. ASSUME ips' = ips, pc \notin {"tagIP", "rollback"} PROVE Leaked' \subseteq Leaked
  BY <1>5 DEF Leaked, Allocated
<1>6. ASSUME NEW i \in IPs, Free(i), pc \in {"tagIP", "rollback"} => lb.ip = i
      PROVE  Leaked' \subseteq Leaked
  <2>1. ~ips'[i].allocated /\ \A j \in IPs : j # i => ips'[j] = ips[j]
    BY <1>1, <1>6, FreeForm DEF IPInv
  <2> QED BY <1>6, <2>1 DEF Leaked, Allocated, IPs
<1>7. lb.ip \in IPs \cup {None} /\ old \in IPs \cup {None}
  BY <1>1 DEF TypeOK
<1>a. ASSUME Associate PROVE LeaksPaid'
  <2>1. pc = "associate"
    BY <1>a DEF Associate
  <2>2. CASE ips' = ips /\ Return
    BY <1>3, <1>5, <2>1, <2>2 DEF Return
  <2>3. ASSUME NEW i \in PoolIPs, Allocate(i),
               \/ lb' = [lb EXCEPT !.ip = i] /\ Goto("tagIP")
               \/ Return /\ lost' = lost + 1 /\ faults' = faults + 1
        PROVE  LeaksPaid'
    <3>1. i \in IPs /\ (lb' = [lb EXCEPT !.ip = i] => lb'.ip = i)
      BY <1>1 DEF IPs, TypeOK
    <3>2. \A j \in IPs : j # i => ips'[j] = ips[j]
      BY <1>1, <2>3, <3>1, AllocateForm DEF IPInv
    <3>3. Leaked' \subseteq Leaked \cup {i}
      BY <2>1, <3>2 DEF Leaked, Allocated, IPs
    <3>4. CASE lb' = [lb EXCEPT !.ip = i] /\ Goto("tagIP")
      <4>1. i \notin Leaked' /\ pc' = "tagIP"
        BY <3>1, <3>4 DEF Leaked, Goto
      <4> QED BY <1>3, <3>3, <4>1
    <3>5. CASE Return /\ lost' = lost + 1 /\ faults' = faults + 1
      BY <1>4, <3>3, <3>5 DEF Return
    <3> QED BY <2>3, <3>4, <3>5
  <2> QED BY <1>a, <2>2, <2>3 DEF Associate, Fails, Fault
<1>b. ASSUME TagIP PROVE LeaksPaid'
  <2>1. /\ pc = "tagIP" /\ lb' = lb /\ lb.ip \in IPs /\ todo \in 1..3
        /\ TagOrder[todo] \in Tags
    BY <1>1, <1>7, <1>b, TagFacts DEF TagIP, TypeOK, IInv, AddressInHand
  <2>2. CASE Goto("rollback") /\ UNCHANGED ips /\ faults' = faults + 1
    <3>1. Leaked' \subseteq Leaked
      BY <2>1, <2>2 DEF Leaked, Goto, Allocated
    <3> QED BY <1>3, <2>2, <3>1
  <2>3. CASE TagAnIP(lb.ip, TagOrder[todo]) /\ \/ Goto("rollback") /\ faults' = faults + 1
                                               \/ NextTag("check")
    <3>1. /\ ips'[lb.ip].tags = ips[lb.ip].tags \cup {TagOrder[todo]}
          /\ \A j \in IPs : j # lb.ip => ips'[j] = ips[j]
      BY <1>1, <2>1, <2>3, TagIPForm DEF IPInv
    <3>2. \/ pc' = "tagIP"
          \/ pc' = "rollback" /\ faults' = faults + 1
          \/ pc' = "check" /\ todo = 3
      BY <2>1, <2>3, TagFacts DEF Goto, NextTag
    <3>3. pc' = "check" => Tags \subseteq ips'[lb.ip].tags
      BY <1>1, <2>1, <3>1, <3>2, TagFacts DEF IPInv, IPsInOrder
    <3>4. lb.ip \notin Leaked'
      BY <2>1, <3>2, <3>3 DEF Leaked, matchAllTags
    <3>5. Leaked' \subseteq Leaked
      BY <2>1, <3>1, <3>4 DEF Leaked, Allocated, IPs
    <3> QED BY <1>3, <3>2, <3>5
  <2> QED BY <1>b, <2>2, <2>3 DEF TagIP, Fault
<1>c. ASSUME Rollback PROVE LeaksPaid'
  <2>1. pc = "rollback" /\ pc' = "idle" /\ lb.ip \in IPs
    BY <1>7, <1>c DEF Rollback, Return, IInv, AddressInHand
  <2>2. CASE Free(lb.ip)
    BY <1>3, <1>6, <2>1, <2>2
  <2>3. CASE UNCHANGED ips /\ faults' = faults + 1
    <3>1. Leaked' \subseteq Leaked \cup {lb.ip}
      BY <2>3 DEF Leaked, Allocated
    <3> QED BY <1>4, <2>1, <2>3, <3>1
  <2> QED BY <1>c, <2>2, <2>3 DEF Rollback, Fault
<1>d. ASSUME Crash PROVE LeaksPaid'
  <2>1. ips' = ips /\ pc' = "idle" /\ faults' = faults + 1
        /\ lost' = IF pc \in {"tagIP", "rollback"} THEN lost + 1 ELSE lost
    BY <1>d DEF Crash, KeepCloud, Fails, Fault, Return
  <2>2. CASE pc \in {"tagIP", "rollback"}
    <3>1. Leaked' \subseteq Leaked \cup {lb.ip}
      BY <2>1 DEF Leaked, Allocated
    <3> QED BY <1>4, <2>1, <2>2, <3>1
  <2>3. CASE pc \notin {"tagIP", "rollback"}
    BY <1>3, <1>5, <2>1, <2>3
  <2> QED BY <2>2, <2>3
<1>e. ASSUME ChangeRelease \/ DeleteRelease PROVE LeaksPaid'
  <2>1. PICK ip \in {old, lb.ip} :
            /\ ip \in IPs /\ pc \in {"changeRelease", "deleteRelease"}
            /\ pc' \in {"idle", "check", "deleted"}
            /\ ips' = ips \/ Free(ip)
    <3>1. pc = "changeRelease" => old \in IPs
      BY <1>7 DEF IInv, AddressInHand
    <3>2. pc = "deleteRelease" => lb.ip \in IPs
      BY <1>7 DEF IInv, AddressInHand
    <3>3. CASE ChangeRelease
      BY <3>1, <3>3 DEF ChangeRelease, releaseIPIfManaged, Fails, Return, Goto
    <3>4. CASE DeleteRelease
      BY <3>2, <3>4 DEF DeleteRelease, releaseIPIfManaged, Fails, Return, Goto
    <3> QED BY <1>e, <3>3, <3>4
  <2> QED BY <1>3, <1>5, <1>6, <2>1
<1>f. ASSUME EnsureStart \/ DeleteStart \/ Lookup \/ FindIP \/ ChangeIP \/ ChangeDelete \/ Check
             \/ UpdateRule \/ RecreateRule \/ CreateRule \/ TagRule \/ EnsureReturn
             \/ DeleteLookup \/ DeleteRule \/ DeleteReturn
      PROVE  LeaksPaid'
  <2>1. ips' = ips /\ pc \notin {"tagIP", "rollback"}
    BY <1>f DEF EnsureStart, DeleteStart, Lookup, FindIP, ChangeIP, ChangeDelete, Check,
      UpdateRule, RecreateRule, deleteLoadBalancerRule, CreateRule, TagRule, EnsureReturn,
      DeleteLookup, DeleteRule, DeleteReturn, KeepCloud
  <2>2. pc' # "rollback"
    <3>1. CASE EnsureStart \/ DeleteStart \/ Lookup \/ FindIP \/ ChangeIP \/ ChangeDelete \/ Check
      BY <3>1 DEF EnsureStart, DeleteStart, Lookup, FindIP, ChangeIP, ChangeDelete, Check,
        deleteLoadBalancerRule, Fails, Return, Goto, WithIP
    <3>2. CASE UpdateRule \/ RecreateRule \/ CreateRule \/ TagRule
      BY <3>2 DEF UpdateRule, RecreateRule, deleteLoadBalancerRule, CreateRule, TagRule, NextTag,
        Fails, Return, Goto
    <3>3. CASE EnsureReturn \/ DeleteLookup \/ DeleteRule \/ DeleteReturn
      BY <3>3 DEF EnsureReturn, DeleteLookup, DeleteRule, deleteLoadBalancerRule, DeleteReturn,
        Fails, Return, Goto
    <3> QED BY <1>f, <3>1, <3>2, <3>3
  <2> QED BY <1>3, <1>5, <2>1, <2>2
<1>g. ASSUME User \/ Rollout \/ OperatorCreates \/ OperatorIgnores \/ UNCHANGED vars
      PROVE  LeaksPaid'
  <2>1. UNCHANGED <<ips, pc, lb>>
    BY <1>g DEF User, Rollout, OperatorCreates, OperatorIgnores, vars, callVars
  <2>2. Leaked' \subseteq Leaked
    BY <2>1 DEF Leaked, Allocated
  <2> QED BY <1>3, <2>1, <2>2
<1> QED BY <1>a, <1>b, <1>c, <1>d, <1>e, <1>f, <1>g DEF Next, Ensure, DeleteLB
-----------------------------------------------------------------------------
\* What users write, and what the controller publishes.
UserTypes == /\ spec \in Specs /\ wanted \in BOOLEAN /\ status \in Statuses
             /\ target \in Targets \cup {Unsupported}
             /\ moved \in BOOLEAN /\ edits \in 0..MaxEdits

\* Every step leaves the service's spec and status well formed.
LEMMA UserStep ==
  ASSUME IInv, [Next]_vars
  PROVE  UserTypes'
<1>1. UserTypes /\ TypeOK /\ edits \in Nat /\ MaxEdits \in Nat
  BY BoundAssumption DEF IInv, TypeOK, UserTypes
<1>2. CASE KeepUser
  BY <1>1, <1>2 DEF KeepUser, userVars, UserTypes
<1>3. CASE EnsureReturn
  <2>1. pc = "ensured" /\ lb.ip \in IPs
    BY <1>1, <1>3 DEF EnsureReturn, IInv, AddressInHand, Settled, TypeOK
  <2>2. [ip |-> lb.ip, hostname |-> svc.spec.name] \in Statuses
    BY <1>1, <2>1, InCall DEF Statuses, Ingress
  <2>3. status' \in Statuses
    BY <1>1, <1>3, <2>2 DEF EnsureReturn, UserTypes
  <2> QED BY <1>1, <1>3, <2>3 DEF EnsureReturn, UserTypes, userVars
<1>4. CASE User
  <2>1. spec' \in Specs /\ wanted' \in BOOLEAN /\ status' \in Statuses
    BY <1>1, <1>4 DEF User, Edit, UserDelete, UserCreate, Write, UserTypes, Statuses
  <2>2. edits' \in 0..MaxEdits
    BY <1>1, <1>4 DEF User, Edit, UserDelete, UserCreate, Counted
  <2>3. moved' \in BOOLEAN
    BY <1>4 DEF User, Edit, UserDelete, UserCreate, Write
  <2>4. target' = target
    BY <1>4 DEF User
  <2> QED BY <1>1, <2>1, <2>2, <2>3, <2>4 DEF UserTypes
<1>5. CASE Rollout \/ OperatorCreates \/ OperatorIgnores
  <2>1. Counted /\ UNCHANGED <<spec, wanted, status>>
    BY <1>5 DEF Rollout, OperatorCreates, OperatorIgnores
  <2>2. edits' \in 0..MaxEdits
    BY <1>1, <2>1 DEF Counted
  <2>3. moved' \in BOOLEAN /\ target' \in Targets \cup {Unsupported}
    BY <1>1, <1>5 DEF Rollout, OperatorCreates, OperatorIgnores, UserTypes
  <2> QED BY <1>1, <2>1, <2>2, <2>3 DEF UserTypes
<1>6. CASE UNCHANGED vars
  BY <1>2, <1>6 DEF vars, KeepUser
<1> QED BY <1>2, <1>3, <1>4, <1>5, <1>6 DEF Next, Ensure, DeleteLB, EnsureStart, Lookup, FindIP,
  Associate, TagIP, Rollback, ChangeIP, ChangeDelete, ChangeRelease, Check, UpdateRule,
  RecreateRule, CreateRule, TagRule, DeleteStart, DeleteLookup, DeleteRule, DeleteRelease,
  DeleteReturn, Crash, deleteLoadBalancerRule, releaseIPIfManaged

\* As long as nobody asks for another address, whatever names one names the tagged one.
LEMMA StableStep ==
  ASSUME IInv, [Next]_vars
  PROVE  Stable'
<1> SUFFICES ASSUME ~moved' PROVE Stable'
  BY DEF Stable
<1>1. TypeOK /\ Stable /\ IPInv /\ RuleSet
  BY DEF IInv, IPInv, IPTable, TypeOK, RuleSet
<1>2. ~moved
  <2>1. CASE User
    BY <1>1, <2>1 DEF TypeOK, User, Edit, UserDelete, UserCreate, Write
  <2>2. CASE OperatorCreates
    BY <1>1, <2>2 DEF TypeOK, OperatorCreates
  <2>3. CASE ~User /\ ~OperatorCreates
    <3>1. UNCHANGED moved
      BY <2>3 DEF Next, Ensure, DeleteLB, EnsureStart, Lookup, FindIP, Associate, TagIP, Rollback,
        ChangeIP, ChangeDelete, ChangeRelease, Check, UpdateRule, RecreateRule, CreateRule,
        TagRule, EnsureReturn, DeleteStart, DeleteLookup, DeleteRule, DeleteRelease,
        DeleteReturn, Crash, deleteLoadBalancerRule, releaseIPIfManaged, KeepUser, userVars,
        Rollout, OperatorIgnores, vars
    <3> QED BY <3>1
  <2> QED BY <2>1, <2>2, <2>3
<1>3. /\ wanted /\ spec.ip = None /\ pc \notin DeletePCs
      /\ svc # None => svc.spec.ip = None
      /\ \A r \in rules : OnTagged(r)
      /\ status # None => status.ip \in TaggedIPs
      /\ svc # None /\ svc.status # None => svc.status.ip \in TaggedIPs
      /\ pc \in Settled => lb.ip \in TaggedIPs
      /\ pc \in {"associate", "tagIP", "rollback"} =>
            /\ status = None /\ svc.status = None /\ \A r \in rules : r.byHand
  BY <1>1, <1>2 DEF Stable
<1>4. pc # "idle" => svc # None /\ svc.spec.ip = None
  BY <1>1, <1>3, InCall
<1>5. pc \notin {"changeIP", "changeDelete", "changeRelease"}
  BY <1>4 DEF IInv, AddressInHand
<1>p. published' = published \/ EnsureReturn
  BY FaultStep
<1>6. ASSUME Return, KeepUser, published' = published, TaggedIPs \subseteq TaggedIPs',
             \A s \in rules' : OnTagged(s)
      PROVE  Stable'
  BY <1>3, <1>6, ReturnForm DEF Stable, OnTagged, KeepUser, userVars, Settled, DeletePCs
<1>7. ASSUME pc # "idle", svc' = svc, UNCHANGED <<spec, wanted, status, published>>,
             TaggedIPs \subseteq TaggedIPs',
             \A s \in rules' : OnTagged(s),
             pc' \notin DeletePCs, pc' \in Settled => lb'.ip \in TaggedIPs',
             pc' \in {"associate", "tagIP", "rollback"} =>
                /\ status = None /\ svc.status = None /\ \A s \in rules' : s.byHand
      PROVE  Stable'
  BY <1>3, <1>7 DEF Stable, OnTagged
<1>8. ips' = ips => TaggedIPs' = TaggedIPs
  BY DEF TaggedIPs, Allocated
<1>9. HandInv'
  BY HandStep
<1>a. ASSUME EnsureStart PROVE Stable'
  <2>1. /\ pc' = "lookup" /\ svc' = [spec |-> spec, status |-> status]
        /\ UNCHANGED <<spec, wanted, status, rules, ips, published>>
    BY <1>a DEF EnsureStart, KeepUser, KeepCloud, userVars, history
  <2>2. svc'.spec = spec /\ svc'.status = status
    BY <2>1
  <2> QED BY <1>3, <1>8, <2>1, <2>2 DEF Stable, OnTagged, Settled, DeletePCs
<1>b. ASSUME Lookup PROVE Stable'
  <2>1. rules' = rules /\ ips' = ips /\ UNCHANGED <<spec, wanted, status, published>> /\ KeepUser
        /\ pc = "lookup"
    BY <1>b DEF Lookup, KeepUser, KeepCloud, userVars, history
  <2>2. CASE Return
    BY <1>3, <1>6, <1>8, <2>1, <2>2
  <2>3. CASE Goto("findIP")
    BY <1>3, <1>7, <1>8, <2>1, <2>3 DEF Goto, Settled, DeletePCs
  <2>4. ASSUME NEW r \in getLoadBalancerRule(svc.spec.name), lb' = [rule |-> r, ip |-> r.ip],
               Goto(WithIP(r.ip))
        PROVE  Stable'
    <3>1. r \in rules /\ r # None
      BY <1>1, RecordAssumption DEF getLoadBalancerRule, ByName, RuleSet
    <3>2. lb'.rule = r /\ lb'.ip = r.ip
      BY <2>4
    <3>3. r.ip \in TaggedIPs
      BY <1>3, <1>9, <2>1, <3>1, <3>2 DEF HandInv, RuleInHand, OnTagged
    <3>4. pc' = "check" /\ svc' = svc
      BY <1>4, <2>1, <2>4 DEF Goto, WithIP
    <3> QED BY <1>3, <1>7, <1>8, <2>1, <3>1, <3>2, <3>3, <3>4 DEF DeletePCs
  <2> QED BY <1>b, <2>2, <2>3, <2>4 DEF Lookup, Fails
<1>c. ASSUME FindIP PROVE Stable'
  <2>1. rules' = rules /\ ips' = ips /\ UNCHANGED <<spec, wanted, status, published>> /\ KeepUser
        /\ pc = "findIP"
    BY <1>c DEF FindIP, KeepUser, KeepCloud, userVars, history
  <2>2. CASE Return
    BY <1>3, <1>6, <1>8, <2>1, <2>2
  <2>3. ASSUME NEW i \in TaggedIPs, lb' = [lb EXCEPT !.ip = i], Goto(WithIP(i))
        PROVE  Stable'
    <3>1. lb'.ip = i /\ pc' = "check" /\ svc' = svc
      BY <1>1, <1>4, <2>1, <2>3 DEF Goto, WithIP, TypeOK
    <3> QED BY <1>3, <1>7, <1>8, <2>1, <2>3, <3>1 DEF DeletePCs
  <2>4. CASE TaggedIPs = {} /\ Goto("associate")
    <3>1. status = None /\ svc.status = None /\ \A r \in rules : r.byHand
      BY <1>3, <1>4, <2>1, <2>4 DEF OnTagged
    <3> QED BY <1>3, <1>7, <1>8, <2>1, <2>4, <3>1 DEF Goto, Settled, DeletePCs
  <2>5. CASE TaggedIPs = {} /\ svc.status # None
    BY <1>3, <1>4, <2>1, <2>5
  <2> QED BY <1>4, <1>c, <2>1, <2>2, <2>3, <2>4, <2>5 DEF FindIP, Fails
<1>d. ASSUME Associate PROVE Stable'
  <2>1. rules' = rules /\ UNCHANGED <<spec, wanted, status, published>> /\ KeepUser
        /\ pc = "associate"
    BY <1>d DEF Associate, KeepUser, userVars
  <2>2. TaggedIPs \subseteq TaggedIPs'
    <3>1. CASE ips' = ips
      BY <1>8, <3>1
    <3>2. CASE \E i \in PoolIPs : Allocate(i)
      BY <1>1, <3>2, AllocateForm DEF IPInv, IPs
    <3> QED BY <1>d, <3>1, <3>2 DEF Associate
  <2>3. CASE Return
    BY <1>3, <1>6, <2>1, <2>2, <2>3
  <2>4. CASE Goto("tagIP")
    BY <1>3, <1>7, <2>1, <2>2, <2>4 DEF Goto, Settled, DeletePCs
  <2> QED BY <1>d, <2>3, <2>4 DEF Associate, Fails
<1>e. ASSUME TagIP PROVE Stable'
  <2>1. /\ rules' = rules /\ UNCHANGED <<spec, wanted, status, published>> /\ pc = "tagIP"
        /\ lb' = lb /\ svc' = svc /\ lb.ip \in IPs /\ todo \in 1..3 /\ TagOrder[todo] \in Tags
    BY <1>1, <1>e, TagFacts DEF TagIP, KeepUser, userVars, history, Goto, IInv, AddressInHand,
      TypeOK
  <2>2. CASE UNCHANGED ips /\ Goto("rollback")
    BY <1>3, <1>7, <1>8, <2>1, <2>2 DEF Goto, Settled, DeletePCs
  <2>3. CASE TagAnIP(lb.ip, TagOrder[todo]) /\ (Goto("rollback") \/ NextTag("check"))
    <3>1. /\ ips'[lb.ip].allocated = ips[lb.ip].allocated
          /\ ips'[lb.ip].tags = ips[lb.ip].tags \cup {TagOrder[todo]}
          /\ TaggedIPs \subseteq TaggedIPs'
      BY <1>1, <2>1, <2>3, TagIPForm DEF IPInv
    <3>2. pc' \in {"tagIP", "rollback"} \/ (pc' = "check" /\ todo = 3)
      BY <2>1, <2>3, TagFacts DEF Goto, NextTag
    <3>3. pc' = "check" => ips'[lb.ip].allocated /\ Tags \subseteq ips'[lb.ip].tags
      BY <1>1, <2>1, <3>1, <3>2, TagFacts DEF IPInv, IPsInOrder, Allocated
    <3>4. pc' = "check" => lb'.ip \in TaggedIPs'
      BY <2>1, <3>3 DEF TaggedIPs, Allocated, matchAllTags
    <3> QED BY <1>3, <1>7, <2>1, <3>1, <3>2, <3>4 DEF Settled, DeletePCs
  <2> QED BY <1>e, <2>2, <2>3 DEF TagIP
<1>f. ASSUME Rollback PROVE Stable'
  <2>1. /\ Return /\ KeepUser /\ rules' = rules /\ pc = "rollback"
        /\ UNCHANGED <<spec, wanted, status, published>>
    BY <1>f DEF Rollback, KeepUser, userVars, history
  <2> QED BY <1>3, <2>1, ReturnForm DEF Stable, OnTagged, Settled, DeletePCs
<1>g. ASSUME ChangeIP \/ ChangeDelete \/ ChangeRelease \/ DeleteLB PROVE Stable'
  BY <1>3, <1>5, <1>g DEF ChangeIP, ChangeDelete, ChangeRelease, deleteLoadBalancerRule,
    releaseIPIfManaged, DeleteLB, DeleteStart, DeleteLookup, DeleteRule, DeleteRelease,
    DeleteReturn, DeletePCs
<1>h. ASSUME Check \/ UpdateRule \/ RecreateRule \/ CreateRule \/ TagRule PROVE Stable'
  <2>1. /\ KeepUser /\ UNCHANGED <<spec, wanted, status, ips, published>>
        /\ pc \in {"check", "update", "recreate", "create", "tagRule"}
    BY <1>h DEF Check, UpdateRule, RecreateRule, deleteLoadBalancerRule, CreateRule, TagRule,
      KeepUser, KeepCloud, userVars, history
  <2>2. lb.ip \in TaggedIPs
    BY <1>3, <2>1 DEF Settled
  <2>3. \/ Return
        \/ /\ svc' = svc /\ pc' \in Settled
           /\ lb' = lb \/ \E x : lb' = [lb EXCEPT !.rule = x]
    BY <1>h DEF Check, UpdateRule, RecreateRule, deleteLoadBalancerRule, CreateRule, TagRule,
      Fails, Goto, NextTag, Settled
  <2>4. \A s \in rules' : OnTagged(s)
    <3>1. CASE rules' \subseteq rules
      BY <1>3, <3>1
    <3>2. ASSUME NEW m \in Moves, rules' = Moved(m)
          PROVE  \A s \in rules' : OnTagged(s)
      <4>1. \A s \in rules' : \E r \in rules :
               s.name = r.name /\ s.ip = r.ip /\ s.byHand = r.byHand
        BY <1>1, <3>2 DEF Moves, Moved, RuleSet
      <4> QED BY <1>3, <4>1 DEF OnTagged
    <3>3. CASE UpdateRule /\ rules' # rules
      <4>1. rules' = {IF r.id = lb.rule.id THEN [r EXCEPT !.algorithm = svc.spec.algorithm]
                      ELSE r : r \in rules}
        BY <3>3 DEF UpdateRule, ChangeRule
      <4>2. svc.spec.algorithm \in {s.algorithm : s \in Specs}
        BY <1>1, <2>1, InCall
      <4> QED BY <1>1, <3>2, <4>1, <4>2, UpdatedForm DEF RuleSet
    <3>4. CASE TagRule /\ rules' # rules
      <4>1. TagARule(lb.rule.id, TagOrder[todo]) /\ TagOrder[todo] \in Tags
        BY <1>1, <3>4, TagFacts DEF TagRule, TypeOK
      <4> QED BY <1>1, <3>2, <4>1, TaggedForm DEF RuleSet
    <3>5. CASE CreateRule /\ rules' # rules
      <4>1. PICK new : /\ new = NewRule(FreeId, svc.spec, serviceToLBPorts, lb.ip, FALSE)
                       /\ rules' = rules \cup {new}
        BY <3>5 DEF CreateRule
      <4>2. new.ip = lb.ip /\ new.byHand = FALSE
        BY <4>1 DEF NewRule
      <4> QED BY <1>3, <2>2, <4>1, <4>2 DEF OnTagged
    <3>6. CASE Check \/ RecreateRule
      BY <3>1, <3>6 DEF Check, KeepCloud, RecreateRule, deleteLoadBalancerRule, RemoveRule
    <3> QED BY <1>h, <3>1, <3>3, <3>4, <3>5, <3>6
  <2>5. CASE Return
    BY <1>6, <1>8, <2>1, <2>4, <2>5
  <2>6. CASE ~Return
    <3>1. lb'.ip = lb.ip
      BY <1>1, <2>3, <2>6 DEF TypeOK
    <3>2. svc' = svc /\ pc' \in Settled /\ pc' \notin DeletePCs
          /\ pc' \notin {"associate", "tagIP", "rollback"}
      BY <2>3, <2>6 DEF Settled, DeletePCs
    <3> QED BY <1>7, <1>8, <2>1, <2>2, <2>4, <3>1, <3>2
  <2> QED BY <2>5, <2>6
<1>i. ASSUME EnsureReturn PROVE Stable'
  <2>1. /\ pc = "ensured" /\ UNCHANGED <<spec, wanted, rules, ips>> /\ Return
        /\ status' = status \/ status' = [ip |-> lb.ip, hostname |-> svc.spec.name]
    BY <1>i DEF EnsureReturn, KeepCloud, userVars
  <2>2. lb.ip \in TaggedIPs
    BY <1>3, <2>1 DEF Settled
  <2>3. status' # None => status'.ip \in TaggedIPs
    BY <1>3, <2>1, <2>2
  <2>4. \A s \in rules : s.byHand => s.name \notin published'
    <3>1. PICK r \in rules : IsCopied(r) /\ lb.rule.name = svc.spec.name
      BY <2>1 DEF IInv, RuleInHand, WorksOnRule
    <3>2. ~r.byHand /\ r.name = svc.spec.name
      BY <1>3, <2>1, <3>1 DEF IInv, RuleInHand, WorksOnRule, IsCopied, OnTagged
    <3>3. \A s \in rules : s.byHand => s.name # svc.spec.name
      BY <1>1, <3>1, <3>2 DEF RuleSet, OneByName
    <3> QED BY <1>3, <1>i, <3>3 DEF EnsureReturn, OnTagged
  <2> QED BY <1>3, <1>8, <2>1, <2>3, <2>4, ReturnForm DEF Stable, OnTagged, Settled, DeletePCs
<1>j. ASSUME Crash PROVE Stable'
  BY <1>3, <1>6, <1>8, <1>j DEF Crash, Fails, KeepCloud, OnTagged
<1>k. ASSUME User PROVE Stable'
  <2>1. UNCHANGED <<rules, ips, pc, svc, lb, published>> /\ wanted' /\ status' = status
        /\ spec'.ip = None
    BY <1>1, <1>3, <1>k DEF User, Edit, UserDelete, UserCreate, Write, callVars, history, TypeOK
  <2> QED BY <1>3, <1>8, <2>1 DEF Stable, OnTagged
<1>l. ASSUME OperatorIgnores PROVE Stable'
  <2>1. UNCHANGED <<spec, wanted, status, ips, pc, svc, lb, published>> /\ pc = "idle"
    BY <1>l DEF OperatorIgnores, callVars, history
  <2>2. PICK m \in Moves : rules' = Moved(m)
    BY <1>1, <1>l, TaggedForm DEF OperatorIgnores, RuleSet
  <2>3. \A s \in rules' : \E r \in rules :
           s.name = r.name /\ s.ip = r.ip /\ s.byHand = r.byHand
    BY <1>1, <2>2 DEF Moves, Moved, RuleSet
  <2> QED BY <1>3, <1>8, <2>1, <2>3 DEF Stable, OnTagged, Settled
<1>n. ASSUME OperatorCreates PROVE Stable'
  <2>1. UNCHANGED <<spec, wanted, status, ips, pc, svc, lb, published>> /\ pc = "idle"
    BY <1>n DEF OperatorCreates, callVars, history
  <2>2. PICK new : /\ rules' = rules \cup {new} /\ new.byHand
                   /\ moved' = (moved \/ new.name \in published)
    BY <1>1, <1>n, HandMadeForm DEF RuleSet
  <2>3. new.name \notin published
    BY <2>2
  <2> QED BY <1>3, <1>8, <2>1, <2>2, <2>3 DEF Stable, OnTagged, Settled
<1>m. ASSUME Rollout \/ UNCHANGED vars PROVE Stable'
  <2>1. UNCHANGED <<spec, wanted, status, rules, ips, pc, svc, lb, published>>
    BY <1>m DEF Rollout, vars, userVars, callVars, history
  <2> QED BY <1>3, <1>8, <2>1 DEF Stable, OnTagged
<1> QED BY <1>a, <1>b, <1>c, <1>d, <1>e, <1>f, <1>g, <1>h, <1>i, <1>j, <1>k, <1>l, <1>m, <1>n
  DEF Next, Ensure
-----------------------------------------------------------------------------
\* The invariant holds at the start, when there are no rules.
LEMMA InitInv == Init => IInv
<1> SUFFICES ASSUME Init PROVE IInv
  OBVIOUS
<1>1. /\ spec \in Specs /\ wanted = TRUE /\ status = None /\ pc = "idle" /\ svc = None
      /\ lb = NoLB /\ old = None /\ todo = 1 /\ published = {} /\ lost = 0
      /\ moved = (spec.ip # None) /\ faults = 0 /\ edits = 0
      /\ rules = {} /\ target \in Targets \cup {Unsupported}
      /\ ips = [i \in IPs |-> [allocated |-> i \in UserIPs, tags |-> {}]]
  BY DEF Init
<1>2. OneByName /\ OneById
  BY <1>1 DEF OneByName, OneById
<1>3. lb \in [rule : Rules \cup {None}, ip : IPs \cup {None}] /\ lb.rule = None /\ lb.ip = None
  BY <1>1 DEF NoLB
<1>4. /\ ips \in [IPs -> [allocated : BOOLEAN, tags : SUBSET Tags]]
      /\ \A i \in IPs : ips[i].allocated = (i \in UserIPs) /\ ips[i].tags = {}
  BY <1>1
<1>5. TypeOK
  BY <1>1, <1>3, <1>4, TagFacts, BoundAssumption DEF TypeOK, Statuses
<1>6. Clean /\ HandMadeKept /\ RuleInHand /\ NameIsOurs /\ AddressInHand
  BY <1>1, <1>3 DEF Clean, HandMadeKept, RuleInHand, NameIsOurs,
    AddressInHand, WorksOnRule, EnsurePCs, Settled
<1>7. TaggedIPs = {}
  BY <1>4, TagFacts DEF TaggedIPs, matchAllTags
<1>8. IPsInOrder
  BY <1>1, <1>7 DEF IPsInOrder, TaggedOne
<1>9. LeaksPaid
  <2>1. Leaked = {}
    BY <1>4, NoneAssumption DEF Leaked, Allocated, IPs
  <2>2. IsFiniteSet({}) /\ Cardinality({}) = 0
    BY FS_EmptySet
  <2> QED BY <1>1, <2>1, <2>2 DEF LeaksPaid
<1>10. Stable
  BY <1>1 DEF Stable, DeletePCs, Settled
<1> QED BY <1>2, <1>5, <1>6, <1>8, <1>9, <1>10 DEF IInv

\* Every step keeps the invariant.
LEMMA StepInv == IInv /\ [Next]_vars => IInv'
<1> SUFFICES ASSUME IInv, [Next]_vars PROVE IInv'
  OBVIOUS
<1>1. CallInv' /\ RuleSet' /\ HandInv' /\ IPInv' /\ LeaksPaid' /\ UserTypes' /\ Stable'
  BY CallStep, RuleSetStep, HandStep, IPStep, LeakStep, UserStep, StableStep
<1>2. published' \subseteq Names /\ lost' \in 0..MaxFaults /\ faults' \in 0..MaxFaults
  <2>1. published' \subseteq Names /\ faults' \in 0..MaxFaults /\ lost' \in Nat
    BY FaultStep, BoundAssumption DEF IInv, TypeOK
  <2> QED BY <1>1, <2>1, BoundAssumption DEF LeaksPaid
<1>3. TypeOK'
  BY <1>1, <1>2 DEF TypeOK, CallInv, CallTypes, RuleSet, IPInv, IPTable, UserTypes
<1> QED BY <1>1, <1>3 DEF IInv, CallInv, RuleSet, HandInv, IPInv

\* The invariant holds throughout.
THEOREM LoadBalancerInvariant == Spec => []IInv
BY InitInv, StepInv, PTL DEF Spec

\* The variables of the load balancer's life range over the program's values.
THEOREM LoadBalancerTypeCorrect == Spec => []TypeOK
<1>1. IInv => TypeOK
  BY DEF IInv
<1> QED BY <1>1, LoadBalancerInvariant, PTL

\* For any retries, renames, failures and crashes, getLoadBalancerRule never finds two
\* rules by one name and tryPublicIPAddressByTags never finds two addresses.
THEOREM LookupNeverAmbiguous == Spec => []LookupUnambiguous
<1>1. ASSUME NEW S, \A x, y \in S : x = y PROVE Cardinality(S) <= 1
  <2>1. CASE S = {}
    BY <2>1, FS_EmptySet
  <2>2. CASE S # {}
    <3>1. PICK x \in S : TRUE
      BY <2>2
    <3>2. S = {x}
      BY <1>1, <3>1
    <3> QED BY <3>2, FS_Singleton
  <2> QED BY <2>1, <2>2
<1>2. ASSUME IInv PROVE LookupUnambiguous
  <2>1. ASSUME NEW name \in Names PROVE Cardinality(ByName(name)) <= 1
    <3>1. \A x, y \in ByName(name) : x = y
      BY <1>2 DEF IInv, OneByName, ByName
    <3> QED BY <1>1, <3>1
  <2>2. Cardinality(TaggedIPs) <= 1
    <3>1. \A x, y \in TaggedIPs : x = y
      BY <1>2 DEF IInv, IPsInOrder, TaggedOne
    <3> QED BY <1>1, <3>1
  <2> QED BY <2>1, <2>2 DEF LookupUnambiguous
<1> QED BY <1>2, LoadBalancerInvariant, PTL

\* When EnsureLoadBalancer succeeds, CloudStack holds the rule the service asked for, and
\* the next call will find that one.
THEOREM EnsuredIsWhatWasAsked == Spec => []EnsuredMatches
<1>1. ASSUME IInv, pc = "ensured" PROVE EnsuredMatches
  <2>1. PICK r \in rules : IsCopied(r)
    BY <1>1 DEF IInv, RuleInHand, WorksOnRule
  <2>2. /\ r.id = lb.rule.id /\ r.ip = lb.ip /\ r.name = svc.spec.name
        /\ svc.spec.ports \in {Named, r.ports} /\ r.algorithm = svc.spec.algorithm
        /\ svc.spec.ip \in {None, r.ip} /\ Tags \subseteq r.tags
    BY <1>1, <2>1 DEF IInv, RuleInHand, WorksOnRule, IsCopied, AddressInHand, Settled
  <2>3. getLoadBalancerRule(svc.spec.name) = {r}
    BY <1>1, <2>1, <2>2 DEF IInv, OneByName, getLoadBalancerRule, ByName
  <2> QED BY <2>2, <2>3 DEF EnsuredMatches, matchAllTags
<1>2. IInv => EnsuredMatches
  BY <1>1 DEF EnsuredMatches
<1> QED BY <1>2, LoadBalancerInvariant, PTL

\* However many calls fail, an address leaks only for two failures, or for one that
\* counts twice.
THEOREM LeaksArePaid == Spec => []LeakTakesTwoFaults
<1>1. ASSUME IInv PROVE LeakTakesTwoFaults
  <2>1. Cardinality(Leaked) \in Nat /\ faults \in Nat /\ lost \in Nat
    BY <1>1, FS_CardinalityType, BoundAssumption DEF IInv, LeaksPaid, TypeOK
  <2> QED BY <1>1, <2>1 DEF IInv, LeaksPaid, LeakTakesTwoFaults
<1> QED BY <1>1, LoadBalancerInvariant, PTL
-----------------------------------------------------------------------------
\* A call changes or deletes no rule but the one it has in hand.
LEMMA OnlyRuleInHand ==
  ASSUME IInv, [Next]_vars, pc # "idle"
  PROVE  \A r \in rules : (lb.rule = None \/ r.id # lb.rule.id) => r \in rules'
<1>1. TypeOK /\ rules \in SUBSET Rules /\ RuleInHand
  BY DEF IInv, TypeOK
<1>2. CASE rules \subseteq rules'
  BY <1>2
<1>3. CASE ChangeDelete \/ RecreateRule \/ DeleteRule
  <2>1. lb.rule # None
    BY <1>1, <1>3 DEF ChangeDelete, RecreateRule, DeleteRule, deleteLoadBalancerRule,
      RuleInHand, WorksOnRule
  <2> QED BY <1>3, <2>1 DEF ChangeDelete, RecreateRule, DeleteRule, deleteLoadBalancerRule,
    RemoveRule
<1>4. CASE UpdateRule /\ rules' # rules
  <2>1. /\ rules' = {IF r.id = lb.rule.id THEN [r EXCEPT !.algorithm = svc.spec.algorithm]
                     ELSE r : r \in rules}
        /\ pc = "update" /\ lb.rule # None
    BY <1>1, <1>4 DEF UpdateRule, ChangeRule, RuleInHand, WorksOnRule
  <2>2. svc.spec.algorithm \in {s.algorithm : s \in Specs}
    BY <1>1, <2>1, InCall
  <2>3. PICK m \in Moves : rules' = Moved(m) /\ Rebalancing(m, lb.rule.id, svc.spec.algorithm)
    BY <1>1, <2>1, <2>2, UpdatedForm
  <2> QED BY <1>1, <2>1, <2>3 DEF Moved, Moves, Rebalancing
<1>5. CASE TagRule /\ rules' # rules
  <2>1. /\ TagARule(lb.rule.id, TagOrder[todo]) /\ TagOrder[todo] \in Tags
        /\ pc = "tagRule" /\ lb.rule # None
    BY <1>1, <1>5, TagFacts DEF TagRule, TypeOK, RuleInHand, WorksOnRule
  <2>2. PICK m \in Moves : rules' = Moved(m) /\ Tagging(m, lb.rule.id, TagOrder[todo])
    BY <1>1, <2>1, TaggedForm
  <2> QED BY <1>1, <2>1, <2>2 DEF Moved, Moves, Tagging
<1>6. CASE CreateRule
  BY <1>2, <1>6 DEF CreateRule
<1>7. CASE User \/ Rollout \/ UNCHANGED vars
  BY <1>2, <1>7 DEF User, Rollout, vars
<1>8. CASE EnsureStart \/ Lookup \/ FindIP \/ Associate \/ TagIP \/ Rollback \/ ChangeIP \/ Check
           \/ EnsureReturn \/ ChangeRelease
  BY <1>2, <1>8 DEF EnsureStart, Lookup, FindIP, Associate, TagIP, Rollback, ChangeIP, Check,
    EnsureReturn, ChangeRelease, releaseIPIfManaged, KeepCloud
<1>9. CASE DeleteStart \/ DeleteLookup \/ DeleteRelease \/ DeleteReturn \/ Crash
  BY <1>2, <1>9 DEF DeleteStart, DeleteLookup, DeleteRelease, DeleteReturn, Crash,
    releaseIPIfManaged, KeepCloud
<1>10. ~OperatorCreates /\ ~OperatorIgnores
  BY DEF OperatorCreates, OperatorIgnores
<1> QED BY <1>2, <1>3, <1>4, <1>5, <1>6, <1>7, <1>8, <1>9, <1>10 DEF Next, Ensure, DeleteLB

\* No call touches a rule with the ignore tag, nor one made by hand at any time, unless the
\* service has been published under its name.
THEOREM UnmanagedStaysUntouched == Spec => UnmanagedUntouched
<1> DEFINE Untouched ==
      pc # "idle" => \A r \in rules :
          ignoreTag \in r.tags \/ (r.byHand /\ r.name \notin published) => r \in rules'
<1>1. ASSUME IInv, [Next]_vars PROVE Untouched
  <2> SUFFICES ASSUME pc # "idle", NEW r \in rules,
                      ignoreTag \in r.tags \/ (r.byHand /\ r.name \notin published)
               PROVE  r \in rules'
    OBVIOUS
  <2>1. CASE lb.rule = None
    BY <1>1, <2>1, OnlyRuleInHand
  <2>2. CASE lb.rule # None
    <3>1. PICK s \in rules : /\ s.id = lb.rule.id /\ ignoreTag \notin s.tags
                             /\ s.byHand => s.name \in published
      BY <1>1, <2>2 DEF IInv, RuleInHand, IsCopied
    <3>2. r.id # lb.rule.id
      BY <1>1, <3>1 DEF IInv, OneById
    <3> QED BY <1>1, <3>2, OnlyRuleInHand
  <2> QED BY <2>1, <2>2
<1>2. IInv /\ [Next]_vars => [Untouched]_vars
  BY <1>1
<1>3. Spec => [][Untouched]_vars
  BY <1>2, LoadBalancerInvariant, PTL DEF Spec
<1> QED BY <1>3 DEF UnmanagedUntouched

\* A published address stays the service's, unless its user moves it or somebody makes a
\* rule by a name it has been published under.
THEOREM AddressIsStable == Spec => StableAddress
<1> DEFINE Same == ~moved /\ status # None /\ status' # None => status'.ip = status.ip
<1>1. ASSUME IInv, [Next]_vars PROVE Same
  <2> SUFFICES ASSUME ~moved, status # None, status' # None PROVE status'.ip = status.ip
    OBVIOUS
  <2>1. CASE status' = status
    BY <2>1
  <2>2. CASE EnsureReturn
    <3>1. pc = "ensured" /\ (status' # status => status'.ip = lb.ip)
      BY <2>2 DEF EnsureReturn
    <3>2. status.ip \in TaggedIPs /\ lb.ip \in TaggedIPs
      BY <1>1, <3>1 DEF IInv, Stable, Settled
    <3> QED BY <1>1, <3>1, <3>2 DEF IInv, IPsInOrder, TaggedOne
  <2>3. status' = status \/ EnsureReturn
    BY <1>1 DEF Next, Ensure, DeleteLB, EnsureStart, Lookup, FindIP, Associate, TagIP, Rollback,
      ChangeIP, ChangeDelete, ChangeRelease, Check, UpdateRule, RecreateRule, CreateRule,
      TagRule, DeleteStart, DeleteLookup, DeleteRule, DeleteRelease, DeleteReturn, Crash,
      deleteLoadBalancerRule, releaseIPIfManaged, KeepUser, User, Edit, UserDelete, UserCreate,
      Rollout, OperatorCreates, OperatorIgnores, vars
  <2> QED BY <2>1, <2>2, <2>3
<1>2. IInv /\ [Next]_vars => [Same]_vars
  BY <1>1
<1>3. Spec => [][Same]_vars
  BY <1>2, LoadBalancerInvariant, PTL DEF Spec
<1> QED BY <1>3 DEF StableAddress
=============================================================================
