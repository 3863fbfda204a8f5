------------------------------- MODULE Pools -------------------------------
(***************************************************************************)
(* loadbalancer.go: the ports of a service, the rule made of them, and the *)
(* health checks of the rule's pools.  EnsureLoadBalancer translates the   *)
(* ports to check the rule, deletes one that was made of other ports,      *)
(* translates them again to make a new one, and queues an update of the    *)
(* pools; a worker of the queue later translates them once more and writes *)
(* the health checks, pool by pool.  Both hold the service lock, but not   *)
(* the endpoints in which named target ports are looked up: those can      *)
(* change between any two steps.  Any call can fail, with or without its   *)
(* effect, and is repeated later.                                          *)
(*                                                                         *)
(* A health check is a type and a message; the expected answer goes the    *)
(* way of the message.  External: CloudStack, which gives a new rule one   *)
(* pool per port and lists the ports in any order.  Names, addresses and   *)
(* tags of the rule, and whether the next call may touch it, are in        *)
(* LoadBalancer.                                                           *)
(***************************************************************************)
EXTENDS Integers, Sequences, FiniteSets

CONSTANTS
    PortSpecs,   \* services: [protocol, custom, ports], where ports maps a public port to
                 \* [target, prefix, message] and the prefix is that of the port's name
    Named,       \* a target port given by name
    Targets,     \* the numbers a name can stand for
    NoMessage, Absent,
    MaxPoolEvents  \* bound: edits, rollouts and failed calls

ASSUME PortSpecAssumption ==
    /\ \A s \in PortSpecs : /\ DOMAIN s = {"protocol", "custom", "ports"}
                            /\ s.protocol \in {"TCP", "UDP"}
                            /\ IsFiniteSet(DOMAIN s.ports) /\ DOMAIN s.ports \subseteq Nat
                            /\ \A p \in DOMAIN s.ports : s.ports[p].target \in Nat \cup {Named}
    /\ Targets \subseteq Nat
ASSUME PoolBoundAssumption == MaxPoolEvents \in Nat

VARIABLES
    wantedPorts,  \* the service as it is now
    endpoint,     \* what Named stands for in the endpoints, or Absent
    lbRule,       \* the rule: Absent, or [public, private, additional, protocol]
    pools,        \* its pools: public port -> [dst, type, message]
    queuedCopy,   \* the service the pending pool update was asked with, or Absent
    poolPC,       \* who has the service lock, and where: "rest" is nobody, "pools" a worker,
                  \* "check", "delete", "create" and "push" are EnsureLoadBalancer
    copy,         \* the service that call was made with
    lbPorts,      \* the ports it has translated so far, sorted
    listedPools,  \* the pools as the worker has listed them
    turn,         \* the next of the ports in the worker's loop
    said,         \* history: what the endpoints have said since the lock was taken
    poolEvents

poolCall == <<poolPC, copy, lbPorts, listedPools, turn>>
PoolVars == <<wantedPorts, endpoint, lbRule, pools, queuedCopy, poolCall, said, poolEvents>>

NoPools == [p \in {} |-> 0]
-----------------------------------------------------------------------------
(* The translation of the ports.                                           *)

\* sortPorts: the public ports, in increasing order.
sortPorts(s) == CHOOSE q \in [1..Cardinality(DOMAIN s.ports) -> DOMAIN s.ports] :
                   \A i, j \in DOMAIN q : i < j => q[i] < q[j]

\* getTargetPort: a number stands for itself, a name is looked up in the endpoints, which
\* say e (Absent if there is no such name).
getTargetPort(t, e) == IF t = Named THEN e ELSE t

\* What serviceToLBPorts makes of the public port p of service s.
portInfo(s, p, e) == [public |-> p, private |-> getTargetPort(s.ports[p].target, e),
                      prefix |-> s.ports[p].prefix, message |-> s.ports[p].message]

\* sort.Strings: the elements of s, sorted (any fixed order does).
Before(a, b) == a[1] < b[1] \/ (a[1] = b[1] /\ a[2] < b[2])
Rearranged(s) == {[i \in DOMAIN s |-> s[p[i]]] :
                     p \in {f \in [DOMAIN s -> DOMAIN s] : \A i, j \in DOMAIN s : f[i] = f[j] => i = j}}
sortStrings(s) == CHOOSE q \in Rearranged(s) : \A i, j \in DOMAIN s : i < j => ~Before(q[j], q[i])

\* additionalPorts: all but the first, sorted.
additionalPorts(ports) == sortStrings([i \in 1..(Len(ports) - 1) |->
                                          <<ports[i + 1].public, ports[i + 1].private>>])

\* Faulty variant: only the first port is compared.
comparePortsFirst(ports, protocol, r) ==
    r.private = ports[1].private /\ r.public = ports[1].public /\ r.protocol = protocol
\* Faulty variant: what CloudStack lists is not sorted.
comparePortsUnsorted(ports, protocol, r) ==
    /\ additionalPorts(ports) = r.additional
    /\ r.private = ports[1].private /\ r.public = ports[1].public /\ r.protocol = protocol

comparePorts(ports, protocol, r) ==
    /\ additionalPorts(ports) = sortStrings(r.additional)
    /\ r.private = ports[1].private /\ r.public = ports[1].public /\ r.protocol = protocol

\* Reference: what a rule, and what translated ports, send where.
Routes(r) == {<<r.public, r.private>>} \cup {r.additional[i] : i \in DOMAIN r.additional}
RoutesOf(ports) == {<<ports[i].public, ports[i].private>> : i \in DOMAIN ports}

\* The rules CloudStack may list after createLoadBalancerRule, and the pools it makes.
NewRules(ports, protocol) ==
    {[public |-> ports[1].public, private |-> ports[1].private, protocol |-> protocol,
      additional |-> a] : a \in Rearranged(additionalPorts(ports))}
NewPools(ports) == [p \in {ports[i].public : i \in DOMAIN ports} |->
    [dst |-> ports[CHOOSE i \in DOMAIN ports : ports[i].public = p].private, type |-> "TCP",
     message |-> NoMessage]]
-----------------------------------------------------------------------------
(* The health check of a port.                                             *)

requiresMsg == {"HTTP", "HTTPS"}
supportedHCProtocols == requiresMsg \cup {"TCP", "UDP"}

\* portToHCProtocol: what the name of the port begins with, or else its protocol.
portToHCProtocol(protocol, port) ==
    IF port.prefix \in supportedHCProtocols THEN port.prefix ELSE protocol

\* Faulty variant: a change of the message alone goes unnoticed.
needsPoolType(protocol, port, ps) ==
    /\ ~(portToHCProtocol(protocol, port) \in requiresMsg /\ port.message = NoMessage)
    /\ port.public \in DOMAIN ps /\ ps[port.public].dst = port.private
    /\ ps[port.public].type # portToHCProtocol(protocol, port)

\* generateGloboNetworkPool returns a pool: the one of the public and the private port, if
\* its health check is not the wanted one, and a message is given where one is needed.
needsPool(protocol, port, ps) ==
    /\ ~(portToHCProtocol(protocol, port) \in requiresMsg /\ port.message = NoMessage)
    /\ port.public \in DOMAIN ps /\ ps[port.public].dst = port.private
    /\ ps[port.public].message # port.message \/ ps[port.public].type # portToHCProtocol(protocol, port)
-----------------------------------------------------------------------------
PoolsInit == /\ wantedPorts \in PortSpecs /\ endpoint \in Targets \cup {Absent}
             /\ lbRule = Absent /\ pools = NoPools /\ queuedCopy = Absent
             /\ poolPC = "rest" /\ copy = Absent /\ lbPorts = << >> /\ listedPools = NoPools
             /\ turn = 1 /\ said = {}
             /\ poolEvents = 0

PoolEvent == poolEvents < MaxPoolEvents /\ poolEvents' = poolEvents + 1
KeepWorld == UNCHANGED <<wantedPorts, endpoint>>
KeepRule == UNCHANGED <<lbRule, pools>>

\* The service lock is taken, by a call that goes on at `point', and released.
PoolBegins(point, s) == /\ poolPC = "rest" /\ poolPC' = point /\ copy' = s /\ said' = {endpoint}
                        /\ UNCHANGED <<lbPorts, turn>>
PoolReturns == /\ poolPC' = "rest" /\ copy' = Absent /\ lbPorts' = << >> /\ listedPools' = NoPools
               /\ turn' = 1 /\ said' = {}
PoolGoesOn(point, ports) == /\ poolPC' = point /\ lbPorts' = ports
                            /\ UNCHANGED <<copy, listedPools, turn, said>>

\* Any call fails without effect.  EnsureLoadBalancer returns an error; what a worker was at
\* will be started again.
PoolFails == /\ poolPC # "rest" /\ PoolEvent /\ PoolReturns
             /\ KeepWorld /\ KeepRule /\ UNCHANGED queuedCopy

\* serviceToLBPorts, one turn of its loop: names are looked up port by port, by the endpoints
\* as they are now, and one that is not found is an error.
Translated == Len(lbPorts) = Cardinality(DOMAIN copy.ports)
TranslatePort ==
    /\ poolPC \in {"check", "create", "pools"} /\ ~Translated
    /\ LET info == portInfo(copy, sortPorts(copy)[Len(lbPorts) + 1], endpoint) IN
       IF info.private = Absent THEN PoolReturns ELSE PoolGoesOn(poolPC, Append(lbPorts, info))
    /\ KeepWorld /\ KeepRule /\ UNCHANGED <<queuedCopy, poolEvents>>
-----------------------------------------------------------------------------
(* EnsureLoadBalancer, as far as ports go.                                 *)

\* It is called with the service as it is now.  Without a rule there is nothing to check.
EnsureBegins == /\ DOMAIN wantedPorts.ports # {}
                /\ PoolBegins(IF lbRule = Absent THEN "create" ELSE "check", wantedPorts)
                /\ KeepWorld /\ KeepRule /\ UNCHANGED <<queuedCopy, listedPools, poolEvents>>

\* checkLoadBalancerRule: a rule made of the same ports stays, one made of others must go.
CheckPorts == /\ poolPC = "check" /\ Translated
              /\ PoolGoesOn(IF comparePorts(lbPorts, copy.protocol, lbRule) THEN "push" ELSE "delete",
                            lbPorts)
              /\ KeepWorld /\ KeepRule /\ UNCHANGED <<queuedCopy, poolEvents>>

\* The rule is deleted, and with it the pools; the answer may be lost.
DeleteForPorts == /\ poolPC = "delete"
                  /\ lbRule' = Absent /\ pools' = NoPools
                  /\ \/ PoolGoesOn("create", << >>) /\ UNCHANGED poolEvents
                     \/ PoolEvent /\ PoolReturns
                  /\ KeepWorld /\ UNCHANGED queuedCopy

\* createLoadBalancerRule has translated the ports again, when a name could stand for
\* something else, or for nothing; the answer to the request may be lost.
CreatePorts == /\ poolPC = "create" /\ Translated
               /\ lbRule' \in NewRules(lbPorts, copy.protocol) /\ pools' = NewPools(lbPorts)
               /\ \/ PoolGoesOn("push", lbPorts) /\ UNCHANGED poolEvents
                  \/ PoolEvent /\ PoolReturns
               /\ KeepWorld /\ UNCHANGED queuedCopy

\* The rule is updated and tagged, and the update of its pools queued.
EnsurePush == /\ poolPC = "push" /\ queuedCopy' = copy /\ PoolReturns
              /\ KeepWorld /\ KeepRule /\ UNCHANGED poolEvents
-----------------------------------------------------------------------------
(* updateLoadBalancerPool, called by a worker.                             *)

\* There is nothing to do without a rule, and without custom health checks, unless it is UDP.
NoPoolUpdate == lbRule # Absent => ~queuedCopy.custom /\ lbRule.protocol # "UDP"
PoolSkip == /\ poolPC = "rest" /\ queuedCopy # Absent /\ NoPoolUpdate
            /\ queuedCopy' = Absent
            /\ KeepWorld /\ KeepRule /\ UNCHANGED <<poolCall, said, poolEvents>>
PoolList == /\ queuedCopy # Absent /\ ~NoPoolUpdate
            /\ PoolBegins("pools", queuedCopy) /\ listedPools' = pools
            /\ KeepWorld /\ KeepRule /\ UNCHANGED <<queuedCopy, poolEvents>>

InLoop == poolPC = "pools" /\ Translated /\ turn <= Len(lbPorts)
NextNeedsPool == needsPool(copy.protocol, lbPorts[turn], listedPools)
\* The pools once CloudStack has carried out updateGloboNetworkPool for the next port.
WrittenPools == LET port == lbPorts[turn] IN
    [pools EXCEPT ![port.public] = [dst |-> @.dst, type |-> portToHCProtocol(copy.protocol, port),
                                    message |-> port.message]]

\* The next port of the loop; its pool is written if it needs to be.
PoolWrite == /\ InLoop
             /\ pools' = IF NextNeedsPool THEN WrittenPools ELSE pools
             /\ turn' = turn + 1
             /\ KeepWorld
             /\ UNCHANGED <<lbRule, queuedCopy, poolPC, copy, lbPorts, listedPools, said, poolEvents>>

\* The answer is lost, or waitJob gives up on a job that still completes.
PoolWriteLost == /\ InLoop /\ NextNeedsPool
                 /\ pools' = WrittenPools
                 /\ PoolEvent /\ PoolReturns
                 /\ KeepWorld /\ UNCHANGED <<lbRule, queuedCopy>>

\* The loop is through, and the update done.
LoopDone == poolPC = "pools" /\ Translated /\ turn > Len(lbPorts)
PoolDone == /\ LoopDone /\ PoolReturns /\ queuedCopy' = Absent
            /\ KeepWorld /\ KeepRule /\ UNCHANGED poolEvents
-----------------------------------------------------------------------------
\* Users edit the service; a rollout changes the endpoints.
EditPorts == /\ PoolEvent /\ \E s \in PortSpecs \ {wantedPorts} : wantedPorts' = s
             /\ KeepRule /\ UNCHANGED <<endpoint, queuedCopy, poolCall, said>>
Rollout == /\ PoolEvent /\ \E e \in (Targets \cup {Absent}) \ {endpoint} : endpoint' = e
           /\ said' = IF poolPC = "rest" THEN {} ELSE said \cup {endpoint'}
           /\ KeepRule /\ UNCHANGED <<wantedPorts, queuedCopy, poolCall>>

EnsureStep == EnsureBegins \/ CheckPorts \/ DeleteForPorts \/ CreatePorts \/ EnsurePush
PoolStep == PoolSkip \/ PoolList \/ PoolWrite \/ PoolWriteLost \/ PoolDone
PoolsNext == EnsureStep \/ PoolStep \/ TranslatePort \/ PoolFails \/ EditPorts \/ Rollout
PoolsSpec == PoolsInit /\ [][PoolsNext]_PoolVars
-----------------------------------------------------------------------------
\* When EnsureLoadBalancer succeeds, the rule has one route for every public port of the
\* service it was called with, and no other, and each leads where the service and the
\* endpoints have said at a moment of this call: nothing of an older rule is left, whatever
\* failed before and however the endpoints change between the check, the deletion, the second
\* translation, the creation and the push.  (By the time of the push they may say something
\* else, which stays unnoticed until the next call.)
EnsuredRoutes == poolPC = "push" =>
    /\ lbRule.protocol = copy.protocol
    /\ {route[1] : route \in Routes(lbRule)} = DOMAIN copy.ports
    /\ \A p \in DOMAIN copy.ports : \E e \in said :
          {route \in Routes(lbRule) : route[1] = p} = {<<p, getTargetPort(copy.ports[p].target, e)>>}

\* A rule is only deleted to be replaced if it routes something else than the ports that were
\* translated to check it: never because CloudStack lists its ports in another order.
ReplacedOnlyIfChanged ==
    [][lbRule # Absent /\ lbRule' = Absent =>
          Routes(lbRule) # RoutesOf(lbPorts) \/ lbRule.protocol # copy.protocol]_PoolVars

\* The pool of a port has the health check that its service asks for, unless the rule sends
\* the port elsewhere or the message is missing.
HealthChecked(port) ==
    LET type == portToHCProtocol(copy.protocol, port) IN
    /\ port.public \in DOMAIN pools /\ pools[port.public].dst = port.private
    /\ type \in requiresMsg => port.message # NoMessage
    => pools[port.public].type = type /\ pools[port.public].message = port.message

\* A pool update that gets through leaves the health check the service asks for on the pool
\* of every port, named targets included, which lead where the endpoints have said at a
\* moment of the update, through failures half-way, retries and endpoints that change
\* meanwhile.
PoolsSettled == LoopDone =>
    \A p \in DOMAIN copy.ports : \E e \in said :
        /\ portInfo(copy, p, e) \in {lbPorts[i] : i \in DOMAIN lbPorts}
        /\ HealthChecked(portInfo(copy, p, e))
=============================================================================
