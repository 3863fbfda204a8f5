---------------------------- MODULE UpdateQueue ----------------------------
(***************************************************************************)
(* service_queue.go: the queue of services whose load balancer must be     *)
(* brought in line with the cluster's nodes, the workers that drain it,    *)
(* and the calls of the service controller that fill it.                   *)
(*                                                                         *)
(* Steps are the critical sections of the code: a step ends where a lock   *)
(* (queue, registry, service) is released or an API call returns.  The     *)
(* service lock is the abstract one of KeyedMutex (owner), which           *)
(* ServiceLock is proved to implement.                                     *)
(*                                                                         *)
(* Abstractions, all of them exact for the order of events:                *)
(*  - instants are kept relative to now: an entry's backoff is the time    *)
(*    left (0 once it has passed: Less never compares two passed ones),    *)
(*    and start is the entry's place in the order of insertion;            *)
(*  - node lists are not kept, only whether a rule, or what a worker has   *)
(*    read, still agrees with the registry (a change makes all of them     *)
(*    disagree), whether nodesForService finds a node (eligible), and the  *)
(*    topRevision of each service;                                         *)
(*  - a copy of a service, or of its rule (the lb of an entry), is the     *)
(*    current one or an older one.                                         *)
(***************************************************************************)
EXTENDS QueueOrder, FiniteSets, Sequences

CONSTANTS Keys,       \* the services
          Workers,    \* the worker goroutines (Global.UpdateLBWorkers)
          Api,        \* the service controller's goroutine in EnsureLoadBalancer(Deleted)
          None,
          MinDelay,   \* minRetryDelay, in ticks
          MaxDelay,   \* maxRetryDelay, in ticks
          MaxRev,     \* bound: distinct node revisions
          MaxCalls,   \* bound: calls and cluster events from outside
          Shutdowns   \* what may happen to the workers: "stop" and "cancel", or less

ASSUME DelayAssumption == MinDelay \in Nat \ {0} /\ MaxDelay \in Nat /\ MinDelay <= MaxDelay
ASSUME BoundAssumption == /\ MaxRev \in Nat /\ MaxCalls \in Nat
                          /\ Shutdowns \subseteq {"stop", "cancel"}
ASSUME ActorAssumption == Api \notin Workers /\ None \notin Workers \cup Keys \cup {Api}

VARIABLES
    queue,     \* updateLBNodeQueue.queue[k]: an entry, or None
    order,     \* the queued services by start, earliest first
    retryDelay,\* rateLimiter: the delay its next When answers
    owner,     \* svcLock: who holds each service
    wpc,       \* where each worker is in its loop
    item,      \* the entry a worker has popped, or None
    fresh,     \* the nodes a worker has read are still the registry's
    eligible,  \* nodesForService finds a node for the service
    rev,       \* topRevision of the service
    rule,      \* the service has a load balancer rule in CloudStack
    synced,    \* the hosts of the rule are the registry's nodes
    pending,   \* the services whose call is between updateNodes and push
    stopping,  \* stopCh is closed
    ctxDone,   \* the context is cancelled
    calls,     \* calls and cluster events so far
    due,       \* history: services pushed since the registry last changed
    poolDue    \* history: services with a pool update asked for and not done for that copy

queueVars == <<queue, order, retryDelay>>
workerVars == <<wpc, item, fresh>>
registryVars == <<eligible, rev>>
cloudVars == <<rule, synced>>
stopVars == <<stopping, ctxDone>>
history == <<due, poolDue>>
vars == <<queueVars, owner, workerVars, registryVars, cloudVars, pending, stopVars, calls,
          history>>

\* The delay that follows d (external: workqueue.ItemExponentialFailureRateLimiter, which
\* counts the failures since the last Forget and answers minRetryDelay * 2^failures, or
\* maxRetryDelay if that is less).
Doubled(d) == IF 2 * d < MaxDelay THEN 2 * d ELSE MaxDelay

\* svc and lb say whose copy it is (the service last handed to the provider, or an
\* older one); live, whether the rule lb points to still exists.
QueueEntries == [svc : {"cur", "old"}, lb : {"nil", "cur", "old"}, live : BOOLEAN,
                 updatePool : BOOLEAN, backoff : 0..MaxDelay]
\* What a worker has popped.
Items == [key : Keys, entry : QueueEntries]

ASSUME EntryAssumption == None \notin QueueEntries \cup Items

Queued == {k \in Keys : queue[k] # None}

WPCs == {"select", "lock", "read", "sync", "pool", "failed", "ok", "done"}

TypeOK == /\ queue \in [Keys -> QueueEntries \cup {None}]
          /\ order \in Seq(Keys) /\ {order[i] : i \in DOMAIN order} = Queued
          /\ Len(order) = Cardinality(Queued)
          /\ retryDelay \in [Keys -> MinDelay..MaxDelay]
          /\ owner \in [Keys -> Workers \cup {Api, None}]
          /\ wpc \in [Workers -> WPCs]
          /\ item \in [Workers -> Items \cup {None}]
          /\ fresh \in [Workers -> BOOLEAN]
          /\ eligible \in [Keys -> BOOLEAN] /\ rev \in [Keys -> 0..MaxRev]
          /\ rule \in [Keys -> BOOLEAN] /\ synced \in [Keys -> BOOLEAN]
          /\ pending \in [{"update", "ensure"} -> Keys \cup {None}]
          /\ stopping \in BOOLEAN /\ ctxDone \in BOOLEAN
          /\ calls \in 0..MaxCalls
          /\ due \in [Keys -> BOOLEAN] /\ poolDue \in [Keys -> BOOLEAN]

\* newServiceNodeQueue and start: the workers run, nothing is queued.
Init == /\ queue = [k \in Keys |-> None] /\ order = << >>
        /\ retryDelay = [k \in Keys |-> MinDelay]
        /\ owner = [k \in Keys |-> None]
        /\ wpc = [w \in Workers |-> "select"]
        /\ item = [w \in Workers |-> None]
        /\ fresh = [w \in Workers |-> FALSE]
        /\ eligible = [k \in Keys |-> FALSE]
        /\ rev = [k \in Keys |-> 0]
        /\ rule = [k \in Keys |-> FALSE]
        /\ synced = [k \in Keys |-> FALSE]
        /\ pending = [c \in {"update", "ensure"} |-> None]
        /\ stopping = FALSE /\ ctxDone = FALSE
        /\ calls = 0
        /\ due = [k \in Keys |-> FALSE] /\ poolDue = [k \in Keys |-> FALSE]
-----------------------------------------------------------------------------
\* push(entry) for service k on queue q.  An entry that is already queued only
\* gets the new copy of the service and loses its lb; a new one needs a node for
\* the service, else push returns an error and changes nothing.
\* Faulty variant of Accepted: whether the service has a node is not looked at.
AcceptedAlways(k) == k \in Keys

Accepted(k) == queue[k] # None \/ eligible[k]

\* Faulty variant of Coalesce: the queued lb outlives the copy it belongs to.
CoalesceKeepsLb(old, e) == [old EXCEPT !.svc = e.svc]

Coalesce(old, e) == [old EXCEPT !.svc = e.svc, !.lb = "nil", !.live = FALSE]

push(q, k, e) == [q EXCEPT ![k] = IF @ = None THEN e ELSE Coalesce(@, e)]
\* Faulty variant of pushOrder: a queued service is put in line again.
pushOrderAgain(k) == Append(order, k)

pushOrder(k) == IF queue[k] = None THEN Append(order, k) ELSE order

\* pop: the services whose entry sort.Sort may put first, if it may run,
\* and the order that is left once one of them is popped.
Place(k) == CHOOSE i \in DOMAIN order : order[i] = k
Extended(k) == [backoffUntil |-> queue[k].backoff, topRevision |-> rev[k], start |-> Place(k)]
Poppable == {k \in Queued : /\ Extended(k) \in Firsts({Extended(j) : j \in Queued}, 0)
                            /\ ~InBackoff(Extended(k), 0)}
popOrder(k) == [i \in 1..(Len(order) - 1) |-> IF i < Place(k) THEN order[i] ELSE order[i + 1]]

\* The copies of k, queued or in a worker's hands, seen through f.
QueueCopies(k, f(_)) == [queue EXCEPT ![k] = IF @ = None THEN None ELSE f(@)]
ItemCopies(k, f(_)) == [w \in Workers |-> IF item[w] # None /\ item[w].key = k
                                          THEN [item[w] EXCEPT !.entry = f(@)] ELSE item[w]]

\* The service has changed: its copies, and the lbs built from them, are old ones.
Outdated(e) == [e EXCEPT !.svc = "old", !.lb = IF @ = "nil" THEN "nil" ELSE "old"]
\* The rule is gone: an lb that points to it points nowhere.
Orphaned(e) == [e EXCEPT !.live = FALSE]

\* nodeRegistry.updateNodes: the node list it is given is the registry's, or not.
\* After a change every rule, and whatever a worker has read, is out of date.
updateNodes == \/ UNCHANGED <<registryVars, synced, fresh, due>>
               \/ /\ eligible' \in [Keys -> BOOLEAN]
                  /\ rev' \in [Keys -> 0..MaxRev]
                  /\ synced' = [k \in Keys |-> FALSE]
                  /\ fresh' = [w \in Workers |-> FALSE]
                  /\ due' = [k \in Keys |-> FALSE]

Called == calls < MaxCalls /\ calls' = calls + 1
-----------------------------------------------------------------------------
(* The service controller's calls.  It makes one UpdateLoadBalancer and one *)
(* EnsureLoadBalancer or EnsureLoadBalancerDeleted at a time.               *)

\* UpdateLoadBalancer up to the push: no service lock is taken.
UpdateNodes(k) == /\ Called
                  /\ pending["update"] = None
                  /\ updateNodes
                  /\ pending' = [pending EXCEPT !["update"] = k]
                  /\ UNCHANGED <<queueVars, owner, wpc, item, rule, stopVars, poolDue>>

UpdateReturn == /\ pending' = [pending EXCEPT !["update"] = None]
                /\ UNCHANGED <<retryDelay, owner, workerVars, registryVars, cloudVars, stopVars,
                               calls, poolDue>>

UpdatePush == \E k \in Keys :
    /\ pending["update"] = k
    /\ Accepted(k)
    /\ queue' = push(queue, k, [svc |-> "cur", lb |-> "nil", live |-> FALSE,
                                updatePool |-> FALSE, backoff |-> 0])
    /\ order' = pushOrder(k)
    /\ due' = [due EXCEPT ![k] = TRUE]
    /\ UpdateReturn

\* updateNodes has failed, or push has: the error goes to the controller.
UpdateFail == /\ pending["update"] # None
              /\ UNCHANGED <<queue, order, due>>
              /\ UpdateReturn

\* EnsureLoadBalancer up to idsForService, with the same copy of the service as
\* last time or a new one.
EnsureNodes(k) == /\ Called
                  /\ pending["ensure"] = None
                  /\ owner[k] = None
                  /\ updateNodes
                  /\ \/ UNCHANGED <<queue, item, poolDue>>
                     \/ /\ queue' = QueueCopies(k, Outdated) /\ item' = ItemCopies(k, Outdated)
                        /\ poolDue' = [poolDue EXCEPT ![k] = FALSE]
                  /\ IF eligible'[k]
                     THEN /\ owner' = [owner EXCEPT ![k] = Api]
                          /\ pending' = [pending EXCEPT !["ensure"] = k]
                     ELSE UNCHANGED <<owner, pending>>
                  /\ UNCHANGED <<order, retryDelay, wpc, rule, stopVars>>

EnsureReturn(k) == /\ pending' = [pending EXCEPT !["ensure"] = None]
                   /\ owner' = [owner EXCEPT ![k] = None]
                   /\ UNCHANGED <<retryDelay, wpc, fresh, registryVars, stopVars, calls>>

\* The rest of EnsureLoadBalancer: the rule is found good, or (re)created without
\* hosts, and the service is pushed with its lb.
EnsurePush == \E k \in Keys :
    /\ pending["ensure"] = k
    /\ Accepted(k)
    /\ \/ /\ rule[k]
          /\ UNCHANGED <<cloudVars, item>>
          /\ queue' = push(queue, k, [svc |-> "cur", lb |-> "cur", live |-> TRUE,
                                      updatePool |-> TRUE, backoff |-> 0])
       \/ /\ rule' = [rule EXCEPT ![k] = TRUE]
          /\ synced' = [synced EXCEPT ![k] = FALSE]
          /\ item' = ItemCopies(k, Orphaned)
          /\ queue' = push(QueueCopies(k, Orphaned), k,
                           [svc |-> "cur", lb |-> "cur", live |-> TRUE,
                            updatePool |-> TRUE, backoff |-> 0])
    /\ order' = pushOrder(k)
    /\ due' = [due EXCEPT ![k] = TRUE]
    /\ poolDue' = [poolDue EXCEPT ![k] = TRUE]
    /\ EnsureReturn(k)

\* EnsureLoadBalancer returns an error: nothing is pushed and the controller knows.
\* It has left the rule alone, deleted it, or replaced it by one without hosts.
EnsureFail == \E k \in Keys :
    /\ pending["ensure"] = k
    /\ \/ UNCHANGED <<cloudVars, queue, item, due>>
       \/ /\ rule' \in {[rule EXCEPT ![k] = b] : b \in BOOLEAN}
          /\ synced' = [synced EXCEPT ![k] = FALSE]
          /\ item' = ItemCopies(k, Orphaned)
          /\ queue' = QueueCopies(k, Orphaned)
          /\ due' = [due EXCEPT ![k] = FALSE]
    /\ UNCHANGED <<order, poolDue>>
    /\ EnsureReturn(k)

\* EnsureLoadBalancerDeleted: the queue is not told.
Delete(k) == /\ Called
             /\ pending["ensure"] = None
             /\ owner[k] = None
             /\ rule[k]
             /\ rule' = [rule EXCEPT ![k] = FALSE]
             /\ synced' = [synced EXCEPT ![k] = FALSE]
             /\ queue' = QueueCopies(k, Orphaned)
             /\ item' = ItemCopies(k, Orphaned)
             /\ due' = [due EXCEPT ![k] = FALSE]
             /\ poolDue' = [poolDue EXCEPT ![k] = FALSE]
             /\ UNCHANGED <<order, retryDelay, owner, wpc, fresh, registryVars, pending,
                            stopVars>>

\* handleEndpoints: pods of the services move, and with them topRevision.
EndpointsChange == /\ Called
                   /\ rev' \in [Keys -> 0..MaxRev]
                   /\ rev' # rev
                   /\ UNCHANGED <<queueVars, owner, workerVars, eligible, cloudVars, pending,
                                  stopVars, history>>
-----------------------------------------------------------------------------
(* The workers (start).  The one-second timer between two looks at the queue *)
(* only sets their pace.                                                      *)

\* One turn of the loop that finds an entry.
Pop(w) == /\ wpc[w] = "select"
          /\ \E k \in Poppable :
                /\ item' = [item EXCEPT ![w] = [key |-> k, entry |-> queue[k]]]
                /\ queue' = [queue EXCEPT ![k] = None]
                /\ order' = popOrder(k)
          /\ wpc' = [wpc EXCEPT ![w] = "lock"]
          /\ UNCHANGED <<retryDelay, owner, fresh, registryVars, cloudVars, pending, stopVars,
                         calls, history>>

\* One that finds none and has exitWhenDone set, in this turn or before: the closed
\* stopCh can be received from at every select.  Or one that sees the context done.
MayLeave(w) == /\ wpc[w] = "select"
               /\ ctxDone \/ (Poppable = {} /\ stopping)

Leave(w) == /\ MayLeave(w)
            /\ wpc' = [wpc EXCEPT ![w] = "done"]
            /\ UNCHANGED <<queueVars, owner, item, fresh, registryVars, cloudVars,
                           pending, stopVars, calls, history>>

\* Faulty variant of LockService: processQueueEntry without the service lock.
LockServiceNot(w) == /\ wpc[w] = "lock"
                     /\ wpc' = [wpc EXCEPT ![w] = "read"]
                     /\ UNCHANGED <<queueVars, owner, item, fresh, registryVars,
                                    cloudVars, pending, stopVars, calls, history>>

\* processQueueEntry: svcLock.Lock(entry.service)
LockService(w) == /\ wpc[w] = "lock"
                  /\ owner[item[w].key] = None
                  /\ owner' = [owner EXCEPT ![item[w].key] = w]
                  /\ wpc' = [wpc EXCEPT ![w] = "read"]
                  /\ UNCHANGED <<queueVars, item, fresh, registryVars, cloudVars,
                                 pending, stopVars, calls, history>>

\* processQueueEntry returns, and the deferred Unlock runs.
ReturnTo(w, pc) == /\ wpc' = [wpc EXCEPT ![w] = pc]
                   /\ owner' = [owner EXCEPT ![item[w].key] = None]

\* nodesForService, and getLoadBalancer when the entry brings no lb.
ReadNodes(w) == /\ wpc[w] = "read"
                /\ eligible[item[w].key]
                /\ item[w].entry.lb = "nil" => rule[item[w].key]
                /\ fresh' = [fresh EXCEPT ![w] = TRUE]
                /\ wpc' = [wpc EXCEPT ![w] = "sync"]
                /\ UNCHANGED <<queueVars, owner, item, registryVars, cloudVars, pending,
                               stopVars, calls, history>>

\* No rule, or one that shouldManageLB rejects: there is nothing to update.
ReadNothing(w) == /\ wpc[w] = "read"
                  /\ eligible[item[w].key]
                  /\ item[w].entry.lb = "nil"
                  /\ due' = [due EXCEPT ![item[w].key] = FALSE]
                  /\ poolDue' = [poolDue EXCEPT ![item[w].key] = FALSE]
                  /\ ReturnTo(w, "ok")
                  /\ UNCHANGED <<queueVars, item, fresh, registryVars, cloudVars, pending,
                                 stopVars, calls>>

\* syncNodes; it cannot succeed on a rule that is gone.
SyncNodes(w) == /\ wpc[w] = "sync"
                /\ item[w].entry.lb # "nil" => item[w].entry.live
                /\ synced' = [synced EXCEPT ![item[w].key] = fresh[w]]
                /\ IF item[w].entry.updatePool
                   THEN wpc' = [wpc EXCEPT ![w] = "pool"] /\ UNCHANGED owner
                   ELSE ReturnTo(w, "ok")
                /\ UNCHANGED <<queueVars, item, fresh, registryVars, rule, pending,
                               stopVars, calls, history>>

\* updateLoadBalancerPool
UpdatePool(w) == /\ wpc[w] = "pool"
                 /\ poolDue' = [poolDue EXCEPT ![item[w].key] = @ /\ item[w].entry.svc # "cur"]
                 /\ ReturnTo(w, "ok")
                 /\ UNCHANGED <<queueVars, item, fresh, registryVars, cloudVars, pending,
                                stopVars, calls, due>>

\* An error of processQueueEntry: no node for the service, or a failed call.
ProcessFail(w) == /\ wpc[w] \in {"read", "sync", "pool"}
                  /\ ReturnTo(w, "failed")
                  /\ UNCHANGED <<queueVars, item, fresh, registryVars, cloudVars, pending,
                                 stopVars, calls, history>>

\* Back to the select, with d as the service's next delay.
NextTurn(w, d) == /\ wpc' = [wpc EXCEPT ![w] = "select"]
                  /\ item' = [item EXCEPT ![w] = None]
                  /\ fresh' = [fresh EXCEPT ![w] = FALSE]
                  /\ retryDelay' = [retryDelay EXCEPT ![item[w].key] = d]
                  /\ UNCHANGED <<owner, registryVars, cloudVars, pending, stopVars, calls>>

\* The entry pushWithBackoff pushes.
Retried(e, d) == [e EXCEPT !.lb = "nil", !.live = FALSE, !.backoff = d]

\* Faulty variant of Requeue: a failed entry is not pushed again.
RequeueNot(w) == /\ wpc[w] = "failed"
                 /\ NextTurn(w, retryDelay[item[w].key])
                 /\ UNCHANGED <<queue, order, history>>

\* pushWithBackoff(item).  The service lock is already free, and whatever has been
\* queued for the service in the meantime stays in front.  If the push fails the
\* entry is dropped.
Requeue(w) ==
    /\ wpc[w] = "failed"
    /\ LET k == item[w].key
           d == retryDelay[k]
       IN  /\ IF Accepted(k)
              THEN /\ queue' = push(queue, k, Retried(item[w].entry, d))
                   /\ order' = pushOrder(k)
                   /\ UNCHANGED history
              ELSE /\ due' = [due EXCEPT ![k] = FALSE]
                   /\ poolDue' = [poolDue EXCEPT ![k] = FALSE]
                   /\ UNCHANGED <<queue, order>>
           /\ NextTurn(w, Doubled(d))

\* rateLimiter.Forget
Forget(w) == /\ wpc[w] = "ok"
             /\ NextTurn(w, MinDelay)
             /\ UNCHANGED <<queue, order, history>>
-----------------------------------------------------------------------------
\* Time passes for the entries in backoff.  A tick is a good part of a retry delay
\* (15 s at least), a turn of the loop takes a second: a worker that can leave or
\* has an entry to pop does not sleep through it.
Tick == /\ \E k \in Queued : queue[k].backoff > 0
        /\ \A w \in Workers : ~MayLeave(w) /\ (wpc[w] = "select" => Poppable = {})
        /\ queue' = [k \in Keys |-> IF queue[k] # None /\ queue[k].backoff > 0
                                    THEN [queue[k] EXCEPT !.backoff = @ - 1] ELSE queue[k]]
        /\ UNCHANGED <<order, retryDelay, owner, workerVars, registryVars, cloudVars, pending,
                       stopVars, calls, history>>

\* stopWait closes stopCh; the context ends with the process' leadership.
Stop == /\ "stop" \in Shutdowns /\ ~stopping /\ stopping' = TRUE
        /\ UNCHANGED <<queueVars, owner, workerVars, registryVars, cloudVars, pending, ctxDone,
                       calls, history>>

Cancel == /\ "cancel" \in Shutdowns /\ ~ctxDone /\ ctxDone' = TRUE
          /\ UNCHANGED <<queueVars, owner, workerVars, registryVars, cloudVars, pending, stopping,
                         calls, history>>

Work(w) == \/ Pop(w) \/ Leave(w) \/ LockService(w) \/ ReadNodes(w) \/ ReadNothing(w)
           \/ SyncNodes(w) \/ UpdatePool(w) \/ ProcessFail(w) \/ Requeue(w) \/ Forget(w)

Controller == \/ \E k \in Keys : UpdateNodes(k) \/ EnsureNodes(k) \/ Delete(k)
              \/ UpdatePush \/ UpdateFail \/ EnsurePush \/ EnsureFail \/ EndpointsChange

Next == \/ \E w \in Workers : Work(w)
        \/ Controller \/ Tick \/ Stop \/ Cancel

Spec == Init /\ [][Next]_vars

\* Goroutines that can run do; time passes; calls return; the service lock is
\* starvation-free (ServiceLock!LockGranted).  Nothing makes API calls succeed.
Fairness == /\ WF_vars(Tick)
            /\ WF_vars(UpdatePush \/ UpdateFail)
            /\ WF_vars(EnsurePush \/ EnsureFail)
            /\ \A w \in Workers : WF_vars(Work(w)) /\ SF_vars(LockService(w))

FairSpec == Spec /\ Fairness

\* CloudStack recovers: a worker that repeats a call again and again sees it succeed.
Recovery == \A w \in Workers : /\ SF_vars(ReadNodes(w) \/ ReadNothing(w))
                               /\ SF_vars(SyncNodes(w)) /\ SF_vars(UpdatePool(w))

RecoverySpec == FairSpec /\ Recovery
-----------------------------------------------------------------------------
\* A worker has k in hand and has still to read the nodes, or has read the ones the
\* registry holds.
InGoodHands(k) == \E w \in Workers :
    /\ item[w] # None /\ item[w].key = k
    /\ wpc[w] \in {"lock", "read", "failed"} \/ (wpc[w] \in {"sync", "pool"} /\ fresh[w])

\* No update is lost: once a service has been pushed after a change of the registry,
\* its rule reflects the registry or the service is queued, or in the hands of a
\* worker that will apply the registry as it is now.  A worker that has read the
\* nodes of yesterday may finish late, but never after one that has read today's.
NoLostUpdate == \A k \in Keys :
    due[k] /\ rule[k] => synced[k] \/ queue[k] # None \/ InGoodHands(k)

\* An entry never pairs a service with the lb built for another copy of it.
LbMatchesService == \A k \in Keys :
    queue[k] # None /\ queue[k].lb # "nil" => queue[k].lb = queue[k].svc

\* pop finds something whenever something can run, although it looks at one entry
\* only.
NoHeadOfLineBlocking == (\E k \in Queued : queue[k].backoff = 0) => Poppable # {}

\* A pushed service is synced in the end, through any number of failures and however
\* many services with newer nodes go first, as long as CloudStack recovers; it may only
\* be overtaken by the deletion of its rule, by nodes that change (or disappear) and are
\* not pushed, or by the end of the workers.
PushedIsSynced == \A k \in Keys :
    due[k] /\ rule[k] ~> synced[k] \/ ~due[k] \/ ~rule[k] \/ stopping \/ ctxDone

\* stopWait returns if CloudStack recovers: the workers leave after a stop, although
\* they leave only when pop finds nothing and what fails is queued again.  (Two
\* services that keep failing can take turns: while the worker is busy with one, the
\* backoff of the other ends.  Without the recovery this goes on for ever.)
StopTerminates == stopping ~> \A w \in Workers : wpc[w] = "done"

\* The entry e will update the pools to what the current copy of the service says.
BringsPools(e) == e.updatePool /\ e.svc = "cur"

\* A pool update that EnsureLoadBalancer has asked for is done with the copy of the
\* service it was asked for, or still asked for.
PoolUpdateKept == \A k \in Keys : poolDue[k] =>
    \/ queue[k] # None /\ BringsPools(queue[k])
    \/ \E w \in Workers : item[w] # None /\ item[w].key = k /\ BringsPools(item[w].entry)
=============================================================================
