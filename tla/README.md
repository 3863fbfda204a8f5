# Verification of custom-cloudstack-ccm

TLA+ models, model checking and proofs for the CloudStack cloud provider of
`src/`: the Kubernetes cloud controller manager that gives services of type
LoadBalancer a rule and a public IP in CloudStack, and keeps the hosts behind
the rule in line with the nodes of the cluster.

## The system

The Kubernetes service controller (external) calls the provider; the provider
calls the CloudStack API (external).

| Component | State | Operations | Hard because |
|---|---|---|---|
| serviceLock (`servicelock.go`) | map of reference-counted mutexes | Lock, Unlock | entries are looked up, shared and deleted while others wait on them |
| update queue (`service_queue.go`) | one entry per service, retry limiter | push, pushWithBackoff, pop, worker loop, stopWait | workers, callers and retries interleave; entries coalesce; an order with backoff and priorities; shutdown |
| load balancer (`loadbalancer.go`) | none of its own: rules, IPs and tags in CloudStack, spec and status in Kubernetes | EnsureLoadBalancer, UpdateLoadBalancer, EnsureLoadBalancerDeleted, GetLoadBalancer | long sequences of calls that fail half-way, before or after taking effect; retries see only names, tags, addresses |
| host sync (`loadbalancer.go`: syncNodes) | hosts and networks of a rule | list, assign networks, assign hosts, remove hosts | the registry and the machines change meanwhile; calls fail in between |
| node registry (`nodes.go`) | nodes and their VM ids, nodes of each service, revision | updateNodes, endpoint handlers, nodesForService | lists arrive late or out of order; updates stop half-way; cached VMs |
| VM cache (`helpers.go`) | cache by name | virtualMachineByName | stale answers |
| paged listing (`helpers.go`) | pages read so far | listAllPagesUnsafe | the list moves between two pages; duplicates are dropped in place |
| ports, pools, health checks (`loadbalancer.go`) | ports of a rule, health checks of its pools | serviceToLBPorts, comparePorts, updateLoadBalancerPool | translated three times while endpoints change; written pool by pool, with failures in between |
| services together (`loadbalancer.go`, `nodes.go`) | names, tags and projects of all rules, the project label of a service | lookups by name and tags, shouldManageLB, the patch of the label | calls for several services overlap; names can coincide; the project depends on the nodes of the moment |
| instances (`instances.go`) | none of its own: machines in CloudStack, nodes in Kubernetes | InstanceID, NodeAddresses, InstanceExists, InstanceShutdown | a wrong "not found" deletes a node; machines are replaced between two requests |
| zones, configuration (`zones.go`, `cloudstack.go`, `cmd/`) | configuration | lookups, start-up | no concurrency, no state |

How they interact: EnsureLoadBalancer holds the service lock, replaces the
registry's nodes, works on rule and IP, and pushes the service with its load
balancer. UpdateLoadBalancer takes no lock: registry, then push. Workers pop an
entry, take the service lock, read the registry, sync the hosts and perhaps the
pools; after a failure they release the lock and push the entry back with a
backoff. Endpoint events only move the priority of a queued service. Deletion
does not tell the queue.

What makes each correct: the lock excludes per service and leaks nothing; no
push is lost and no old node list wins; pop is never blocked by a waiting entry;
after failures a retry neither duplicates nor touches what is not the
provider's, keeps the address, and gets there in the end; a rule is never left
empty, routes what its service says and has its health checks; services do not
touch each other's rules and find their own again; a node is deleted only for a
machine that it was on or registered as and that is gone. The list of hazards in
`PROJECT.json` says where each of these can break.

## Modules

| Module | Models | Notes |
|---|---|---|
| `KeyedMutex` | what the service lock promises | abstract: want, owner |
| `ServiceLock` | `servicelock.go` | heap cells with counter and mutex, the map and its mutex; one step per mutex operation or map access |
| `ServiceLockProofs` | | proofs, see below |
| `QueueOrder` | `sortableQueueEntries.Less` and the choice of `pop` | pure |
| `UpdateQueue` | `service_queue.go` with the callers | steps are critical sections and API calls; the service lock is KeyedMutex's owner |
| `UpdateQueueProofs` | | proofs about QueueOrder and UpdateQueue, see below |
| `LoadBalancer` | EnsureLoadBalancer and EnsureLoadBalancerDeleted of one service | one step per writing API call, or run of reads |
| `LoadBalancerProofs` | | proofs, see below |
| `NodeRegistry` | `nodes.go`, `virtualMachineByName` | updateNodes is one step (it holds nodesMu), complete or stopped at a node |
| `NodeSync` | `syncNodes` over NodeRegistry | the queue reduced to one bit, as UpdateQueue has the rest |
| `NodeSyncProofs` | | proofs, see below |
| `Pools` | the ports of a service, the rule made of them, its health checks | pure translation (checked against what a rule routes) inside the two calls that use it; sorting is what it yields, not how |
| `PoolsProofs` | | proofs, see below |
| `Services` | EnsureLoadBalancer and EnsureLoadBalancerDeleted of several services | one step per request; keeps names, tags, projects and the label, and leaves IPs and hosts to the others |
| `ServicesProofs` | | proofs, see below |
| `Listing` | `listAllPagesUnsafe` | one step per page and per turn of the loop that drops duplicates |
| `ListingProofs` | | proofs, see below |
| `Instances` | `instances.go` and what the node controllers do with it | one step per request; addresses are numbers of NICs |
| `InstancesProofs` | | proofs, see below |
| `MC...` | instances for TLC; `MCParts` runs Pools, Services, Listing and Instances, one per behaviour | |

Operators named "Faulty variant" are plausible mistakes in the definition that
follows them; each property is shown to fail when one of them takes its place.

Correspondence, in short. `UpdateQueue`: `queue` is `updateLBNodeQueue.queue`,
`order` the order of `start`, `retryDelay` what the rate limiter will answer, `item` the popped
entry, `pending` the calls between `updateNodes` and `push`; copies of a service
are "cur" or "old", and node lists are reduced to whether they still agree with
the registry. `LoadBalancer`: `pc` names the next API call, `svc` the service
object passed to the call, `lb` the Go `loadBalancer`, `rules` and `ips` what is
in CloudStack; `target` is what the endpoints make of a target given by name,
`published` the hostnames the status has had, `byHand` marks rules that people
made; `FaultPoints` says which calls may fail. `NodeSync`: `want`,
`assign`, `remove` are the slices of `syncNodes`, `hosts` and `mapped` the rule.
`Pools`: `queuedCopy` is the service in the queue entry; `poolPC` says who has the
service lock and where it is, `copy` is the service that call was made with,
`lbPorts` the ports it has translated so far, `turn` the port the loop over the
pools is at, and `said` what the endpoints have said since the lock was taken.
`Services`: `object` is a service as the controller
has it, `saved` its label in Kubernetes (a failed patch leaves the two apart, a
restart takes the second), `svcCall` the call under way with the copy it was
given and the rule it has read. `Instances`: `kube` are the node objects, with
the machine their kubelet runs on, `natted` the machines with a public IP by
static NAT, `call` what each of the two controllers is at, `claimed` the machines
that the node under check has run on or been registered as since the check began.
`Listing`: variables are those of the function.

External, modelled from use: CloudStack's objects appear when a call is accepted
(the answer carries the id even when a job follows), go when deleted, and a tag
that exists already is no error, and the id of a destroyed machine is not used
again; the cache of machines may forget at any time; Go mutexes do not starve;
the rate limiter doubles its delay up to a maximum; the service controller makes
one call per service at a time and repeats failed calls.

## Runs

| Run | Checks |
|---|---|
| `lock` | mutual exclusion per service, Unlock meets a locked entry, no entry is left behind or shared wrongly, refinement of KeyedMutex; every Lock returns |
| `queue_safety` | no pushed update is lost, nor overwritten by a worker with an older list; an entry never pairs a service with another copy's load balancer |
| `queue_liveness` | an entry that can run is found although pop looks at the first only; if CloudStack recovers, pushed services are synced, and the worker leaves on stop, although two services that fail in turn can keep it busy |
| `queue_pool` (violation) | a pool update is dropped on coalescing |
| `lb_safety` | one rule per name and one tagged IP; success means a matching, tagged, findable rule; ignored rules stay untouched, and so do hand-made ones by a name the service was not published under; the published address stays unless the user asks for one or deletes the service, or somebody makes a rule by a published name; losing track of an IP takes two failures |
| `lb_liveness` | ensure and delete succeed in the end |
| `lb_tagging`, `lb_delete`, `lb_specip` (violations) | see findings |
| `sync` | the rule is never emptied, hosts only with their network; the hosts become those of the registry |
| `parts`, Services | no call touches a rule with another service's tags; all rules of a service are in one project; a deletion that succeeds leaves none |
| `parts`, Listing | no duplicates and nothing dropped that was seen; at most as many items missed as were removed; the loops end |
| `parts`, Instances | a node is deleted only when a machine is gone that it has run on, or was registered as, since the check began; NIC addresses are those of NICs that exist, the external one of the load balancer's network |
| `parts`, Pools | a rule has one route per port of the service, leading where service and endpoints have said during the call, and is replaced only if it routes something else than was translated; a pool update that succeeds has written the health check of every port, named targets included |
| `services_takeover` (violation) | two services with one load balancer name |

Bounds. Lock: 3 goroutines and 2 services give every mix of holder, waiter and
newcomer on one entry, with a second service's entry beside it; as many cells as
goroutines, since each holds at most one reference (the proofs lift both
bounds). Queue: two services and two workers, up to three outside
events (one worker and two events for `queue_liveness`: enough for two failing
services to take turns, not for the endless overtaking of a third); delays of 1 and 2 ticks let an entry wait while others run
and the delay reach its cap. `MaxRev` 1 gives two priorities. Load balancer: two
names, two port sets and ports with a named target that a third number or nothing
stands for (names that pass from number to number are in `Pools`), two affinities, addresses from the pool or of a user, rejected ports,
rejected affinity, removal on or off; 2 failures and 3 edits (by the user, by
people in CloudStack, or rollouts), 2 of each for liveness, where nothing is
rejected for good and nobody else acts; three pool IPs cover every IP lost within
the bound, and four ids every rule. Rules are made by hand at any time between
calls, under any name that no rule has. The lost
answer of an allocation and a crash before the IP is tagged lose an IP in one
failure without the code being able to know: `lost` counts them, and they count
twice in LeakTakesTwoFaults. Sync: two nodes, three machines
on two networks, two changes and one failure, and one caller besides the worker,
whose node list may be out of date when it is stored; at the start two machines
on one network or on two, or one machine missing (the proofs lift all of these bounds for the
safety part). Services: two services of one name in two
namespaces, two projects, one failure or restart and five changes (creation,
renaming, new ports, deletion, nodes that move), so that a service can be
created, changed and deleted beside another; in `services_takeover` they share a
load balancer name, too. Listing: up to four items on pages of two, three changes
between pages: a page can shift, be emptied, or be added. Instances: a machine
with two NICs and its replacement with one, each with static NAT or without, all
indexes from -1 to 2. Pools: six
services of no port up to three, with numbered and named targets, TCP and UDP,
with and without messages; three edits, rollouts or failures. Symmetry is used only in
runs without fairness, over pool IPs or services that nothing
distinguishes. The proofs lift these bounds for the safety of every part,
and the bounds on failures and edits with them.

`CHECK_DEADLOCK FALSE` is set where the bounded environment comes to rest (all
calls made, nothing queued). The lock run checks deadlock.

Fairness. Lock: goroutines run, and both mutexes are starvation-free (strong
fairness on acquiring), as Go's are. Queue: workers and calls go on, time
passes; `RecoverySpec` adds that a call repeated for ever succeeds at some time.
Without it the code does not promise progress: a service with old nodes can be
overtaken for ever by two failing services with newer ones, and stopWait can wait
for ever while two failing services take turns. Load balancer: calls run to their end and the controller repeats them;
failures are finitely many. Sync: the worker runs.

## Findings

- `queue_pool`: push drops the pool request when it meets a queued entry.
- `lb_tagging`: one failure while a new rule is tagged and the service never gets
  its load balancer (the rule is found by name and not recognised).
- `lb_delete`: one failed release after the rule is deleted and the IP is leaked,
  because the retry returns early.
- `lb_specip`: the comment on getLoadBalancerIP says that an IP found by
  Spec.LoadBalancerIP is tagged so that it can be reused or freed, and released if
  tagging fails; the code returns it untagged, so that it is never freed.
- `services_takeover`: shouldManageLB accepts a rule whose tags name another
  service when the hostname in the status is the rule's name; the retried
  deletion of a service whose rule is gone deletes the rule a namesake has made.

Noted while modelling, without a run: the comment above getLoadBalancerIP
(`loadbalancer.go:613-617`) puts the IP of the status before the one of the
spec; the code (from line 630 on) looks at the spec first. A rule that somebody
makes by hand under a name the service has been published under is taken for the
service's own, by the hostname in the status; the repository tests that fallback,
and UnmanagedUntouched excuses it. A rejected service can lose its rule: a new
address deletes it before the ports are looked at, and a named target can go
between the check and the creation. What a UDP pool sets in the parameters is sent
for the pools after it in the same update. A node that another machine has taken
over is deleted, all the same, when the machine it is registered as is gone. A failed patch of the
project label is not repeated, since the label is already in the controller's
copy, and a restart can then take another project (`excused` in `Services`). A
service without labels makes the write at line 208 panic. The requeued copy of a
failed item replaces a newer one (`service_queue.go:113`); `queue_pool` fails by
this alone, too, if push is made to keep the pool request.

Two more came out of proofs that did not go through, beyond the bounds of the
runs. A service that is deleted can leave a second rule behind, on an address
that has been released; created again, it may find that rule and lose the
address it has got meanwhile (hence the words on deletion in StableAddress). And
with two failures and five edits a service can own two rules: its rule is
published as y and deleted, the creation of the next one is interrupted before
its first tag, the service is renamed to x and gets a tagged rule there, that
call fails before it has returned, and the service is renamed back to y; the
lookup by name finds the untagged rule, the hostname in the status lets it in,
and it is tagged while x keeps its tags. A deletion then removes one of the two.
`TakesOver` in `Services` is this situation, and the services that meet it are
`excused`.

`lb_liveness` therefore leaves out failures between the creation of a rule and
its last tag.

## Proofs

`ServiceLockProofs`, for any finite set of goroutines and any services and
mutexes (assumption: None is none of them): type correctness, mutual exclusion,
no stale entry, Unlock on a locked entry, one entry for all who wait, and the
refinement of KeyedMutex. The inductive invariant ties the counter of an entry to the number
of goroutines that have it (from the lookup in Lock to the decrement in Unlock),
says that those goroutines hold the entry the map has, that only the holder of
the map's mutex is between its lookups, and that an entry is locked exactly when
one goroutine holds the service. None of the properties is inductive alone:
exclusion needs that all users of a service share one entry, which needs that an
entry is not deleted while counted, which needs that the count is exact. The
step simulation of KeyedMutex follows from it: acquiring the entry is Grant,
releasing it is Release, all other steps stutter.

`NodeSyncProofs`, for any nodes, machines, networks and callers and any number of
changes and failures (assumptions: None is no machine, the bounds are naturals,
every machine has a network): type correctness, NetworkFirst and NeverEmptied.
NetworkFirst needs that, between the listing of hosts and their assignment, every
network of a host to be assigned is mapped or still to be mapped. NeverEmptied
needs that the wanted machines that exist are behind the rule when the removal
starts, though machines are destroyed and replaced all the time; that holds
because two nodes never share a machine and a machine a sync has seen is either
there or gone for good. TypeOK relates the two differences to the wanted hosts,
so it needs that a sync starts with nothing left from the one before.

`UpdateQueueProofs`, for any services and workers and any number of calls and
failures (assumptions: the delays are naturals with 0 < MinDelay <= MaxDelay, and
None is neither an actor nor an entry): type correctness, NoLostUpdate,
LbMatchesService and NoHeadOfLineBlocking. NoLostUpdate is not inductive: a
worker that read the nodes of yesterday could undo the sync of one that read
today's. The invariant adds that a worker between its two reads and the end of
its calls has the service lock, that EnsureLoadBalancer has it until it has
pushed, and that a worker with old nodes therefore never meets a rule that is
synced already. The order
itself is for all entries and instants: Less is a strict weak order, and the entry
that sort puts in front can run if any can, is of the newest revision among those
that can, and is the next to run if all wait; however many entries there are, one
can be put in front (induction over the number of entries).
NoHeadOfLineBlocking combines FirstExists and FirstIsReady with
the fact that the order of start has every queued service exactly once, which
is also what makes the queue finite.

`LoadBalancerProofs`, for any specs, addresses and points of failure and any
number of failures and edits (assumptions: user and pool addresses are disjoint,
None is no id, address or record, and there are more rule ids than names, so that
a new rule can have a new id): type correctness and the other five properties of
`lb_safety`. A call knows CloudStack only through copies it has read; the
invariant says for each place in the call what they still tell: the rule in hand
is in CloudStack with the same name, ports and address, the name about to be
created is free, the address is settled on, the tags so far are there. Beyond
the call it says that names and ids tell rules apart, that a rule made by hand
has no tags of the code until the service has been published under its name, and
that every hostname in the status, or in the copy a call was given, has been
published; that at most one IP has the tags, that each leaked IP has been paid for (a rollback under way
counts one), and that, until the user asks for an address or deletes the
service, or somebody makes a rule by a published name, everything that names an
address names the tagged one.

`ServicesProofs`, for any services, projects, nodes, failures and edits
(assumptions: services differ in namespace or name, a spec has a name and ports,
NoValue is none of the values): type correctness. Under the hypothesis
DistinctNames, that no two services ask for one load balancer name: OneProject,
OnlyOwnRules and DeletedLeavesNothing. The hypothesis is needed, and the instance
of the run `parts` satisfies it, which `services_takeover` does not. The argument:
a rule by a name of a service carries the first n tags of that service and no
others, so that what a call finds by name is never another's; unless excused, a
service has at most one tagged rule, and that is in the project of its label,
which Kubernetes has, too; and once a call has looked, the rule in its hand is
that one, or there is none.

`InstancesProofs`, for any machines, NICs and indexes (assumption: Nothing is
none of the values): AddressesSound and DeletedIsGone. Only the lifecycle
controller deletes nodes and it is at one node at a time, so that the node it
looks up is there when the answer comes; a node runs on a machine of its name in
the project the node leads to, so that an empty answer means that this machine is
gone; an id in hand is of a machine the node has claimed since the check began, or one
that was found by its name; two machines never have one name at a time, so that in
the second case the machine the node was on is gone.

`ListingProofs`, for pages and listings of any size and any number of changes
(assumption: PageSize is positive): ListedOnce, MissesAtMostRemoved and
ListingAdvances. With p pages read, take the first p * PageSize places: an item
that stayed and is there unseen has come over that border from behind, and a
removal moves at most one item over it. When the loop ends it has counted as many
results as there are items, duplicates included, and no more than the pages hold:
all items are before the border, and what is missing has been paid for.

`PoolsProofs`, for services with any finite number of ports, any endpoints, and any
number of edits, rollouts and failures (assumptions: ports and targets are
numbers, or a target is a name): ComparePortsIsExact, PoolsSettled, EnsuredRoutes
and ReplacedOnlyIfChanged. What sorting yields exists
because every element of a finite total order has its place: the number of
elements before it. Sequences of the same elements, each once, sort to the same
sequence, so that comparePorts accepts a rule exactly if it routes what the
service asks for, in whatever order CloudStack lists the ports; that needs the
part of the invariant which says that a rule has its lowest public port in front
and every public port once. Endpoints change at any step, so the invariant says
of each port translated so far that it leads where the endpoints have said since
the call took the lock, and of the rule, from the check or the creation to the
push, that it routes what was translated. PoolsSettled is not inductive: the
invariant says of the loop that the pools of the ports ahead are as they were
listed, so that the decision not to write is sound though it is made on an old
listing, and that those of the ports behind are settled.

Induction over the naturals is used in the form of a set that has 0 and is closed
under successor.

Only model-checked: liveness (LockGranted, PushedIsSynced, StopTerminates,
WantedIsEnsured, UnwantedIsDeleted, Converges), since fairness and ENABLED are out
of the prover's reach. What the runs that expect a violation show is shown by
their counterexamples.

## Not modelled

Zones read one field of the machine that the lookups of `Instances` return.
Configuration and start-up run once, before any call; their result is the Init of
the modules. The fake server is a test double. Host names found by DNS, names of
load balancers (given, not built from labels), extra parameters of calls and
environments (one everywhere) are data that no property tells apart. A tag with
an empty value, on which matchAllTags and hasMissingTags would disagree, is never
written. People who change CloudStack during a call are left out of
`LoadBalancer`, where they act between calls, and make rules only under names that
no rule has. The parameters l4protocol, l7protocol and redeploy of a UDP pool,
shared by the calls of one update, are left out of `Pools`. In `Services`, two services
create rules of one name at the same time only in `services_takeover`: the code
does not handle that, and every later lookup fails.

## Plan

1. Done: lock, queue order, queue, load balancer, registry and sync, ports and
   pools, services, paged listing, instances, each with proofs of its safety.
2. Open: revisions and endpoints in NodeRegistry; an entry's load balancer used
   after its rule was recreated, in one model with LoadBalancer.
