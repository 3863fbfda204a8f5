------------------------- MODULE UpdateQueueProofs -------------------------
(***************************************************************************)
(* The queue's safety for any services, workers, delays and bounds.        *)
(*                                                                         *)
(* NoLostUpdate is not inductive as it stands: a worker that holds nodes   *)
(* of yesterday could undo the sync of one that holds today's, if it were  *)
(* not for the service lock.  LockHeld says who has the lock, ReadsInOrder *)
(* what follows from it for the nodes a worker has read, and OrderType     *)
(* keeps the order of start in step with the queue.                        *)
(***************************************************************************)
EXTENDS UpdateQueue, FiniteSetTheorems, WellFoundedInduction, TLAPS
-----------------------------------------------------------------------------
(* The order: what pop relies on.  For every instant, Less is a strict weak order (so    *)
(* that sort.Sort has a meaning), an entry that could run is never behind one that waits, *)
(* and among the entries that can run the newest node revision comes first.  A first      *)
(* entry always exists.                                                                   *)

\* Less orders no entry before itself, and is transitive.
THEOREM LessStrictOrder ==
  ASSUME NEW now \in Int, NEW a \in Entries, NEW b \in Entries, NEW c \in Entries
  PROVE  /\ ~Less(a, a, now)
         /\ Less(a, b, now) /\ Less(b, c, now) => Less(a, c, now)
BY DEF Entries, Less, InBackoff

\* Entries neither of which precedes the other form classes: if a and b are in no
\* order, and b and c are not, then a and c are not.
THEOREM LessWeakOrder ==
  ASSUME NEW now \in Int, NEW a \in Entries, NEW b \in Entries, NEW c \in Entries,
         ~Less(a, b, now), ~Less(b, a, now), ~Less(b, c, now), ~Less(c, b, now)
  PROVE  ~Less(a, c, now) /\ ~Less(c, a, now)
BY DEF Entries, Less, InBackoff

\* No head-of-line blocking: if any queued entry is out of backoff, so is whichever
\* entry the sort puts first, and pop returns it.
THEOREM FirstIsReady ==
  ASSUME NEW now \in Int, NEW S \in SUBSET Entries, NEW e \in Firsts(S, now),
         NEW f \in S, ~InBackoff(f, now)
  PROVE  ~InBackoff(e, now)
BY DEF Entries, Firsts, Less, InBackoff

\* Priority: the entry pop returns has, among those that could run, the newest
\* node revision, and the earliest start within that revision.
THEOREM FirstIsNewest ==
  ASSUME NEW now \in Int, NEW S \in SUBSET Entries, NEW e \in Firsts(S, now),
         NEW f \in S, ~InBackoff(e, now), ~InBackoff(f, now)
  PROVE  /\ e.topRevision >= f.topRevision
         /\ e.topRevision = f.topRevision => e.start <= f.start
BY DEF Entries, Firsts, Less, InBackoff

\* When everything waits, the entry the sort puts first is one that waits least, so
\* that it is also the first to become ready.
THEOREM FirstWaitsLeast ==
  ASSUME NEW now \in Int, NEW S \in SUBSET Entries, NEW e \in Firsts(S, now),
         NEW f \in S, InBackoff(e, now)
  PROVE  e.backoffUntil <= f.backoffUntil
BY DEF Entries, Firsts, Less, InBackoff
-----------------------------------------------------------------------------
\* Induction over the naturals, for the set of those that have a property: the least
\* natural outside the set would contradict one of the two hypotheses.
LEMMA NatSetInduction ==
  ASSUME NEW S \in SUBSET Nat, 0 \in S, \A n \in S : n + 1 \in S
  PROVE  S = Nat
<1> DEFINE R == {ss \in Nat \X Nat : ss[1] < ss[2]}
<1>1. SUFFICES ASSUME Nat \ S # {} PROVE FALSE
  OBVIOUS
<1>2. IsWellFoundedOn(R, Nat)
  BY NatLessThanWellFounded DEF OpToRel
<1> HIDE DEF R
<1>3. PICK x \in Nat \ S : \A y \in Nat \ S : ~(<<y, x>> \in R)
  BY <1>1, <1>2, WFMin
<1>4. x - 1 \in Nat \ S
  <2>1. x # 0
    OBVIOUS
  <2> QED BY <2>1
<1>5. <<x - 1, x>> \in R
  BY <1>4 DEF R
<1> QED BY <1>3, <1>4, <1>5

\* A set of entries keeps a first one when an entry is added to it.
LEMMA FirstOfExtended ==
  ASSUME NEW now \in Int, NEW S \in SUBSET Entries, NEW x \in Entries,
         NEW f \in Firsts(S, now)
  PROVE  Firsts(S \cup {x}, now) # {}
<1>1. f \in Entries /\ \A g \in S : ~Less(g, f, now)
  BY DEF Firsts
<1>2. CASE Less(x, f, now)
  <2>1. ASSUME NEW g \in S PROVE ~Less(g, x, now)
    BY <1>1, <1>2, <2>1, LessStrictOrder
  <2> QED BY <2>1, LessStrictOrder DEF Firsts
<1>3. CASE ~Less(x, f, now)
  BY <1>1, <1>3 DEF Firsts
<1> QED BY <1>2, <1>3

\* pop has an entry to look at whenever the queue is not empty: a finite, nonempty set
\* of entries has one that no other precedes.
THEOREM FirstExists ==
  ASSUME NEW now \in Int, NEW S \in SUBSET Entries, IsFiniteSet(S), S # {}
  PROVE  Firsts(S, now) # {}
<1> DEFINE Good == {n \in Nat : \A T \in SUBSET Entries :
                        IsFiniteSet(T) /\ Cardinality(T) = n + 1 => Firsts(T, now) # {}}
<1>1. 0 \in Good
  <2>1. SUFFICES ASSUME NEW T \in SUBSET Entries, IsFiniteSet(T), Cardinality(T) = 1
                 PROVE  Firsts(T, now) # {}
    OBVIOUS
  <2>2. PICK x : T = {x}
    BY <2>1, FS_Singleton
  <2>3. x \in Entries /\ ~Less(x, x, now)
    BY <2>2, LessStrictOrder
  <2> QED BY <2>2, <2>3 DEF Firsts
<1>2. ASSUME NEW n \in Good PROVE n + 1 \in Good
  <2>1. SUFFICES ASSUME NEW T \in SUBSET Entries, IsFiniteSet(T),
                        Cardinality(T) = n + 2
                 PROVE  Firsts(T, now) # {}
    OBVIOUS
  <2>2. PICK x : x \in T
    BY <2>1, FS_EmptySet
  <2> DEFINE U == T \ {x}
  <2>3. IsFiniteSet(U) /\ Cardinality(U) = n + 1 /\ U \in SUBSET Entries
    BY <2>1, <2>2, FS_RemoveElement
  <2>4. PICK f : f \in Firsts(U, now)
    BY <1>2, <2>3
  <2>5. Firsts(U \cup {x}, now) # {} /\ T = U \cup {x}
    BY <2>2, <2>3, <2>4, FirstOfExtended
  <2> QED BY <2>5
<1>3. Good = Nat
  <2>1. Good \in SUBSET Nat
    OBVIOUS
  <2> HIDE DEF Good
  <2> QED BY <1>1, <1>2, <2>1, NatSetInduction
<1>4. Cardinality(S) \in Nat /\ Cardinality(S) # 0
  BY FS_EmptySet, FS_CardinalityType
<1>5. Cardinality(S) - 1 \in Good
  BY <1>3, <1>4
<1> QED BY <1>4, <1>5
-----------------------------------------------------------------------------
(* The queue.                                                                             *)

\* The order of start has every queued service once.
OrderOnce == \A i, j \in DOMAIN order : order[i] = order[j] => i = j

Busy == {"lock", "read", "sync", "pool", "failed", "ok"}
Locked == {"read", "sync", "pool"}

\* A worker has an entry exactly between Pop and the end of its turn.
HandsFull == \A w \in Workers : item[w] # None <=> wpc[w] \in Busy

\* processQueueEntry runs under the lock of its service, and so does the rest of
\* EnsureLoadBalancer.
LockHeld == /\ \A w \in Workers : wpc[w] \in Locked => owner[item[w].key] = w
            /\ pending["ensure"] # None => owner[pending["ensure"]] = Api

\* What a worker under the lock knows of the rule: before its syncNodes, nobody can
\* have synced the rule with newer nodes than the ones it has read; after it, the
\* rule has those nodes.
ReadsInOrder == \A w \in Workers :
    /\ wpc[w] = "sync" /\ ~fresh[w] => ~synced[item[w].key]
    /\ wpc[w] = "pool" /\ fresh[w] => synced[item[w].key]

\* The parts of TypeOK that are not about the order.
Types == /\ queue \in [Keys -> QueueEntries \cup {None}]
         /\ retryDelay \in [Keys -> MinDelay..MaxDelay]
         /\ owner \in [Keys -> Workers \cup {Api, None}]
         /\ wpc \in [Workers -> WPCs]
         /\ item \in [Workers -> Items \cup {None}]
         /\ fresh \in [Workers -> BOOLEAN]
         /\ eligible \in [Keys -> BOOLEAN] /\ rev \in [Keys -> 0..MaxRev]
         /\ rule \in [Keys -> BOOLEAN] /\ synced \in [Keys -> BOOLEAN]
         /\ pending \in [{"update", "ensure"} -> Keys \cup {None}]
         /\ stopping \in BOOLEAN /\ ctxDone \in BOOLEAN
         /\ calls \in 0..MaxCalls
         /\ due \in [Keys -> BOOLEAN] /\ poolDue \in [Keys -> BOOLEAN]

OrderType == /\ order \in Seq(Keys)
             /\ {order[i] : i \in DOMAIN order} = Queued
             /\ OrderOnce

\* The inductive invariant.
IInv == Types /\ OrderType /\ HandsFull /\ LockHeld /\ ReadsInOrder /\ NoLostUpdate
        /\ LbMatchesService
-----------------------------------------------------------------------------
\* What coalescing, retrying and the changes of a service or a rule make of an entry is
\* an entry again; with an lb only if it had one, and then the one of its service.
LEMMA EntryForms ==
  ASSUME NEW e \in QueueEntries, NEW f \in QueueEntries, NEW d \in 0..MaxDelay
  PROVE  /\ Coalesce(e, f) \in QueueEntries /\ Coalesce(e, f).lb = "nil"
         /\ Retried(e, d) \in QueueEntries /\ Retried(e, d).lb = "nil"
         /\ Outdated(e) \in QueueEntries
         /\ Outdated(e).lb # "nil" => Outdated(e).lb = Outdated(e).svc
         /\ Orphaned(e) \in QueueEntries
         /\ Orphaned(e).lb = e.lb /\ Orphaned(e).svc = e.svc
BY DEF Coalesce, Retried, Outdated, Orphaned, QueueEntries

Queues == [Keys -> QueueEntries \cup {None}]

\* push leaves the service queued and the other services as they were.
LEMMA PushForm ==
  ASSUME NEW q \in Queues, NEW k \in Keys, NEW e \in QueueEntries
  PROVE  /\ push(q, k, e) \in Queues
         /\ push(q, k, e)[k] \in QueueEntries
         /\ push(q, k, e)[k] \in {e, Coalesce(q[k], e)}
         /\ push(q, k, e)[k].lb # "nil" => push(q, k, e)[k] = e
         /\ \A j \in Keys \ {k} : push(q, k, e)[j] = q[j]
<1>0. 0 \in 0..MaxDelay
  BY DelayAssumption
<1>1. q[k] # None => Coalesce(q[k], e) \in QueueEntries /\ Coalesce(q[k], e).lb = "nil"
  BY <1>0, EntryForms DEF Queues
<1> QED BY <1>1 DEF push, Queues

\* The queue and the workers' hands with the copies of k changed as the function G says.
CopiedQueue(k, G) == [queue EXCEPT ![k] = IF @ = None THEN None ELSE G[@]]
CopiedItems(k, G) == [w \in Workers |-> IF item[w] # None /\ item[w].key = k
                                        THEN [item[w] EXCEPT !.entry = G[@]] ELSE item[w]]

\* The copies change in place: nothing is queued, dequeued, picked up or put down.
LEMMA CopyForm ==
  ASSUME Types, NEW k \in Keys, NEW G \in [QueueEntries -> QueueEntries]
  PROVE  /\ CopiedQueue(k, G) \in Queues
         /\ \A j \in Keys : /\ CopiedQueue(k, G)[j] = None <=> queue[j] = None
                            /\ j # k => CopiedQueue(k, G)[j] = queue[j]
         /\ queue[k] # None => CopiedQueue(k, G)[k] = G[queue[k]]
         /\ CopiedItems(k, G) \in [Workers -> Items \cup {None}]
         /\ \A w \in Workers : /\ CopiedItems(k, G)[w] = None <=> item[w] = None
                               /\ CopiedItems(k, G)[w].key = item[w].key
<1> DEFINE q == CopiedQueue(k, G)
           it == CopiedItems(k, G)
<1> USE EntryAssumption
<1>1. queue \in Queues /\ item \in [Workers -> Items \cup {None}]
  BY DEF Types, Queues
<1>2. /\ q \in Queues
      /\ \A j \in Keys : /\ q[j] = None <=> queue[j] = None
                         /\ j # k => q[j] = queue[j]
      /\ queue[k] # None => q[k] = G[queue[k]]
  BY <1>1 DEF Queues, CopiedQueue
<1>3. ASSUME NEW i \in Items
      PROVE  LET j == [i EXCEPT !.entry = G[@]] IN j \in Items /\ j.key = i.key
  BY DEF Items
<1>4. ASSUME NEW w \in Workers
      PROVE  /\ it[w] \in Items \cup {None} /\ (it[w] = None <=> item[w] = None)
             /\ it[w].key = item[w].key
  <2>1. CASE item[w] # None /\ item[w].key = k
    <3>1. item[w] \in Items
      BY <1>1, <2>1
    <3>2. it[w] = [item[w] EXCEPT !.entry = G[@]]
      BY <2>1 DEF CopiedItems
    <3> QED BY <1>3, <3>1, <3>2
  <2>2. CASE ~(item[w] # None /\ item[w].key = k)
    BY <1>1, <2>2 DEF CopiedItems
  <2> QED BY <2>1, <2>2
<1>5. it \in [Workers -> Items \cup {None}]
  BY <1>4 DEF CopiedItems
<1> QED BY <1>2, <1>4, <1>5

OutdatedQueue(k) == QueueCopies(k, Outdated)
OutdatedItems(k) == ItemCopies(k, Outdated)
OrphanedQueue(k) == QueueCopies(k, Orphaned)
OrphanedItems(k) == ItemCopies(k, Orphaned)

\* The service has changed.
LEMMA OutdatedForm ==
  ASSUME Types, NEW k \in Keys
  PROVE  /\ OutdatedQueue(k) \in Queues
         /\ \A j \in Keys : /\ OutdatedQueue(k)[j] = None <=> queue[j] = None
                            /\ j # k => OutdatedQueue(k)[j] = queue[j]
         /\ queue[k] # None => OutdatedQueue(k)[k] = Outdated(queue[k])
         /\ OutdatedItems(k) \in [Workers -> Items \cup {None}]
         /\ \A w \in Workers : /\ OutdatedItems(k)[w] = None <=> item[w] = None
                               /\ OutdatedItems(k)[w].key = item[w].key
<1> DEFINE G == [e \in QueueEntries |-> Outdated(e)]
<1>1. G \in [QueueEntries -> QueueEntries]
  BY DEF Outdated, QueueEntries
<1>2. /\ queue \in Queues /\ item \in [Workers -> Items \cup {None}]
      /\ \A i \in Items : i.entry \in QueueEntries
  BY DEF Types, Queues, Items
<1>3. OutdatedQueue(k) = CopiedQueue(k, G)
  BY <1>2 DEF CopiedQueue, OutdatedQueue, QueueCopies, Queues
<1>4. OutdatedItems(k) = CopiedItems(k, G)
  BY <1>2 DEF CopiedItems, OutdatedItems, ItemCopies
<1>5. queue[k] # None => G[queue[k]] = Outdated(queue[k])
  BY <1>2 DEF Queues
<1> HIDE DEF G
<1> QED BY <1>1, <1>3, <1>4, <1>5, CopyForm

\* The rule of the service is gone.
LEMMA OrphanedForm ==
  ASSUME Types, NEW k \in Keys
  PROVE  /\ OrphanedQueue(k) \in Queues
         /\ \A j \in Keys : /\ OrphanedQueue(k)[j] = None <=> queue[j] = None
                            /\ j # k => OrphanedQueue(k)[j] = queue[j]
         /\ queue[k] # None => OrphanedQueue(k)[k] = Orphaned(queue[k])
         /\ OrphanedItems(k) \in [Workers -> Items \cup {None}]
         /\ \A w \in Workers : /\ OrphanedItems(k)[w] = None <=> item[w] = None
                               /\ OrphanedItems(k)[w].key = item[w].key
<1> DEFINE G == [e \in QueueEntries |-> Orphaned(e)]
<1>1. G \in [QueueEntries -> QueueEntries]
  BY DEF Orphaned, QueueEntries
<1>2. /\ queue \in Queues /\ item \in [Workers -> Items \cup {None}]
      /\ \A i \in Items : i.entry \in QueueEntries
  BY DEF Types, Queues, Items
<1>3. OrphanedQueue(k) = CopiedQueue(k, G)
  BY <1>2 DEF CopiedQueue, OrphanedQueue, QueueCopies, Queues
<1>4. OrphanedItems(k) = CopiedItems(k, G)
  BY <1>2 DEF CopiedItems, OrphanedItems, ItemCopies
<1>5. queue[k] # None => G[queue[k]] = Orphaned(queue[k])
  BY <1>2 DEF Queues
<1> HIDE DEF G
<1> QED BY <1>1, <1>3, <1>4, <1>5, CopyForm
-----------------------------------------------------------------------------
\* What a step that is no worker's leaves alone: what the workers have in hand, up to
\* the age of the copies, and what is queued.
HandsKept == /\ item' \in [Workers -> Items \cup {None}]
             /\ \A w \in Workers : (item'[w] = None <=> item[w] = None)
                                  /\ item'[w].key = item[w].key
QueueKept == /\ queue' \in Queues
             /\ \A k \in Keys : queue[k] # None => queue'[k] # None
             /\ LbMatchesService'

\* The controller's calls and the passing of time take nothing from the queue or from
\* a worker, and leave every queued lb with the service it was built from.
LEMMA ControllerKeeps ==
  ASSUME Types, LbMatchesService, Controller \/ Tick \/ Stop \/ Cancel \/ UNCHANGED vars
  PROVE  HandsKept /\ QueueKept
<1> USE DelayAssumption, EntryAssumption
<1>a. queue \in Queues /\ item \in [Workers -> Items \cup {None}]
  BY DEF Types, Queues
<1>b. UNCHANGED item => HandsKept
  BY <1>a DEF HandsKept
<1>c. UNCHANGED queue => QueueKept
  BY <1>a DEF QueueKept, LbMatchesService
<1> DEFINE updated == [svc |-> "cur", lb |-> "nil", live |-> FALSE, updatePool |-> FALSE,
                       backoff |-> 0]
           ensured == [svc |-> "cur", lb |-> "cur", live |-> TRUE, updatePool |-> TRUE,
                       backoff |-> 0]
<1>d. /\ updated \in QueueEntries /\ updated.lb = "nil"
      /\ ensured \in QueueEntries /\ ensured.lb = ensured.svc
  BY DEF QueueEntries
<1>1. ASSUME NEW k \in Keys, EnsureNodes(k) PROVE HandsKept /\ QueueKept
  <2>1. CASE UNCHANGED <<queue, item>>
    BY <1>b, <1>c, <2>1
  <2>2. CASE queue' = OutdatedQueue(k) /\ item' = OutdatedItems(k)
    <3>1. queue[k] # None /\ Outdated(queue[k]).lb # "nil"
             => Outdated(queue[k]).lb = Outdated(queue[k]).svc
      BY <1>a DEF Queues, Outdated, QueueEntries
    <3>2. LbMatchesService'
      BY <2>2, <3>1, OutdatedForm DEF LbMatchesService
    <3> QED BY <2>2, <3>2, OutdatedForm DEF HandsKept, QueueKept
  <2> QED BY <1>1, <2>1, <2>2 DEF EnsureNodes, OutdatedQueue, OutdatedItems
<1>2. ASSUME NEW k \in Keys, queue' = OrphanedQueue(k), item' = OrphanedItems(k)
      PROVE  HandsKept /\ QueueKept
  <2>1. queue[k] # None => /\ Orphaned(queue[k]).lb = queue[k].lb
                           /\ Orphaned(queue[k]).svc = queue[k].svc
    BY <1>a DEF Queues, Orphaned, QueueEntries
  <2>2. LbMatchesService'
    BY <1>2, <2>1, OrphanedForm DEF LbMatchesService
  <2> QED BY <1>2, <2>2, OrphanedForm DEF HandsKept, QueueKept
<1>3. ASSUME NEW k \in Keys, Delete(k) PROVE HandsKept /\ QueueKept
  BY <1>2, <1>3 DEF Delete, OrphanedQueue, OrphanedItems
<1>4. CASE EnsureFail
  BY <1>b, <1>c, <1>2, <1>4 DEF EnsureFail, OrphanedQueue, OrphanedItems
<1>5. CASE UpdatePush
  <2>1. PICK k \in Keys : queue' = push(queue, k, updated) /\ UNCHANGED item
    BY <1>5 DEF UpdatePush, UpdateReturn, workerVars
  <2> HIDE DEF updated, ensured
  <2>2. queue' \in Queues /\ queue'[k] # None /\ queue'[k].lb = "nil"
        /\ \A j \in Keys \ {k} : queue'[j] = queue[j]
    BY <1>a, <1>d, <2>1, PushForm
  <2> QED BY <1>b, <2>1, <2>2 DEF QueueKept, LbMatchesService
<1>6. CASE EnsurePush
  <2>1. PICK k \in Keys :
          \/ UNCHANGED item /\ queue' = push(queue, k, ensured)
          \/ item' = OrphanedItems(k) /\ queue' = push(OrphanedQueue(k), k, ensured)
    BY <1>6 DEF EnsurePush, OrphanedQueue, OrphanedItems
  <2> HIDE DEF updated, ensured
  <2>2. HandsKept
    BY <1>b, <2>1, OrphanedForm DEF HandsKept
  <2>3. queue' \in Queues /\ queue'[k] # None
        /\ (queue'[k].lb # "nil" => queue'[k].lb = queue'[k].svc)
        /\ \A j \in Keys \ {k} : queue'[j] = queue[j]
    <3>1. CASE queue' = push(queue, k, ensured)
      BY <1>a, <1>d, <3>1, PushForm
    <3>2. CASE queue' = push(OrphanedQueue(k), k, ensured)
      BY <1>d, <3>2, OrphanedForm, PushForm
    <3> QED BY <2>1, <3>1, <3>2
  <2> QED BY <2>2, <2>3 DEF QueueKept, LbMatchesService
<1>7. CASE Tick
  <2>1. UNCHANGED item
    BY <1>7 DEF Tick, workerVars
  <2>2. ASSUME NEW k \in Keys
        PROVE  /\ queue'[k] \in QueueEntries \cup {None}
               /\ queue'[k] = None <=> queue[k] = None
               /\ queue[k] # None => queue'[k].lb = queue[k].lb /\ queue'[k].svc = queue[k].svc
    <3>1. CASE queue[k] # None /\ queue[k].backoff > 0
      <4>1. queue'[k] = [queue[k] EXCEPT !.backoff = @ - 1]
        BY <1>7, <3>1 DEF Tick
      <4>2. queue[k] \in QueueEntries
        BY <1>a, <3>1 DEF Queues
      <4> QED BY <3>1, <4>1, <4>2 DEF QueueEntries
    <3>2. CASE ~(queue[k] # None /\ queue[k].backoff > 0)
      BY <1>a, <1>7, <3>2 DEF Tick, Queues
    <3> QED BY <3>1, <3>2
  <2>3. queue' \in Queues
    BY <1>7, <2>2 DEF Tick, Queues
  <2> QED BY <1>b, <2>1, <2>2, <2>3 DEF QueueKept, LbMatchesService
<1>8. CASE (\E k \in Keys : UpdateNodes(k)) \/ UpdateFail \/ EndpointsChange
  BY <1>b, <1>c, <1>8 DEF UpdateNodes, UpdateFail, UpdateReturn, EndpointsChange, workerVars,
                          queueVars
<1>9. CASE Stop \/ Cancel \/ UNCHANGED vars
  BY <1>b, <1>c, <1>9 DEF Stop, Cancel, vars, workerVars, queueVars
<1> QED BY <1>1, <1>3, <1>4, <1>5, <1>6, <1>7, <1>8, <1>9 DEF Controller

\* The entry a worker's turn has popped.
LEMMA InHand ==
  ASSUME Types, HandsFull, NEW w \in Workers, wpc[w] \in Busy
  PROVE  /\ item[w] \in Items /\ item[w].key \in Keys
         /\ item[w].entry \in QueueEntries
BY DEF Types, HandsFull, Items

\* A worker's step changes what it has in hand itself and, of the queue, the service
\* it pops or requeues.
LEMMA WorkerKeeps ==
  ASSUME Types, HandsFull, LbMatchesService, NEW w \in Workers, Work(w)
  PROVE  /\ queue' \in Queues /\ LbMatchesService'
         /\ item' \in [Workers -> Items \cup {None}]
         /\ \A v \in Workers \ {w} : item'[v] = item[v]
         /\ Pop(w) \/ Requeue(w) \/ UNCHANGED queue
         /\ Pop(w) \/ Requeue(w) \/ Forget(w) \/ UNCHANGED item
<1> USE DelayAssumption, EntryAssumption
<1>a. queue \in Queues /\ item \in [Workers -> Items \cup {None}]
  BY DEF Types, Queues
<1>1. CASE Pop(w)
  <2>1. PICK k \in Poppable : /\ item' = [item EXCEPT ![w] = [key |-> k, entry |-> queue[k]]]
                              /\ queue' = [queue EXCEPT ![k] = None]
    BY <1>1 DEF Pop
  <2>2. k \in Keys /\ queue[k] \in QueueEntries
    BY <1>a DEF Poppable, Queued, Queues
  <2>3. [key |-> k, entry |-> queue[k]] \in Items
    BY <2>2 DEF Items
  <2> QED BY <1>a, <1>1, <2>1, <2>2, <2>3 DEF Queues, LbMatchesService
<1>2. CASE Requeue(w)
  <2>1. item' = [item EXCEPT ![w] = None] /\ wpc[w] \in Busy
    BY <1>2 DEF Requeue, NextTurn, Busy
  <2> DEFINE k == item[w].key
             e == Retried(item[w].entry, retryDelay[k])
  <2>2. k \in Keys /\ item[w].entry \in QueueEntries
    BY <2>1, InHand
  <2>3. retryDelay[k] \in 0..MaxDelay
    BY <2>2 DEF Types
  <2>4. e \in QueueEntries /\ e.lb = "nil"
    BY <2>2, <2>3, EntryForms
  <2>5. queue' = push(queue, k, e) \/ UNCHANGED queue
    BY <1>2 DEF Requeue
  <2> HIDE DEF k, e
  <2>6. CASE queue' = push(queue, k, e)
    <3>1. queue' \in Queues /\ queue'[k].lb = "nil" /\ \A j \in Keys \ {k} : queue'[j] = queue[j]
      BY <1>a, <2>2, <2>4, <2>6, PushForm
    <3> QED BY <1>a, <1>2, <2>1, <3>1 DEF LbMatchesService
  <2>7. CASE UNCHANGED queue
    BY <1>a, <1>2, <2>1, <2>7 DEF LbMatchesService
  <2> QED BY <2>5, <2>6, <2>7
<1>3. CASE Forget(w)
  BY <1>a, <1>3 DEF Forget, NextTurn, LbMatchesService
<1>4. CASE Leave(w) \/ LockService(w) \/ ReadNodes(w) \/ ReadNothing(w)
           \/ SyncNodes(w) \/ UpdatePool(w) \/ ProcessFail(w)
  BY <1>a, <1>4 DEF Leave, LockService, ReadNodes, ReadNothing, SyncNodes, UpdatePool, ProcessFail,
                    queueVars, LbMatchesService
<1> QED BY <1>1, <1>2, <1>3, <1>4 DEF Work

\* Every variable keeps its type.
LEMMA TypesStep ==
  ASSUME Types, HandsFull, LbMatchesService, [Next]_vars
  PROVE  Types'
<1> USE DelayAssumption, BoundAssumption, ActorAssumption, EntryAssumption
<1>a. queue' \in Queues /\ item' \in [Workers -> Items \cup {None}]
  BY ControllerKeeps, WorkerKeeps DEF Next, HandsKept, QueueKept
<1>1. ASSUME NEW w \in Workers, Work(w) PROVE Types'
  <2>1. wpc[w] \in Busy => item[w].key \in Keys
    BY InHand
  <2>2. CASE Pop(w) \/ Leave(w) \/ ReadNodes(w)
    <3>1. wpc' \in [Workers -> WPCs]
      BY <2>2 DEF Types, Pop, Leave, ReadNodes, WPCs
    <3>3. fresh' \in [Workers -> BOOLEAN]
      BY <2>2 DEF Types, Pop, Leave, ReadNodes
    <3>2. UNCHANGED <<retryDelay, owner, registryVars, cloudVars, pending, stopVars, calls, history>>
      BY <2>2 DEF Pop, Leave, ReadNodes, queueVars
    <3> QED BY <1>a, <3>1, <3>2, <3>3 DEF Types, Queues, registryVars, cloudVars, stopVars, history
  <2>3. CASE LockService(w)
    BY <1>a, <2>1, <2>3 DEF Types, LockService, Busy, WPCs, Queues, queueVars, registryVars,
                            cloudVars, stopVars, history
  <2>4. CASE ReadNothing(w)
    BY <1>a, <2>1, <2>4 DEF Types, ReadNothing, ReturnTo, Busy, WPCs, Queues, queueVars,
                            registryVars, cloudVars, stopVars
  <2>5. CASE SyncNodes(w)
    BY <1>a, <2>1, <2>5 DEF Types, SyncNodes, ReturnTo, Busy, WPCs, Queues, queueVars, registryVars,
                            stopVars, history
  <2>6. CASE UpdatePool(w)
    BY <1>a, <2>1, <2>6 DEF Types, UpdatePool, ReturnTo, Busy, WPCs, Queues, queueVars,
                            registryVars, cloudVars, stopVars
  <2>7. CASE ProcessFail(w)
    BY <1>a, <2>1, <2>7 DEF Types, ProcessFail, ReturnTo, Busy, WPCs, Queues, queueVars,
                            registryVars, cloudVars, stopVars, history
  <2>8. CASE Requeue(w)
    <3>1. item[w].key \in Keys
      BY <2>1, <2>8 DEF Requeue, Busy
    <3>2. retryDelay' \in [Keys -> MinDelay..MaxDelay]
      BY <2>8, <3>1 DEF Types, Requeue, NextTurn, Doubled
    <3>3. due' \in [Keys -> BOOLEAN] /\ poolDue' \in [Keys -> BOOLEAN]
      BY <2>8, <3>1 DEF Types, Requeue, history
    <3>4. wpc' \in [Workers -> WPCs] /\ fresh' \in [Workers -> BOOLEAN]
      BY <2>8 DEF Types, Requeue, NextTurn, WPCs
    <3>5. UNCHANGED <<owner, registryVars, cloudVars, pending, stopVars, calls>>
      BY <2>8 DEF Requeue, NextTurn
    <3> QED BY <1>a, <3>2, <3>3, <3>4, <3>5 DEF Types, Queues, registryVars, cloudVars, stopVars
  <2>9. CASE Forget(w)
    BY <1>a, <2>1, <2>9 DEF Types, Forget, NextTurn, Busy, WPCs, Queues, registryVars, cloudVars,
                            stopVars, history
  <2> QED BY <1>1, <2>2, <2>3, <2>4, <2>5, <2>6, <2>7, <2>8, <2>9 DEF Work
<1>2. ASSUME NEW k \in Keys, UpdateNodes(k) PROVE Types'
  <2>1. /\ eligible' \in [Keys -> BOOLEAN] /\ rev' \in [Keys -> 0..MaxRev]
        /\ synced' \in [Keys -> BOOLEAN] /\ fresh' \in [Workers -> BOOLEAN]
        /\ due' \in [Keys -> BOOLEAN]
    BY <1>2 DEF Types, UpdateNodes, updateNodes, registryVars
  <2>2. pending' \in [{"update", "ensure"} -> Keys \cup {None}] /\ calls' \in 0..MaxCalls
    BY <1>2 DEF Types, UpdateNodes, Called
  <2>3. UNCHANGED <<queueVars, owner, wpc, item, rule, stopVars, poolDue>>
    BY <1>2 DEF UpdateNodes
  <2> QED BY <1>a, <2>1, <2>2, <2>3 DEF Types, Queues, queueVars, stopVars
<1>3. ASSUME NEW k \in Keys, EnsureNodes(k) PROVE Types'
  <2>1. /\ eligible' \in [Keys -> BOOLEAN] /\ rev' \in [Keys -> 0..MaxRev]
        /\ synced' \in [Keys -> BOOLEAN] /\ fresh' \in [Workers -> BOOLEAN]
        /\ due' \in [Keys -> BOOLEAN]
    BY <1>3 DEF Types, EnsureNodes, updateNodes, registryVars
  <2>2. pending' \in [{"update", "ensure"} -> Keys \cup {None}]
    BY <1>3 DEF Types, EnsureNodes
  <2>5. owner' \in [Keys -> Workers \cup {Api, None}]
    BY <1>3 DEF Types, EnsureNodes
  <2>3. calls' \in 0..MaxCalls
    BY <1>3 DEF Types, EnsureNodes, Called
  <2>6. poolDue' \in [Keys -> BOOLEAN]
    BY <1>3 DEF Types, EnsureNodes
  <2>4. UNCHANGED <<order, retryDelay, wpc, rule, stopVars>>
    BY <1>3 DEF EnsureNodes
  <2> QED BY <1>a, <2>1, <2>2, <2>3, <2>4, <2>5, <2>6 DEF Types, Queues, stopVars
<1>4. ASSUME NEW k \in Keys, Delete(k) PROVE Types'
  BY <1>a, <1>4 DEF Types, Delete, Called, Queues, registryVars, stopVars
<1>5. CASE UpdatePush \/ UpdateFail
  <2>1. pending' \in [{"update", "ensure"} -> Keys \cup {None}]
    BY <1>5 DEF Types, UpdatePush, UpdateFail, UpdateReturn
  <2>2. due' \in [Keys -> BOOLEAN]
    BY <1>5 DEF Types, UpdatePush, UpdateFail
  <2>3. UNCHANGED <<retryDelay, owner, workerVars, registryVars, cloudVars, stopVars, calls, poolDue>>
    BY <1>5 DEF UpdatePush, UpdateFail, UpdateReturn
  <2> QED BY <1>a, <2>1, <2>2, <2>3 DEF Types, Queues, workerVars, registryVars, cloudVars, stopVars
<1>b. ASSUME NEW k \in Keys, EnsureReturn(k)
      PROVE  /\ pending' \in [{"update", "ensure"} -> Keys \cup {None}]
             /\ owner' \in [Keys -> Workers \cup {Api, None}]
  BY <1>b DEF Types, EnsureReturn
<1>c. ASSUME NEW k \in Keys, EnsureReturn(k), rule' \in [Keys -> BOOLEAN],
             synced' \in [Keys -> BOOLEAN], due' \in [Keys -> BOOLEAN],
             poolDue' \in [Keys -> BOOLEAN]
      PROVE  Types'
  BY <1>a, <1>b, <1>c DEF Types, EnsureReturn, Queues, registryVars, stopVars
<1>6. CASE EnsurePush
  <2>1. PICK k \in Keys : EnsureReturn(k)
    BY <1>6 DEF EnsurePush
  <2>2. rule' \in [Keys -> BOOLEAN] /\ synced' \in [Keys -> BOOLEAN]
    BY <1>6 DEF Types, EnsurePush, cloudVars
  <2>3. due' \in [Keys -> BOOLEAN] /\ poolDue' \in [Keys -> BOOLEAN]
    BY <1>6 DEF Types, EnsurePush
  <2> QED BY <1>c, <2>1, <2>2, <2>3
<1>7. CASE EnsureFail
  <2>1. PICK k \in Keys :
          /\ EnsureReturn(k) /\ UNCHANGED poolDue
          /\ \/ UNCHANGED <<cloudVars, due>>
             \/ /\ \E b \in BOOLEAN : rule' = [rule EXCEPT ![k] = b]
                /\ synced' = [synced EXCEPT ![k] = FALSE]
                /\ due' = [due EXCEPT ![k] = FALSE]
    BY <1>7 DEF EnsureFail
  <2>2. rule' \in [Keys -> BOOLEAN]
    BY <2>1 DEF Types, cloudVars
  <2>3. synced' \in [Keys -> BOOLEAN] /\ due' \in [Keys -> BOOLEAN]
    BY <2>1 DEF Types, cloudVars
  <2>4. poolDue' \in [Keys -> BOOLEAN]
    BY <2>1 DEF Types
  <2> QED BY <1>c, <2>1, <2>2, <2>3, <2>4
<1>8. CASE EndpointsChange
  BY <1>a, <1>8 DEF Types, EndpointsChange, Called, Queues, queueVars, workerVars, cloudVars,
                    stopVars, history
<1>9. CASE Tick
  BY <1>a, <1>9 DEF Types, Tick, Queues, workerVars, registryVars, cloudVars, stopVars, history
<1>10. CASE Stop \/ Cancel \/ UNCHANGED vars
  BY <1>a, <1>10 DEF Types, Stop, Cancel, Queues, vars, queueVars, workerVars, registryVars,
                     cloudVars, stopVars, history
<1> QED BY <1>1, <1>2, <1>3, <1>4, <1>5, <1>6, <1>7, <1>8, <1>9, <1>10 DEF Next, Controller
-----------------------------------------------------------------------------
\* What the controller's calls may do to a service: they respect the lock of a worker;
\* a registry change takes both what a worker has read and what the rule has out of
\* date; and a service that is due is queued, or was due before and looks as it did.
Respects == /\ wpc' = wpc
            /\ \A k \in Keys : owner[k] \in Workers => owner'[k] = owner[k]
            /\ pending'["ensure"] # None => owner'[pending'["ensure"]] = Api
            /\ \A w \in Workers, k \in Keys :
                  owner[k] = w => \/ fresh'[w] = fresh[w] /\ synced'[k] = synced[k]
                                  \/ fresh'[w] = FALSE /\ synced'[k] = FALSE
            /\ \A k \in Keys :
                  due'[k] /\ rule'[k] => \/ queue'[k] # None
                                         \/ /\ due[k] /\ rule[k] /\ synced'[k] = synced[k]
                                            /\ fresh' = fresh

\* Every step that is no worker's is of that kind.
LEMMA ControllerRespects ==
  ASSUME Types, LbMatchesService, LockHeld,
         Controller \/ Tick \/ Stop \/ Cancel \/ UNCHANGED vars
  PROVE  Respects
<1> USE ActorAssumption, EntryAssumption
<1>a. queue \in Queues
  BY DEF Types, Queues
<1>1. ASSUME NEW k \in Keys, UpdateNodes(k) PROVE Respects
  BY <1>1 DEF Types, UpdateNodes, updateNodes, LockHeld, Respects, queueVars
<1>2. ASSUME NEW k \in Keys, EnsureNodes(k) PROVE Respects
  <2>1. wpc' = wpc /\ rule' = rule
    BY <1>2 DEF EnsureNodes
  <2>2. \A j \in Keys : owner[j] \in Workers => owner'[j] = owner[j]
    BY <1>2 DEF EnsureNodes, Types
  <2>3. pending'["ensure"] # None => owner'[pending'["ensure"]] = Api
    BY <1>2 DEF EnsureNodes, Types
  <2>4. \/ UNCHANGED <<synced, fresh, due>>
        \/ /\ synced' = [j \in Keys |-> FALSE] /\ fresh' = [w \in Workers |-> FALSE]
           /\ due' = [j \in Keys |-> FALSE]
    BY <1>2 DEF EnsureNodes, updateNodes
  <2> QED BY <2>1, <2>2, <2>3, <2>4 DEF Respects
<1>3. ASSUME NEW k \in Keys, Delete(k) PROVE Respects
  BY <1>3 DEF Types, Delete, LockHeld, Respects, registryVars
<1>4. CASE UpdatePush
  <2>1. PICK k \in Keys : queue'[k] # None /\ due' = [due EXCEPT ![k] = TRUE]
    <3> DEFINE e == [svc |-> "cur", lb |-> "nil", live |-> FALSE, updatePool |-> FALSE,
                     backoff |-> 0]
    <3>1. PICK k \in Keys : queue' = push(queue, k, e) /\ due' = [due EXCEPT ![k] = TRUE]
      BY <1>4 DEF UpdatePush
    <3>2. e \in QueueEntries
      BY DelayAssumption DEF QueueEntries
    <3> HIDE DEF e
    <3>3. queue'[k] \in QueueEntries
      BY <1>a, <3>1, <3>2, PushForm
    <3> QED BY <3>1, <3>3
  <2>2. /\ UNCHANGED <<owner, wpc, fresh, rule, synced>>
        /\ pending' = [pending EXCEPT !["update"] = None]
    BY <1>4 DEF UpdatePush, UpdateReturn, workerVars, cloudVars
  <2> QED BY <2>1, <2>2 DEF Types, LockHeld, Respects
<1>5. CASE UpdateFail
  BY <1>5 DEF Types, UpdateFail, UpdateReturn, LockHeld, Respects, workerVars, cloudVars
<1>b. ASSUME NEW k \in Keys, pending["ensure"] = k, EnsureReturn(k)
      PROVE  /\ wpc' = wpc /\ fresh' = fresh /\ pending'["ensure"] = None
             /\ owner[k] = Api /\ \A j \in Keys \ {k} : owner'[j] = owner[j]
  BY <1>b DEF Types, LockHeld, EnsureReturn
<1>c. ASSUME NEW k \in Keys, pending["ensure"] = k, EnsureReturn(k),
             \A j \in Keys \ {k} : /\ due'[j] = due[j] /\ rule'[j] = rule[j]
                                   /\ synced'[j] = synced[j],
             \/ queue'[k] # None \/ ~due'[k]
             \/ due'[k] = due[k] /\ rule'[k] = rule[k] /\ synced'[k] = synced[k]
      PROVE  Respects
  BY <1>b, <1>c DEF Respects
<1>6. CASE EnsurePush
  <2>1. PICK k \in Keys :
          /\ pending["ensure"] = k /\ EnsureReturn(k) /\ due' = [due EXCEPT ![k] = TRUE]
          /\ \/ UNCHANGED cloudVars /\ queue' = push(queue, k,
                      [svc |-> "cur", lb |-> "cur", live |-> TRUE, updatePool |-> TRUE, backoff |-> 0])
             \/ /\ rule' = [rule EXCEPT ![k] = TRUE] /\ synced' = [synced EXCEPT ![k] = FALSE]
                /\ queue' = push(OrphanedQueue(k), k,
                      [svc |-> "cur", lb |-> "cur", live |-> TRUE, updatePool |-> TRUE, backoff |-> 0])
    BY <1>6 DEF EnsurePush, OrphanedQueue
  <2>2. [svc |-> "cur", lb |-> "cur", live |-> TRUE, updatePool |-> TRUE, backoff |-> 0]
          \in QueueEntries
    BY DelayAssumption DEF QueueEntries
  <2>3. queue'[k] # None
    BY <1>a, <2>1, <2>2, OrphanedForm, PushForm
  <2>4. \A j \in Keys \ {k} : due'[j] = due[j] /\ rule'[j] = rule[j] /\ synced'[j] = synced[j]
    BY <2>1 DEF Types, cloudVars
  <2> QED BY <1>c, <2>1, <2>3, <2>4
<1>7. CASE EnsureFail
  <2>1. PICK k \in Keys :
          /\ pending["ensure"] = k /\ EnsureReturn(k)
          /\ \/ UNCHANGED <<cloudVars, due>>
             \/ /\ \E b \in BOOLEAN : rule' = [rule EXCEPT ![k] = b]
                /\ synced' = [synced EXCEPT ![k] = FALSE]
                /\ due' = [due EXCEPT ![k] = FALSE]
    BY <1>7 DEF EnsureFail
  <2>2. \A j \in Keys \ {k} : due'[j] = due[j] /\ rule'[j] = rule[j] /\ synced'[j] = synced[j]
    BY <2>1 DEF Types, cloudVars
  <2>3. ~due'[k] \/ (due'[k] = due[k] /\ rule'[k] = rule[k] /\ synced'[k] = synced[k])
    BY <2>1 DEF Types, cloudVars
  <2> QED BY <1>c, <2>1, <2>2, <2>3
<1>8. CASE EndpointsChange \/ Tick \/ Stop \/ Cancel \/ UNCHANGED vars
  BY <1>8 DEF Types, EndpointsChange, Tick, Stop, Cancel, LockHeld, Respects, vars, queueVars,
              workerVars, cloudVars, history
<1> QED BY <1>1, <1>2, <1>3, <1>4, <1>5, <1>6, <1>7, <1>8 DEF Controller
-----------------------------------------------------------------------------
\* What the workers rely on, in one invariant.
Discipline == HandsFull /\ LockHeld /\ ReadsInOrder /\ NoLostUpdate

\* The controller's calls keep it.
LEMMA ControllerDiscipline ==
  ASSUME Types, LbMatchesService, Discipline, HandsKept, QueueKept, Respects
  PROVE  Discipline'
<1>1. ASSUME NEW w \in Workers, wpc[w] \in Busy PROVE item[w].key \in Keys
  BY <1>1, InHand DEF Discipline
<1>2. HandsFull'
  BY DEF Discipline, HandsFull, HandsKept, Respects
<1>3. LockHeld'
  BY <1>1 DEF Discipline, LockHeld, Busy, Locked, HandsKept, Respects
<1>4. ReadsInOrder'
  BY <1>1 DEF Discipline, LockHeld, ReadsInOrder, Busy, Locked, HandsKept, Respects
<1>5. NoLostUpdate'
  BY DEF Discipline, NoLostUpdate, InGoodHands, HandsKept, QueueKept, Respects
<1> QED BY <1>2, <1>3, <1>4, <1>5 DEF Discipline

\* A worker's step changes no other worker, nor the lock or the rule of a service it
\* has not got.
LEMMA WorkerFrame ==
  ASSUME Types, HandsFull, LbMatchesService, NEW w \in Workers, Work(w)
  PROVE  /\ \A v \in Workers \ {w} : /\ item'[v] = item[v] /\ wpc'[v] = wpc[v]
                                     /\ fresh'[v] = fresh[v]
         /\ pending' = pending /\ rule' = rule
         /\ \A k \in Keys : \/ wpc[w] \in Busy /\ k = item[w].key
                            \/ owner'[k] = owner[k] /\ synced'[k] = synced[k] /\ due'[k] = due[k]
<1>1. \A v \in Workers \ {w} : item'[v] = item[v]
  BY WorkerKeeps
<1>2. wpc[w] \in Busy => item[w].key \in Keys
  BY InHand
<1>3. CASE Pop(w) \/ Leave(w) \/ ReadNodes(w)
  BY <1>1, <1>3 DEF Types, Pop, Leave, ReadNodes, registryVars, cloudVars, history
<1>4. CASE LockService(w) \/ ReadNothing(w) \/ UpdatePool(w) \/ ProcessFail(w)
  BY <1>1, <1>2, <1>4 DEF Types, LockService, ReadNothing, UpdatePool, ProcessFail, ReturnTo, Busy,
                          cloudVars, history
<1>5. CASE SyncNodes(w)
  BY <1>1, <1>2, <1>5 DEF Types, SyncNodes, ReturnTo, Busy, history
<1>6. CASE Requeue(w) \/ Forget(w)
  BY <1>1, <1>2, <1>6 DEF Types, Requeue, Forget, NextTurn, Busy, cloudVars, history
<1> QED BY <1>3, <1>4, <1>5, <1>6 DEF Work

\* A worker's step keeps its hands and its lock in order.
LEMMA WorkerLocks ==
  ASSUME Types, LbMatchesService, Discipline, NEW w \in Workers, Work(w)
  PROVE  HandsFull' /\ LockHeld'
<1> USE ActorAssumption, EntryAssumption DEF Discipline
<1>1. wpc[w] \in Busy => item[w] \in Items /\ item[w].key \in Keys
  BY InHand
<1>2. item'[w] # None <=> wpc'[w] \in Busy
  <2>1. CASE Pop(w)
    <3>1. PICK k \in Poppable : item' = [item EXCEPT ![w] = [key |-> k, entry |-> queue[k]]]
      BY <2>1 DEF Pop
    <3>2. [key |-> k, entry |-> queue[k]] \in Items
      BY DEF Types, Items, Poppable, Queued
    <3> QED BY <2>1, <3>1, <3>2 DEF Types, Pop, Busy
  <2>2. CASE Requeue(w) \/ Forget(w)
    BY <2>2 DEF Types, Requeue, Forget, NextTurn, Busy
  <2>3. CASE Leave(w) \/ LockService(w) \/ ReadNodes(w) \/ ReadNothing(w) \/ UpdatePool(w)
             \/ ProcessFail(w)
    BY <2>3 DEF Types, HandsFull, Leave, MayLeave, LockService, ReadNodes, ReadNothing, UpdatePool,
                ProcessFail, ReturnTo, Busy
  <2>4. CASE SyncNodes(w)
    BY <2>4 DEF Types, HandsFull, SyncNodes, ReturnTo, Busy
  <2> QED BY <2>1, <2>2, <2>3, <2>4 DEF Work
<1>3. HandsFull'
  BY <1>2, WorkerFrame DEF HandsFull
<1>4. wpc'[w] \in Locked => owner'[item'[w].key] = w
  <2>1. CASE Pop(w) \/ Leave(w) \/ Requeue(w) \/ Forget(w)
    BY <2>1 DEF Types, Pop, Leave, Requeue, Forget, NextTurn, Locked
  <2>2. CASE LockService(w)
    BY <1>1, <2>2 DEF Types, LockService, Busy
  <2>3. CASE ReadNodes(w)
    BY <2>3 DEF Types, LockHeld, ReadNodes, Locked
  <2>4. CASE ReadNothing(w) \/ UpdatePool(w) \/ ProcessFail(w)
    BY <2>4 DEF Types, ReadNothing, UpdatePool, ProcessFail, ReturnTo, Locked
  <2>5. CASE SyncNodes(w)
    BY <2>5 DEF Types, LockHeld, SyncNodes, ReturnTo, Locked
  <2> QED BY <2>1, <2>2, <2>3, <2>4, <2>5 DEF Work
<1>5. ASSUME NEW k \in Keys, owner'[k] # owner[k]
      PROVE  wpc[w] \in Busy /\ k = item[w].key /\ owner[k] \in {None, w}
  <2>1. wpc[w] \in Busy /\ k = item[w].key
    BY <1>5, WorkerFrame
  <2>2. LockService(w) => owner[k] = None
    BY <2>1 DEF LockService
  <2>3. ReadNothing(w) \/ UpdatePool(w) \/ ProcessFail(w) \/ SyncNodes(w) => owner[k] = w
    BY <2>1 DEF LockHeld, ReadNothing, UpdatePool, ProcessFail, SyncNodes, Locked
  <2>4. Pop(w) \/ Leave(w) \/ ReadNodes(w) \/ Requeue(w) \/ Forget(w) => owner' = owner
    BY DEF Pop, Leave, ReadNodes, Requeue, Forget, NextTurn
  <2> QED BY <1>5, <2>1, <2>2, <2>3, <2>4 DEF Work
<1>6. ASSUME NEW v \in Workers \ {w}, wpc'[v] \in Locked PROVE owner'[item'[v].key] = v
  <2>1. wpc[v] \in Locked /\ item'[v] = item[v] /\ owner[item[v].key] = v
    BY <1>6, WorkerFrame DEF LockHeld
  <2>2. item[v].key \in Keys
    BY <2>1, InHand DEF Locked, Busy
  <2> QED BY <1>5, <2>1, <2>2
<1>7. pending'["ensure"] # None => owner'[pending'["ensure"]] = Api
  BY <1>5, WorkerFrame DEF Types, LockHeld
<1>8. LockHeld'
  BY <1>4, <1>6, <1>7 DEF LockHeld
<1> QED BY <1>3, <1>8

\* Two workers never process one service at a time.
LEMMA OneHolder ==
  ASSUME Types, Discipline, NEW v \in Workers, NEW w \in Workers, v # w,
         wpc[v] \in Locked, wpc[w] \in Locked
  PROVE  item[v].key # item[w].key
BY DEF Discipline, LockHeld

\* A worker's step keeps the order of reads and syncs: what it does to a rule, it does
\* as the only worker that has read nodes for it.
LEMMA WorkerReads ==
  ASSUME Types, LbMatchesService, Discipline, NEW w \in Workers, Work(w)
  PROVE  ReadsInOrder'
<1>1. ASSUME NEW v \in Workers \ {w}, wpc'[v] \in {"sync", "pool"}
      PROVE  synced'[item'[v].key] = synced[item[v].key] /\ wpc'[v] = wpc[v] /\ fresh'[v] = fresh[v]
  <2>1. wpc[v] = wpc'[v] /\ item'[v] = item[v] /\ fresh'[v] = fresh[v]
    BY WorkerFrame DEF Discipline
  <2>2. item[v].key \in Keys
    BY <1>1, <2>1, InHand DEF Discipline, Busy
  <2>3. CASE SyncNodes(w)
    <3>1. item[v].key # item[w].key
      BY <1>1, <2>1, <2>3, OneHolder DEF SyncNodes, Locked
    <3> QED BY <2>1, <2>2, <3>1, WorkerFrame DEF Discipline
  <2>4. CASE ~SyncNodes(w)
    BY <2>1, <2>4 DEF Work, Pop, Leave, LockService, ReadNodes, ReadNothing, UpdatePool,
                      ProcessFail, Requeue, Forget, NextTurn, cloudVars
  <2> QED BY <2>1, <2>3, <2>4
<1>2. /\ wpc'[w] = "sync" /\ ~fresh'[w] => ~synced'[item'[w].key]
      /\ wpc'[w] = "pool" /\ fresh'[w] => synced'[item'[w].key]
  <2>1. CASE ReadNodes(w)
    BY <2>1 DEF Types, ReadNodes
  <2>2. CASE SyncNodes(w)
    <3>1. item[w].key \in Keys
      BY <2>2, InHand DEF Discipline, SyncNodes, Busy
    <3> QED BY <2>2, <3>1 DEF Types, SyncNodes, ReturnTo
  <2>3. CASE ~ReadNodes(w) /\ ~SyncNodes(w)
    <3>1. wpc'[w] \notin {"sync", "pool"}
      BY <2>3 DEF Types, Work, Pop, Leave, LockService, ReadNothing, UpdatePool, ProcessFail,
                  Requeue, Forget, NextTurn, ReturnTo
    <3> QED BY <3>1
  <2> QED BY <2>1, <2>2, <2>3
<1> QED BY <1>1, <1>2 DEF Discipline, ReadsInOrder

\* A worker's step loses no update: one that puts an entry down has synced the rule, put
\* the service back in the queue, or found that there is nothing to update.
LEMMA WorkerLosesNothing ==
  ASSUME Types, LbMatchesService, Discipline, NEW w \in Workers, Work(w)
  PROVE  NoLostUpdate'
<1> USE EntryAssumption
<1>1. SUFFICES ASSUME NEW k \in Keys, due'[k], rule'[k]
               PROVE  synced'[k] \/ queue'[k] # None \/ InGoodHands(k)'
  BY DEF NoLostUpdate
<1> DEFINE mine == wpc[w] \in Busy /\ k = item[w].key
           Good(v) == /\ item[v] # None /\ item[v].key = k
                      /\ \/ wpc[v] \in {"lock", "read", "failed"}
                         \/ wpc[v] \in {"sync", "pool"} /\ fresh[v]
<1>2. ASSUME NEW v \in Workers, Good(v)' PROVE InGoodHands(k)'
  BY <1>2 DEF InGoodHands
<1>3. ASSUME NEW v \in Workers \ {w}, Good(v) PROVE InGoodHands(k)'
  BY <1>2, <1>3, WorkerFrame DEF Discipline
<1>4. item[w] # None => wpc[w] \in Busy /\ item[w] \in Items /\ item[w].key \in Keys
  BY InHand DEF Discipline, HandsFull
<1>5. ASSUME due[k], rule[k]
      PROVE  synced[k] \/ queue[k] # None \/ Good(w) \/ \E v \in Workers \ {w} : Good(v)
  BY <1>5 DEF Discipline, NoLostUpdate, InGoodHands
<1>6. CASE ~mine /\ ~Pop(w)
  <2>1. due[k] /\ rule[k] /\ synced'[k] = synced[k]
    BY <1>1, <1>6, WorkerFrame DEF Discipline
  <2>2. queue[k] # None => queue'[k] # None
    <3>1. CASE Requeue(w)
      <4>1. item[w].key \in Keys /\ item[w].entry \in QueueEntries /\ wpc[w] \in Busy
        BY <3>1, InHand DEF Discipline, Requeue, Busy
      <4> QED BY <1>6, <3>1, <4>1 DEF Types, Requeue, push
    <3> QED BY <1>6, <3>1, WorkerKeeps DEF Discipline
  <2>3. ~Good(w)
    BY <1>4, <1>6
  <2> QED BY <1>3, <1>5, <2>1, <2>2, <2>3
<1>7. CASE Pop(w)
  <2>1. PICK j \in Poppable : /\ item' = [item EXCEPT ![w] = [key |-> j, entry |-> queue[j]]]
                              /\ queue' = [queue EXCEPT ![j] = None]
    BY <1>7 DEF Pop
  <2>2. item[w] = None /\ wpc' = [wpc EXCEPT ![w] = "lock"] /\ UNCHANGED <<due, rule, synced>>
    BY <1>7 DEF Discipline, HandsFull, Pop, Busy, cloudVars, history
  <2>3. CASE k = j
    <3>1. [key |-> j, entry |-> queue[j]] \in Items
      BY DEF Types, Items, Poppable, Queued
    <3>2. Good(w)'
      BY <2>1, <2>2, <2>3, <3>1 DEF Types
    <3> QED BY <1>2, <3>2
  <2>4. CASE k # j
    BY <1>1, <1>3, <1>5, <2>1, <2>2, <2>4 DEF Types
  <2> QED BY <2>3, <2>4
<1>8. CASE mine /\ (LockService(w) \/ ProcessFail(w) \/ ReadNodes(w))
  <2>1. item'[w] = item[w] /\ item[w] # None
    BY <1>8 DEF Discipline, HandsFull, LockService, ProcessFail, ReadNodes
  <2>2. wpc'[w] \in {"read", "failed"} \/ (wpc'[w] = "sync" /\ fresh'[w])
    BY <1>8 DEF Types, LockService, ProcessFail, ReturnTo, ReadNodes
  <2> QED BY <1>2, <1>8, <2>1, <2>2
<1>9. CASE mine /\ ReadNothing(w)
  BY <1>1, <1>9 DEF Types, ReadNothing
<1>10. CASE mine /\ SyncNodes(w)
  <2>1. /\ synced'[k] = fresh[w] /\ wpc[w] = "sync"
        /\ UNCHANGED <<queue, due, rule>>
    BY <1>10 DEF Types, SyncNodes, queueVars, history
  <2>2. CASE ~fresh[w]
    <3>1. ~synced[k] /\ ~Good(w)
      BY <1>10, <2>1, <2>2 DEF Discipline, ReadsInOrder
    <3> QED BY <1>1, <1>3, <1>5, <2>1, <3>1
  <2> QED BY <2>1, <2>2 DEF Types
<1>11. CASE mine /\ UpdatePool(w)
  <2>1. wpc[w] = "pool" /\ UNCHANGED <<queue, due, rule, synced>>
    BY <1>11 DEF UpdatePool, queueVars, cloudVars
  <2>2. Good(w) => synced[k]
    BY <1>11, <2>1 DEF Discipline, ReadsInOrder
  <2> QED BY <1>1, <1>3, <1>5, <2>1, <2>2
<1>12. CASE mine /\ Requeue(w)
  <2>1. CASE Accepted(k)
    <3>1. queue' = push(queue, k, Retried(item[w].entry, retryDelay[k]))
      BY <1>12, <2>1 DEF Requeue
    <3>2. Retried(item[w].entry, retryDelay[k]) \in QueueEntries
      <4>1. item[w].entry \in QueueEntries
        BY <1>12, InHand DEF Discipline
      <4>2. retryDelay[k] \in 0..MaxDelay
        BY DelayAssumption DEF Types
      <4> QED BY <4>1, <4>2, EntryForms
    <3>3. queue \in Queues
      BY DEF Types, Queues
    <3>4. queue'[k] \in QueueEntries
      BY <3>1, <3>2, <3>3, PushForm
    <3> QED BY <3>4
  <2>2. CASE ~Accepted(k)
    BY <1>1, <1>12, <2>2 DEF Types, Requeue
  <2> QED BY <2>1, <2>2
<1>13. CASE mine /\ (Forget(w) \/ Leave(w))
  <2>1. wpc[w] \in {"ok", "select"} /\ UNCHANGED <<queue, due, rule, synced>>
    BY <1>13 DEF Forget, NextTurn, Leave, MayLeave, queueVars, cloudVars, history
  <2> QED BY <1>1, <1>3, <1>5, <2>1
<1> QED BY <1>6, <1>7, <1>8, <1>9, <1>10, <1>11, <1>12, <1>13 DEF Work
-----------------------------------------------------------------------------
\* The services in line.
InLine(s) == {s[i] : i \in DOMAIN s}

\* A service that is not in line is put at its end, and nobody is twice in it.
LEMMA AppendOnce ==
  ASSUME NEW s \in Seq(Keys), \A i, j \in DOMAIN s : s[i] = s[j] => i = j,
         NEW k \in Keys, k \notin InLine(s)
  PROVE  /\ Append(s, k) \in Seq(Keys) /\ InLine(Append(s, k)) = InLine(s) \cup {k}
         /\ \A i, j \in DOMAIN Append(s, k) : Append(s, k)[i] = Append(s, k)[j] => i = j
<1> DEFINE t == Append(s, k)
<1>1. /\ t \in Seq(Keys) /\ DOMAIN t = 1..(Len(s) + 1) /\ DOMAIN s = 1..Len(s)
      /\ Len(s) \in Nat /\ t[Len(s) + 1] = k /\ \A i \in 1..Len(s) : t[i] = s[i]
  OBVIOUS
<1> HIDE DEF t
<1>2. InLine(t) = InLine(s) \cup {k}
  <2>1. ASSUME NEW x \in InLine(t) PROVE x \in InLine(s) \cup {k}
    <3>1. PICK i \in 1..(Len(s) + 1) : x = t[i]
      BY <1>1 DEF InLine
    <3> QED BY <1>1, <3>1 DEF InLine
  <2>2. ASSUME NEW x \in InLine(s) \cup {k} PROVE x \in InLine(t)
    <3>1. CASE x = k
      BY <1>1, <3>1 DEF InLine
    <3>2. CASE x \in InLine(s)
      <4>1. PICK i \in 1..Len(s) : x = s[i]
        BY <1>1, <3>2 DEF InLine
      <4> QED BY <1>1, <4>1 DEF InLine
    <3> QED BY <3>1, <3>2
  <2> QED BY <2>1, <2>2
<1>3. \A i \in 1..Len(s) : t[i] # k
  BY <1>1 DEF InLine
<1>4. \A i, j \in DOMAIN t : t[i] = t[j] => i = j
  BY <1>1, <1>3
<1> QED BY <1>1, <1>2, <1>4 DEF t

\* popOrder takes the popped service out and leaves the others in line, once each.
LEMMA PopOnce ==
  ASSUME OrderType, NEW k \in Queued
  PROVE  /\ popOrder(k) \in Seq(Keys) /\ InLine(popOrder(k)) = Queued \ {k}
         /\ \A i, j \in DOMAIN popOrder(k) : popOrder(k)[i] = popOrder(k)[j] => i = j
<1> DEFINE t == popOrder(k)
           n == Len(order)
           p == Place(k)
<1>1. order \in Seq(Keys) /\ n \in Nat /\ DOMAIN order = 1..n /\ InLine(order) = Queued
      /\ \A i, j \in 1..n : order[i] = order[j] => i = j
  BY DEF OrderType, OrderOnce, InLine
<1>2. p \in 1..n /\ order[p] = k
  <2>1. \E i \in DOMAIN order : order[i] = k
    BY <1>1 DEF InLine
  <2> QED BY <1>1, <2>1 DEF Place
<1>3. t = [i \in 1..(n - 1) |-> IF i < p THEN order[i] ELSE order[i + 1]]
  BY DEF popOrder
<1> HIDE DEF t, n, p
<1>4. /\ \A i \in 1..(n - 1) : t[i] \in Keys
      /\ DOMAIN t = 1..(n - 1)
  <2>1. \A i \in 1..n : order[i] \in Keys
    BY <1>1
  <2> QED BY <1>1, <1>2, <1>3, <2>1
<1>5. t \in Seq(Keys)
  <2>1. n - 1 \in Nat
    BY <1>1, <1>2
  <2> QED BY <1>3, <1>4, <2>1
<1>6. \A i, j \in DOMAIN t : t[i] = t[j] => i = j
  BY <1>1, <1>2, <1>3, <1>4
<1>7. InLine(t) = Queued \ {k}
  <2>1. ASSUME NEW x \in InLine(t) PROVE x \in Queued \ {k}
    <3>1. PICK i \in 1..(n - 1) : x = t[i]
      BY <1>4 DEF InLine
    <3>2. PICK j \in 1..n : x = order[j] /\ j # p
      BY <1>1, <1>2, <1>3, <3>1
    <3> QED BY <1>1, <1>2, <3>2 DEF InLine
  <2>2. ASSUME NEW x \in Queued \ {k} PROVE x \in InLine(t)
    <3>1. PICK j \in 1..n : x = order[j] /\ j # p
      BY <1>1, <1>2 DEF InLine
    <3>2. PICK i \in 1..(n - 1) : x = t[i]
      <4>1. CASE j < p
        BY <1>1, <1>2, <1>3, <3>1, <4>1
      <4>2. CASE j > p
        <5>1. j - 1 \in 1..(n - 1) /\ ~(j - 1 < p) /\ (j - 1) + 1 = j
          BY <1>1, <1>2, <4>2
        <5> QED BY <1>3, <3>1, <5>1
      <4> QED BY <1>1, <1>2, <3>1, <4>1, <4>2
    <3> QED BY <1>4, <3>2 DEF InLine
  <2> QED BY <2>1, <2>2
<1> QED BY <1>5, <1>6, <1>7 DEF t

\* The order of start follows the queue.
LEMMA OrderStep ==
  ASSUME Types, OrderType, HandsFull, [Next]_vars
  PROVE  OrderType'
<1> USE DelayAssumption, EntryAssumption
<1>a. queue \in Queues
  BY DEF Types, Queues
<1>d. {j \in Keys : queue[j] # None} = Queued
  BY DEF Queued
<1>b. ASSUME order' = order, \A k \in Keys : queue'[k] = None <=> queue[k] = None
      PROVE  OrderType'
  BY <1>b DEF OrderType, OrderOnce, Queued
<1>c. ASSUME NEW k \in Keys, NEW q \in Queues, NEW e \in QueueEntries,
             {j \in Keys : q[j] # None} = Queued,
             queue' = push(q, k, e), order' = pushOrder(k)
      PROVE  OrderType'
  <2>1. queue'[k] # None /\ \A j \in Keys \ {k} : queue'[j] = None <=> queue[j] = None
    <3>1. \A j \in Keys : q[j] = None <=> queue[j] = None
      BY <1>c DEF Queued
    <3> QED BY <1>c, <3>1, PushForm
  <2>2. CASE queue[k] # None
    BY <1>b, <1>c, <2>1, <2>2 DEF pushOrder
  <2>3. CASE queue[k] = None
    <3>1. order' = Append(order, k) /\ Queued' = Queued \cup {k} /\ k \notin Queued
      BY <1>c, <2>1, <2>3 DEF pushOrder, Queued
    <3>2. /\ order \in Seq(Keys) /\ InLine(order) = Queued
          /\ \A i, j \in DOMAIN order : order[i] = order[j] => i = j
      BY DEF OrderType, OrderOnce, InLine
    <3>3. /\ order' \in Seq(Keys) /\ InLine(order') = Queued'
          /\ \A i, j \in DOMAIN order' : order'[i] = order'[j] => i = j
      BY <3>1, <3>2, AppendOnce
    <3> QED BY <3>3 DEF OrderType, OrderOnce, InLine
  <2> QED BY <2>2, <2>3
<1>1. ASSUME NEW w \in Workers, Work(w) PROVE OrderType'
  <2>1. CASE Pop(w)
    <3>1. PICK k \in Poppable : queue' = [queue EXCEPT ![k] = None] /\ order' = popOrder(k)
      BY <2>1 DEF Pop
    <3>2. k \in Queued /\ Queued' = Queued \ {k}
      BY <1>a, <3>1 DEF Poppable, Queued, Queues
    <3>3. /\ order' \in Seq(Keys) /\ InLine(order') = Queued'
          /\ \A i, j \in DOMAIN order' : order'[i] = order'[j] => i = j
      BY <3>1, <3>2, PopOnce
    <3> QED BY <3>3 DEF OrderType, OrderOnce, InLine
  <2>2. CASE Requeue(w)
    <3> DEFINE k == item[w].key
               e == Retried(item[w].entry, retryDelay[k])
    <3>1. k \in Keys /\ item[w].entry \in QueueEntries
      BY <2>2, InHand DEF Requeue, Busy
    <3>2. retryDelay[k] \in 0..MaxDelay
      BY <3>1 DEF Types
    <3>3. e \in QueueEntries
      BY <3>1, <3>2, EntryForms
    <3>4. (queue' = push(queue, k, e) /\ order' = pushOrder(k)) \/ UNCHANGED <<queue, order>>
      BY <2>2 DEF Requeue
    <3> HIDE DEF k, e
    <3> QED BY <1>a, <1>b, <1>c, <1>d, <3>1, <3>3, <3>4
  <2>3. CASE ~Pop(w) /\ ~Requeue(w)
    BY <1>b, <1>1, <2>3 DEF Work, Leave, LockService, ReadNodes, ReadNothing, SyncNodes, UpdatePool,
                            ProcessFail, Forget, queueVars
  <2> QED BY <2>1, <2>2, <2>3
<1>2. ASSUME NEW k \in Keys, order' = order, queue' = OrphanedQueue(k) PROVE OrderType'
  BY <1>b, <1>2, OrphanedForm
<1>3. ASSUME NEW k \in Keys, EnsureNodes(k) PROVE OrderType'
  <2>1. order' = order /\ (queue' = queue \/ queue' = OutdatedQueue(k))
    BY <1>3 DEF EnsureNodes, OutdatedQueue
  <2> QED BY <1>b, <2>1, OutdatedForm
<1>4. ASSUME NEW k \in Keys, Delete(k) PROVE OrderType'
  BY <1>2, <1>4 DEF Delete, OrphanedQueue
<1>5. CASE UpdatePush
  <2> DEFINE e == [svc |-> "cur", lb |-> "nil", live |-> FALSE, updatePool |-> FALSE, backoff |-> 0]
  <2>1. PICK k \in Keys : queue' = push(queue, k, e) /\ order' = pushOrder(k)
    BY <1>5 DEF UpdatePush
  <2>2. e \in QueueEntries
    BY DEF QueueEntries
  <2> HIDE DEF e
  <2> QED BY <1>a, <1>c, <1>d, <2>1, <2>2
<1>6. CASE EnsurePush
  <2> DEFINE e == [svc |-> "cur", lb |-> "cur", live |-> TRUE, updatePool |-> TRUE, backoff |-> 0]
  <2>1. PICK k \in Keys : /\ order' = pushOrder(k)
                          /\ queue' = push(queue, k, e) \/ queue' = push(OrphanedQueue(k), k, e)
    BY <1>6 DEF EnsurePush, OrphanedQueue
  <2>2. e \in QueueEntries
    BY DEF QueueEntries
  <2>3. /\ OrphanedQueue(k) \in Queues
        /\ \A j \in Keys : OrphanedQueue(k)[j] = None <=> queue[j] = None
    BY OrphanedForm
  <2> HIDE DEF e
  <2>4. order' = pushOrder(k)
    BY <2>1
  <2>5. CASE queue' = push(queue, k, e)
    BY <1>a, <1>c, <1>d, <2>2, <2>4, <2>5
  <2>6. CASE queue' = push(OrphanedQueue(k), k, e)
    <3>1. {j \in Keys : OrphanedQueue(k)[j] # None} = Queued
      BY <2>3 DEF Queued
    <3> QED BY <1>c, <2>2, <2>3, <2>4, <2>6, <3>1
  <2> QED BY <2>1, <2>5, <2>6
<1>7. CASE EnsureFail
  BY <1>b, <1>2, <1>7 DEF EnsureFail, OrphanedQueue
<1>8. CASE Tick
  <2>1. order' = order /\ \A k \in Keys : queue[k] = None => queue'[k] = None
    BY <1>8 DEF Tick
  <2>2. ASSUME NEW k \in Keys, queue[k] # None PROVE queue'[k] # None
    <3>1. queue[k] \in QueueEntries
      BY <1>a, <2>2 DEF Queues
    <3>2. CASE queue[k].backoff > 0
      <4>1. queue'[k] = [queue[k] EXCEPT !.backoff = @ - 1]
        BY <1>8, <2>2, <3>2 DEF Tick
      <4> QED BY <3>1, <3>2, <4>1 DEF QueueEntries
    <3>3. CASE ~(queue[k].backoff > 0)
      BY <1>8, <2>2, <3>3 DEF Tick
    <3> QED BY <3>2, <3>3
  <2> QED BY <1>b, <2>1, <2>2
<1>9. CASE (\E k \in Keys : UpdateNodes(k)) \/ UpdateFail \/ EndpointsChange \/ Stop \/ Cancel
           \/ UNCHANGED vars
  BY <1>b, <1>9 DEF UpdateNodes, UpdateFail, UpdateReturn, EndpointsChange, Stop, Cancel, vars,
                    queueVars
<1> QED BY <1>1, <1>3, <1>4, <1>5, <1>6, <1>7, <1>8, <1>9 DEF Next, Controller
-----------------------------------------------------------------------------
\* newServiceNodeQueue starts in the invariant.
LEMMA QueueInit == Init => IInv
<1> SUFFICES ASSUME Init PROVE IInv
  OBVIOUS
<1> USE DelayAssumption, BoundAssumption DEF Init
<1>1. Types
  <2>1. /\ queue \in [Keys -> QueueEntries \cup {None}]
        /\ item \in [Workers -> Items \cup {None}]
        /\ owner \in [Keys -> Workers \cup {Api, None}]
        /\ pending \in [{"update", "ensure"} -> Keys \cup {None}]
    OBVIOUS
  <2>2. retryDelay \in [Keys -> MinDelay..MaxDelay] /\ rev \in [Keys -> 0..MaxRev]
        /\ calls \in 0..MaxCalls
    OBVIOUS
  <2>3. wpc \in [Workers -> WPCs]
    BY DEF WPCs
  <2> QED BY <2>1, <2>2, <2>3 DEF Types
<1>2. OrderType
  BY DEF OrderType, OrderOnce, Queued
<1>3. HandsFull /\ LockHeld /\ ReadsInOrder
  BY DEF HandsFull, LockHeld, ReadsInOrder, Busy, Locked
<1>4. NoLostUpdate /\ LbMatchesService
  BY DEF NoLostUpdate, LbMatchesService
<1> QED BY <1>1, <1>2, <1>3, <1>4 DEF IInv

\* Every step keeps it.
LEMMA QueueStep == IInv /\ [Next]_vars => IInv'
<1> SUFFICES ASSUME IInv, [Next]_vars PROVE IInv'
  OBVIOUS
<1>1. Types /\ OrderType /\ Discipline /\ HandsFull /\ LockHeld /\ LbMatchesService
  BY DEF IInv, Discipline
<1>2. Types' /\ OrderType'
  BY <1>1, TypesStep, OrderStep
<1>3. CASE \E w \in Workers : Work(w)
  <2>1. PICK w \in Workers : Work(w)
    BY <1>3
  <2>2. HandsFull' /\ LockHeld' /\ ReadsInOrder' /\ NoLostUpdate' /\ LbMatchesService'
    BY <1>1, <2>1, WorkerLocks, WorkerReads, WorkerLosesNothing, WorkerKeeps
  <2> QED BY <1>2, <2>2 DEF IInv
<1>4. CASE Controller \/ Tick \/ Stop \/ Cancel \/ UNCHANGED vars
  <2>1. HandsKept /\ QueueKept /\ Respects
    BY <1>1, <1>4, ControllerKeeps, ControllerRespects
  <2>2. Discipline' /\ LbMatchesService'
    BY <1>1, <2>1, ControllerDiscipline DEF QueueKept
  <2> QED BY <1>2, <2>2 DEF IInv, Discipline
<1> QED BY <1>3, <1>4 DEF Next

\* The inductive invariant holds throughout.
THEOREM QueueInvariant == Spec => []IInv
BY QueueInit, QueueStep, PTL DEF Spec

\* OrderType says that the order is as long as there are queued services.
LEMMA OrderLength ==
  ASSUME OrderType
  PROVE  IsFiniteSet(Queued) /\ Len(order) = Cardinality(Queued)
<1>1. Len(order) \in Nat /\ DOMAIN order = 1..Len(order)
  BY DEF OrderType
<1> DEFINE n == Len(order)
<1>2. order \in [1..n -> Keys] /\ {order[i] : i \in 1..n} = Queued
  BY <1>1 DEF OrderType
<1>3. \A i, j \in 1..n : order[i] = order[j] => i = j
  BY <1>1 DEF OrderType, OrderOnce
<1> HIDE DEF n
<1>4. order \in [1..n -> Queued] /\ \A k \in Queued : \E i \in 1..n : order[i] = k
  <2>1. \A i \in 1..n : order[i] \in {order[j] : j \in 1..n}
    OBVIOUS
  <2>2. \A k \in {order[j] : j \in 1..n} : \E i \in 1..n : order[i] = k
    OBVIOUS
  <2>3. \A i \in 1..n : order[i] \in Queued
    BY <1>2, <2>1
  <2>4. \A k \in Queued : \E i \in 1..n : order[i] = k
    BY <1>2, <2>2
  <2> QED BY <1>2, <2>3, <2>4
<1>5. ExistsBijection(1..n, Queued)
  BY <1>3, <1>4 DEF ExistsBijection, Bijection, Injection, Surjection, IsInjective
<1>6. IsFiniteSet(1..n) /\ Cardinality(1..n) = n
  <2>1. 1 \in Int /\ n \in Int /\ (1 > n => n = 0)
    BY <1>1 DEF n
  <2>2. IsFiniteSet(1..n) /\ Cardinality(1..n) = IF 1 > n THEN 0 ELSE n - 1 + 1
    BY <2>1, FS_Interval
  <2> QED BY <2>1, <2>2
<1> QED BY <1>5, <1>6, FS_Bijection DEF n

\* The queue's state is what updateLBNodeQueue, the registry and CloudStack can hold:
\* the map, the order of insertion (every queued service once), the retry delays within
\* their limits, the locks and the workers.
THEOREM QueueTypeCorrect == Spec => []TypeOK
<1>1. IInv => TypeOK
  BY OrderLength DEF IInv, TypeOK, Types, OrderType
<1> QED BY <1>1, QueueInvariant, PTL

\* push, pushWithBackoff and the workers lose no update, however they interleave with
\* registry changes, calls, failures and deletions, for any number of services and
\* workers: a service pushed since the registry last changed has an up-to-date rule, is
\* queued, or is with a worker that will apply the registry as it is.
THEOREM NoUpdateIsLost == Spec => []NoLostUpdate
<1>1. IInv => NoLostUpdate
  BY DEF IInv
<1> QED BY <1>1, QueueInvariant, PTL

\* No queued entry pairs a service with the lb built for another copy of it: push and
\* pushWithBackoff drop the lb whenever the service may have changed.
THEOREM LbsMatchServices == Spec => []LbMatchesService
<1>1. IInv => LbMatchesService
  BY DEF IInv
<1> QED BY <1>1, QueueInvariant, PTL

\* pop returns an entry whenever one is out of backoff, although it looks only at the
\* first of its sorted entries.
THEOREM PopNeverBlocked == Spec => []NoHeadOfLineBlocking
<1>1. ASSUME IInv, NEW k \in Queued, queue[k].backoff = 0 PROVE Poppable # {}
  <2> DEFINE S == {Extended(j) : j \in Queued}
  <2>1. ASSUME NEW j \in Queued PROVE Extended(j) \in Entries
    <3>1. queue[j] \in QueueEntries /\ rev[j] \in Nat
      BY <1>1, BoundAssumption DEF IInv, Types, Queued
    <3>2. queue[j].backoff \in Int
      BY <3>1, DelayAssumption DEF QueueEntries
    <3>3. Place(j) \in Int
      <4>1. DOMAIN order = 1..Len(order) /\ Len(order) \in Nat
        BY <1>1 DEF IInv, OrderType
      <4>2. \E i \in DOMAIN order : order[i] = j
        BY <1>1 DEF IInv, OrderType
      <4>3. Place(j) \in DOMAIN order
        BY <4>2 DEF Place
      <4> QED BY <4>1, <4>3
    <3> QED BY <3>1, <3>2, <3>3 DEF Extended, Entries
  <2>2. IsFiniteSet(S)
    <3>1. IsFiniteSet(Queued)
      BY <1>1, OrderLength DEF IInv
    <3> HIDE DEF S
    <3>2. [j \in Queued |-> Extended(j)] \in Surjection(Queued, S)
      BY DEF Surjection, S
    <3> QED BY <3>1, <3>2, FS_Surjection
  <2>3. S \in SUBSET Entries /\ S # {}
    BY <1>1, <2>1
  <2> HIDE DEF S
  <2>4. PICK e \in Firsts(S, 0) : TRUE
    BY <2>2, <2>3, FirstExists
  <2>5. PICK j \in Queued : e = Extended(j)
    BY DEF Firsts, S
  <2>6. ~InBackoff(Extended(k), 0) /\ Extended(k) \in S
    BY <1>1 DEF Extended, InBackoff, S
  <2>7. ~InBackoff(e, 0)
    BY <2>3, <2>6, FirstIsReady
  <2>8. j \in Poppable
    BY <2>5, <2>7 DEF Poppable, S
  <2> QED BY <2>8
<1>2. IInv => NoHeadOfLineBlocking
  BY <1>1 DEF NoHeadOfLineBlocking
<1> QED BY <1>2, QueueInvariant, PTL
=============================================================================
