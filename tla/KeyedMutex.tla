----------------------------- MODULE KeyedMutex -----------------------------
(***************************************************************************)
(* What the load-balancer code expects of CSCloud.svcLock: one mutex per   *)
(* service.  EnsureLoadBalancer, EnsureLoadBalancerDeleted and the queue   *)
(* workers bracket their work on a service with svcLock.Lock(service) and  *)
(* svcLock.Unlock(service); the comment on the field says it is there to   *)
(* "prevent parallel calls" on the same service.  Nothing is said here     *)
(* about how the mutexes are created, found or reclaimed.                  *)
(***************************************************************************)
CONSTANTS Procs,  \* the goroutines
          Keys,   \* serviceKey: namespace and name of a service
          None    \* no goroutine / no key

VARIABLES want,   \* want[p]: the key p has asked for and not yet been granted
          owner   \* owner[k]: the goroutine that holds the mutex of k

vars == <<want, owner>>

Init == /\ want = [p \in Procs |-> None]
        /\ owner = [k \in Keys |-> None]

\* A goroutine has at most one service in hand at a time.
Free(p) == want[p] = None /\ \A k \in Keys : owner[k] # p

Request(p, k) == /\ Free(p)
                 /\ want' = [want EXCEPT ![p] = k]
                 /\ UNCHANGED owner

Grant(p, k) == /\ want[p] = k
               /\ owner[k] = None
               /\ want' = [want EXCEPT ![p] = None]
               /\ owner' = [owner EXCEPT ![k] = p]

Release(p, k) == /\ owner[k] = p
                 /\ owner' = [owner EXCEPT ![k] = None]
                 /\ UNCHANGED want

Next == \E p \in Procs, k \in Keys : Request(p, k) \/ Grant(p, k) \/ Release(p, k)

Spec == Init /\ [][Next]_vars
=============================================================================
