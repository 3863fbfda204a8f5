---------------------------- MODULE ServiceLock ----------------------------
(***************************************************************************)
(* servicelock.go: a mutex per service, kept in a map that holds an entry  *)
(* only while some goroutine uses it.  An entry is a heap cell (refCounter)*)
(* with a user count and a mutex.  The map and the counts are protected by *)
(* mu; the cell's own mutex is acquired OUTSIDE mu, so between the lookup  *)
(* and the acquisition other goroutines can release, reclaim and recreate  *)
(* entries.                                                                *)
(*                                                                         *)
(* Every access to shared memory, and every acquisition of a mutex, is a   *)
(* step of its own, except that the accesses between two acquisitions that *)
(* no other goroutine can observe (they are under mu) are one step.        *)
(***************************************************************************)
EXTENDS Integers, FiniteSets

CONSTANTS Procs,  \* the goroutines that call Lock and Unlock
          Keys,   \* serviceKey
          Cells,  \* heap addresses a refCounter can be allocated at
          None    \* nil, no goroutine, no key

ASSUME ProcsAssumption == IsFiniteSet(Procs)
ASSUME NoneAssumption == None \notin Procs \cup Keys \cup Cells

VARIABLES
    mu,       \* serviceLock.mu: the goroutine that holds it
    inUse,    \* serviceLock.inUse[k]: a cell, or None when the key is absent
    counter,  \* refCounter.counter of each cell
    locked,   \* whether refCounter.lock of each cell is held
    pc,       \* where each goroutine is
    key,      \* the service it passed to Lock and will pass to Unlock
    m         \* the local variable m of Lock and of Unlock

vars == <<mu, inUse, counter, locked, pc, key, m>>

PCs == {"idle",        \* outside Lock and Unlock, no service in hand
        "lockMu",      \* Lock called, about to take mu
        "lockGet",     \* Lock, holding mu
        "lockEntry",   \* Lock, mu released, about to take m.lock
        "critical",    \* Lock returned
        "unlockMu",    \* Unlock called, about to take mu
        "unlockEntry", \* Unlock, holding mu, about to release the cell's mutex
        "unlockCount"} \* Unlock, holding mu, mutex of the cell released

TypeOK == /\ mu \in Procs \cup {None}
          /\ inUse \in [Keys -> Cells \cup {None}]
          /\ counter \in [Cells -> Nat]
          /\ locked \in [Cells -> BOOLEAN]
          /\ pc \in [Procs -> PCs]
          /\ key \in [Procs -> Keys \cup {None}]
          /\ m \in [Procs -> Cells \cup {None}]

\* The zero value of serviceLock: the nil map reads as an empty one.
Init == /\ mu = None
        /\ inUse = [k \in Keys |-> None]
        /\ counter = [c \in Cells |-> 0]
        /\ locked = [c \in Cells |-> FALSE]
        /\ pc = [p \in Procs |-> "idle"]
        /\ key = [p \in Procs |-> None]
        /\ m = [p \in Procs |-> None]

\* A cell an allocation may return: no pointer to it is left anywhere.
Unreferenced(c) == /\ \A k \in Keys : inUse[k] # c
                   /\ \A p \in Procs : m[p] # c

\* getLocker returns c for k, allocating it if the map has no entry.  What it
\* leaves in c is in the caller's primed variables.
getLocker(k, c) == IF inUse[k] = None THEN Unreferenced(c) ELSE c = inUse[k]

\* &refCounter{counter: 0}, or the cell that was there.
CounterAt(k, c) == IF inUse[k] = None THEN 0 ELSE counter[c]
LockedAt(k, c) == IF inUse[k] = None THEN FALSE ELSE locked[c]
-----------------------------------------------------------------------------
\* Lock(svc)
LockCall(p, k) == /\ pc[p] = "idle"
                  /\ pc' = [pc EXCEPT ![p] = "lockMu"]
                  /\ key' = [key EXCEPT ![p] = k]
                  /\ UNCHANGED <<mu, inUse, counter, locked, m>>

LockMu(p) == /\ pc[p] = "lockMu" /\ mu = None
             /\ mu' = p
             /\ pc' = [pc EXCEPT ![p] = "lockGet"]
             /\ UNCHANGED <<inUse, counter, locked, key, m>>

\* Faulty variant of LockGet: the count is not incremented.
LockGetUncounted(p, c) == /\ pc[p] = "lockGet"
                          /\ getLocker(key[p], c)
                          /\ inUse' = [inUse EXCEPT ![key[p]] = c]
                          /\ counter' = [counter EXCEPT ![c] = CounterAt(key[p], c)]
                          /\ locked' = [locked EXCEPT ![c] = LockedAt(key[p], c)]
                          /\ m' = [m EXCEPT ![p] = c]
                          /\ mu' = None
                          /\ pc' = [pc EXCEPT ![p] = "lockEntry"]
                          /\ UNCHANGED key

\* m := l.getLocker(..); m.counter++; l.mu.Unlock()
LockGet(p, c) == /\ pc[p] = "lockGet"
                 /\ getLocker(key[p], c)
                 /\ inUse' = [inUse EXCEPT ![key[p]] = c]
                 /\ counter' = [counter EXCEPT ![c] = CounterAt(key[p], c) + 1]
                 /\ locked' = [locked EXCEPT ![c] = LockedAt(key[p], c)]
                 /\ m' = [m EXCEPT ![p] = c]
                 /\ mu' = None
                 /\ pc' = [pc EXCEPT ![p] = "lockEntry"]
                 /\ UNCHANGED key

\* m.lock.Lock(), after which Lock returns and m is dead.
LockEntry(p) == /\ pc[p] = "lockEntry" /\ ~locked[m[p]]
                /\ locked' = [locked EXCEPT ![m[p]] = TRUE]
                /\ m' = [m EXCEPT ![p] = None]
                /\ pc' = [pc EXCEPT ![p] = "critical"]
                /\ UNCHANGED <<mu, inUse, counter, key>>

\* Unlock(svc)
UnlockCall(p) == /\ pc[p] = "critical"
                 /\ pc' = [pc EXCEPT ![p] = "unlockMu"]
                 /\ UNCHANGED <<mu, inUse, counter, locked, key, m>>

UnlockMu(p) == /\ pc[p] = "unlockMu" /\ mu = None
               /\ mu' = p
               /\ pc' = [pc EXCEPT ![p] = "unlockEntry"]
               /\ UNCHANGED <<inUse, counter, locked, key, m>>

\* Faulty variant of UnlockEntry: the map entry is dropped and the cell's mutex is
\* left locked.
UnlockEntryDrops(p, c) == /\ pc[p] = "unlockEntry"
                          /\ getLocker(key[p], c)
                          /\ inUse' = [inUse EXCEPT ![key[p]] = None]
                          /\ m' = [m EXCEPT ![p] = c]
                          /\ pc' = [pc EXCEPT ![p] = "unlockCount"]
                          /\ UNCHANGED <<mu, counter, locked, key>>

\* m := l.getLocker(key); m.lock.Unlock().  The runtime aborts the program on
\* the Unlock of a mutex that is not locked: see UnlockOfLocked.
UnlockEntry(p, c) == /\ pc[p] = "unlockEntry"
                     /\ getLocker(key[p], c)
                     /\ LockedAt(key[p], c)
                     /\ inUse' = [inUse EXCEPT ![key[p]] = c]
                     /\ counter' = [counter EXCEPT ![c] = CounterAt(key[p], c)]
                     /\ locked' = [locked EXCEPT ![c] = FALSE]
                     /\ m' = [m EXCEPT ![p] = c]
                     /\ pc' = [pc EXCEPT ![p] = "unlockCount"]
                     /\ UNCHANGED <<mu, key>>

\* m.counter--, and the entry is deleted if dead.
UnlockCountIf(p, dead) ==
    /\ pc[p] = "unlockCount"
    /\ counter' = [counter EXCEPT ![m[p]] = @ - 1]
    /\ inUse' = IF dead THEN [inUse EXCEPT ![key[p]] = None] ELSE inUse
    /\ m' = [m EXCEPT ![p] = None]
    /\ key' = [key EXCEPT ![p] = None]
    /\ mu' = None
    /\ pc' = [pc EXCEPT ![p] = "idle"]
    /\ UNCHANGED locked

\* Faulty variants of UnlockCount: the entry is deleted with one user left, or
\* never.
UnlockCountEarly(p) == UnlockCountIf(p, counter[m[p]] - 1 <= 1)
UnlockCountLate(p) == UnlockCountIf(p, counter[m[p]] - 1 < 0)

\* m.counter--; if m.counter <= 0 { delete(l.inUse, key) }; deferred mu.Unlock()
UnlockCount(p) == UnlockCountIf(p, counter[m[p]] - 1 <= 0)

Lock(p) == \/ \E k \in Keys : LockCall(p, k)
           \/ LockMu(p)
           \/ \E c \in Cells : LockGet(p, c)
           \/ LockEntry(p)

Unlock(p) == \/ UnlockCall(p)
             \/ UnlockMu(p)
             \/ \E c \in Cells : UnlockEntry(p, c)
             \/ UnlockCount(p)

Next == \E p \in Procs : Lock(p) \/ Unlock(p)

Spec == Init /\ [][Next]_vars

\* sync.Mutex hands itself over in FIFO order once a waiter has waited 1 ms
\* (starvation mode), so a goroutine that finds a mutex free again and again
\* gets it; a goroutine that can run does run; and every critical section of the
\* callers ends (its CloudStack calls return or time out).
Fairness == \A p \in Procs :
               /\ SF_vars(LockMu(p)) /\ SF_vars(LockEntry(p)) /\ SF_vars(UnlockMu(p))
               /\ WF_vars(\E c \in Cells : LockGet(p, c))
               /\ WF_vars(UnlockCall(p))
               /\ WF_vars(\E c \in Cells : UnlockEntry(p, c))
               /\ WF_vars(UnlockCount(p))

FairSpec == Spec /\ Fairness
-----------------------------------------------------------------------------
\* The goroutines that hold the mutex of a service: from the end of Lock to the
\* release of the cell's mutex inside Unlock.
HoldPCs == {"critical", "unlockMu", "unlockEntry"}
Holds(p) == pc[p] \in HoldPCs

\* The goroutines counted in the entry of key k, from counter++ to counter--.
UserPCs == {"lockEntry", "unlockCount"} \cup HoldPCs
Users(k) == {p \in Procs : key[p] = k /\ pc[p] \in UserPCs}

\* Two goroutines never work on the same service at the same time, although each
\* looks its mutex up in a map whose entries come and go (servicelock.go Lock).
MutualExclusion == \A p, q \in Procs :
                      p # q /\ Holds(p) /\ Holds(q) => key[p] # key[q]

\* Unlock finds, under the key, a mutex that is locked: it never creates a new
\* entry by accident and never trips over the runtime's "unlock of unlocked
\* mutex" abort.
UnlockOfLocked == \A p \in Procs : pc[p] = "unlockEntry" =>
                     inUse[key[p]] # None /\ locked[inUse[key[p]]]

\* A goroutine that waits for a cell waits for the one the map holds: an entry is
\* never deleted and recreated under a waiter's feet.
WaitersShareEntry == \A p \in Procs : pc[p] \in {"lockEntry", "unlockCount"} =>
                        m[p] = inUse[key[p]]

\* The map holds exactly the services somebody uses: an entry goes with its last
\* user (the map is empty again once everybody has unlocked, as the lock's test
\* expects) and never before.
NoStaleEntry == \A k \in Keys : inUse[k] = None <=> Users(k) = {}

\* The service a goroutine has called Lock for and not been granted, and the
\* goroutine that has been granted a service and not given it back.
Wanted(p) == IF pc[p] \in {"lockMu", "lockGet", "lockEntry"} THEN key[p] ELSE None
Owner(k) == IF \E p \in Procs : Holds(p) /\ key[p] = k
            THEN CHOOSE p \in Procs : Holds(p) /\ key[p] = k
            ELSE None

\* The code implements the mutex per service.  The request is the call of Lock,
\* the grant the acquisition of m.lock, the release m.lock.Unlock(); map and
\* counts are invisible.  A goroutine that is still inside Unlock has released.
Abstract == INSTANCE KeyedMutex WITH want <- [p \in Procs |-> Wanted(p)],
                                     owner <- [k \in Keys |-> Owner(k)]
ImplementsKeyedMutex == Abstract!Spec

\* Whoever calls Lock gets the service, whatever the others do.
LockGranted == \A p \in Procs : pc[p] = "lockMu" ~> pc[p] = "critical"
=============================================================================
