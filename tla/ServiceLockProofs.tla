------------------------- MODULE ServiceLockProofs -------------------------
(***************************************************************************)
(* Proofs about ServiceLock, for any finite set of goroutines and any sets *)
(* of services and heap cells.                                             *)
(*                                                                         *)
(* Mutual exclusion is not inductive: it rests on every user of a service  *)
(* sharing the one cell the map holds, which rests on the cell's counter   *)
(* being the exact number of its users, so that the delete in Unlock never *)
(* hits an entry somebody still points to.                                 *)
(***************************************************************************)
EXTENDS ServiceLock, FiniteSetTheorems, TLAPS

MuPCs == {"lockGet", "unlockEntry", "unlockCount"}

\* mu is held by the goroutine that is inside a mu section, and only by it.
MuInv == \A p \in Procs : mu = p <=> pc[p] \in MuPCs

\* Whoever is inside Lock or Unlock, or between them, has a service in hand.
KeyInv == \A p \in Procs : pc[p] # "idle" => key[p] \in Keys

\* The local m is alive exactly between the lookup and its last use, and is then
\* the cell the map holds.
PointerInv == \A p \in Procs :
                 IF pc[p] \in {"lockEntry", "unlockCount"} THEN m[p] = inUse[key[p]]
                                                           ELSE m[p] = None

\* Different services never share a cell.
DistinctInv == \A k, l \in Keys : k # l /\ inUse[k] # None => inUse[k] # inUse[l]

\* The counter of an entry is the number of its users.
CountInv == \A k \in Keys : inUse[k] # None => counter[inUse[k]] = Cardinality(Users(k))

\* The cell of an entry is locked exactly when a goroutine holds the service.
LockedInv == \A k \in Keys : inUse[k] # None =>
                (locked[inUse[k]] <=> \E p \in Procs : Holds(p) /\ key[p] = k)

IInv == /\ TypeOK
        /\ MuInv
        /\ KeyInv
        /\ PointerInv
        /\ DistinctInv
        /\ CountInv
        /\ LockedInv
        /\ NoStaleEntry
        /\ MutualExclusion
-----------------------------------------------------------------------------
\* The users of a service are finitely many goroutines.
LEMMA UsersFinite == \A k : IsFiniteSet(Users(k)) /\ Cardinality(Users(k)) \in Nat
<1> SUFFICES ASSUME NEW k PROVE IsFiniteSet(Users(k)) /\ Cardinality(Users(k)) \in Nat
  OBVIOUS
<1>1. Users(k) \in SUBSET Procs
  BY DEF Users
<1>2. IsFiniteSet(Users(k))
  BY <1>1, ProcsAssumption, FS_Subset
<1> QED BY <1>2, FS_CardinalityType

\* The initial state satisfies the inductive invariant.
LEMMA InitIInv == Init => IInv
<1> SUFFICES ASSUME Init PROVE IInv
  OBVIOUS
<1> USE NoneAssumption DEF Init
<1>1. TypeOK
  BY DEF TypeOK, PCs
<1>2. MuInv /\ KeyInv /\ PointerInv /\ DistinctInv /\ CountInv /\ LockedInv
  BY DEF MuInv, MuPCs, KeyInv, PointerInv, DistinctInv, CountInv, LockedInv
<1>3. NoStaleEntry /\ MutualExclusion
  BY DEF NoStaleEntry, Users, UserPCs, HoldPCs, MutualExclusion, Holds
<1> QED BY <1>1, <1>2, <1>3 DEF IInv

\* A step that leaves map, counts, cell mutexes and pointers alone, and changes
\* nobody's use of a service, preserves what the invariant says of them.
LEMMA SameUse ==
  ASSUME IInv, UNCHANGED <<inUse, counter, locked, m>>,
         NEW p \in Procs, NEW pc1 \in PCs, NEW k1 \in Keys,
         pc[p] \notin {"lockEntry", "unlockCount"}, pc1 \notin {"lockEntry", "unlockCount"},
         pc[p] \in HoldPCs <=> pc1 \in HoldPCs,
         pc[p] \in HoldPCs => key[p] = k1,
         pc' = [pc EXCEPT ![p] = pc1], key' = [key EXCEPT ![p] = k1]
  PROVE  (KeyInv /\ PointerInv /\ DistinctInv /\ CountInv /\ LockedInv
            /\ NoStaleEntry /\ MutualExclusion)'
<1> USE DEF IInv, TypeOK
<1>1. KeyInv'
  BY DEF KeyInv
<1>2. PointerInv' /\ DistinctInv'
  BY DEF PointerInv, DistinctInv
<1>3. \A k \in Keys : Users(k)' = Users(k)
  BY DEF Users, UserPCs
<1>4. CountInv' /\ NoStaleEntry'
  BY <1>3 DEF CountInv, NoStaleEntry
<1>5. \A q \in Procs : (Holds(q)' <=> Holds(q)) /\ (Holds(q) => key'[q] = key[q])
  BY DEF Holds
<1>6. LockedInv' /\ MutualExclusion'
  BY <1>5 DEF LockedInv, MutualExclusion
<1> QED BY <1>1, <1>2, <1>4, <1>6

\* LockGet: the goroutine joins the users of its service, in the entry that is
\* there or in a fresh one.
LEMMA LockGetStep ==
  ASSUME IInv, NEW p \in Procs, NEW c \in Cells, LockGet(p, c)
  PROVE  IInv'
<1> USE DEF IInv, TypeOK, LockGet
<1>0. PICK k \in Keys : k = key[p]
  BY DEF KeyInv
<1>1. k \in Keys /\ mu = p /\ c # None /\ key[p] = k
  BY <1>0, NoneAssumption DEF MuInv, MuPCs
<1>2. \A l \in Keys : l # k => inUse[l] # c
  BY <1>1, NoneAssumption DEF getLocker, Unreferenced, DistinctInv
<1>3. /\ inUse'[k] = c /\ \A l \in Keys : l # k => inUse'[l] = inUse[l]
      /\ inUse[k] # None => inUse[k] = c
  BY <1>1 DEF getLocker
<1>4. /\ Users(k)' = Users(k) \cup {p} /\ p \notin Users(k)
      /\ \A l \in Keys : l # k => Users(l)' = Users(l)
  BY <1>1 DEF Users, UserPCs, HoldPCs
<1>5. CounterAt(k, c) = Cardinality(Users(k))
  BY <1>1, <1>3, FS_EmptySet DEF CounterAt, NoStaleEntry, CountInv
<1>6. Cardinality(Users(k)') = CounterAt(k, c) + 1
  <2>1. Cardinality(Users(k) \cup {p}) = Cardinality(Users(k)) + 1
    BY <1>4, UsersFinite, FS_AddElement
  <2> QED BY <1>4, <1>5, <2>1
<1>7. \A q \in Procs : (Holds(q)' <=> Holds(q)) /\ key'[q] = key[q]
  BY DEF Holds, HoldPCs
<1>8. TypeOK'
  <2>1. CounterAt(k, c) + 1 \in Nat
    BY <1>5, UsersFinite
  <2>2. LockedAt(k, c) \in BOOLEAN
    BY DEF LockedAt
  <2>3. counter' \in [Cells -> Nat] /\ locked' \in [Cells -> BOOLEAN]
    BY <1>1, <2>1, <2>2
  <2> QED BY <2>3 DEF PCs
<1>9. MuInv' /\ KeyInv'
  BY <1>1, NoneAssumption DEF MuInv, MuPCs, KeyInv
<1>10. PointerInv'
  <2> SUFFICES ASSUME NEW q \in Procs
               PROVE IF pc'[q] \in {"lockEntry", "unlockCount"}
                     THEN m'[q] = inUse'[key'[q]] ELSE m'[q] = None
    BY DEF PointerInv
  <2>1. CASE q = p
    <3>1. pc'[q] = "lockEntry" /\ m'[q] = c /\ key'[q] = k
      BY <2>1, <1>1
    <3> QED BY <3>1, <1>3
  <2>2. CASE q # p
    <3>1. pc'[q] = pc[q] /\ m'[q] = m[q] /\ key'[q] = key[q]
      BY <2>2
    <3>2. CASE pc[q] \in {"lockEntry", "unlockCount"}
      <4>1. key[q] \in Keys /\ inUse[key[q]] # None
        BY <3>2 DEF KeyInv, NoStaleEntry, Users, UserPCs
      <4> QED BY <3>1, <3>2, <4>1, <1>1, <1>3 DEF PointerInv
    <3> QED BY <3>1, <3>2 DEF PointerInv
  <2> QED BY <2>1, <2>2
<1>11. DistinctInv'
  BY <1>2, <1>3 DEF DistinctInv
<1>12. CountInv'
  BY <1>1, <1>2, <1>3, <1>4, <1>6 DEF CountInv
<1>13. LockedInv'
  <2> SUFFICES ASSUME NEW l \in Keys, inUse'[l] # None
               PROVE locked'[inUse'[l]] <=> \E q \in Procs : Holds(q) /\ key[q] = l
    BY <1>7 DEF LockedInv
  <2>1. CASE l # k
    BY <2>1, <1>2, <1>3 DEF LockedInv
  <2>2. CASE l = k /\ inUse[k] # None
    <3>1. locked'[c] = locked[c]
      BY <2>2, <1>1 DEF LockedAt
    <3> QED BY <3>1, <2>2, <1>3 DEF LockedInv
  <2>3. CASE l = k /\ inUse[k] = None
    <3>1. ~ \E q \in Procs : Holds(q) /\ key[q] = k
      BY <2>3, <1>1 DEF NoStaleEntry, Users, UserPCs, Holds
    <3> QED BY <3>1, <2>3, <1>1, <1>3 DEF LockedAt
  <2> QED BY <2>1, <2>2, <2>3
<1>14. NoStaleEntry'
  BY <1>1, <1>3, <1>4 DEF NoStaleEntry
<1>15. MutualExclusion'
  BY <1>7 DEF MutualExclusion
<1> QED BY <1>8, <1>9, <1>10, <1>11, <1>12, <1>13, <1>14, <1>15

\* LockEntry: the goroutine becomes the holder; nobody was, for the cell it locks
\* is the map's.
LEMMA LockEntryStep ==
  ASSUME IInv, NEW p \in Procs, LockEntry(p)
  PROVE  IInv'
<1> USE DEF IInv, TypeOK, LockEntry
<1>0. PICK k \in Keys : k = key[p]
  BY DEF KeyInv
<1>1. k = key[p] /\ inUse[k] # None /\ m[p] = inUse[k]
  BY <1>0 DEF NoStaleEntry, Users, UserPCs, PointerInv
<1>2. ~ \E q \in Procs : Holds(q) /\ key[q] = k
  BY <1>1 DEF LockedInv
<1>3. \A q \in Procs : Holds(q)' <=> (Holds(q) \/ q = p)
  BY DEF Holds, HoldPCs
<1>4. \A l \in Keys : Users(l)' = Users(l)
  BY DEF Users, UserPCs, HoldPCs
<1>5. TypeOK'
  BY <1>1 DEF PCs
<1>6. MuInv' /\ KeyInv'
  BY DEF MuInv, MuPCs, KeyInv
<1>7. PointerInv' /\ DistinctInv'
  BY DEF PointerInv, DistinctInv
<1>8. CountInv' /\ NoStaleEntry'
  BY <1>4 DEF CountInv, NoStaleEntry
<1>9. LockedInv'
  BY <1>1, <1>3 DEF LockedInv, DistinctInv
<1>10. MutualExclusion'
  BY <1>1, <1>2, <1>3 DEF MutualExclusion
<1> QED BY <1>5, <1>6, <1>7, <1>8, <1>9, <1>10

\* UnlockEntry: the holder finds the cell it locked and gives it back.
LEMMA UnlockEntryStep ==
  ASSUME IInv, NEW p \in Procs, NEW c \in Cells, UnlockEntry(p, c)
  PROVE  IInv'
<1> USE DEF IInv, TypeOK, UnlockEntry
<1>0. PICK k \in Keys : k = key[p]
  BY DEF KeyInv
<1>1. k = key[p] /\ inUse[k] # None /\ c = inUse[k] /\ Holds(p)
  BY <1>0 DEF NoStaleEntry, Users, UserPCs, HoldPCs, Holds, getLocker
<1>2. inUse' = inUse /\ counter' = counter
  BY <1>1 DEF CounterAt
<1>3. \A q \in Procs : (Holds(q)' <=> (Holds(q) /\ q # p))
  BY DEF Holds, HoldPCs
<1>4. \A l \in Keys : Users(l)' = Users(l)
  BY DEF Users, UserPCs, HoldPCs
<1>5. TypeOK'
  BY <1>2 DEF PCs
<1>6. MuInv' /\ KeyInv'
  BY DEF MuInv, MuPCs, KeyInv
<1>7. PointerInv' /\ DistinctInv'
  BY <1>1, <1>2 DEF PointerInv, DistinctInv
<1>8. CountInv' /\ NoStaleEntry'
  BY <1>2, <1>4 DEF CountInv, NoStaleEntry
<1>9. LockedInv'
  BY <1>1, <1>2, <1>3 DEF LockedInv, DistinctInv, MutualExclusion
<1>10. MutualExclusion'
  BY <1>3 DEF MutualExclusion
<1> QED BY <1>5, <1>6, <1>7, <1>8, <1>9, <1>10

\* UnlockCount: the goroutine leaves the users of its service, and the entry goes
\* exactly when it was the last one.
LEMMA UnlockCountStep ==
  ASSUME IInv, NEW p \in Procs, UnlockCount(p)
  PROVE  IInv'
<1> USE DEF IInv, TypeOK, UnlockCount, UnlockCountIf
<1>0. PICK k \in Keys : k = key[p]
  BY DEF KeyInv
<1>1. k = key[p] /\ p \in Users(k) /\ inUse[k] # None /\ m[p] = inUse[k] /\ mu = p
  BY <1>0 DEF NoStaleEntry, Users, UserPCs, PointerInv, MuInv, MuPCs
<1>2. PICK c \in Cells : c = inUse[k]
  BY <1>1
<1>3. /\ Users(k)' = Users(k) \ {p}
      /\ \A l \in Keys : l # k => Users(l)' = Users(l)
  BY <1>1, NoneAssumption DEF Users, UserPCs, HoldPCs
<1>4. /\ counter[c] = Cardinality(Users(k))
      /\ Cardinality(Users(k) \ {p}) = counter[c] - 1
      /\ IsFiniteSet(Users(k) \ {p})
  <2>1. counter[c] = Cardinality(Users(k))
    BY <1>1, <1>2 DEF CountInv
  <2>2. /\ Cardinality(Users(k) \ {p}) = Cardinality(Users(k)) - 1
        /\ IsFiniteSet(Users(k) \ {p})
    BY <1>1, UsersFinite, FS_RemoveElement
  <2> QED BY <2>1, <2>2
<1>5. counter[c] - 1 \in Nat
  BY <1>4, FS_CardinalityType
<1>6. counter[c] - 1 <= 0 <=> Users(k)' = {}
  BY <1>3, <1>4, <1>5, FS_EmptySet
<1>7. /\ \A l \in Keys : l # k => inUse'[l] = inUse[l]
      /\ inUse'[k] = IF Users(k)' = {} THEN None ELSE c
  BY <1>1, <1>2, <1>6
<1>8. counter' = [counter EXCEPT ![c] = counter[c] - 1]
  BY <1>1, <1>2
<1>9. \A q \in Procs : (Holds(q)' <=> Holds(q)) /\ (Holds(q) => key'[q] = key[q] /\ q # p)
  BY DEF Holds, HoldPCs
<1>10. TypeOK'
  <2>1. counter' \in [Cells -> Nat]
    BY <1>5, <1>8
  <2>2. inUse' \in [Keys -> Cells \cup {None}]
    OBVIOUS
  <2> QED BY <2>1, <2>2 DEF PCs
<1>11. MuInv' /\ KeyInv'
  BY <1>1, NoneAssumption DEF MuInv, MuPCs, KeyInv
<1>12. PointerInv'
  <2> SUFFICES ASSUME NEW q \in Procs
               PROVE IF pc'[q] \in {"lockEntry", "unlockCount"}
                     THEN m'[q] = inUse'[key'[q]] ELSE m'[q] = None
    BY DEF PointerInv
  <2>1. CASE q = p
    BY <2>1
  <2>2. CASE q # p
    <3>1. pc'[q] = pc[q] /\ m'[q] = m[q] /\ key'[q] = key[q]
      BY <2>2
    <3>2. CASE pc[q] \in {"lockEntry", "unlockCount"}
      <4>1. key[q] \in Keys /\ q \in Users(key[q])
        BY <3>2 DEF KeyInv, Users, UserPCs
      <4>2. inUse'[key[q]] = inUse[key[q]]
        BY <4>1, <2>2, <1>2, <1>3, <1>7
      <4> QED BY <3>1, <3>2, <4>2 DEF PointerInv
    <3> QED BY <3>1, <3>2 DEF PointerInv
  <2> QED BY <2>1, <2>2
<1>13. DistinctInv'
  BY <1>1, <1>2, <1>7 DEF DistinctInv
<1>14. CountInv'
  <2> SUFFICES ASSUME NEW l \in Keys, inUse'[l] # None
               PROVE counter'[inUse'[l]] = Cardinality(Users(l)')
    BY DEF CountInv
  <2>1. CASE l = k
    BY <2>1, <1>3, <1>4, <1>7, <1>8
  <2>2. CASE l # k
    <3>1. inUse'[l] = inUse[l] /\ inUse[l] # c /\ Users(l)' = Users(l)
      BY <2>2, <1>2, <1>3, <1>7 DEF DistinctInv
    <3> QED BY <3>1, <1>8 DEF CountInv
  <2> QED BY <2>1, <2>2
<1>15. LockedInv'
  <2> SUFFICES ASSUME NEW l \in Keys, inUse'[l] # None
               PROVE locked'[inUse'[l]] <=> \E q \in Procs : Holds(q)' /\ key'[q] = l
    BY DEF LockedInv
  <2>1. inUse'[l] = inUse[l]
    BY <1>2, <1>7
  <2>2. (\E q \in Procs : Holds(q)' /\ key'[q] = l)
           <=> \E q \in Procs : Holds(q) /\ key[q] = l
    BY <1>9
  <2> QED BY <2>1, <2>2 DEF LockedInv
<1>16. NoStaleEntry'
  <2> SUFFICES ASSUME NEW l \in Keys PROVE inUse'[l] = None <=> Users(l)' = {}
    BY DEF NoStaleEntry
  <2>1. CASE l = k
    BY <2>1, <1>2, <1>7, NoneAssumption
  <2>2. CASE l # k
    BY <2>2, <1>3, <1>7 DEF NoStaleEntry
  <2> QED BY <2>1, <2>2
<1>17. MutualExclusion'
  BY <1>9 DEF MutualExclusion
<1> QED BY <1>10, <1>11, <1>12, <1>13, <1>14, <1>15, <1>16, <1>17

\* Every step preserves the inductive invariant.
LEMMA NextIInv == IInv /\ [Next]_vars => IInv'
<1> SUFFICES ASSUME IInv, [Next]_vars PROVE IInv'
  OBVIOUS
<1>1. CASE UNCHANGED vars
  BY <1>1 DEF vars, IInv, TypeOK, MuInv, KeyInv, PointerInv, DistinctInv, CountInv,
              LockedInv, NoStaleEntry, MutualExclusion, Users, Holds
<1>2. ASSUME NEW p \in Procs, NEW k \in Keys, LockCall(p, k) PROVE IInv'
  <2>1. TypeOK' /\ MuInv'
    BY <1>2 DEF LockCall, IInv, TypeOK, PCs, MuInv, MuPCs
  <2> QED BY <1>2, <2>1, SameUse DEF LockCall, IInv, TypeOK, PCs, HoldPCs
<1>3. ASSUME NEW p \in Procs, LockMu(p) PROVE IInv'
  <2>1. TypeOK' /\ MuInv'
    BY <1>3, NoneAssumption DEF LockMu, IInv, TypeOK, PCs, MuInv, MuPCs
  <2>2. key[p] \in Keys /\ key' = [key EXCEPT ![p] = key[p]]
    BY <1>3 DEF LockMu, IInv, TypeOK, KeyInv
  <2> QED BY <1>3, <2>1, <2>2, SameUse DEF LockMu, IInv, PCs, HoldPCs
<1>4. ASSUME NEW p \in Procs, UnlockCall(p) PROVE IInv'
  <2>1. TypeOK' /\ MuInv'
    BY <1>4 DEF UnlockCall, IInv, TypeOK, PCs, MuInv, MuPCs
  <2>2. key[p] \in Keys /\ key' = [key EXCEPT ![p] = key[p]]
    BY <1>4 DEF UnlockCall, IInv, TypeOK, KeyInv
  <2> QED BY <1>4, <2>1, <2>2, SameUse DEF UnlockCall, IInv, PCs, HoldPCs
<1>5. ASSUME NEW p \in Procs, UnlockMu(p) PROVE IInv'
  <2>1. TypeOK' /\ MuInv'
    BY <1>5, NoneAssumption DEF UnlockMu, IInv, TypeOK, PCs, MuInv, MuPCs
  <2>2. key[p] \in Keys /\ key' = [key EXCEPT ![p] = key[p]]
    BY <1>5 DEF UnlockMu, IInv, TypeOK, KeyInv
  <2> QED BY <1>5, <2>1, <2>2, SameUse DEF UnlockMu, IInv, PCs, HoldPCs
<1> QED BY <1>1, <1>2, <1>3, <1>4, <1>5, LockGetStep, LockEntryStep, UnlockEntryStep,
           UnlockCountStep DEF Next, Lock, Unlock

\* The inductive invariant holds in every reachable state.
THEOREM Invariance == Spec => []IInv
BY InitIInv, NextIInv, PTL DEF Spec

\* Every reachable state is type-correct; in particular no counter ever becomes
\* negative.
THEOREM TypeCorrect == Spec => []TypeOK
BY Invariance, PTL DEF IInv

\* No two goroutines work on the same service at the same time, however the
\* entries of the map come and go.
THEOREM MutualExclusionHolds == Spec => []MutualExclusion
BY Invariance, PTL DEF IInv

\* The map holds exactly the services somebody uses.
THEOREM NoStaleEntryHolds == Spec => []NoStaleEntry
BY Invariance, PTL DEF IInv

\* Unlock never meets a missing entry or an unlocked mutex.
THEOREM UnlockOfLockedHolds == Spec => []UnlockOfLocked
<1>1. IInv => UnlockOfLocked
  <2> SUFFICES ASSUME IInv, NEW p \in Procs, pc[p] = "unlockEntry"
               PROVE inUse[key[p]] # None /\ locked[inUse[key[p]]]
    BY DEF UnlockOfLocked
  <2>1. key[p] \in Keys /\ Holds(p) /\ p \in Users(key[p])
    BY DEF IInv, KeyInv, Holds, Users, UserPCs, HoldPCs
  <2> QED BY <2>1 DEF IInv, NoStaleEntry, LockedInv
<1> QED BY <1>1, Invariance, PTL

\* A goroutine that waits for a mutex waits for the one the map has for its service.
THEOREM WaitersShareEntryHolds == Spec => []WaitersShareEntry
<1>1. IInv => WaitersShareEntry
  BY DEF IInv, PointerInv, WaitersShareEntry
<1> QED BY <1>1, Invariance, PTL
-----------------------------------------------------------------------------
\* The refinement mapping is well defined: the owner of a service is the one
\* goroutine that holds it.
LEMMA OwnerIsHolder ==
  ASSUME MutualExclusion, NEW k
  PROVE  /\ \A p \in Procs : Holds(p) /\ key[p] = k => Owner(k) = p
         /\ (\A p \in Procs : ~(Holds(p) /\ key[p] = k)) => Owner(k) = None
         /\ \A p \in Procs : Owner(k) = p => Holds(p) /\ key[p] = k
<1>1. ASSUME NEW p \in Procs, Holds(p), key[p] = k PROVE Owner(k) = p
  <2>1. \A q \in Procs : Holds(q) /\ key[q] = k => q = p
    BY <1>1 DEF MutualExclusion
  <2> QED BY <1>1, <2>1 DEF Owner
<1>2. ASSUME \A p \in Procs : ~(Holds(p) /\ key[p] = k) PROVE Owner(k) = None
  BY <1>2 DEF Owner
<1> QED BY <1>1, <1>2, NoneAssumption

\* The initial states of the code map to the initial state of the mutex.
LEMMA InitRefines == Init => Abstract!Init
<1> SUFFICES ASSUME Init PROVE Abstract!Init
  OBVIOUS
<1>1. \A p \in Procs : Wanted(p) = None
  BY DEF Init, Wanted
<1>2. \A k \in Keys : Owner(k) = None
  BY DEF Init, Owner, Holds, HoldPCs
<1> QED BY <1>1, <1>2 DEF Abstract!Init

\* Every step of the code maps to a step of the mutex or changes nothing in it.
LEMMA NextRefines == IInv /\ IInv' /\ [Next]_vars => [Abstract!Next]_(Abstract!vars)
<1> SUFFICES ASSUME IInv, IInv', [Next]_vars PROVE [Abstract!Next]_(Abstract!vars)
  OBVIOUS
<1>a. MutualExclusion /\ MutualExclusion'
  BY DEF IInv
<1>b. ASSUME \A p \in Procs : Wanted(p)' = Wanted(p), \A k \in Keys : Owner(k)' = Owner(k)
      PROVE  UNCHANGED Abstract!vars
  BY <1>b DEF Abstract!vars
<1>c. \A k \in Keys : \A p \in Procs : Holds(p)' /\ key'[p] = k => Owner(k)' = p
  <2> SUFFICES ASSUME NEW k \in Keys, NEW p \in Procs, Holds(p)', key'[p] = k
               PROVE  Owner(k)' = p
    OBVIOUS
  <2>1. \A q \in Procs : Holds(q)' /\ key'[q] = k => q = p
    BY <1>a DEF MutualExclusion
  <2> QED BY <2>1 DEF Owner
<1>d. \A k \in Keys : (\A p \in Procs : ~(Holds(p)' /\ key'[p] = k)) => Owner(k)' = None
  BY DEF Owner
<1>e. ASSUME NEW k \in Keys,
             \A q \in Procs : (Holds(q)' /\ key'[q] = k) <=> (Holds(q) /\ key[q] = k)
      PROVE  Owner(k)' = Owner(k)
  <2>1. CASE \E q \in Procs : Holds(q) /\ key[q] = k
    BY <1>e, <2>1, <1>a, <1>c, OwnerIsHolder
  <2>2. CASE \A q \in Procs : ~(Holds(q) /\ key[q] = k)
    BY <1>e, <2>2, <1>a, <1>d, OwnerIsHolder
  <2> QED BY <2>1, <2>2
<1>1. CASE UNCHANGED vars
  <2>1. \A p \in Procs : Wanted(p)' = Wanted(p)
    BY <1>1 DEF vars, Wanted
  <2>2. \A k \in Keys : Owner(k)' = Owner(k)
    BY <1>1 DEF vars, Owner, Holds
  <2> QED BY <1>b, <2>1, <2>2
<1>2. ASSUME NEW p \in Procs, LockMu(p) \/ (\E c \in Cells : LockGet(p, c))
                                \/ UnlockCall(p) \/ UnlockMu(p) \/ UnlockCount(p)
      PROVE  UNCHANGED Abstract!vars
  <2> USE <1>2 DEF LockMu, LockGet, UnlockCall, UnlockMu, UnlockCount, UnlockCountIf, IInv, TypeOK
  <2>1. \A q \in Procs : Wanted(q)' = Wanted(q)
    BY DEF Wanted
  <2>2. \A q \in Procs : (Holds(q)' <=> Holds(q)) /\ (Holds(q) => key'[q] = key[q])
    BY DEF Holds, HoldPCs
  <2>3. \A k \in Keys : Owner(k)' = Owner(k)
    BY <2>2, <1>e
  <2> QED BY <1>b, <2>1, <2>3
<1>3. ASSUME NEW p \in Procs, NEW k \in Keys, LockCall(p, k) PROVE Abstract!Request(p, k)
  <2> USE <1>3 DEF LockCall, IInv, TypeOK
  <2>1. ~Holds(p) /\ Wanted(p) = None
    BY DEF Holds, HoldPCs, Wanted
  <2>2. \A l \in Keys : Owner(l) # p
    BY <2>1, <1>a, OwnerIsHolder
  <2>3. Wanted(p)' = k /\ \A q \in Procs : q # p => Wanted(q)' = Wanted(q)
    BY DEF Wanted
  <2>4. \A q \in Procs : (Holds(q)' <=> Holds(q)) /\ (Holds(q) => key'[q] = key[q])
    BY DEF Holds, HoldPCs
  <2>5. \A l \in Keys : Owner(l)' = Owner(l)
    BY <2>4, <1>e
  <2> QED BY <2>1, <2>2, <2>3, <2>5 DEF Abstract!Request, Abstract!Free
<1>4. ASSUME NEW p \in Procs, LockEntry(p) PROVE Abstract!Grant(p, key[p]) /\ key[p] \in Keys
  <2> USE <1>4 DEF LockEntry, IInv, TypeOK
  <2>1. PICK k \in Keys : k = key[p]
    BY DEF KeyInv
  <2>2. \A q \in Procs : ~(Holds(q) /\ key[q] = k)
    <3>1. inUse[k] # None /\ m[p] = inUse[k]
      BY <2>1 DEF NoStaleEntry, Users, UserPCs, PointerInv
    <3> QED BY <3>1, <2>1 DEF LockedInv
  <2>3. Holds(p)' /\ \A q \in Procs : q # p => (Holds(q)' <=> Holds(q))
    BY DEF Holds, HoldPCs
  <2>4. Owner(k) = None /\ Owner(k)' = p
    BY <2>1, <2>2, <2>3, <1>a, <1>c, OwnerIsHolder
  <2>5. \A l \in Keys : l # k => Owner(l)' = Owner(l)
    BY <2>1, <2>3, <1>e DEF Holds, HoldPCs
  <2>6. /\ Wanted(p) = k /\ Wanted(p)' = None
        /\ \A q \in Procs : q # p => Wanted(q)' = Wanted(q)
    BY <2>1 DEF Wanted
  <2> QED BY <2>1, <2>4, <2>5, <2>6 DEF Abstract!Grant
<1>5. ASSUME NEW p \in Procs, NEW c \in Cells, UnlockEntry(p, c)
      PROVE  Abstract!Release(p, key[p]) /\ key[p] \in Keys
  <2> USE <1>5 DEF UnlockEntry, IInv, TypeOK
  <2>1. PICK k \in Keys : k = key[p]
    BY DEF KeyInv
  <2>2. Holds(p) /\ ~Holds(p)' /\ \A q \in Procs : q # p => (Holds(q)' <=> Holds(q))
    BY DEF Holds, HoldPCs
  <2>3. \A q \in Procs : ~(Holds(q)' /\ key'[q] = k)
    BY <2>1, <2>2, <1>a DEF MutualExclusion
  <2>4. Owner(k) = p /\ Owner(k)' = None
    BY <2>1, <2>2, <2>3, <1>a, <1>d, OwnerIsHolder
  <2>5. \A l \in Keys : l # k => Owner(l)' = Owner(l)
    BY <2>1, <2>2, <1>e
  <2>6. \A q \in Procs : Wanted(q)' = Wanted(q)
    BY DEF Wanted
  <2> QED BY <2>1, <2>4, <2>5, <2>6 DEF Abstract!Release
<1> QED BY <1>1, <1>2, <1>3, <1>4, <1>5 DEF Next, Lock, Unlock, Abstract!Next

\* The map of reference-counted cells implements a mutex per service.
THEOREM Refinement == Spec => ImplementsKeyedMutex
BY InitRefines, NextRefines, Invariance, PTL DEF Spec, ImplementsKeyedMutex, Abstract!Spec
=============================================================================
