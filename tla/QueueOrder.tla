----------------------------- MODULE QueueOrder -----------------------------
(***************************************************************************)
(* The order in which updateLBNodeQueue.pop looks at its entries           *)
(* (service_queue.go: sortableQueueEntries).  pop sorts all entries and    *)
(* considers the FIRST one only: when that one is still in backoff, pop    *)
(* returns nothing, so the order must never put a waiting entry in front   *)
(* of one that could run.                                                  *)
(*                                                                         *)
(* An entry is a record with the fields backoffUntil and start (instants)  *)
(* and topRevision (the revision of the newest node that runs a pod of the *)
(* service).  sort.Sort reads the clock at every comparison; all the       *)
(* comparisons of one pop are taken at one instant, now.                   *)
(***************************************************************************)
EXTENDS Integers

Entries == [backoffUntil : Int, topRevision : Nat, start : Int]

\* time.Until(e.backoffUntil) > 0
InBackoff(e, now) == e.backoffUntil > now

\* Faulty variant of Less: the backoff is looked at only when both wait.
LessBothWait(a, b, now) ==
    IF (InBackoff(a, now) /\ InBackoff(b, now)) /\ a.backoffUntil # b.backoffUntil
    THEN a.backoffUntil < b.backoffUntil
    ELSE \/ a.topRevision > b.topRevision
         \/ a.topRevision = b.topRevision /\ a.start < b.start

Less(a, b, now) ==
    IF (InBackoff(a, now) \/ InBackoff(b, now)) /\ a.backoffUntil # b.backoffUntil
    THEN a.backoffUntil < b.backoffUntil
    ELSE \/ a.topRevision > b.topRevision
         \/ a.topRevision = b.topRevision /\ a.start < b.start

\* The entries that sort.Sort may leave in front: it is not stable and the map is
\* iterated in random order, so any entry that none precedes.
Firsts(S, now) == {e \in S : \A f \in S : ~Less(f, e, now)}
=============================================================================
