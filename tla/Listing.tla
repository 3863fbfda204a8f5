------------------------------ MODULE Listing ------------------------------
(***************************************************************************)
(* helpers.go: listAllPagesUnsafe, through which the hosts of a rule and   *)
(* the public IPs of a project are read.  A listing is several calls, and  *)
(* CloudStack keeps no snapshot between them: while it runs, other         *)
(* services and people add to what is listed and take away from it, and    *)
(* everything behind that place moves to another page.                     *)
(***************************************************************************)
EXTENDS Integers, Sequences, FiniteSets

CONSTANTS Items,           \* what can be listed (ids)
          PageSize,        \* pageSize, 50 in the code
          MaxItems,        \* bound: items at the start
          MaxChanges       \* bound: additions and removals during a listing

ASSUME PageAssumption == PageSize \in Nat \ {0}
ASSUME ListingBoundAssumption == MaxItems \in Nat /\ MaxChanges \in Nat

VARIABLES
    items,     \* CloudStack: what there is to list, in the order it is listed in
    page,      \* page
    result,    \* result
    index,     \* i, in the loop that drops duplicates
    listPC,    \* "page" and "dedupe" are the two loops; "listed" and "failed" the returns
    kept,      \* history: the items that have been there since the listing began
    fetched,   \* history: the items that have been on a page
    changes,   \* history: additions and removals so far
    removals   \* history: removals so far

listVars == <<page, result, index, listPC, fetched>>
changeVars == <<items, kept, changes, removals>>
ListingVars == <<items, page, result, index, listPC, kept, fetched, changes, removals>>

ElementsOf(s) == {s[i] : i \in DOMAIN s}

\* A listing begins, over some items in some order.
ListingInit == /\ \E n \in 0..MaxItems : items \in {s \in [1..n -> Items] :
                      \A i, j \in 1..n : s[i] = s[j] => i = j}
               /\ page = 1 /\ result = << >> /\ index = 1 /\ listPC = "page"
               /\ kept = ElementsOf(items) /\ fetched = {}
               /\ changes = 0 /\ removals = 0
-----------------------------------------------------------------------------
\* CloudStack's answer (external): the page of the items as they are now.  Its count
\* says how many there are in all.
PageOf(p) == SubSeq(items, (p - 1) * PageSize + 1,
                    IF p * PageSize < Len(items) THEN p * PageSize ELSE Len(items))

\* Faulty variant: a full page is taken for the last one.
LastPageShort(p, got) == Len(PageOf(p)) = 0 \/ Len(PageOf(p)) >= PageSize
\* The loop ends with an empty page, or once there are as many results as items.
LastPage(p, got) == Len(PageOf(p)) = 0 \/ Len(got) >= Len(items)

FetchPage == /\ listPC = "page"
             /\ result' = result \o PageOf(page)
             /\ fetched' = fetched \cup ElementsOf(PageOf(page))
             /\ IF LastPage(page, result')
                THEN listPC' = "dedupe" /\ UNCHANGED page
                ELSE page' = page + 1 /\ UNCHANGED listPC
             /\ UNCHANGED <<index, changeVars>>

\* Any call that fails ends the listing with an error.
FetchFails == /\ listPC = "page"
              /\ listPC' = "failed"
              /\ UNCHANGED <<page, result, index, fetched, changeVars>>

Repeated == \E j \in 1..(index - 1) : result[j] = result[index]

\* Faulty variant: the element moved into the gap is not looked at.
DropDuplicateSkips == /\ listPC = "dedupe" /\ index <= Len(result) /\ Repeated
                      /\ result' = SubSeq([result EXCEPT ![index] = result[Len(result)]],
                                          1, Len(result) - 1)
                      /\ index' = index + 1
                      /\ UNCHANGED <<page, listPC, fetched, changeVars>>

\* Faulty variant: the slice is not cut.
DropDuplicateUncut == /\ listPC = "dedupe" /\ index <= Len(result) /\ Repeated
                      /\ result' = [result EXCEPT ![index] = result[Len(result)]]
                      /\ UNCHANGED <<page, index, listPC, fetched, changeVars>>

\* A repeated element is overwritten with the last one, which is looked at next.
DropDuplicate == /\ listPC = "dedupe" /\ index <= Len(result) /\ Repeated
                 /\ result' = SubSeq([result EXCEPT ![index] = result[Len(result)]],
                                     1, Len(result) - 1)
                 /\ UNCHANGED <<page, index, listPC, fetched, changeVars>>

KeepElement == /\ listPC = "dedupe" /\ index <= Len(result) /\ ~Repeated
               /\ index' = index + 1
               /\ UNCHANGED <<page, result, listPC, fetched, changeVars>>

Listed == /\ listPC = "dedupe" /\ index > Len(result)
          /\ listPC' = "listed"
          /\ UNCHANGED <<page, result, index, fetched, changeVars>>
-----------------------------------------------------------------------------
(* Everybody else.                                                         *)

Changed == listPC = "page" /\ changes < MaxChanges /\ changes' = changes + 1

\* An item appears anywhere in the order.
AddItem == /\ Changed
           /\ \E new \in Items \ ElementsOf(items), i \in 0..Len(items) :
                 items' = SubSeq(items, 1, i) \o <<new>> \o SubSeq(items, i + 1, Len(items))
           /\ UNCHANGED <<listVars, kept, removals>>

RemoveItem == /\ Changed
              /\ \E i \in DOMAIN items :
                    /\ items' = SubSeq(items, 1, i - 1) \o SubSeq(items, i + 1, Len(items))
                    /\ kept' = kept \ {items[i]}
              /\ removals' = removals + 1
              /\ UNCHANGED listVars

ListStep == FetchPage \/ FetchFails \/ DropDuplicate \/ KeepElement \/ Listed
ListingNext == ListStep \/ AddItem \/ RemoveItem

ListingSpec == ListingInit /\ [][ListingNext]_ListingVars
-----------------------------------------------------------------------------
\* What is returned has no duplicates, and dropping them has lost nothing that was on a
\* page, although elements are moved around while the loop runs.
ListedOnce == listPC = "listed" =>
    /\ \A i, j \in DOMAIN result : result[i] = result[j] => i = j
    /\ ElementsOf(result) = fetched

\* Of the items that are there from the first page to the last, a listing misses at most
\* as many as are removed meanwhile; in particular none if things are only added, although
\* the loop counts duplicates when it decides that it has everything.
MissesAtMostRemoved ==
    listPC \in {"dedupe", "listed"} => Cardinality(kept \ fetched) <= removals

\* A listing ends, even if items come and go under it: it never asks for more pages than
\* the items there ever were can fill, and one empty one, and the loop that drops
\* duplicates always comes nearer to its end.
ListingAdvances ==
    [][/\ (page' - 1) * PageSize <= MaxItems + changes' + PageSize
       /\ listPC' = "dedupe" /\ listPC = "dedupe" => Len(result') - index' < Len(result) - index]_ListingVars
=============================================================================
