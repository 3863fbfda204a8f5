--------------------------- MODULE ListingProofs ---------------------------
(***************************************************************************)
(* What a listing by pages returns and misses while others add and remove  *)
(* items, for pages, listings and numbers of changes of any size.          *)
(*                                                                         *)
(* The argument: with p pages read, look at the first p * PageSize places. *)
(* An item that has stayed all the time and is at one of them without      *)
(* having been on a page got there from behind, and each removal moves one *)
(* item at most over that border; additions and pages move none.  When the *)
(* loop ends, all items are at these places.                               *)
(***************************************************************************)
EXTENDS Listing, FiniteSetTheorems, SequenceTheorems, TLAPS

\* The border: the last place on a page that has been read.
Border == (page - 1) * PageSize
\* The items that have stayed, are before the border and have not been on a page.
Passed == {x \in kept \ fetched : \E i \in DOMAIN items : i <= Border /\ items[i] = x}

ListTypes == /\ items \in Seq(Items) /\ result \in Seq(Items) /\ page \in Nat \ {0} /\ index \in Nat \ {0}
             /\ listPC \in {"page", "dedupe", "listed", "failed"} /\ changes \in Nat /\ removals \in Nat
\* Nothing on a page is lost, what the loop has passed is without duplicates, and there are
\* at most as many results as pages can hold.
ResultOK == /\ ElementsOf(result) = fetched
            /\ index - 1 <= Len(result)
            /\ \A i, j \in 1..(index - 1) : result[i] = result[j] => i = j
            /\ listPC = "page" => index = 1 /\ Len(result) <= Border
            /\ listPC = "listed" => index > Len(result)
\* There never are more items than at the start and added since.
BoundsOK == Len(items) <= MaxItems + changes /\ Border <= MaxItems + changes + PageSize
PassedOK == /\ kept \subseteq ElementsOf(items)
            /\ listPC = "page" => IsFiniteSet(Passed) /\ Cardinality(Passed) <= removals
            /\ listPC \in {"dedupe", "listed"} =>
                  IsFiniteSet(kept \ fetched) /\ Cardinality(kept \ fetched) <= removals

\* The inductive invariant.
LInv == ListTypes /\ ResultOK /\ BoundsOK /\ PassedOK
-----------------------------------------------------------------------------
\* A sequence with one more element.
Inserted(s, i, e) == SubSeq(s, 1, i) \o <<e>> \o SubSeq(s, i + 1, Len(s))
Grown(t, s, i, e) == /\ Len(t) = Len(s) + 1
                     /\ \A j \in 1..(Len(s) + 1) :
                           t[j] = IF j <= i THEN s[j] ELSE IF j = i + 1 THEN e ELSE s[j - 1]
LEMMA InsertedFacts ==
  ASSUME NEW S, NEW s \in Seq(S), NEW i \in 0..Len(s), NEW e \in S
  PROVE  Inserted(s, i, e) \in Seq(S) /\ Grown(Inserted(s, i, e), s, i, e)
<1> DEFINE a == SubSeq(s, 1, i)
           b == SubSeq(s, i + 1, Len(s))
<1>1. a \in Seq(S) /\ Len(a) = i /\ \A j \in 1..i : a[j] = s[j]
  OBVIOUS
<1>2. b \in Seq(S) /\ Len(b) = Len(s) - i /\ \A j \in 1..(Len(s) - i) : b[j] = s[j + i]
  OBVIOUS
<1> HIDE DEF a, b
<1> DEFINE c == a \o <<e>>
<1>3. c \in Seq(S) /\ Len(c) = i + 1 /\ c[i + 1] = e /\ \A j \in 1..i : c[j] = s[j]
  BY <1>1
<1> HIDE DEF c
<1>4. /\ c \o b \in Seq(S) /\ Len(c \o b) = Len(s) + 1
      /\ \A j \in 1..(Len(s) + 1) : (c \o b)[j] = IF j <= i + 1 THEN c[j] ELSE b[j - (i + 1)]
  BY <1>2, <1>3
<1>5. Inserted(s, i, e) = c \o b
  BY DEF Inserted, a, b, c
<1> HIDE DEF Inserted
<1>6. ASSUME NEW j \in 1..(Len(s) + 1)
      PROVE  Inserted(s, i, e)[j] = IF j <= i THEN s[j] ELSE IF j = i + 1 THEN e ELSE s[j - 1]
  <2>1. CASE j <= i + 1
    BY <1>3, <1>4, <1>5, <2>1
  <2>2. CASE j > i + 1
    <3>1. (j - (i + 1)) \in 1..(Len(s) - i) /\ (j - (i + 1)) + i = j - 1
      BY <2>2
    <3>2. b[j - (i + 1)] = s[j - 1]
      BY <1>2, <3>1
    <3> QED BY <1>4, <1>5, <2>2, <3>2
  <2> QED BY <2>1, <2>2
<1> QED BY <1>4, <1>5, <1>6 DEF Grown

\* A sequence with one element less.
Removed(s, i) == SubSeq(s, 1, i - 1) \o SubSeq(s, i + 1, Len(s))
LEMMA RemovedFacts ==
  ASSUME NEW S, NEW s \in Seq(S), NEW i \in 1..Len(s)
  PROVE  /\ Removed(s, i) \in Seq(S) /\ Len(Removed(s, i)) = Len(s) - 1
         /\ \A j \in 1..(Len(s) - 1) : Removed(s, i)[j] = IF j < i THEN s[j] ELSE s[j + 1]
<1> DEFINE a == SubSeq(s, 1, i - 1)
           b == SubSeq(s, i + 1, Len(s))
<1>1. a \in Seq(S) /\ Len(a) = i - 1 /\ \A j \in 1..(i - 1) : a[j] = s[j]
  OBVIOUS
<1>2. b \in Seq(S) /\ Len(b) = Len(s) - i /\ \A j \in 1..(Len(s) - i) : b[j] = s[j + i]
  OBVIOUS
<1> HIDE DEF a, b
<1>3. /\ a \o b \in Seq(S) /\ Len(a \o b) = Len(s) - 1
      /\ \A j \in 1..(Len(s) - 1) : (a \o b)[j] = IF j <= i - 1 THEN a[j] ELSE b[j - (i - 1)]
  <2>1. /\ a \o b \in Seq(S) /\ Len(a \o b) = Len(a) + Len(b)
        /\ \A j \in 1..(Len(a) + Len(b)) : (a \o b)[j] = IF j <= Len(a) THEN a[j] ELSE b[j - Len(a)]
    BY <1>1, <1>2, ConcatProperties
  <2>2. Len(a) = i - 1 /\ Len(a) + Len(b) = Len(s) - 1
    BY <1>1, <1>2
  <2> QED BY <2>1, <2>2
<1>4. Removed(s, i) = a \o b
  BY DEF Removed, a, b
<1> HIDE DEF Removed
<1>5. ASSUME NEW j \in 1..(Len(s) - 1) PROVE Removed(s, i)[j] = IF j < i THEN s[j] ELSE s[j + 1]
  BY <1>1, <1>2, <1>3, <1>4
<1> QED BY <1>3, <1>4, <1>5

\* The next page: what is behind the border, up to a page of it.
LEMMA PageFacts ==
  ASSUME ListTypes
  PROVE  /\ Border \in Nat /\ page * PageSize = Border + PageSize
         /\ PageOf(page) \in Seq(Items) /\ Len(PageOf(page)) <= PageSize
         /\ Len(PageOf(page)) = 0 => Len(items) <= Border
         /\ Len(PageOf(page)) > 0 => Border < Len(items)
         /\ \A i \in DOMAIN items : i > Border /\ i <= Border + PageSize => items[i] \in ElementsOf(PageOf(page))
<1>1. PageSize \in Nat /\ PageSize > 0
  BY PageAssumption
<1>2. Border \in Nat /\ page * PageSize = Border + PageSize
  <2>1. page - 1 \in Nat /\ page = (page - 1) + 1
    BY DEF ListTypes
  <2>2. \A x \in Nat : x * PageSize \in Nat /\ (x + 1) * PageSize = x * PageSize + PageSize
    BY <1>1
  <2> QED BY <2>1, <2>2 DEF Border
<1> DEFINE n == IF page * PageSize < Len(items) THEN page * PageSize ELSE Len(items)
<1>3. items \in Seq(Items) /\ Len(items) \in Nat
  BY DEF ListTypes
<1>4. PageOf(page) = SubSeq(items, Border + 1, n)
  BY DEF PageOf, Border
<1>5. n \in Nat /\ n <= Len(items) /\ n <= Border + PageSize /\ (n = Len(items) \/ n = Border + PageSize)
  BY <1>1, <1>2, <1>3
<1> HIDE DEF n
<1>6. /\ PageOf(page) \in Seq(Items)
      /\ Len(PageOf(page)) = IF Border + 1 <= n THEN n - Border ELSE 0
      /\ \A j \in 1..(n - Border) : PageOf(page)[j] = items[j + Border]
  BY <1>2, <1>3, <1>4, <1>5
<1>7. ASSUME NEW i \in DOMAIN items, i > Border, i <= Border + PageSize
      PROVE  items[i] \in ElementsOf(PageOf(page))
  <2>1. i \in Nat /\ i <= n
    BY <1>1, <1>2, <1>3, <1>5, <1>7
  <2>2. (i - Border) \in 1..(n - Border) /\ (i - Border) + Border = i
    BY <1>2, <1>5, <1>7, <2>1
  <2>3. PageOf(page)[i - Border] = items[i] /\ (i - Border) \in DOMAIN PageOf(page)
    BY <1>2, <1>5, <1>6, <2>2
  <2> QED BY <2>3 DEF ElementsOf
<1>8. /\ Len(PageOf(page)) <= PageSize
      /\ Len(PageOf(page)) = 0 => Len(items) <= Border
      /\ Len(PageOf(page)) > 0 => Border < Len(items)
  BY <1>1, <1>2, <1>3, <1>5, <1>6
<1> QED BY <1>2, <1>6, <1>7, <1>8

\* A sequence whose i-th element, one that came before, is overwritten with the last one.
Dropped(s, i) == SubSeq([s EXCEPT ![i] = s[Len(s)]], 1, Len(s) - 1)
LEMMA DroppedFacts ==
  ASSUME NEW S, NEW s \in Seq(S), NEW i \in 1..Len(s), NEW k \in 1..(i - 1), s[k] = s[i]
  PROVE  /\ Dropped(s, i) \in Seq(S) /\ Len(Dropped(s, i)) = Len(s) - 1
         /\ \A j \in 1..(Len(s) - 1) : Dropped(s, i)[j] = IF j = i THEN s[Len(s)] ELSE s[j]
         /\ ElementsOf(Dropped(s, i)) = ElementsOf(s)
<1> DEFINE e == [s EXCEPT ![i] = s[Len(s)]]
<1>0. /\ \A n \in Nat : i \in 1..n /\ i # n => i \in 1..(n - 1)
      /\ \A n \in Nat : \A x \in 1..n : x < n \/ x = n
  OBVIOUS
<1>1. Len(s) \in Nat /\ DOMAIN s = 1..Len(s) /\ s[Len(s)] \in S
  BY LenProperties
<1>2. /\ e \in Seq(S) /\ Len(e) = Len(s)
      /\ \A j \in 1..Len(s) : e[j] = IF j = i THEN s[Len(s)] ELSE s[j]
  BY <1>1, ExceptSeq
<1> HIDE DEF e
<1>3. /\ Dropped(s, i) = SubSeq(e, 1, Len(s) - 1)
  BY DEF Dropped, e
<1> DEFINE t == Dropped(s, i)
<1>4. t \in Seq(S) /\ Len(t) = Len(s) - 1 /\ \A j \in 1..(Len(s) - 1) : t[j] = e[j]
  BY <1>1, <1>2, <1>3
<1> HIDE DEF t
<1>5. \A j \in 1..(Len(s) - 1) : t[j] = IF j = i THEN s[Len(s)] ELSE s[j]
  BY <1>1, <1>2, <1>4
<1>6. DOMAIN t = 1..(Len(s) - 1)
  BY <1>4, LenProperties
<1>7. ASSUME NEW x \in ElementsOf(t) PROVE x \in ElementsOf(s)
  <2>1. PICK j \in 1..(Len(s) - 1) : t[j] = x
    BY <1>6, <1>7 DEF ElementsOf
  <2>2. x = s[Len(s)] \/ x = s[j]
    BY <1>5, <2>1
  <2>3. Len(s) \in DOMAIN s /\ j \in DOMAIN s
    BY <1>1
  <2> QED BY <2>2, <2>3 DEF ElementsOf
<1>8. ASSUME NEW x \in ElementsOf(s) PROVE x \in ElementsOf(t)
  <2>1. PICK j \in 1..Len(s) : s[j] = x
    BY <1>1, <1>8 DEF ElementsOf
  <2>2. k \in 1..(Len(s) - 1) /\ k # i
    BY <1>1
  <2>3. t[k] = s[i]
    BY <1>5, <2>2
  <2>4. \E l \in 1..(Len(s) - 1) : t[l] = x
    <3>1. CASE j = i
      BY <2>1, <2>2, <2>3, <3>1
    <3>2. CASE j # i /\ j < Len(s)
      BY <1>1, <1>5, <2>1, <3>2
    <3>3. CASE j # i /\ j = Len(s)
      <4>1. i # Len(s)
        BY <3>3
      <4>2. i \in 1..(Len(s) - 1)
        BY <1>0, <1>1, <4>1
      <4>3. t[i] = s[Len(s)]
        BY <1>5, <4>2
      <4>4. s[Len(s)] = x
        BY <2>1, <3>3
      <4> QED BY <4>2, <4>3, <4>4
    <3>4. j < Len(s) \/ j = Len(s)
      BY <1>0, <1>1
    <3> QED BY <3>1, <3>2, <3>3, <3>4
  <2> QED BY <1>6, <2>4 DEF ElementsOf
<1> QED BY <1>4, <1>5, <1>7, <1>8 DEF t

\* What two sequences have in common when they are put together.
LEMMA JoinedElements ==
  ASSUME NEW S, NEW s \in Seq(S), NEW t \in Seq(S)
  PROVE  ElementsOf(s \o t) = ElementsOf(s) \cup ElementsOf(t)
<1>1. /\ s \o t \in Seq(S) /\ Len(s \o t) = Len(s) + Len(t)
      /\ \A i \in 1..(Len(s) + Len(t)) : (s \o t)[i] = IF i <= Len(s) THEN s[i] ELSE t[i - Len(s)]
  BY ConcatProperties
<1>2. /\ Len(s) \in Nat /\ Len(t) \in Nat /\ DOMAIN s = 1..Len(s) /\ DOMAIN t = 1..Len(t)
      /\ DOMAIN (s \o t) = 1..(Len(s) + Len(t))
  BY <1>1, LenProperties
<1>3. ASSUME NEW i \in DOMAIN (s \o t) PROVE (s \o t)[i] \in ElementsOf(s) \cup ElementsOf(t)
  <2>1. CASE i <= Len(s)
    BY <1>1, <1>2, <2>1 DEF ElementsOf
  <2>2. CASE i > Len(s)
    <3>1. i - Len(s) \in DOMAIN t
      BY <1>2, <2>2
    <3>2. (s \o t)[i] = t[i - Len(s)]
      BY <1>1, <1>2, <2>2
    <3> QED BY <3>1, <3>2 DEF ElementsOf
  <2> QED BY <1>2, <2>1, <2>2
<1>4. ASSUME NEW i \in DOMAIN s PROVE s[i] \in ElementsOf(s \o t)
  <2>1. i \in DOMAIN (s \o t) /\ (s \o t)[i] = s[i]
    BY <1>1, <1>2
  <2> QED BY <2>1 DEF ElementsOf
<1>5. ASSUME NEW i \in DOMAIN t PROVE t[i] \in ElementsOf(s \o t)
  <2>1. i + Len(s) \in DOMAIN (s \o t) /\ (i + Len(s)) - Len(s) = i
    BY <1>2
  <2>2. (s \o t)[i + Len(s)] = t[i]
    BY <1>1, <1>2, <2>1
  <2> QED BY <2>1, <2>2 DEF ElementsOf
<1>6. ElementsOf(s) \cup ElementsOf(t) \subseteq ElementsOf(s \o t)
  BY <1>4, <1>5 DEF ElementsOf
<1>7. ElementsOf(s \o t) \subseteq ElementsOf(s) \cup ElementsOf(t)
  BY <1>3 DEF ElementsOf
<1> QED BY <1>6, <1>7
-----------------------------------------------------------------------------
\* A page is read.
LEMMA FetchStep ==
  ASSUME LInv, FetchPage
  PROVE  LInv'
<1> DEFINE got == PageOf(page)
<1>0. /\ ListTypes /\ ResultOK /\ BoundsOK /\ PassedOK /\ PageSize \in Nat /\ PageSize > 0 /\ MaxItems \in Nat
  BY PageAssumption, ListingBoundAssumption DEF LInv
<1>1. /\ listPC = "page" /\ result' = result \o got /\ fetched' = fetched \cup ElementsOf(got)
      /\ index' = index /\ items' = items /\ kept' = kept /\ changes' = changes /\ removals' = removals
  BY DEF FetchPage, changeVars
<1>2. /\ Border \in Nat /\ page * PageSize = Border + PageSize /\ got \in Seq(Items) /\ Len(got) <= PageSize
      /\ Len(got) = 0 => Len(items) <= Border
      /\ Len(got) > 0 => Border < Len(items)
      /\ \A i \in DOMAIN items : i > Border /\ i <= Border + PageSize => items[i] \in ElementsOf(got)
  BY <1>0, PageFacts
<1> HIDE DEF got
<1>3. result \in Seq(Items) /\ Len(result) \in Nat /\ items \in Seq(Items) /\ Len(items) \in Nat /\ DOMAIN items = 1..Len(items)
      /\ Len(got) \in Nat /\ page \in Nat /\ changes \in Nat /\ removals \in Nat
  BY <1>0, <1>2, LenProperties DEF ListTypes
<1>4. result' \in Seq(Items) /\ Len(result') = Len(result) + Len(got)
  BY <1>1, <1>2, <1>3, ConcatProperties
<1>5. ElementsOf(result') = fetched'
  BY <1>0, <1>1, <1>2, <1>3, JoinedElements DEF ResultOK
<1>6. Len(result) <= Border /\ index = 1
  BY <1>0, <1>1 DEF ResultOK
<1>7. (\A i, j \in 1..(index' - 1) : result'[i] = result'[j] => i = j) /\ index' - 1 <= Len(result')
  BY <1>1, <1>3, <1>4, <1>6
<1> DEFINE Behind == {x \in kept \ fetched' : \E i \in DOMAIN items : i <= Border + PageSize /\ items[i] = x}
<1>8. Behind \subseteq Passed
  BY <1>0, <1>1, <1>2, <1>3 DEF Passed
<1>9. IsFiniteSet(Passed) /\ Cardinality(Passed) <= removals
  BY <1>0, <1>1 DEF PassedOK
<1>10. IsFiniteSet(Behind) /\ Cardinality(Behind) <= removals
  <2> HIDE DEF Behind
  <2>1. IsFiniteSet(Behind) /\ Cardinality(Behind) <= Cardinality(Passed)
    BY <1>8, <1>9, FS_Subset
  <2>2. Cardinality(Behind) \in Nat /\ Cardinality(Passed) \in Nat
    BY <1>9, <2>1, FS_CardinalityType
  <2> QED BY <1>3, <1>9, <2>1, <2>2
<1>a. CASE LastPage(page, result')
  <2>1. listPC' = "dedupe" /\ page' = page
    BY <1>1, <1>a DEF FetchPage
  <2>2. Len(items) <= Border + PageSize
    <3>1. CASE Len(got) = 0
      BY <1>0, <1>2, <1>3, <3>1
    <3>2. CASE Len(result') >= Len(items)
      BY <1>0, <1>2, <1>3, <1>4, <1>6, <3>2
    <3> QED BY <1>a, <3>1, <3>2 DEF LastPage, got
  <2>3. kept' \ fetched' = Behind
    <3>1. ASSUME NEW x \in kept PROVE \E i \in DOMAIN items : i <= Border + PageSize /\ items[i] = x
      <4>1. PICK i \in DOMAIN items : items[i] = x
        BY <1>0 DEF PassedOK, ElementsOf
      <4> QED BY <1>0, <1>2, <1>3, <2>2, <4>1
    <3> QED BY <1>1, <3>1
  <2>4. ListTypes'
    BY <1>0, <1>1, <1>4, <2>1 DEF ListTypes
  <2>5. ResultOK'
    BY <1>5, <1>7, <2>1 DEF ResultOK
  <2>6. BoundsOK'
    BY <1>0, <1>1, <2>1 DEF BoundsOK, Border
  <2> HIDE DEF Behind
  <2>7. PassedOK'
    BY <1>0, <1>1, <1>10, <2>1, <2>3 DEF PassedOK
  <2> QED BY <2>4, <2>5, <2>6, <2>7 DEF LInv
<1>b. CASE ~LastPage(page, result')
  <2>1. listPC' = "page" /\ page' = page + 1
    BY <1>1, <1>b DEF FetchPage
  <2>2. Border' = Border + PageSize
    BY <1>2, <1>3, <2>1 DEF Border
  <2>3. Len(got) > 0
    BY <1>3, <1>b DEF LastPage, got
  <2>4. ListTypes'
    BY <1>0, <1>1, <1>4, <2>1 DEF ListTypes
  <2>5. ResultOK'
    <3>1. Len(result') <= Border' /\ index' = 1
      BY <1>0, <1>1, <1>2, <1>3, <1>4, <1>6, <2>2
    <3> QED BY <1>5, <1>7, <2>1, <3>1 DEF ResultOK
  <2>6. BoundsOK'
    <3>1. Len(items) <= MaxItems + changes
      BY <1>0 DEF BoundsOK
    <3>2. Border + PageSize <= MaxItems + changes + PageSize
      BY <1>0, <1>2, <1>3, <2>3, <3>1
    <3> QED BY <1>1, <2>2, <3>1, <3>2 DEF BoundsOK
  <2>7. Passed' = Behind
    BY <1>1, <2>2 DEF Passed
  <2> HIDE DEF Behind
  <2>8. PassedOK'
    BY <1>0, <1>1, <1>10, <2>1, <2>7 DEF PassedOK
  <2> QED BY <2>4, <2>5, <2>6, <2>8 DEF LInv
<1> QED BY <1>a, <1>b

\* The loop that drops duplicates, and the two ways to return.
LEMMA DedupeStep ==
  ASSUME LInv, FetchFails \/ DropDuplicate \/ KeepElement \/ Listed
  PROVE  LInv'
<1>0. ListTypes /\ ResultOK /\ BoundsOK /\ PassedOK
  BY DEF LInv
<1>1. /\ items' = items /\ kept' = kept /\ changes' = changes /\ removals' = removals
      /\ page' = page /\ fetched' = fetched
  BY DEF FetchFails, DropDuplicate, KeepElement, Listed, changeVars
<1>2. Border' = Border /\ BoundsOK'
  BY <1>0, <1>1 DEF Border, BoundsOK
<1>3. result \in Seq(Items) /\ Len(result) \in Nat /\ index \in Nat /\ index > 0 /\ DOMAIN result = 1..Len(result)
  BY <1>0, LenProperties DEF ListTypes
<1>a. CASE FetchFails \/ Listed
  <2>1. /\ result' = result /\ index' = index
        /\ \/ listPC' = "failed"
           \/ listPC = "dedupe" /\ listPC' = "listed" /\ index > Len(result)
    BY <1>a DEF FetchFails, Listed
  <2>2. ListTypes'
    BY <1>0, <1>1, <2>1 DEF ListTypes
  <2>3. ResultOK'
    BY <1>0, <1>1, <2>1 DEF ResultOK
  <2>4. PassedOK'
    BY <1>0, <1>1, <2>1 DEF PassedOK
  <2> QED BY <1>2, <2>2, <2>3, <2>4 DEF LInv
<1>4. ASSUME listPC = "dedupe", listPC' = "dedupe" PROVE PassedOK'
  BY <1>0, <1>1, <1>4 DEF PassedOK
<1>b. CASE DropDuplicate
  <2>1. /\ listPC = "dedupe" /\ listPC' = "dedupe" /\ index' = index /\ index <= Len(result)
        /\ result' = Dropped(result, index)
    BY <1>b DEF DropDuplicate, Dropped
  <2>2. PICK k \in 1..(index - 1) : result[k] = result[index]
    BY <1>b DEF DropDuplicate, Repeated
  <2>3. index \in 1..Len(result)
    BY <1>3, <2>1
  <2>4. /\ result' \in Seq(Items) /\ Len(result') = Len(result) - 1
        /\ \A j \in 1..(Len(result) - 1) : result'[j] = IF j = index THEN result[Len(result)] ELSE result[j]
        /\ ElementsOf(result') = ElementsOf(result)
    BY <1>3, <2>1, <2>2, <2>3, DroppedFacts
  <2>5. ListTypes'
    BY <1>0, <1>1, <2>1, <2>4 DEF ListTypes
  <2>6. \A j \in 1..(index - 1) : result'[j] = result[j]
    BY <1>3, <2>1, <2>4
  <2>7. index' - 1 <= Len(result')
    BY <1>3, <2>1, <2>4
  <2>8. ResultOK'
    BY <1>0, <1>1, <2>1, <2>4, <2>6, <2>7 DEF ResultOK
  <2> QED BY <1>2, <1>4, <2>1, <2>5, <2>8 DEF LInv
<1>c. CASE KeepElement
  <2>1. /\ listPC = "dedupe" /\ listPC' = "dedupe" /\ index' = index + 1 /\ index <= Len(result)
        /\ result' = result /\ ~Repeated
    BY <1>c DEF KeepElement
  <2>2. ListTypes'
    BY <1>0, <1>1, <1>3, <2>1 DEF ListTypes
  <2>3. \A j \in 1..(index - 1) : result[j] # result[index]
    BY <2>1 DEF Repeated
  <2>4. \A i, j \in 1..(index - 1) : result[i] = result[j] => i = j
    BY <1>0 DEF ResultOK
  <2>5. ASSUME NEW i \in 1..index, NEW j \in 1..index, result[i] = result[j] PROVE i = j
    BY <1>3, <2>3, <2>4, <2>5
  <2>6. index' - 1 = index
    BY <1>3, <2>1
  <2>7. ResultOK'
    BY <1>0, <1>1, <1>3, <2>1, <2>5, <2>6 DEF ResultOK
  <2> QED BY <1>2, <1>4, <2>1, <2>2, <2>7 DEF LInv
<1> QED BY <1>a, <1>b, <1>c

\* Where an item that is before the border after an addition or a removal was before it.
LEMMA AddStep ==
  ASSUME LInv, AddItem
  PROVE  LInv'
<1>0. ListTypes /\ ResultOK /\ BoundsOK /\ PassedOK /\ MaxItems \in Nat /\ PageSize \in Nat
  BY ListingBoundAssumption, PageAssumption DEF LInv
<1>1. /\ listPC = "page" /\ changes' = changes + 1 /\ kept' = kept /\ removals' = removals /\ page' = page
      /\ result' = result /\ index' = index /\ listPC' = listPC /\ fetched' = fetched
  BY DEF AddItem, Changed, listVars
<1>2. PICK new \in Items \ ElementsOf(items), i \in 0..Len(items) : items' = Inserted(items, i, new)
  BY DEF AddItem, Inserted
<1>3. items \in Seq(Items) /\ Len(items) \in Nat /\ DOMAIN items = 1..Len(items)
  BY <1>0, LenProperties DEF ListTypes
<1>4. /\ items' \in Seq(Items) /\ Len(items') = Len(items) + 1
      /\ \A j \in 1..(Len(items) + 1) : items'[j] =
            IF j <= i THEN items[j] ELSE IF j = i + 1 THEN new ELSE items[j - 1]
  <2>1. new \in Items
    OBVIOUS
  <2>2. Inserted(items, i, new) \in Seq(Items) /\ Grown(Inserted(items, i, new), items, i, new)
    BY <1>3, <2>1, InsertedFacts
  <2> QED BY <1>2, <2>2 DEF Grown
<1>5. DOMAIN items' = 1..(Len(items) + 1)
  BY <1>4, LenProperties
<1>6. Border \in Nat /\ Border' = Border
  BY <1>0, <1>1, PageFacts DEF Border
<1>7. ListTypes'
  BY <1>0, <1>1, <1>4 DEF ListTypes
<1>8. ResultOK'
  BY <1>0, <1>1, <1>6 DEF ResultOK
<1>9. BoundsOK'
  <2>1. Len(items) <= MaxItems + changes /\ Border <= MaxItems + changes + PageSize /\ changes \in Nat
    BY <1>0 DEF BoundsOK, ListTypes
  <2>2. Len(items) + 1 <= MaxItems + (changes + 1) /\ Border <= MaxItems + (changes + 1) + PageSize
    BY <1>0, <1>3, <1>6, <2>1
  <2> QED BY <1>1, <1>4, <1>6, <2>2 DEF BoundsOK
<1>10. kept' \subseteq ElementsOf(items')
  <2> SUFFICES ASSUME NEW x \in kept PROVE x \in ElementsOf(items')
    BY <1>1
  <2>1. PICK j \in 1..Len(items) : items[j] = x
    BY <1>0, <1>3 DEF PassedOK, ElementsOf
  <2>2. CASE j <= i
    <3>1. j \in DOMAIN items' /\ items'[j] = x
      BY <1>3, <1>4, <1>5, <2>1, <2>2
    <3> QED BY <3>1 DEF ElementsOf
  <2>3. CASE j > i
    <3>1. j + 1 \in 1..(Len(items) + 1) /\ ~(j + 1 <= i) /\ j + 1 # i + 1 /\ (j + 1) - 1 = j
      BY <1>3, <2>3
    <3>2. items'[j + 1] = x
      BY <1>4, <2>1, <3>1
    <3> QED BY <1>5, <3>1, <3>2 DEF ElementsOf
  <2> QED BY <1>3, <2>2, <2>3
<1>11. Passed' \subseteq Passed
  <2> SUFFICES ASSUME NEW x \in kept \ fetched, NEW j \in DOMAIN items', j <= Border, items'[j] = x
               PROVE  \E l \in DOMAIN items : l <= Border /\ items[l] = x
    BY <1>1, <1>6 DEF Passed
  <2>1. x # new
    BY <1>0, <1>2 DEF PassedOK
  <2>2. j \in 1..(Len(items) + 1)
    BY <1>5
  <2>3. CASE j <= i
    BY <1>3, <1>4, <2>2, <2>3
  <2>4. CASE j > i + 1
    <3>1. j - 1 \in 1..Len(items) /\ j - 1 <= Border /\ ~(j <= i) /\ j # i + 1
      BY <1>3, <1>6, <2>2, <2>4
    <3>2. items[j - 1] = x
      BY <1>4, <2>2, <3>1
    <3> QED BY <1>3, <3>1, <3>2
  <2>5. j # i + 1
    BY <1>4, <2>1, <2>2
  <2> QED BY <1>3, <2>2, <2>3, <2>4, <2>5
<1>12. IsFiniteSet(Passed) /\ Cardinality(Passed) <= removals /\ removals \in Nat
  BY <1>0, <1>1 DEF PassedOK, ListTypes
<1>13. IsFiniteSet(Passed') /\ Cardinality(Passed') <= Cardinality(Passed)
  BY <1>11, <1>12, FS_Subset
<1>14. Cardinality(Passed) \in Nat /\ Cardinality(Passed') \in Nat
  BY <1>12, <1>13, FS_CardinalityType
<1>15. Cardinality(Passed') <= removals
  BY <1>12, <1>13, <1>14
<1>16. PassedOK'
  BY <1>1, <1>10, <1>13, <1>15 DEF PassedOK
<1> QED BY <1>7, <1>8, <1>9, <1>16 DEF LInv

\* One removal moves at most one item over the border.
LEMMA RemoveStep ==
  ASSUME LInv, RemoveItem
  PROVE  LInv'
<1>0. ListTypes /\ ResultOK /\ BoundsOK /\ PassedOK /\ MaxItems \in Nat /\ PageSize \in Nat
  BY ListingBoundAssumption, PageAssumption DEF LInv
<1>1. /\ listPC = "page" /\ changes' = changes + 1 /\ removals' = removals + 1 /\ page' = page
      /\ result' = result /\ index' = index /\ listPC' = listPC /\ fetched' = fetched
  BY DEF RemoveItem, Changed, listVars
<1>2. PICK i \in DOMAIN items : items' = Removed(items, i) /\ kept' = kept \ {items[i]}
  BY DEF RemoveItem, Removed
<1>3. items \in Seq(Items) /\ Len(items) \in Nat /\ DOMAIN items = 1..Len(items)
  BY <1>0, LenProperties DEF ListTypes
<1>4. /\ items' \in Seq(Items) /\ Len(items') = Len(items) - 1
      /\ \A j \in 1..(Len(items) - 1) : items'[j] = IF j < i THEN items[j] ELSE items[j + 1]
  BY <1>2, <1>3, RemovedFacts
<1>5. DOMAIN items' = 1..(Len(items) - 1)
  BY <1>4, LenProperties
<1>6. Border \in Nat /\ Border' = Border
  BY <1>0, <1>1, PageFacts DEF Border
<1>7. ListTypes'
  BY <1>0, <1>1, <1>4 DEF ListTypes
<1>8. ResultOK'
  BY <1>0, <1>1, <1>6 DEF ResultOK
<1>9. BoundsOK'
  <2>1. Len(items) <= MaxItems + changes /\ Border <= MaxItems + changes + PageSize /\ changes \in Nat
    BY <1>0 DEF BoundsOK, ListTypes
  <2>2. Len(items) - 1 <= MaxItems + (changes + 1) /\ Border <= MaxItems + (changes + 1) + PageSize
    BY <1>0, <1>3, <1>6, <2>1
  <2> QED BY <1>1, <1>4, <1>6, <2>2 DEF BoundsOK
<1>10. kept' \subseteq ElementsOf(items')
  <2> SUFFICES ASSUME NEW x \in kept, x # items[i] PROVE x \in ElementsOf(items')
    BY <1>2
  <2>1. PICK j \in 1..Len(items) : items[j] = x
    BY <1>0, <1>3 DEF PassedOK, ElementsOf
  <2>2. CASE j < i
    <3>1. j \in 1..(Len(items) - 1)
      BY <1>3, <2>2
    <3>2. j \in DOMAIN items' /\ items'[j] = x
      BY <1>4, <1>5, <2>1, <2>2, <3>1
    <3> QED BY <3>2 DEF ElementsOf
  <2>3. CASE j > i
    <3>1. j - 1 \in 1..(Len(items) - 1) /\ ~(j - 1 < i) /\ (j - 1) + 1 = j
      BY <1>3, <2>3
    <3>2. items'[j - 1] = x
      BY <1>4, <2>1, <3>1
    <3> QED BY <1>5, <3>1, <3>2 DEF ElementsOf
  <2>4. j # i
    BY <2>1
  <2> QED BY <1>3, <2>2, <2>3, <2>4
<1> DEFINE more == Passed \cup {items[Border + 1]}
<1>11. Passed' \subseteq more
  <2> SUFFICES ASSUME NEW x \in kept \ fetched, NEW j \in DOMAIN items', j <= Border, items'[j] = x,
                      x # items[Border + 1]
               PROVE  \E l \in DOMAIN items : l <= Border /\ items[l] = x
    BY <1>1, <1>2, <1>6 DEF Passed
  <2>1. j \in 1..(Len(items) - 1)
    BY <1>5
  <2>2. CASE j < i
    BY <1>3, <1>4, <2>1, <2>2
  <2>3. CASE ~(j < i)
    <3>1. items[j + 1] = x
      BY <1>4, <2>1, <2>3
    <3>2. j + 1 \in 1..Len(items) /\ j # Border
      BY <1>3, <2>1, <3>1
    <3>3. j + 1 <= Border
      BY <1>6, <2>1, <3>2
    <3> QED BY <1>3, <3>1, <3>2, <3>3
  <2> QED BY <2>2, <2>3
<1>12. IsFiniteSet(Passed) /\ Cardinality(Passed) <= removals /\ removals \in Nat
  BY <1>0, <1>1 DEF PassedOK, ListTypes
<1>13. Cardinality(Passed) \in Nat
  BY <1>12, FS_CardinalityType
<1>14. IsFiniteSet(more) /\ (Cardinality(more) = Cardinality(Passed) \/ Cardinality(more) = Cardinality(Passed) + 1)
  BY <1>12, FS_AddElement
<1> HIDE DEF more
<1>15. IsFiniteSet(Passed') /\ Cardinality(Passed') <= Cardinality(more)
  BY <1>11, <1>14, FS_Subset
<1>16. Cardinality(Passed') \in Nat
  BY <1>15, FS_CardinalityType
<1>17. Cardinality(Passed') <= removals'
  BY <1>1, <1>12, <1>13, <1>14, <1>15, <1>16
<1>18. PassedOK'
  BY <1>1, <1>10, <1>15, <1>17 DEF PassedOK
<1> QED BY <1>7, <1>8, <1>9, <1>18 DEF LInv

\* The invariant behind the theorems below.
THEOREM ListingInvariant == ListingSpec => []LInv
<1>1. ListingInit => LInv
  <2> SUFFICES ASSUME ListingInit PROVE LInv
    OBVIOUS
  <2>1. MaxItems \in Nat /\ PageSize \in Nat
    BY ListingBoundAssumption, PageAssumption
  <2>2. PICK n \in 0..MaxItems : items \in [1..n -> Items]
    BY DEF ListingInit
  <2>3. items \in Seq(Items) /\ Len(items) = n
    BY <2>1, <2>2
  <2>4. /\ page = 1 /\ result = << >> /\ index = 1 /\ listPC = "page" /\ kept = ElementsOf(items)
        /\ fetched = {} /\ changes = 0 /\ removals = 0
    BY DEF ListingInit
  <2>5. Border = 0
    BY <2>1, <2>4 DEF Border
  <2>6. ListTypes
    BY <2>3, <2>4 DEF ListTypes
  <2>7. ResultOK
    <3>1. Len(result) = 0 /\ ElementsOf(result) = {}
      BY <2>4 DEF ElementsOf
    <3> QED BY <2>4, <2>5, <3>1 DEF ResultOK
  <2>8. BoundsOK
    BY <2>1, <2>2, <2>3, <2>4, <2>5 DEF BoundsOK
  <2>9. Passed = {}
    BY <2>3, <2>5 DEF Passed
  <2>10. IsFiniteSet(Passed) /\ Cardinality(Passed) = 0
    BY <2>9, FS_EmptySet
  <2>11. PassedOK
    BY <2>4, <2>10 DEF PassedOK
  <2> QED BY <2>6, <2>7, <2>8, <2>11 DEF LInv
<1>2. LInv /\ [ListingNext]_ListingVars => LInv'
  <2> SUFFICES ASSUME LInv, [ListingNext]_ListingVars PROVE LInv'
    OBVIOUS
  <2>1. CASE UNCHANGED ListingVars
    BY <2>1 DEF ListingVars, LInv, ListTypes, ResultOK, BoundsOK, PassedOK, Border, Passed, ElementsOf
  <2> QED BY <2>1, FetchStep, DedupeStep, AddStep, RemoveStep DEF ListingNext, ListStep
<1> QED BY <1>1, <1>2, PTL DEF ListingSpec

\* What is returned has no duplicates, and has everything that was on a page.
THEOREM ResultIsExact == ListingSpec => []ListedOnce
<1>1. LInv => ListedOnce
  <2> SUFFICES ASSUME LInv, listPC = "listed"
               PROVE  /\ \A i, j \in DOMAIN result : result[i] = result[j] => i = j
                      /\ ElementsOf(result) = fetched
    BY DEF ListedOnce
  <2>1. ResultOK /\ result \in Seq(Items) /\ index \in Nat
    BY DEF LInv, ListTypes
  <2>2. Len(result) \in Nat /\ DOMAIN result = 1..Len(result)
    BY <2>1, LenProperties
  <2>3. index > Len(result) /\ index - 1 <= Len(result)
    BY <2>1 DEF ResultOK
  <2>4. index - 1 = Len(result)
    BY <2>1, <2>2, <2>3
  <2> QED BY <2>1, <2>2, <2>4 DEF ResultOK
<1> QED BY <1>1, ListingInvariant, PTL

\* Of the items that are there from the first page to the last, as many are missed as are
\* removed meanwhile, at most.
THEOREM MissesAreRemovals == ListingSpec => []MissesAtMostRemoved
<1>1. LInv => MissesAtMostRemoved
  BY DEF LInv, PassedOK, MissesAtMostRemoved
<1> QED BY <1>1, ListingInvariant, PTL

\* No listing asks for more pages than the items there ever were can fill, and one, and each
\* pass of the loop that drops duplicates brings its end nearer.
THEOREM ListingsAdvance == ListingSpec => ListingAdvances
<1>1. LInv' => (page' - 1) * PageSize <= MaxItems + changes' + PageSize
  BY DEF LInv, BoundsOK, Border
<1>2. ASSUME LInv, ListingNext, listPC = "dedupe", listPC' = "dedupe"
      PROVE  Len(result') - index' < Len(result) - index
  <2>1. result \in Seq(Items) /\ index \in Nat /\ index > 0
    BY <1>2 DEF LInv, ListTypes
  <2>2. Len(result) \in Nat
    BY <2>1, LenProperties
  <2>3. CASE DropDuplicate
    <3>1. index \in 1..Len(result) /\ result' = Dropped(result, index) /\ index' = index
      BY <2>1, <2>2, <2>3 DEF DropDuplicate, Dropped
    <3>2. PICK k \in 1..(index - 1) : result[k] = result[index]
      BY <2>3 DEF DropDuplicate, Repeated
    <3>3. Len(result') = Len(result) - 1
      BY <2>1, <3>1, <3>2, DroppedFacts
    <3> QED BY <2>1, <2>2, <3>1, <3>3
  <2>4. CASE KeepElement
    <3>1. result' = result /\ index' = index + 1
      BY <2>4 DEF KeepElement
    <3> QED BY <2>1, <2>2, <3>1
  <2>5. DropDuplicate \/ KeepElement
    BY <1>2 DEF ListingNext, ListStep, FetchPage, FetchFails, Listed, AddItem, RemoveItem, Changed
  <2> QED BY <2>3, <2>4, <2>5
<1>3. LInv /\ LInv' /\ [ListingNext]_ListingVars =>
        [/\ (page' - 1) * PageSize <= MaxItems + changes' + PageSize
         /\ listPC' = "dedupe" /\ listPC = "dedupe" => Len(result') - index' < Len(result) - index]_ListingVars
  BY <1>1, <1>2
<1> QED BY <1>3, ListingInvariant, PTL DEF ListingSpec, ListingAdvances
=============================================================================
