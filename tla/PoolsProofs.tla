---------------------------- MODULE PoolsProofs ----------------------------
(***************************************************************************)
(* The ports of a rule and the health checks of its pools, for services    *)
(* with any ports and any number of edits, rollouts and failures.          *)
(*                                                                         *)
(* The first part is about the translation: sorting ports loses none, and  *)
(* comparePorts tells exactly whether a rule routes what was translated.   *)
(* The second is about calls during which the endpoints change: each port  *)
(* is translated by what they said at a moment of the call, the rule that  *)
(* is kept or made routes these translations, and in the worker's loop the *)
(* ports ahead are as they were listed and those behind have their health  *)
(* checks.                                                                 *)
(***************************************************************************)
EXTENDS Pools, FiniteSetTheorems, TLAPS

\* What serviceToLBPorts can make of a port of s, whatever a name stands for.
Infos(s) == {i \in [public : DOMAIN s.ports, private : Nat, prefix : {s.ports[p].prefix : p \in DOMAIN s.ports},
                    message : {s.ports[p].message : p \in DOMAIN s.ports}] :
                /\ s.ports[i.public].target \in {Named, i.private}
                /\ i.prefix = s.ports[i.public].prefix /\ i.message = s.ports[i.public].message}
Increasing(q) == \A i, j \in DOMAIN q : i < j => q[i].public < q[j].public
Publics(q) == {q[i].public : i \in DOMAIN q}

\* A rule has its lowest public port in front, and every public port once.
RuleForm(r) == /\ r.public \in Nat /\ r.private \in Nat /\ r.additional \in Seq(Nat \X Nat)
               /\ \A i \in DOMAIN r.additional : r.public < r.additional[i][1]
               /\ \A i, j \in DOMAIN r.additional : r.additional[i][1] = r.additional[j][1] => i = j

\* EnsureLoadBalancer and the queue deal with services that have ports.
WithPorts == {s \in PortSpecs : DOMAIN s.ports # {}}

WorldOK == /\ wantedPorts \in PortSpecs /\ endpoint \in Targets \cup {Absent}
           /\ queuedCopy \in WithPorts \cup {Absent}
           /\ lbRule # Absent => RuleForm(lbRule)
RestOK == /\ poolPC = "rest" => lbPorts = << >>
          /\ poolPC # "pools" \/ ~Translated => turn = 1

\* What a call has translated so far: the first ports of its service, each by what the
\* endpoints have said at a moment of the call.
SaidSo(s, ports, sayings) ==
    /\ ports \in Seq(Infos(s)) /\ Len(ports) <= Cardinality(DOMAIN s.ports)
    /\ \A i \in DOMAIN ports : \E e \in sayings : ports[i] = portInfo(s, sortPorts(s)[i], e)
CallOK == poolPC # "rest" => copy \in WithPorts /\ endpoint \in said /\ SaidSo(copy, lbPorts, said)

\* The rule at each point of EnsureLoadBalancer.
RuleOK == /\ poolPC \in {"check", "delete"} => lbRule # Absent
          /\ poolPC = "create" => lbRule = Absent
          /\ poolPC = "delete" => Translated /\ ~comparePorts(lbPorts, copy.protocol, lbRule)
          /\ poolPC = "push" => Translated /\ Routes(lbRule) = RoutesOf(lbPorts) /\ lbRule.protocol = copy.protocol

\* The loop: the ports ahead are untouched since the listing, those behind have their
\* health checks.
LoopOK == poolPC = "pools" =>
    /\ turn \in Nat /\ turn >= 1 /\ DOMAIN pools = DOMAIN listedPools
    /\ turn = 1 => pools = listedPools
    /\ \A i \in DOMAIN lbPorts :
          /\ i < turn => HealthChecked(lbPorts[i])
          /\ i >= turn /\ lbPorts[i].public \in DOMAIN pools =>
                pools[lbPorts[i].public] = listedPools[lbPorts[i].public]

\* The inductive invariant.
PInv == WorldOK /\ RestOK /\ CallOK /\ RuleOK /\ LoopOK
-----------------------------------------------------------------------------
\* The elements of a finite set that is totally ordered, given by the pairs of its order,
\* can be lined up: each stands at the place that the number of elements before it gives.
LEMMA LinedUp ==
  ASSUME NEW S, IsFiniteSet(S), NEW R \in SUBSET (S \X S),
         \A x \in S : <<x, x>> \notin R,
         \A x, y, z \in S : <<x, y>> \in R /\ <<y, z>> \in R => <<x, z>> \in R,
         \A x, y \in S : x # y => <<x, y>> \in R \/ <<y, x>> \in R
  PROVE  \E q \in [1..Cardinality(S) -> S] :
            \A i, j \in 1..Cardinality(S) : i < j => <<q[i], q[j]>> \in R
<1> DEFINE n == Cardinality(S)
           Below(x) == {y \in S : <<y, x>> \in R}
           rank == [x \in S |-> Cardinality(Below(x))]
<1>0. n \in Nat
  BY FS_CardinalityType
<1>1. ASSUME NEW x \in S PROVE IsFiniteSet(Below(x)) /\ rank[x] \in Nat
  <2>1. IsFiniteSet(Below(x))
    BY FS_Subset
  <2> QED BY <2>1, FS_CardinalityType
<1>2. ASSUME NEW x \in S, NEW y \in S, <<x, y>> \in R PROVE rank[x] < rank[y]
  <2>1. Below(x) \in SUBSET Below(y) /\ x \in Below(y) /\ x \notin Below(x)
    BY <1>2
  <2>2. Cardinality(Below(x)) <= Cardinality(Below(y)) /\ Cardinality(Below(x)) # Cardinality(Below(y))
    <3> HIDE DEF Below
    <3> QED BY <1>1, <2>1, FS_Subset
  <2> QED BY <1>1, <2>2
<1>3. ASSUME NEW x \in S PROVE rank[x] \in 0..(n - 1)
  <2>1. Below(x) \in SUBSET S /\ Below(x) # S
    OBVIOUS
  <2>2. Cardinality(Below(x)) <= n /\ Cardinality(Below(x)) # n
    <3> HIDE DEF Below
    <3> QED BY <2>1, FS_Subset
  <2>3. rank[x] = Cardinality(Below(x)) /\ rank[x] \in Nat
    BY <1>1
  <2> HIDE DEF rank, Below, n
  <2> QED BY <1>0, <2>2, <2>3
<1>a. rank \in [S -> 0..(n - 1)]
  BY <1>3
<1> HIDE DEF rank, Below, n
<1>b. \A x, y \in S : <<x, y>> \in R => rank[x] < rank[y]
  BY <1>2
<1>4. rank \in Injection(S, 0..(n - 1))
  <2>1. ASSUME NEW x \in S, NEW y \in S, x # y PROVE rank[x] # rank[y]
    <3>1. rank[x] \in Int /\ rank[y] \in Int
      BY <1>a
    <3>2. rank[x] < rank[y] \/ rank[y] < rank[x]
      BY <1>b, <2>1
    <3> QED BY <3>1, <3>2
  <2> QED BY <1>a, <2>1 DEF Injection, IsInjective
<1>5. rank \in Surjection(S, 0..(n - 1))
  <2>1. IsFiniteSet(0..(n - 1)) /\ Cardinality(0..(n - 1)) = n
    BY <1>0, FS_Interval
  <2>2. Cardinality(S) = Cardinality(0..(n - 1))
    BY <2>1 DEF n
  <2> QED BY <1>4, <2>1, <2>2, FS_Injection
<1> DEFINE q == [i \in 1..n |-> CHOOSE x \in S : rank[x] = i - 1]
<1>6. ASSUME NEW i \in 1..n PROVE q[i] \in S /\ rank[q[i]] = i - 1
  <2>1. i - 1 \in 0..(n - 1)
    BY <1>0
  <2>2. \E x \in S : rank[x] = i - 1
    BY <1>5, <2>1 DEF Surjection
  <2> QED BY <2>2
<1>7. q \in [1..n -> S]
  BY <1>6
<1> HIDE DEF q
<1>8. ASSUME NEW i \in 1..n, NEW j \in 1..n, i < j PROVE <<q[i], q[j]>> \in R
  <2>1. q[i] # q[j] /\ ~(rank[q[j]] < rank[q[i]])
    BY <1>0, <1>6, <1>8
  <2> QED BY <1>b, <1>6, <2>1
<1> QED BY <1>7, <1>8 DEF n

\* sortPorts has every public port of the service, each once, in increasing order.
LEMMA SortedPorts ==
  ASSUME NEW s \in PortSpecs
  PROVE  /\ Cardinality(DOMAIN s.ports) \in Nat
         /\ sortPorts(s) \in [1..Cardinality(DOMAIN s.ports) -> DOMAIN s.ports]
         /\ \A i, j \in 1..Cardinality(DOMAIN s.ports) : i < j => sortPorts(s)[i] < sortPorts(s)[j]
         /\ \A p \in DOMAIN s.ports : \E i \in 1..Cardinality(DOMAIN s.ports) : sortPorts(s)[i] = p
<1> DEFINE D == DOMAIN s.ports
           n == Cardinality(D)
           R == {d \in D \X D : d[1] < d[2]}
           Up(q) == \A i, j \in 1..n : i < j => q[i] < q[j]
<1>1. IsFiniteSet(D) /\ D \subseteq Nat
  BY PortSpecAssumption
<1>2. n \in Nat
  BY <1>1, FS_CardinalityType
<1>3. PICK q \in [1..n -> D] : \A i, j \in 1..n : i < j => <<q[i], q[j]>> \in R
  <2>1. R \in SUBSET (D \X D) /\ \A x \in D : <<x, x>> \notin R
    BY <1>1
  <2>2. \A x, y, z \in D : <<x, y>> \in R /\ <<y, z>> \in R => <<x, z>> \in R
    BY <1>1
  <2>3. \A x, y \in D : x # y => <<x, y>> \in R \/ <<y, x>> \in R
    BY <1>1
  <2> HIDE DEF R, D, n
  <2>4. \E q \in [1..Cardinality(D) -> D] : \A i, j \in 1..Cardinality(D) : i < j => <<q[i], q[j]>> \in R
    BY <1>1, <2>1, <2>2, <2>3, LinedUp
  <2> QED BY <2>4 DEF n
<1>4. Up(q)
  BY <1>3
<1>5. sortPorts(s) = CHOOSE r \in [1..n -> D] : \A i, j \in DOMAIN r : i < j => r[i] < r[j]
  BY DEF sortPorts
<1>6. sortPorts(s) \in [1..n -> D] /\ Up(sortPorts(s))
  BY <1>3, <1>4, <1>5
<1>7. sortPorts(s) \in Injection(1..n, D)
  <2> DEFINE f == sortPorts(s)
  <2>1. ASSUME NEW i \in 1..n, NEW j \in 1..n, f[i] = f[j] PROVE i = j
    <3>1. f[i] \in Nat
      BY <1>1, <1>6
    <3> QED BY <1>2, <1>6, <2>1, <3>1
  <2> QED BY <1>6, <2>1 DEF Injection, IsInjective
<1>8. sortPorts(s) \in Surjection(1..n, D)
  <2>1. Cardinality(1..n) = Cardinality(D)
    BY <1>2, FS_Interval
  <2> QED BY <1>1, <1>7, <2>1, FS_Injection
<1> QED BY <1>2, <1>6, <1>8 DEF Surjection

OnceEach(s) == \A i, j \in DOMAIN s : s[i] = s[j] => i = j
ElementsOf(s) == {s[i] : i \in DOMAIN s}

LEMMA PlacesOf ==
  ASSUME NEW S, NEW s \in Seq(S)
  PROVE  /\ DOMAIN s = 1..Len(s) /\ Len(s) \in Nat
         /\ IsFiniteSet(DOMAIN s) /\ Cardinality(DOMAIN s) = Len(s)
<1>1. DOMAIN s = 1..Len(s) /\ Len(s) \in Nat
  OBVIOUS
<1>2. ASSUME NEW n \in Nat PROVE IsFiniteSet(1..n) /\ Cardinality(1..n) = n
  BY FS_Interval
<1> QED BY <1>1, <1>2

\* A rearrangement of a sequence has its elements, and each as often.
LEMMA RearrangedFacts ==
  ASSUME NEW S, NEW s \in Seq(S), NEW q \in Rearranged(s)
  PROVE  /\ q \in Seq(S) /\ Len(q) = Len(s) /\ ElementsOf(q) = ElementsOf(s)
         /\ \E f \in [DOMAIN s -> DOMAIN s] : /\ \A i, j \in DOMAIN s : f[i] = f[j] => i = j
                                              /\ \A i \in DOMAIN s : q[i] = s[f[i]]
<1>1. PICK f \in [DOMAIN s -> DOMAIN s] : /\ \A i, j \in DOMAIN s : f[i] = f[j] => i = j
                                          /\ q = [i \in DOMAIN s |-> s[f[i]]]
  BY DEF Rearranged
<1>2. DOMAIN s = 1..Len(s) /\ Len(s) \in Nat
  OBVIOUS
<1>3. q \in Seq(S) /\ Len(q) = Len(s)
  BY <1>1, <1>2
<1>4. f \in Surjection(DOMAIN s, DOMAIN s)
  <2>1. IsFiniteSet(DOMAIN s)
    BY PlacesOf
  <2>2. f \in Injection(DOMAIN s, DOMAIN s)
    BY <1>1 DEF Injection, IsInjective
  <2> QED BY <2>1, <2>2, FS_Injection
<1>5. ElementsOf(q) = ElementsOf(s)
  <2>1. \A i \in DOMAIN s : \E j \in DOMAIN s : f[j] = i
    BY <1>4 DEF Surjection
  <2>2. DOMAIN q = DOMAIN s
    BY <1>1
  <2> QED BY <1>1, <2>1, <2>2 DEF ElementsOf
<1> QED BY <1>1, <1>3, <1>5

\* Before is a strict order of pairs.
LEMMA BeforeOrders ==
  ASSUME NEW x \in Nat \X Nat, NEW y \in Nat \X Nat
  PROVE  /\ Before(x, y) \/ x = y => ~Before(y, x)
         /\ \A z \in Nat \X Nat : Before(x, y) /\ Before(y, z) => Before(x, z)
<1>1. \A e \in Nat \X Nat : e[1] \in Nat /\ e[2] \in Nat
  OBVIOUS
<1>2. x[1] \in Nat /\ x[2] \in Nat /\ y[1] \in Nat /\ y[2] \in Nat
  BY <1>1
<1>3. Before(x, y) \/ x = y => ~Before(y, x)
  BY ONLY <1>2 DEF Before
<1>4. ASSUME NEW z \in Nat \X Nat, Before(x, y), Before(y, z) PROVE Before(x, z)
  <2>1. z[1] \in Nat /\ z[2] \in Nat
    BY <1>1
  <2> QED BY ONLY <1>2, <1>4, <2>1 DEF Before
<1> QED BY <1>3, <1>4

\* sort.Strings rearranges.
LEMMA SortRearranges ==
  ASSUME NEW s \in Seq(Nat \X Nat)
  PROVE  sortStrings(s) \in Rearranged(s)
<1> DEFINE D == DOMAIN s
           R == {d \in D \X D : Before(s[d[1]], s[d[2]]) \/ (s[d[1]] = s[d[2]] /\ d[1] < d[2])}
<1>1. IsFiniteSet(D) /\ Cardinality(D) = Len(s) /\ D = 1..Len(s) /\ Len(s) \in Nat
  BY PlacesOf
<1>2. \A i \in D : s[i] \in Nat \X Nat /\ s[i][1] \in Nat /\ s[i][2] \in Nat /\ s[i] = <<s[i][1], s[i][2]>>
  OBVIOUS
<1>a. \A x \in D : <<x, x>> \notin R
  BY <1>1, <1>2 DEF Before
<1>3. PICK q \in [D -> D] : \A i, j \in D : i < j => <<q[i], q[j]>> \in R
  <2>1. R \in SUBSET (D \X D) /\ \A x \in D : <<x, x>> \notin R
    BY <1>a
  <2>2. ASSUME NEW x \in D, NEW y \in D, NEW z \in D, <<x, y>> \in R, <<y, z>> \in R PROVE <<x, z>> \in R
    <3>1. s[x] \in Nat \X Nat /\ s[y] \in Nat \X Nat /\ s[z] \in Nat \X Nat
      BY <1>2
    <3>2. Before(s[x], s[y]) /\ Before(s[y], s[z]) => Before(s[x], s[z])
      BY <3>1, BeforeOrders
    <3>3. /\ Before(s[x], s[y]) \/ (s[x] = s[y] /\ x < y)
          /\ Before(s[y], s[z]) \/ (s[y] = s[z] /\ y < z)
      BY <2>2
    <3>4. x < y /\ y < z => x < z
      BY <1>1
    <3>5. Before(s[x], s[z]) \/ (s[x] = s[z] /\ x < z)
      BY ONLY <3>2, <3>3, <3>4
    <3> QED BY <3>5
  <2>3. ASSUME NEW x \in D, NEW y \in D, x # y PROVE <<x, y>> \in R \/ <<y, x>> \in R
    <3>1. x < y \/ y < x
      BY <1>1, <2>3
    <3>2. s[x] = s[y] \/ s[x][1] # s[y][1] \/ s[x][2] # s[y][2]
      BY <1>2
    <3>3. s[x] = s[y] \/ Before(s[x], s[y]) \/ Before(s[y], s[x])
      BY <1>2, <3>2 DEF Before
    <3> QED BY <3>1, <3>3
  <2> HIDE DEF R, D
  <2>4. \E q \in [1..Cardinality(D) -> D] : \A i, j \in 1..Cardinality(D) : i < j => <<q[i], q[j]>> \in R
    BY <1>1, <2>1, <2>2, <2>3, LinedUp
  <2> QED BY <1>1, <2>4
<1>4. \A i, j \in D : q[i] = q[j] => i = j
  <2>1. ASSUME NEW i \in D, NEW j \in D, i < j PROVE q[i] # q[j]
    <3> HIDE DEF R
    <3> QED BY <1>a, <1>3, <2>1
  <2> QED BY <1>1, <2>1
<1> DEFINE r == [i \in D |-> s[q[i]]]
<1>5. r \in Rearranged(s)
  BY <1>4 DEF Rearranged
<1>6. ASSUME NEW i \in D, NEW j \in D, i < j PROVE ~Before(r[j], r[i])
  <2>1. q[i] \in D /\ q[j] \in D /\ <<q[i], q[j]>> \in R
    BY <1>3, <1>6
  <2>2. Before(s[q[i]], s[q[j]]) \/ s[q[i]] = s[q[j]]
    BY <2>1
  <2>3. s[q[i]] \in Nat \X Nat /\ s[q[j]] \in Nat \X Nat
    BY <1>2, <2>1
  <2>4. ~Before(s[q[j]], s[q[i]])
    BY <2>2, <2>3, BeforeOrders
  <2> QED BY <2>4
<1> HIDE DEF r
<1> QED BY <1>5, <1>6 DEF sortStrings

\* Sequences of the same elements, each of them once, have the same rearrangements, and are
\* equal when they are sorted.
LEMMA SameWhenSorted ==
  ASSUME NEW S, NEW a \in Seq(S), NEW b \in Seq(S), OnceEach(a), OnceEach(b),
         ElementsOf(a) = ElementsOf(b)
  PROVE  sortStrings(a) = sortStrings(b)
<1>1. ASSUME NEW u \in Seq(S), NEW v \in Seq(S), OnceEach(u), OnceEach(v), ElementsOf(u) = ElementsOf(v)
      PROVE  \E g \in Injection(DOMAIN u, DOMAIN v) : \A i \in DOMAIN u : v[g[i]] = u[i]
  <2> DEFINE g == [i \in DOMAIN u |-> CHOOSE j \in DOMAIN v : v[j] = u[i]]
  <2>1. ASSUME NEW i \in DOMAIN u PROVE g[i] \in DOMAIN v /\ v[g[i]] = u[i]
    <3>1. \E j \in DOMAIN v : v[j] = u[i]
      BY <1>1, <2>1 DEF ElementsOf
    <3> QED BY <3>1
  <2>2. g \in [DOMAIN u -> DOMAIN v]
    BY <2>1
  <2> HIDE DEF g
  <2>3. \A i, j \in DOMAIN u : g[i] = g[j] => i = j
    BY <1>1, <2>1 DEF OnceEach
  <2>4. g \in Injection(DOMAIN u, DOMAIN v)
    BY <2>2, <2>3 DEF Injection, IsInjective
  <2> QED BY <2>1, <2>4
<1>2. DOMAIN a = DOMAIN b
  <2>1. ASSUME NEW u \in Seq(S), NEW v \in Seq(S), OnceEach(u), OnceEach(v), ElementsOf(u) = ElementsOf(v)
        PROVE  Len(u) <= Len(v)
    <3>1. PICK g : g \in Injection(DOMAIN u, DOMAIN v)
      BY <1>1, <2>1
    <3>2. IsFiniteSet(DOMAIN v) /\ Cardinality(DOMAIN v) = Len(v) /\ Cardinality(DOMAIN u) = Len(u)
      BY PlacesOf
    <3>3. Cardinality(DOMAIN u) <= Cardinality(DOMAIN v)
      BY <3>1, <3>2, FS_Injection
    <3> QED BY <3>2, <3>3
  <2>2. Len(a) <= Len(b) /\ Len(b) <= Len(a)
    BY <2>1
  <2>3. Len(a) \in Nat /\ Len(b) \in Nat /\ DOMAIN a = 1..Len(a) /\ DOMAIN b = 1..Len(b)
    OBVIOUS
  <2>4. \A m, n \in Nat : m <= n /\ n <= m => m = n
    OBVIOUS
  <2>5. Len(a) = Len(b)
    BY ONLY <2>2, <2>3, <2>4
  <2> QED BY <2>3, <2>5
<1>3. ASSUME NEW u \in Seq(S), NEW v \in Seq(S), OnceEach(u), OnceEach(v), ElementsOf(u) = ElementsOf(v),
             DOMAIN u = DOMAIN v, NEW q \in Rearranged(u)
      PROVE  q \in Rearranged(v)
  <2>1. PICK f \in [DOMAIN u -> DOMAIN u] : /\ \A i, j \in DOMAIN u : f[i] = f[j] => i = j
                                            /\ q = [i \in DOMAIN u |-> u[f[i]]]
    BY <1>3 DEF Rearranged
  <2>2. PICK g \in Injection(DOMAIN u, DOMAIN v) : \A i \in DOMAIN u : v[g[i]] = u[i]
    BY <1>1, <1>3
  <2>3. g \in [DOMAIN v -> DOMAIN v] /\ \A i, j \in DOMAIN v : g[i] = g[j] => i = j
    BY <1>3, <2>2 DEF Injection, IsInjective
  <2> DEFINE h == [i \in DOMAIN v |-> g[f[i]]]
  <2>4. h \in [DOMAIN v -> DOMAIN v] /\ \A i, j \in DOMAIN v : h[i] = h[j] => i = j
    BY <1>3, <2>1, <2>3
  <2>5. q = [i \in DOMAIN v |-> v[h[i]]]
    BY <1>3, <2>1, <2>2, <2>3
  <2> HIDE DEF h
  <2> QED BY <2>4, <2>5 DEF Rearranged
<1>4. Rearranged(a) = Rearranged(b)
  BY <1>2, <1>3
<1> QED BY <1>2, <1>4, Zenon DEF sortStrings
-----------------------------------------------------------------------------
\* What serviceToLBPorts returns when it returns no error.
Translation(s, ports) == /\ ports \in Seq(Infos(s)) /\ Len(ports) > 0 /\ Increasing(ports)
                         /\ Publics(ports) = DOMAIN s.ports

\* A port by what the endpoints say, if they say anything.
LEMMA PortInfoForm ==
  ASSUME NEW s \in PortSpecs, NEW p \in DOMAIN s.ports, NEW e \in Targets \cup {Absent},
         portInfo(s, p, e).private # Absent
  PROVE  portInfo(s, p, e) \in Infos(s)
<1>1. getTargetPort(s.ports[p].target, e) \in Nat
  BY PortSpecAssumption DEF portInfo, getTargetPort
<1>2. s.ports[p].target \in {Named, getTargetPort(s.ports[p].target, e)}
  BY DEF getTargetPort
<1> QED BY <1>1, <1>2 DEF portInfo, Infos

\* Once every port is translated, the translation is complete, whatever the endpoints have
\* said meanwhile.
LEMMA TranslationForm ==
  ASSUME NEW s \in WithPorts, NEW ports, NEW sayings, SaidSo(s, ports, sayings),
         Len(ports) = Cardinality(DOMAIN s.ports)
  PROVE  /\ Translation(s, ports)
         /\ \A i \in DOMAIN ports : ports[i].public = sortPorts(s)[i]
<1> DEFINE n == Cardinality(DOMAIN s.ports)
           q == sortPorts(s)
<1>0. s \in PortSpecs /\ DOMAIN s.ports # {}
  BY DEF WithPorts
<1>1. /\ n \in Nat /\ q \in [1..n -> DOMAIN s.ports]
      /\ \A i, j \in 1..n : i < j => q[i] < q[j]
      /\ \A p \in DOMAIN s.ports : \E i \in 1..n : q[i] = p
  BY <1>0, SortedPorts
<1>2. ports \in Seq(Infos(s)) /\ Len(ports) = n /\ DOMAIN ports = 1..n
  BY <1>1 DEF SaidSo
<1>3. \A i \in 1..n : ports[i].public = q[i]
  BY <1>2 DEF SaidSo, portInfo
<1> HIDE DEF n, q
<1>4. n > 0
  BY <1>0, <1>1
<1>5. Increasing(ports)
  BY <1>1, <1>2, <1>3 DEF Increasing
<1>6. Publics(ports) = DOMAIN s.ports
  <2>1. Publics(ports) = {q[i] : i \in 1..n}
    BY <1>2, <1>3 DEF Publics
  <2> QED BY <1>1, <2>1
<1> QED BY <1>2, <1>3, <1>4, <1>5, <1>6 DEF Translation, q

\* The pairs that additionalPorts sorts.
Others(ports) == [i \in 1..(Len(ports) - 1) |-> <<ports[i + 1].public, ports[i + 1].private>>]

\* They are all the routes but the first, each of them once.
LEMMA OthersForm ==
  ASSUME NEW s \in PortSpecs, NEW ports, Translation(s, ports)
  PROVE  /\ Others(ports) \in Seq(Nat \X Nat) /\ Len(Others(ports)) = Len(ports) - 1
         /\ ports[1].public \in Nat /\ ports[1].private \in Nat
         /\ \A i \in DOMAIN Others(ports) : ports[1].public < Others(ports)[i][1]
         /\ \A i, j \in DOMAIN Others(ports) : Others(ports)[i][1] = Others(ports)[j][1] => i = j
         /\ RoutesOf(ports) = {<<ports[1].public, ports[1].private>>} \cup ElementsOf(Others(ports))
<1> DEFINE n == Len(ports) - 1
           o == Others(ports)
<1>1. n \in Nat /\ DOMAIN ports = 1..(n + 1)
  BY DEF Translation
<1>2. \A i \in 1..(n + 1) : ports[i].public \in Nat /\ ports[i].private \in Nat
  <2>1. \A e \in Infos(s) : e.public \in Nat /\ e.private \in Nat
    BY PortSpecAssumption DEF Infos
  <2> QED BY <1>1, <2>1 DEF Translation
<1>3. \A i \in 1..n : o[i] = <<ports[i + 1].public, ports[i + 1].private>>
  BY DEF Others
<1>4. o \in [1..n -> Nat \X Nat]
  BY <1>1, <1>2 DEF Others
<1> HIDE DEF o, n
<1>5. o \in Seq(Nat \X Nat) /\ Len(o) = n /\ DOMAIN o = 1..n
  BY <1>1, <1>4
<1>6. \A i, j \in 1..(n + 1) : i < j => ports[i].public < ports[j].public
  BY <1>1 DEF Translation, Increasing
<1>7. \A i \in 1..n : o[i][1] = ports[i + 1].public /\ 1 < i + 1 /\ i + 1 \in 1..(n + 1)
  BY <1>1, <1>3
<1>8. \A i \in 1..n : ports[1].public < o[i][1]
  BY <1>1, <1>6, <1>7
<1>9. ASSUME NEW i \in 1..n, NEW j \in 1..n, o[i][1] = o[j][1] PROVE i = j
  <2>1. /\ i + 1 < j + 1 => ports[i + 1].public < ports[j + 1].public
        /\ j + 1 < i + 1 => ports[j + 1].public < ports[i + 1].public
    BY <1>6, <1>7
  <2>2. ports[i + 1].public = ports[j + 1].public /\ ports[i + 1].public \in Nat
    BY <1>2, <1>7, <1>9
  <2> QED BY <1>1, <2>1, <2>2
<1>10. RoutesOf(ports) = {<<ports[1].public, ports[1].private>>} \cup ElementsOf(o)
  <2>1. \A i \in 1..(n + 1) : i = 1 \/ (i - 1 \in 1..n /\ (i - 1) + 1 = i)
    BY <1>1
  <2>2. RoutesOf(ports) \subseteq {<<ports[1].public, ports[1].private>>} \cup ElementsOf(o)
    <3>1. ASSUME NEW i \in 1..(n + 1)
          PROVE  <<ports[i].public, ports[i].private>> \in
                    {<<ports[1].public, ports[1].private>>} \cup ElementsOf(o)
      <4>1. i # 1 => o[i - 1] = <<ports[i].public, ports[i].private>> /\ i - 1 \in DOMAIN o
        BY <1>3, <1>5, <2>1
      <4> QED BY <4>1 DEF ElementsOf
    <3> QED BY <1>1, <3>1 DEF RoutesOf
  <2>3. {<<ports[1].public, ports[1].private>>} \cup ElementsOf(o) \subseteq RoutesOf(ports)
    <3>1. 1 \in DOMAIN ports
      BY <1>1
    <3>2. ASSUME NEW i \in 1..n PROVE o[i] \in RoutesOf(ports)
      <4>1. i + 1 \in DOMAIN ports /\ o[i] = <<ports[i + 1].public, ports[i + 1].private>>
        BY <1>1, <1>3, <1>7
      <4> QED BY <4>1 DEF RoutesOf
    <3>3. ElementsOf(o) \subseteq RoutesOf(ports)
      BY <1>5, <3>2 DEF ElementsOf
    <3> QED BY <3>1, <3>3 DEF RoutesOf
  <2> QED BY <2>2, <2>3
<1>11. 1 \in 1..(n + 1)
  BY <1>1
<1> QED BY <1>2, <1>5, <1>8, <1>9, <1>10, <1>11 DEF o, n

\* Pairs that differ in their first parts stay so when they are rearranged.
LEMMA FirstsKept ==
  ASSUME NEW s \in Seq(Nat \X Nat), NEW q \in Rearranged(s), NEW low,
         \A i \in DOMAIN s : low < s[i][1],
         \A i, j \in DOMAIN s : s[i][1] = s[j][1] => i = j
  PROVE  /\ \A i \in DOMAIN q : low < q[i][1]
         /\ \A i, j \in DOMAIN q : q[i][1] = q[j][1] => i = j
<1>1. PICK f \in [DOMAIN s -> DOMAIN s] : /\ \A i, j \in DOMAIN s : f[i] = f[j] => i = j
                                          /\ q = [i \in DOMAIN s |-> s[f[i]]]
  BY DEF Rearranged
<1>2. DOMAIN q = DOMAIN s /\ \A i \in DOMAIN s : f[i] \in DOMAIN s /\ q[i] = s[f[i]]
  BY <1>1
<1> QED BY <1>1, <1>2

\* The rule CloudStack makes of ports, in whatever order it lists them, routes these ports.
LEMMA NewRuleForm ==
  ASSUME NEW s \in PortSpecs, NEW ports, Translation(s, ports), NEW protocol,
         NEW r \in NewRules(ports, protocol)
  PROVE  RuleForm(r) /\ Routes(r) = RoutesOf(ports) /\ r.protocol = protocol
<1> DEFINE o == Others(ports)
           a == additionalPorts(ports)
<1>1. a = sortStrings(o)
  BY DEF additionalPorts, Others
<1>2. /\ r.public = ports[1].public /\ r.private = ports[1].private /\ r.protocol = protocol
      /\ r.additional \in Rearranged(a)
  BY DEF NewRules
<1>3. /\ o \in Seq(Nat \X Nat) /\ r.public \in Nat /\ r.private \in Nat
      /\ \A i \in DOMAIN o : r.public < o[i][1]
      /\ \A i, j \in DOMAIN o : o[i][1] = o[j][1] => i = j
      /\ RoutesOf(ports) = {<<r.public, r.private>>} \cup ElementsOf(o)
  BY <1>2, OthersForm
<1> HIDE DEF o, a
<1>4. ASSUME NEW x \in Seq(Nat \X Nat), NEW y \in Rearranged(x), NEW low,
             \A i \in DOMAIN x : low < x[i][1], \A i, j \in DOMAIN x : x[i][1] = x[j][1] => i = j
      PROVE  /\ y \in Seq(Nat \X Nat) /\ ElementsOf(y) = ElementsOf(x)
             /\ \A i \in DOMAIN y : low < y[i][1]
             /\ \A i, j \in DOMAIN y : y[i][1] = y[j][1] => i = j
  <2>1. y \in Seq(Nat \X Nat) /\ ElementsOf(y) = ElementsOf(x)
    BY RearrangedFacts
  <2>2. (\A i \in DOMAIN y : low < y[i][1]) /\ \A i, j \in DOMAIN y : y[i][1] = y[j][1] => i = j
    BY <1>4, FirstsKept
  <2> QED BY <2>1, <2>2
<1>5. a \in Rearranged(o)
  BY <1>1, <1>3, SortRearranges
<1>6. /\ a \in Seq(Nat \X Nat) /\ ElementsOf(a) = ElementsOf(o)
      /\ \A i \in DOMAIN a : r.public < a[i][1]
      /\ \A i, j \in DOMAIN a : a[i][1] = a[j][1] => i = j
  BY <1>3, <1>5, <1>4
<1>7. /\ r.additional \in Seq(Nat \X Nat) /\ ElementsOf(r.additional) = ElementsOf(a)
      /\ \A i \in DOMAIN r.additional : r.public < r.additional[i][1]
      /\ \A i, j \in DOMAIN r.additional : r.additional[i][1] = r.additional[j][1] => i = j
  BY <1>2, <1>6, <1>4
<1>8. Routes(r) = {<<r.public, r.private>>} \cup ElementsOf(r.additional)
  BY DEF Routes, ElementsOf
<1> QED BY <1>2, <1>3, <1>6, <1>7, <1>8 DEF RuleForm

\* comparePorts is exact: it accepts a rule exactly if the rule sends the public ports of the
\* service, and no others, where the translation says, by the same protocol.  The order in
\* which CloudStack lists the ports is of no account.
THEOREM ComparePortsIsExact ==
  ASSUME NEW s \in PortSpecs, NEW ports, Translation(s, ports), NEW protocol, NEW r, RuleForm(r)
  PROVE  comparePorts(ports, protocol, r) <=> Routes(r) = RoutesOf(ports) /\ r.protocol = protocol
<1> DEFINE o == Others(ports)
           d == r.additional
           first == <<ports[1].public, ports[1].private>>
           front == <<r.public, r.private>>
<1>1. comparePorts(ports, protocol, r) <=>
         sortStrings(o) = sortStrings(d) /\ first = front /\ r.protocol = protocol
  BY DEF comparePorts, additionalPorts, Others
<1>2. /\ o \in Seq(Nat \X Nat) /\ ports[1].public \in Nat /\ ports[1].private \in Nat
      /\ \A i \in DOMAIN o : ports[1].public < o[i][1]
      /\ \A i, j \in DOMAIN o : o[i][1] = o[j][1] => i = j
      /\ RoutesOf(ports) = {first} \cup ElementsOf(o)
  BY OthersForm
<1>3. /\ d \in Seq(Nat \X Nat) /\ r.public \in Nat /\ r.private \in Nat
      /\ \A i \in DOMAIN d : r.public < d[i][1]
      /\ \A i, j \in DOMAIN d : d[i][1] = d[j][1] => i = j
      /\ Routes(r) = {front} \cup ElementsOf(d)
  BY DEF RuleForm, Routes, ElementsOf
<1> HIDE DEF o, d
<1>4. ASSUME sortStrings(o) = sortStrings(d) PROVE ElementsOf(o) = ElementsOf(d)
  <2>1. sortStrings(o) \in Rearranged(o) /\ sortStrings(d) \in Rearranged(d)
    BY <1>2, <1>3, SortRearranges
  <2>2. ElementsOf(sortStrings(o)) = ElementsOf(o) /\ ElementsOf(sortStrings(d)) = ElementsOf(d)
    BY <1>2, <1>3, <2>1, RearrangedFacts
  <2> QED BY <1>4, <2>2
<1>5. ASSUME {first} \cup ElementsOf(o) = {front} \cup ElementsOf(d)
      PROVE  first = front /\ sortStrings(o) = sortStrings(d)
  <2>1. \A x \in ElementsOf(o) : ports[1].public < x[1] /\ x[1] \in Nat
    BY <1>2 DEF ElementsOf
  <2>2. \A x \in ElementsOf(d) : r.public < x[1] /\ x[1] \in Nat
    BY <1>3 DEF ElementsOf
  <2>3. first = front
    <3>1. first[1] = ports[1].public /\ front[1] = r.public
      OBVIOUS
    <3> HIDE DEF first, front
    <3>2. first = front \/ (first \in ElementsOf(d) /\ front \in ElementsOf(o))
      BY <1>5
    <3>3. ~(first \in ElementsOf(d) /\ front \in ElementsOf(o))
      BY <1>2, <1>3, <2>1, <2>2, <3>1
    <3> QED BY <3>2, <3>3
  <2>4. ElementsOf(o) = ElementsOf(d)
    <3>1. first[1] = ports[1].public /\ front[1] = r.public
      OBVIOUS
    <3> HIDE DEF first, front
    <3>2. first \notin ElementsOf(o) /\ front \notin ElementsOf(d)
      BY <1>2, <1>3, <2>1, <2>2, <3>1
    <3> QED BY <1>5, <2>3, <3>2
  <2>5. OnceEach(o) /\ OnceEach(d)
    BY <1>2, <1>3 DEF OnceEach
  <2> QED BY <1>2, <1>3, <2>3, <2>4, <2>5, SameWhenSorted
<1> HIDE DEF first, front
<1> QED BY <1>1, <1>2, <1>3, <1>4, <1>5
-----------------------------------------------------------------------------
(* Calls during which the endpoints change.                                *)

\* What has been said since the lock was taken is what endpoints can say, so one more port
\* is translated by a saying of the call.
LEMMA OneMorePort ==
  ASSUME NEW s \in WithPorts, NEW ports, NEW sayings, SaidSo(s, ports, sayings),
         NEW e \in Targets \cup {Absent}, e \in sayings, Len(ports) # Cardinality(DOMAIN s.ports),
         portInfo(s, sortPorts(s)[Len(ports) + 1], e).private # Absent
  PROVE  SaidSo(s, Append(ports, portInfo(s, sortPorts(s)[Len(ports) + 1], e)), sayings)
<1> DEFINE n == Cardinality(DOMAIN s.ports)
           k == Len(ports) + 1
           info == portInfo(s, sortPorts(s)[k], e)
           more == Append(ports, info)
<1>1. s \in PortSpecs
  BY DEF WithPorts
<1>2. n \in Nat /\ sortPorts(s) \in [1..n -> DOMAIN s.ports]
  BY <1>1, SortedPorts
<1>3. ports \in Seq(Infos(s)) /\ Len(ports) \in Nat /\ Len(ports) <= n /\ DOMAIN ports = 1..Len(ports)
  BY DEF SaidSo
<1>4. k \in 1..n
  BY <1>2, <1>3
<1>5. info \in Infos(s)
  <2>1. sortPorts(s)[k] \in DOMAIN s.ports
    BY <1>2, <1>4
  <2> QED BY <1>1, <2>1, PortInfoForm
<1> HIDE DEF info
<1>6. /\ more \in Seq(Infos(s)) /\ Len(more) = k /\ DOMAIN more = 1..k
      /\ more[k] = info /\ \A i \in 1..Len(ports) : more[i] = ports[i]
  BY <1>3, <1>5
<1> HIDE DEF more
<1>7. ASSUME NEW i \in 1..k PROVE \E f \in sayings : more[i] = portInfo(s, sortPorts(s)[i], f)
  <2>1. CASE i = k
    BY <1>6, <2>1 DEF info
  <2>2. CASE i # k
    <3>1. i \in DOMAIN ports
      BY <1>3, <2>2
    <3> QED BY <1>3, <1>6, <3>1 DEF SaidSo
  <2> QED BY <2>1, <2>2
<1>8. SaidSo(s, more, sayings)
  BY <1>2, <1>4, <1>6, <1>7 DEF SaidSo
<1> QED BY <1>8 DEF more, info

LEMMA NothingSaidSo ==
  ASSUME NEW s \in WithPorts, NEW sayings
  PROVE  SaidSo(s, << >>, sayings)
<1>1. Cardinality(DOMAIN s.ports) \in Nat
  BY SortedPorts DEF WithPorts
<1> QED BY <1>1 DEF SaidSo

LEMMA MoreSayings ==
  ASSUME NEW s, NEW ports, NEW sayings, SaidSo(s, ports, sayings), NEW e
  PROVE  SaidSo(s, ports, sayings \cup {e})
BY DEF SaidSo

\* What a call with all its ports translated has in hand.
LEMMA InHand ==
  ASSUME PInv, poolPC # "rest", Translated
  PROVE  copy \in PortSpecs /\ Translation(copy, lbPorts)
<1>1. copy \in WithPorts /\ SaidSo(copy, lbPorts, said) /\ Len(lbPorts) = Cardinality(DOMAIN copy.ports)
  BY DEF PInv, CallOK, Translated
<1> QED BY <1>1, TranslationForm DEF WithPorts

\* What one updateGloboNetworkPool does: the pool of the next port, and no other, gets the
\* health check that the service asks for.
LEMMA WrittenFacts ==
  ASSUME NextNeedsPool, DOMAIN pools = DOMAIN listedPools
  PROVE  /\ lbPorts[turn].public \in DOMAIN pools /\ DOMAIN WrittenPools = DOMAIN pools
         /\ \A p \in DOMAIN pools : p # lbPorts[turn].public => WrittenPools[p] = pools[p]
         /\ WrittenPools[lbPorts[turn].public].type = portToHCProtocol(copy.protocol, lbPorts[turn])
         /\ WrittenPools[lbPorts[turn].public].message = lbPorts[turn].message
<1>1. lbPorts[turn].public \in DOMAIN pools
  BY DEF NextNeedsPool, needsPool
<1> QED BY <1>1 DEF WrittenPools
-----------------------------------------------------------------------------
(* The inductive invariant.                                                *)

LEMMA PInvInit == PoolsInit => PInv
BY DEF PoolsInit, PInv, WorldOK, RestOK, CallOK, RuleOK, LoopOK

\* A call that returns leaves nothing behind but the world.
LEMMA Returned ==
  ASSUME PoolReturns, WorldOK'
  PROVE  PInv'
BY DEF PoolReturns, PInv, RestOK, CallOK, RuleOK, LoopOK

LEMMA BeginOK ==
  ASSUME PInv, EnsureBegins
  PROVE  PInv'
<1>1. /\ poolPC = "rest" /\ lbPorts = << >> /\ turn = 1 /\ lbPorts' = << >> /\ turn' = 1
      /\ copy' = wantedPorts /\ copy' \in WithPorts /\ said' = {endpoint}
      /\ UNCHANGED <<wantedPorts, endpoint, lbRule, pools, queuedCopy>>
      /\ poolPC' = IF lbRule = Absent THEN "create" ELSE "check"
  BY DEF PInv, WorldOK, RestOK, EnsureBegins, PoolBegins, KeepWorld, KeepRule, WithPorts
<1>2. SaidSo(copy', lbPorts', said')
  BY <1>1, NothingSaidSo
<1>3. CallOK'
  BY <1>1, <1>2 DEF CallOK
<1> QED BY <1>1, <1>3 DEF PInv, WorldOK, RestOK, RuleOK, LoopOK

LEMMA ListOK ==
  ASSUME PInv, PoolList
  PROVE  PInv'
<1>1. /\ poolPC = "rest" /\ lbPorts = << >> /\ turn = 1 /\ lbPorts' = << >> /\ turn' = 1
      /\ copy' = queuedCopy /\ copy' \in WithPorts /\ said' = {endpoint} /\ listedPools' = pools
      /\ UNCHANGED <<wantedPorts, endpoint, lbRule, pools, queuedCopy>> /\ poolPC' = "pools"
  BY DEF PInv, WorldOK, RestOK, PoolList, PoolBegins, KeepWorld, KeepRule
<1>2. SaidSo(copy', lbPorts', said')
  BY <1>1, NothingSaidSo
<1>3. CallOK'
  BY <1>1, <1>2 DEF CallOK
<1>4. LoopOK'
  BY <1>1 DEF LoopOK
<1> QED BY <1>1, <1>3, <1>4 DEF PInv, WorldOK, RestOK, RuleOK

\* A port is translated, by what the endpoints say at that moment.
LEMMA TranslateOK ==
  ASSUME PInv, TranslatePort
  PROVE  PInv'
<1> DEFINE info == portInfo(copy, sortPorts(copy)[Len(lbPorts) + 1], endpoint)
<1>1. WorldOK'
  BY DEF PInv, WorldOK, TranslatePort, KeepWorld, KeepRule
<1>2. CASE info.private = Absent
  <2>1. PoolReturns
    BY <1>2 DEF TranslatePort
  <2> QED BY <1>1, <2>1, Returned
<1>3. CASE info.private # Absent
  <2>1. /\ poolPC' = poolPC /\ poolPC \in {"check", "create", "pools"} /\ lbPorts' = Append(lbPorts, info)
        /\ UNCHANGED <<copy, listedPools, turn, said, wantedPorts, endpoint, lbRule, pools, queuedCopy>>
        /\ ~Translated
    BY <1>3 DEF TranslatePort, PoolGoesOn, KeepWorld, KeepRule
  <2>2. /\ copy \in WithPorts /\ endpoint \in said /\ SaidSo(copy, lbPorts, said)
        /\ endpoint \in Targets \cup {Absent} /\ turn = 1
    BY <2>1 DEF PInv, CallOK, WorldOK, RestOK
  <2>3. SaidSo(copy, lbPorts', said)
    BY <1>3, <2>1, <2>2, OneMorePort DEF Translated
  <2> HIDE DEF info
  <2>4. CallOK'
    BY <2>1, <2>2, <2>3 DEF CallOK
  <2>5. LoopOK'
    <3> SUFFICES ASSUME poolPC = "pools" PROVE LoopOK'
      BY <2>1 DEF LoopOK
    <3>1. pools = listedPools
      BY <2>2 DEF PInv, LoopOK
    <3>2. \A i \in DOMAIN lbPorts' : i \in Nat /\ i >= 1
      BY <2>3 DEF SaidSo
    <3> QED BY <2>1, <2>2, <3>1, <3>2 DEF LoopOK
  <2>6. RestOK' /\ RuleOK'
    BY <2>1, <2>2 DEF PInv, RestOK, RuleOK
  <2> QED BY <1>1, <2>4, <2>5, <2>6 DEF PInv
<1> QED BY <1>2, <1>3

LEMMA CheckOK ==
  ASSUME PInv, CheckPorts
  PROVE  PInv'
<1>1. /\ poolPC = "check" /\ Translated /\ lbRule # Absent /\ turn = 1 /\ RuleForm(lbRule)
      /\ poolPC' = IF comparePorts(lbPorts, copy.protocol, lbRule) THEN "push" ELSE "delete"
      /\ UNCHANGED <<copy, lbPorts, listedPools, turn, said, wantedPorts, endpoint, lbRule, pools, queuedCopy>>
  BY DEF PInv, WorldOK, RuleOK, RestOK, CheckPorts, PoolGoesOn, KeepWorld, KeepRule
<1>2. copy \in PortSpecs /\ Translation(copy, lbPorts)
  BY <1>1, InHand
<1>3. comparePorts(lbPorts, copy.protocol, lbRule) <=>
         Routes(lbRule) = RoutesOf(lbPorts) /\ lbRule.protocol = copy.protocol
  BY <1>1, <1>2, ComparePortsIsExact
<1>4. RuleOK'
  BY <1>1, <1>3 DEF RuleOK, Translated
<1>5. CallOK'
  BY <1>1 DEF PInv, CallOK
<1> QED BY <1>1, <1>4, <1>5 DEF PInv, WorldOK, RestOK, LoopOK

LEMMA DeleteOK ==
  ASSUME PInv, DeleteForPorts
  PROVE  PInv'
<1>1. /\ poolPC = "delete" /\ lbRule' = Absent /\ turn = 1
      /\ UNCHANGED <<wantedPorts, endpoint, queuedCopy>>
  BY DEF PInv, RestOK, DeleteForPorts, KeepWorld
<1>2. WorldOK'
  BY <1>1 DEF PInv, WorldOK
<1>3. CASE PoolReturns
  BY <1>2, <1>3, Returned
<1>4. CASE PoolGoesOn("create", << >>)
  <2>1. poolPC' = "create" /\ lbPorts' = << >> /\ UNCHANGED <<copy, listedPools, turn, said>>
    BY <1>4 DEF PoolGoesOn
  <2>2. copy \in WithPorts /\ endpoint \in said
    BY <1>1 DEF PInv, CallOK
  <2>3. SaidSo(copy, << >>, said)
    BY <2>2, NothingSaidSo
  <2>4. CallOK'
    BY <1>1, <2>1, <2>2, <2>3 DEF CallOK
  <2> QED BY <1>1, <1>2, <2>1, <2>4 DEF PInv, RestOK, RuleOK, LoopOK
<1> QED BY <1>3, <1>4 DEF DeleteForPorts

LEMMA CreateOK ==
  ASSUME PInv, CreatePorts
  PROVE  PInv'
<1>1. /\ poolPC = "create" /\ Translated /\ turn = 1
      /\ lbRule' \in NewRules(lbPorts, copy.protocol)
      /\ UNCHANGED <<wantedPorts, endpoint, queuedCopy>>
  BY DEF PInv, RestOK, CreatePorts, KeepWorld
<1>2. copy \in PortSpecs /\ Translation(copy, lbPorts)
  BY <1>1, InHand
<1>3. RuleForm(lbRule') /\ Routes(lbRule') = RoutesOf(lbPorts) /\ lbRule'.protocol = copy.protocol
  BY <1>1, <1>2, NewRuleForm
<1>4. WorldOK'
  BY <1>1, <1>3 DEF PInv, WorldOK
<1>5. CASE PoolReturns
  BY <1>4, <1>5, Returned
<1>6. CASE PoolGoesOn("push", lbPorts)
  <2>1. poolPC' = "push" /\ UNCHANGED <<lbPorts, copy, listedPools, turn, said>>
    BY <1>6 DEF PoolGoesOn
  <2>2. RuleOK'
    BY <1>1, <1>3, <2>1 DEF RuleOK, Translated
  <2>3. CallOK'
    BY <1>1, <2>1 DEF PInv, CallOK
  <2> QED BY <1>1, <1>4, <2>1, <2>2, <2>3 DEF PInv, RestOK, LoopOK
<1> QED BY <1>5, <1>6 DEF CreatePorts

\* A turn of the loop: a port whose pool is not written has its health check already.
LEMMA WriteOK ==
  ASSUME PInv, PoolWrite
  PROVE  PInv'
<1>0. PICK h, type : h = lbPorts[turn] /\ type = portToHCProtocol(copy.protocol, h)
  OBVIOUS
<1>1. /\ poolPC = "pools" /\ Translated /\ turn <= Len(lbPorts) /\ turn' = turn + 1
      /\ UNCHANGED <<wantedPorts, endpoint, lbRule, queuedCopy, poolPC, copy, lbPorts, listedPools, said>>
      /\ pools' = IF NextNeedsPool THEN WrittenPools ELSE pools
  BY DEF PoolWrite, InLoop, KeepWorld
<1>2. copy \in PortSpecs /\ Translation(copy, lbPorts) /\ DOMAIN lbPorts = 1..Len(lbPorts) /\ Len(lbPorts) \in Nat
  BY <1>1, InHand DEF Translation
<1>3. /\ turn \in Nat /\ turn >= 1 /\ DOMAIN pools = DOMAIN listedPools
      /\ \A i \in DOMAIN lbPorts :
            /\ i < turn => HealthChecked(lbPorts[i])
            /\ i >= turn /\ lbPorts[i].public \in DOMAIN pools =>
                  pools[lbPorts[i].public] = listedPools[lbPorts[i].public]
  BY <1>1 DEF PInv, LoopOK
<1>4. /\ turn \in DOMAIN lbPorts
      /\ \A i \in DOMAIN lbPorts : i # turn => lbPorts[i].public # h.public
  <2>1. turn \in DOMAIN lbPorts
    BY <1>1, <1>2, <1>3
  <2>2. ASSUME NEW i \in DOMAIN lbPorts, i # turn PROVE lbPorts[i].public # h.public
    <3>1. \A e \in Infos(copy) : e.public \in Nat
      BY <1>2, PortSpecAssumption DEF Infos
    <3>2. lbPorts[i].public \in Nat /\ h.public \in Nat
      BY <1>0, <1>2, <2>1, <3>1 DEF Translation
    <3>3. i < turn \/ turn < i
      BY <1>2, <1>3, <2>2
    <3>4. lbPorts[i].public < h.public \/ h.public < lbPorts[i].public
      BY <1>0, <1>2, <2>1, <3>3 DEF Translation, Increasing
    <3> QED BY <3>2, <3>4
  <2> QED BY <2>1, <2>2
<1>5. /\ DOMAIN pools' = DOMAIN pools /\ \A p \in DOMAIN pools : p # h.public => pools'[p] = pools[p]
      /\ NextNeedsPool => pools'[h.public].type = type /\ pools'[h.public].message = h.message
      /\ ~NextNeedsPool => pools' = pools
  <2>1. CASE NextNeedsPool
    BY <1>0, <1>1, <1>3, <2>1, WrittenFacts
  <2>2. CASE ~NextNeedsPool
    BY <1>1, <2>2
  <2> QED BY <2>1, <2>2
<1>6. HealthChecked(h)'
  <2>2. CASE NextNeedsPool
    BY <1>0, <1>1, <1>5, <2>2 DEF HealthChecked
  <2>3. CASE ~NextNeedsPool
    <3>1. h.public \in DOMAIN pools => pools[h.public] = listedPools[h.public]
      BY <1>0, <1>3, <1>4, <1>2
    <3> QED BY <1>0, <1>1, <1>3, <1>5, <2>3, <3>1 DEF HealthChecked, NextNeedsPool, needsPool
  <2> QED BY <2>2, <2>3
<1>7. LoopOK'
  <2>1. ASSUME NEW i \in DOMAIN lbPorts
        PROVE  /\ i < turn' => HealthChecked(lbPorts[i])'
               /\ i >= turn' /\ lbPorts[i].public \in DOMAIN pools' =>
                     pools'[lbPorts[i].public] = listedPools'[lbPorts[i].public]
    <3>1. i \in Nat
      BY <1>2
    <3>2. CASE i = turn
      <4>1. HealthChecked(lbPorts[i])'
        BY <1>0, <1>1, <1>6, <3>2
      <4> QED BY <1>1, <1>3, <3>2, <4>1
    <3>3. CASE i # turn
      <4>1. lbPorts[i].public \in DOMAIN pools => pools'[lbPorts[i].public] = pools[lbPorts[i].public]
        BY <1>4, <1>5, <3>3
      <4>2. i < turn => HealthChecked(lbPorts[i])'
        BY <1>1, <1>3, <1>5, <4>1 DEF HealthChecked
      <4>3. (i < turn' <=> i < turn) /\ (i >= turn' <=> i > turn)
        BY <1>1, <1>3, <3>1, <3>3
      <4> QED BY <1>1, <1>3, <1>5, <3>1, <4>1, <4>2, <4>3
    <3> QED BY <3>2, <3>3
  <2> QED BY <1>1, <1>3, <1>5, <2>1 DEF LoopOK
<1>8. CallOK'
  BY <1>1 DEF PInv, CallOK
<1> QED BY <1>1, <1>7, <1>8 DEF PInv, WorldOK, RestOK, RuleOK, Translated

LEMMA PInvNext == PInv /\ [PoolsNext]_PoolVars => PInv'
<1> SUFFICES ASSUME PInv, [PoolsNext]_PoolVars PROVE PInv'
  OBVIOUS
<1>1. CASE EnsureBegins
  BY <1>1, BeginOK
<1>2. CASE CheckPorts
  BY <1>2, CheckOK
<1>3. CASE DeleteForPorts
  BY <1>3, DeleteOK
<1>4. CASE CreatePorts
  BY <1>4, CreateOK
<1>5. CASE EnsurePush
  <2>1. queuedCopy' \in WithPorts /\ UNCHANGED <<wantedPorts, endpoint, lbRule>> /\ PoolReturns
    BY <1>5 DEF PInv, CallOK, EnsurePush, KeepWorld, KeepRule
  <2>2. WorldOK'
    BY <2>1 DEF PInv, WorldOK
  <2> QED BY <2>1, <2>2, Returned
<1>6. CASE PoolSkip
  <2>1. /\ queuedCopy' = Absent
        /\ UNCHANGED <<wantedPorts, endpoint, lbRule, pools, poolPC, copy, lbPorts, listedPools, turn, said>>
    BY <1>6 DEF PoolSkip, KeepWorld, KeepRule, poolCall
  <2> QED BY <2>1 DEF PInv, WorldOK, RestOK, CallOK, RuleOK, LoopOK, Translated, HealthChecked
<1>7. CASE PoolList
  BY <1>7, ListOK
<1>8. CASE PoolWrite
  BY <1>8, WriteOK
<1>9. CASE PoolWriteLost \/ PoolFails \/ PoolDone
  <2>1. PoolReturns /\ UNCHANGED <<wantedPorts, endpoint, lbRule>> /\ queuedCopy' \in {queuedCopy, Absent}
    BY <1>9 DEF PoolWriteLost, PoolFails, PoolDone, KeepWorld, KeepRule
  <2>2. WorldOK'
    BY <2>1 DEF PInv, WorldOK
  <2> QED BY <2>1, <2>2, Returned
<1>10. CASE TranslatePort
  BY <1>10, TranslateOK
<1>11. CASE EditPorts
  <2>1. wantedPorts' \in PortSpecs
    BY <1>11 DEF EditPorts
  <2>2. UNCHANGED <<endpoint, lbRule, pools, queuedCopy, poolPC, copy, lbPorts, listedPools, turn, said>>
    BY <1>11 DEF EditPorts, KeepRule, poolCall
  <2> QED BY <2>1, <2>2 DEF PInv, WorldOK, RestOK, CallOK, RuleOK, LoopOK, Translated, HealthChecked
<1>12. CASE Rollout
  <2>1. /\ endpoint' \in Targets \cup {Absent}
        /\ poolPC # "rest" => said' = said \cup {endpoint'}
        /\ UNCHANGED <<wantedPorts, lbRule, pools, queuedCopy, poolPC, copy, lbPorts, listedPools, turn>>
    BY <1>12 DEF Rollout, KeepRule, poolCall
  <2>2. CallOK'
    <3> SUFFICES ASSUME poolPC # "rest" PROVE CallOK'
      BY <2>1 DEF CallOK
    <3>1. copy \in WithPorts /\ SaidSo(copy, lbPorts, said)
      BY DEF PInv, CallOK
    <3>2. SaidSo(copy, lbPorts, said \cup {endpoint'})
      BY <3>1, MoreSayings
    <3> QED BY <2>1, <3>1, <3>2 DEF CallOK
  <2> QED BY <2>1, <2>2 DEF PInv, WorldOK, RestOK, RuleOK, LoopOK, Translated, HealthChecked
<1>13. CASE UNCHANGED PoolVars
  <2>1. UNCHANGED <<wantedPorts, endpoint, lbRule, pools, queuedCopy, poolPC, copy, lbPorts, listedPools, turn, said>>
    BY <1>13 DEF PoolVars, poolCall
  <2> QED BY <2>1 DEF PInv, WorldOK, RestOK, CallOK, RuleOK, LoopOK, Translated, HealthChecked
<1> QED BY <1>1, <1>2, <1>3, <1>4, <1>5, <1>6, <1>7, <1>8, <1>9, <1>10, <1>11, <1>12, <1>13
        DEF PoolsNext, EnsureStep, PoolStep
-----------------------------------------------------------------------------
(* The theorems.                                                           *)

\* In every behaviour the rule lists every port once, a call has translated its ports by what
\* the endpoints said while it lasted, the rule it has kept or made routes these, and the
\* ports the worker's loop has passed have their health checks.
THEOREM PoolsInvariant == PoolsSpec => []PInv
BY PInvInit, PInvNext, PTL DEF PoolsSpec

\* A pool update that gets through (updateLoadBalancerPool) leaves the health check the
\* service asks for on the pool of every port, those with named targets included, translated
\* by what the endpoints have said during the update, whatever failed before.
THEOREM PoolUpdatesSettle == PoolsSpec => []PoolsSettled
<1>1. PInv => PoolsSettled
  <2> SUFFICES ASSUME PInv, LoopDone, NEW p \in DOMAIN copy.ports
               PROVE  \E e \in said : /\ portInfo(copy, p, e) \in {lbPorts[i] : i \in DOMAIN lbPorts}
                                      /\ HealthChecked(portInfo(copy, p, e))
    BY DEF PoolsSettled
  <2>1. /\ poolPC = "pools" /\ Translated /\ turn > Len(lbPorts) /\ turn \in Nat
        /\ copy \in WithPorts /\ SaidSo(copy, lbPorts, said)
        /\ \A i \in DOMAIN lbPorts : i < turn => HealthChecked(lbPorts[i])
    BY DEF LoopDone, PInv, CallOK, LoopOK
  <2>2. /\ lbPorts \in Seq(Infos(copy)) /\ Publics(lbPorts) = DOMAIN copy.ports
        /\ \A i \in DOMAIN lbPorts : lbPorts[i].public = sortPorts(copy)[i]
    BY <2>1, TranslationForm DEF Translated, Translation
  <2>3. PICK i \in DOMAIN lbPorts : lbPorts[i].public = p
    BY <2>2 DEF Publics
  <2>4. PICK e \in said : lbPorts[i] = portInfo(copy, p, e)
    BY <2>1, <2>2, <2>3 DEF SaidSo
  <2>5. HealthChecked(lbPorts[i])
    BY <2>1, <2>2
  <2> QED BY <2>4, <2>5
<1> QED BY <1>1, PoolsInvariant, PTL

\* When EnsureLoadBalancer is through, the rule it has kept or made has one route for every
\* public port of the service, and no other, and it leads where the service and the endpoints
\* have said at a moment of the call, though they may change between any two of its steps.
THEOREM RulesRouteWhatIsAsked == PoolsSpec => []EnsuredRoutes
<1>1. PInv => EnsuredRoutes
  <2> SUFFICES ASSUME PInv, poolPC = "push"
               PROVE  /\ lbRule.protocol = copy.protocol
                      /\ {route[1] : route \in Routes(lbRule)} = DOMAIN copy.ports
                      /\ \A p \in DOMAIN copy.ports : \E e \in said :
                            {route \in Routes(lbRule) : route[1] = p}
                               = {<<p, getTargetPort(copy.ports[p].target, e)>>}
    BY DEF EnsuredRoutes
  <2>1. /\ Translated /\ Routes(lbRule) = RoutesOf(lbPorts) /\ lbRule.protocol = copy.protocol
        /\ copy \in WithPorts /\ SaidSo(copy, lbPorts, said)
    BY DEF PInv, CallOK, RuleOK
  <2>2. /\ lbPorts \in Seq(Infos(copy)) /\ Publics(lbPorts) = DOMAIN copy.ports /\ Increasing(lbPorts)
        /\ \A i \in DOMAIN lbPorts : lbPorts[i].public = sortPorts(copy)[i]
    BY <2>1, TranslationForm DEF Translated, Translation
  <2>3. {route[1] : route \in Routes(lbRule)} = DOMAIN copy.ports
    <3>1. {route[1] : route \in RoutesOf(lbPorts)} = Publics(lbPorts)
      <4>1. ASSUME NEW i \in DOMAIN lbPorts
            PROVE  \E route \in RoutesOf(lbPorts) : route[1] = lbPorts[i].public
        <5>1. <<lbPorts[i].public, lbPorts[i].private>> \in RoutesOf(lbPorts)
          BY DEF RoutesOf
        <5> QED BY <5>1
      <4>2. \A route \in RoutesOf(lbPorts) : route[1] \in Publics(lbPorts)
        BY DEF RoutesOf, Publics
      <4> QED BY <4>1, <4>2 DEF Publics
    <3> QED BY <2>1, <2>2, <3>1
  <2>4. ASSUME NEW p \in DOMAIN copy.ports
        PROVE  \E e \in said : {route \in RoutesOf(lbPorts) : route[1] = p}
                                  = {<<p, getTargetPort(copy.ports[p].target, e)>>}
    <3>1. PICK i \in DOMAIN lbPorts : lbPorts[i].public = p
      BY <2>2 DEF Publics
    <3>2. PICK e \in said : lbPorts[i] = portInfo(copy, p, e)
      BY <2>1, <2>2, <3>1 DEF SaidSo
    <3>3. \A j \in DOMAIN lbPorts : lbPorts[j].public = p => j = i
      <4>1. copy \in PortSpecs /\ p \in Nat
        BY <2>1, PortSpecAssumption DEF WithPorts
      <4>2. DOMAIN lbPorts \subseteq Nat
        BY <2>2
      <4> QED BY <2>2, <3>1, <4>1, <4>2 DEF Increasing
    <3>4. <<lbPorts[i].public, lbPorts[i].private>> = <<p, getTargetPort(copy.ports[p].target, e)>>
      BY <3>2 DEF portInfo
    <3> QED BY <3>1, <3>3, <3>4 DEF RoutesOf
  <2> QED BY <2>1, <2>3, <2>4
<1> QED BY <1>1, PoolsInvariant, PTL

\* A rule is deleted to be made anew only if it routes something else than the ports
\* translated to check it: never because CloudStack lists the same ports in another order.
THEOREM RulesReplacedOnlyIfChanged == PoolsSpec => ReplacedOnlyIfChanged
<1> DEFINE Changed == lbRule # Absent /\ lbRule' = Absent =>
                         Routes(lbRule) # RoutesOf(lbPorts) \/ lbRule.protocol # copy.protocol
<1>1. PInv /\ [PoolsNext]_PoolVars => [Changed]_PoolVars
  <2> SUFFICES ASSUME PInv, PoolsNext, lbRule # Absent, lbRule' = Absent
               PROVE  Routes(lbRule) # RoutesOf(lbPorts) \/ lbRule.protocol # copy.protocol
    OBVIOUS
  <2>1. DeleteForPorts
    BY DEF PInv, RuleOK, PoolsNext, EnsureStep, PoolStep, EnsureBegins, CheckPorts, CreatePorts, EnsurePush,
           PoolSkip, PoolList, PoolWrite, PoolWriteLost, PoolDone, TranslatePort, PoolFails, EditPorts,
           Rollout, KeepRule
  <2>2. /\ Translated /\ ~comparePorts(lbPorts, copy.protocol, lbRule) /\ RuleForm(lbRule)
        /\ poolPC # "rest"
    BY <2>1 DEF PInv, RuleOK, WorldOK, DeleteForPorts
  <2>3. copy \in PortSpecs /\ Translation(copy, lbPorts)
    BY <2>2, InHand
  <2> QED BY <2>2, <2>3, ComparePortsIsExact
<1> QED BY <1>1, PoolsInvariant, PTL DEF PoolsSpec, ReplacedOnlyIfChanged
=============================================================================
