------------------------- MODULE SnapshotExportProofs -------------------------
(***************************************************************************)
(* For any graphs, files, names and page size, and any number of exports:  *)
(* the index of a list loses no item; a file that was exported is whole;   *)
(* and what a comparison says of two exports is true of the graphs they    *)
(* are of.  The invariant is that each answer of an export is that of one  *)
(* graph, and that no two graphs were published at the same time.          *)
(***************************************************************************)
EXTENDS SnapshotExport, FiniteSetTheorems, WellFoundedInduction, TLAPS

-----------------------------------------------------------------------------
(* Numbers and finite sets.                                                *)

\* Some numbers have a least one.
LEMMA LeastNumber ==
  ASSUME NEW S \in SUBSET Nat, S # {}
  PROVE  \E n \in S : \A m \in S : n <= m
<1> DEFINE less == {p \in Nat \X Nat : p[1] < p[2]}
<1>1. IsWellFoundedOn(less, Nat)
  BY NatLessThanWellFounded DEF OpToRel
<1>2. \A i, j \in Nat : <<j, i>> \in less <=> j < i
  OBVIOUS
<1> HIDE DEF less
<1>3. PICK n \in S : \A m \in S : <<m, n>> \notin less
  BY <1>1, WFMin
<1>4. \A m \in S : ~(m < n)
  BY <1>2, <1>3
<1> QED
  BY <1>4

\* Induction over the numbers up to a bound, for the set of those that fail.
LEMMA NoneFails ==
  ASSUME NEW n \in Nat, NEW bad \in SUBSET (0..n), 0 \notin bad,
         \A k \in 1..n : k - 1 \notin bad => k \notin bad
  PROVE  bad = {}
<1> SUFFICES ASSUME bad # {} PROVE FALSE
  OBVIOUS
<1>1. bad \in SUBSET Nat
  OBVIOUS
<1>2. PICK k \in bad : \A j \in bad : k <= j
  BY <1>1, LeastNumber
<1>3. k \in 1..n /\ k - 1 \notin bad
  BY <1>2
<1> QED
  BY <1>2, <1>3

\* A finite set and one member more.
LEMMA OneMore ==
  ASSUME NEW S, IsFiniteSet(S), NEW x, x \notin S
  PROVE  IsFiniteSet(S \cup {x}) /\ Cardinality(S \cup {x}) = Cardinality(S) + 1
BY FS_AddElement

\* The values of a function on a finite set are finite in number, as many as
\* its arguments when no two of these have the same, and never more.
LEMMA FiniteRange ==
  ASSUME NEW D, IsFiniteSet(D), NEW f, DOMAIN f = D
  PROVE  /\ IsFiniteSet(Range(f)) /\ Cardinality(Range(f)) <= Cardinality(D)
         /\ (\A x, y \in D : f[x] = f[y] => x = y) => Cardinality(Range(f)) = Cardinality(D)
<1> DEFINE g == [x \in D |-> f[x]]
<1>1. g \in Surjection(D, Range(f))
  BY DEF Surjection, Range
<1>2. (\A x, y \in D : f[x] = f[y] => x = y) => g \in Injection(D, Range(f))
  BY DEF Injection, IsInjective, Range
<1> HIDE DEF g
<1> QED
  BY <1>1, <1>2, FS_Surjection

-----------------------------------------------------------------------------
(* The index of a list.                                                    *)

\* A key that is given to an item is a new one.
LEMMA FreeKeyIsFree ==
  ASSUME NEW taken \in SUBSET Key, IsFiniteSet(taken), NEW key \in Key
  PROVE  FreeKey(key, taken) \in Key \ taken
<1>1. CASE key \notin taken
  BY <1>1 DEF FreeKey
<1>2. CASE key \in taken
  <2> DEFINE N == 2..(Cardinality(taken) + 2)
             free == {n \in N : Append(key, n) \notin taken}
             f == [n \in N |-> Append(key, n)]
  <2>1. Cardinality(taken) \in Nat
    BY FS_CardinalityType
  <2>2. \A n, m \in Int : /\ Append(key, n) \in Key
                          /\ Append(key, n) = Append(key, m) => n = m
    <3> SUFFICES ASSUME NEW n \in Int, NEW m \in Int
                 PROVE  /\ Append(key, n) \in Key
                        /\ Append(key, n) = Append(key, m) => n = m
      OBVIOUS
    <3>1. Append(key, n)[Len(key) + 1] = n /\ Append(key, m)[Len(key) + 1] = m
      BY DEF Key
    <3> QED
      BY <3>1 DEF Key
  <2>3. free # {}
    <3> SUFFICES ASSUME free = {} PROVE FALSE
      OBVIOUS
    <3>1. f \in Injection(N, taken)
      BY <2>1, <2>2 DEF Injection, IsInjective
    <3>2. Cardinality(N) = Cardinality(taken) + 1 /\ IsFiniteSet(N)
      <4>1. \A c \in Nat : Cardinality(2..(c + 2)) = c + 1 /\ IsFiniteSet(2..(c + 2))
        BY FS_Interval, SMTT(30)
      <4> QED
        BY <2>1, <4>1
    <3> HIDE DEF f, N
    <3>3. Cardinality(N) <= Cardinality(taken)
      BY <3>1, FS_Injection
    <3> QED
      BY <2>1, <3>2, <3>3
  <2>4. free \in SUBSET Nat
    BY <2>1
  <2> HIDE DEF free
  <2>5. \E n \in free : \A m \in free : n <= m
    BY <2>3, <2>4, LeastNumber
  <2> DEFINE least == CHOOSE n \in free : \A m \in free : n <= m
  <2>6. least \in free
    BY <2>5
  <2>7. FreeKey(key, taken) = Append(key, least)
    BY <1>2 DEF FreeKey, free
  <2> HIDE DEF least
  <2>8. least \in Int /\ Append(key, least) \notin taken
    BY <2>1, <2>6 DEF free
  <2> QED
    BY <2>2, <2>7, <2>8
<1> QED
  BY <1>1, <1>2

\* The index after n items, from the one after n - 1.
IndexStep(items, g, n) ==
  IF n = 0 THEN [k \in {} |-> NoId]
  ELSE Extended(g[n - 1], FreeKey(ItemKey(items, n), DOMAIN g[n - 1]), items[n].val)

\* The loop over the items has an outcome, and it is the index.
LEMMA IndexSteps ==
  ASSUME NEW items, Len(items) \in Nat
  PROVE  \E g : /\ \A n \in 0..Len(items) : g[n] = IndexStep(items, g, n)
                /\ Index(items) = g[Len(items)]
<1> DEFINE L == Len(items)
           Steps(g, k) == [n \in 0..k |-> IndexStep(items, g, n)]
           Runs(k) == \E g : g = Steps(g, k)
           bad == {k \in 0..L : ~Runs(k)}
<1>1. Runs(0)
  <2> DEFINE g == [n \in 0..0 |-> [k \in {} |-> NoId]]
  <2>1. g = Steps(g, 0)
    BY DEF IndexStep
  <2> HIDE DEF g
  <2> QED
    BY <2>1
<1>2. ASSUME NEW k \in 1..L, Runs(k - 1)
      PROVE  Runs(k)
  <2>1. PICK g : g = Steps(g, k - 1)
    BY <1>2
  <2> DEFINE h == [n \in 0..k |-> IF n < k THEN g[n] ELSE IndexStep(items, g, k)]
  <2>2. \A n \in 0..(k - 1) : g[n] = IndexStep(items, g, n)
    BY <2>1
  <2>3. ASSUME NEW n \in 0..k
        PROVE  h[n] = IndexStep(items, h, n)
    <3>1. n # 0 => n - 1 \in 0..(k - 1) /\ h[n - 1] = g[n - 1]
      OBVIOUS
    <3>2. IndexStep(items, h, n) = IndexStep(items, g, n)
      BY <3>1 DEF IndexStep
    <3>3. CASE n = k
      BY <3>2, <3>3
    <3>4. CASE n # k
      BY <2>2, <3>2, <3>4
    <3> QED
      BY <3>3, <3>4
  <2>4. h = [n \in 0..k |-> h[n]]
    OBVIOUS
  <2> HIDE DEF h
  <2>5. h = Steps(h, k)
    BY <2>3, <2>4
  <2> QED
    BY <2>5
<1>3. bad = {}
  <2> HIDE DEF Runs
  <2>1. bad \in SUBSET (0..L) /\ 0 \notin bad
    BY <1>1
  <2>2. \A k \in 1..L : k - 1 \in 0..L
    OBVIOUS
  <2>3. \A k \in 1..L : k - 1 \notin bad => k \notin bad
    BY <1>2, <2>2
  <2> HIDE DEF bad
  <2> QED
    BY <2>1, <2>3, NoneFails
<1>4. Runs(L)
  <2> HIDE DEF Runs
  <2> QED
    BY <1>3
<1> DEFINE Def(g) == [n \in 0..L |->
                        IF n = 0 THEN [k \in {} |-> NoId]
                        ELSE Extended(g[n - 1], FreeKey(ItemKey(items, n), DOMAIN g[n - 1]),
                                      items[n].val)]
           upTo == CHOOSE g : g = Def(g)
<1>5. Index(items) = upTo[L]
  BY DEF Index
<1>6. \E g : g = Def(g)
  BY <1>4 DEF IndexStep
<1>7. upTo = Def(upTo)
  <2> HIDE DEF Def
  <2> QED
    BY <1>6
<1> HIDE DEF upTo
<1>8. \A n \in 0..L : upTo[n] = IndexStep(items, upTo, n)
  BY <1>7 DEF IndexStep
<1> QED
  BY <1>5, <1>8

\* What items may be: of a file made by hand, or exported.
Items == Seq([id : Key \cup {NoId}, val : Val \X Nat])

\* The key of an item, before collisions.
LEMMA ItemKeyTyped ==
  ASSUME NEW items \in Items, NEW i \in 1..Len(items)
  PROVE  ItemKey(items, i) \in Key /\ (items[i].id # NoId => ItemKey(items, i) = items[i].id)
<1>1. items[i].id \in Key \cup {NoId}
  <2> DEFINE T == [id : Key \cup {NoId}, val : Val \X Nat]
  <2>1. items[i] \in T
    <3>1. items \in Seq(T)
      BY DEF Items
    <3> HIDE DEF T
    <3> QED
      BY <3>1
  <2> QED
    BY <2>1
<1>2. <<Unnamed, i - 1>> \in Key
  <2>1. Unnamed \in Int /\ i - 1 \in Int
    BY DEF Items, Unnamed
  <2> QED
    BY <2>1 DEF Key
<1> QED
  BY <1>1, <1>2 DEF ItemKey

\* The index has a key for each item, whatever their ids are.
LEMMA IndexKeys ==
  ASSUME NEW items \in Items
  PROVE  IsFiniteSet(DOMAIN Index(items)) /\ Cardinality(DOMAIN Index(items)) = Len(items)
<1> DEFINE L == Len(items)
<1>1. L \in Nat
  BY DEF Items
<1>2. PICK g : /\ \A n \in 0..L : g[n] = IndexStep(items, g, n)
               /\ Index(items) = g[L]
  BY <1>1, IndexSteps
<1> DEFINE Counts(n) == /\ DOMAIN g[n] \subseteq Key /\ IsFiniteSet(DOMAIN g[n])
                        /\ Cardinality(DOMAIN g[n]) = n
           bad == {n \in 0..L : ~Counts(n)}
<1>3. Counts(0)
  <2>1. DOMAIN g[0] = {}
    BY <1>1, <1>2 DEF IndexStep
  <2> QED
    BY <2>1, FS_EmptySet
<1>4. ASSUME NEW n \in 1..L, Counts(n - 1)
      PROVE  Counts(n)
  <2> DEFINE taken == DOMAIN g[n - 1]
             key == FreeKey(ItemKey(items, n), taken)
  <2>1. key \in Key \ taken
    BY <1>4, ItemKeyTyped, FreeKeyIsFree
  <2>2. n \in 0..L /\ n # 0
    BY <1>1
  <2>3. g[n] = Extended(g[n - 1], key, items[n].val)
    BY <1>2, <2>2 DEF IndexStep
  <2> HIDE DEF key
  <2>4. DOMAIN g[n] = taken \cup {key}
    BY <2>3 DEF Extended
  <2>5. IsFiniteSet(taken \cup {key}) /\ Cardinality(taken \cup {key}) = (n - 1) + 1
    BY <1>4, <2>1, OneMore
  <2> QED
    BY <1>1, <1>4, <2>1, <2>4, <2>5
<1>5. bad = {}
  <2> HIDE DEF Counts
  <2>1. bad \in SUBSET (0..L) /\ 0 \notin bad
    BY <1>3
  <2>2. \A k \in 1..L : k - 1 \in 0..L
    BY <1>1
  <2>3. \A k \in 1..L : k - 1 \notin bad => k \notin bad
    BY <1>4, <2>2
  <2> HIDE DEF bad
  <2> QED
    BY <1>1, <2>1, <2>3, NoneFails
<1>6. Counts(L)
  <2> HIDE DEF Counts
  <2> QED
    BY <1>1, <1>5
<1> QED
  BY <1>2, <1>6

\* The index of items with ids of their own is by these ids.
LEMMA IndexOfDistinct ==
  ASSUME NEW items \in Items, \A i \in 1..Len(items) : items[i].id # NoId,
         \A i, j \in 1..Len(items) : items[i].id = items[j].id => i = j
  PROVE  /\ DOMAIN Index(items) = {items[i].id : i \in 1..Len(items)}
         /\ \A i \in 1..Len(items) : Index(items)[items[i].id] = items[i].val
<1> DEFINE L == Len(items)
           ids(n) == {items[i].id : i \in 1..n}
<1>1. L \in Nat
  BY DEF Items
<1>2. PICK g : /\ \A n \in 0..L : g[n] = IndexStep(items, g, n)
               /\ Index(items) = g[L]
  BY <1>1, IndexSteps
<1> DEFINE ById(n) == /\ DOMAIN g[n] = ids(n)
                      /\ \A i \in 1..n : g[n][items[i].id] = items[i].val
           bad == {n \in 0..L : ~ById(n)}
<1>3. ById(0)
  BY <1>1, <1>2 DEF IndexStep
<1>4. ASSUME NEW n \in 1..L, ById(n - 1)
      PROVE  ById(n)
  <2>1. ItemKey(items, n) = items[n].id
    BY ItemKeyTyped
  <2>2. items[n].id \notin ids(n - 1)
    BY <1>1
  <2>3. FreeKey(items[n].id, DOMAIN g[n - 1]) = items[n].id
    BY <1>4, <2>2 DEF FreeKey
  <2>4. n \in 0..L /\ n # 0
    BY <1>1
  <2>5. g[n] = Extended(g[n - 1], items[n].id, items[n].val)
    BY <1>2, <2>1, <2>3, <2>4 DEF IndexStep
  <2>6. ids(n) = ids(n - 1) \cup {items[n].id}
    BY <1>1
  <2>7. DOMAIN g[n] = ids(n)
    BY <1>4, <2>5, <2>6 DEF Extended
  <2>8. ASSUME NEW i \in 1..n
        PROVE  g[n][items[i].id] = items[i].val
    <3>1. CASE i = n
      BY <2>5, <3>1 DEF Extended
    <3>2. CASE i # n
      <4>1. i \in 1..(n - 1) /\ items[i].id \in ids(n - 1) /\ items[i].id # items[n].id
        BY <1>1, <2>2, <3>2
      <4> QED
        BY <1>4, <2>5, <4>1 DEF Extended
    <3> QED
      BY <3>1, <3>2
  <2> QED
    BY <2>7, <2>8
<1>5. bad = {}
  <2> HIDE DEF ById
  <2>1. bad \in SUBSET (0..L) /\ 0 \notin bad
    BY <1>3
  <2>2. \A k \in 1..L : k - 1 \in 0..L
    BY <1>1
  <2>3. \A k \in 1..L : k - 1 \notin bad => k \notin bad
    BY <1>4, <2>2
  <2> HIDE DEF bad
  <2> QED
    BY <1>1, <2>1, <2>3, NoneFails
<1>6. ById(L)
  <2> HIDE DEF ById
  <2> QED
    BY <1>1, <1>5
<1> QED
  BY <1>2, <1>6

-----------------------------------------------------------------------------
(* What the API shows.                                                     *)

\* The order of a set has each of its members once.
LEMMA SortedOnce ==
  ASSUME NEW S \in SUBSET Nat, IsFiniteSet(S)
  PROVE  /\ Cardinality(S) \in Nat
         /\ Sorted(S) \in Bijection(1..Cardinality(S), S)
<1> DEFINE n == Cardinality(S)
           upTo(x) == {y \in S : y <= x}
           rank == [x \in S |-> Cardinality(upTo(x))]
<1>1. n \in Nat
  BY FS_CardinalityType
<1>2. ASSUME NEW x \in S
      PROVE  /\ upTo(x) \in SUBSET S /\ x \in upTo(x) /\ IsFiniteSet(upTo(x))
             /\ Cardinality(upTo(x)) \in Nat
  <2>1. upTo(x) \in SUBSET S /\ x \in upTo(x)
    OBVIOUS
  <2> HIDE DEF upTo
  <2> QED
    BY <2>1, FS_Subset, FS_CardinalityType
<1>3. ASSUME NEW x \in S
      PROVE  Cardinality(upTo(x)) \in 1..n
  <2>1. Cardinality(upTo(x)) <= n
    BY <1>2, FS_Subset
  <2>2. Cardinality(upTo(x)) # 0
    BY <1>2, FS_EmptySet
  <2> QED
    BY <1>1, <1>2, <2>1, <2>2
<1>4. ASSUME NEW x \in S, NEW y \in S, x < y
      PROVE  Cardinality(upTo(x)) # Cardinality(upTo(y))
  <2>1. x \in Nat /\ y \in Nat /\ \A z \in S : z \in Nat
    OBVIOUS
  <2>2. ~(y <= x) /\ \A z \in S : z <= x => z <= y
    BY <1>4, <2>1
  <2>3. upTo(x) \in SUBSET upTo(y) /\ y \notin upTo(x)
    BY <2>2
  <2> HIDE DEF upTo
  <2>4. upTo(x) # upTo(y)
    BY <1>2, <2>3
  <2> QED
    BY <1>2, <2>3, <2>4, FS_Subset
<1>5. rank \in Injection(S, 1..n)
  <2>1. rank \in [S -> 1..n]
    BY <1>3
  <2>2. ASSUME NEW x \in S, NEW y \in S, rank[x] = rank[y]
        PROVE  x = y
    <3>1. x \in Nat /\ y \in Nat /\ Cardinality(upTo(x)) = Cardinality(upTo(y))
      BY <2>2
    <3> HIDE DEF upTo
    <3> QED
      BY <1>4, <3>1
  <2> HIDE DEF rank
  <2> QED
    BY <2>1, <2>2 DEF Injection, IsInjective
<1>6. rank \in Surjection(S, 1..n)
  <2>1. IsFiniteSet(1..n) /\ Cardinality(1..n) = n
    BY <1>1, FS_Interval
  <2> HIDE DEF rank
  <2> QED
    BY <1>5, <2>1, FS_Injection
<1>7. \A i \in 1..n : \E x \in S : Cardinality(upTo(x)) = i
  BY <1>6 DEF Surjection
<1>8. \A i \in 1..n : Sorted(S)[i] \in S /\ Cardinality(upTo(Sorted(S)[i])) = i
  BY <1>7 DEF Sorted
<1>9. Sorted(S) \in [1..n -> S]
  BY <1>8 DEF Sorted
<1>10. \A i, j \in 1..n : Sorted(S)[i] = Sorted(S)[j] => i = j
  BY <1>8
<1>11. \A x \in S : \E i \in 1..n : Sorted(S)[i] = x
  <2> SUFFICES ASSUME NEW x \in S
               PROVE  \E i \in 1..n : Sorted(S)[i] = x
    OBVIOUS
  <2> DEFINE i == Cardinality(upTo(x))
             y == Sorted(S)[i]
  <2>1. i \in 1..n /\ y \in S /\ Cardinality(upTo(y)) = i
    BY <1>3, <1>8
  <2>2. rank[y] = rank[x]
    BY <2>1
  <2>3. y = x
    <3> HIDE DEF rank, y, i
    <3> QED
      BY <1>5, <2>1, <2>2 DEF Injection, IsInjective
  <2> QED
    BY <2>1, <2>3
<1> QED
  BY <1>1, <1>9, <1>10, <1>11 DEF Bijection, Injection, Surjection, IsInjective

\* The time an item says it was last observed.
Stamp(l, at) == IF l \in Stamped THEN at ELSE 0

\* A graph's lists are of named items.
LEMMA GraphTyped ==
  ASSUME NEW g \in Graphs, NEW l \in List
  PROVE  /\ g[l] \in [DOMAIN g[l] -> Val]
         /\ DOMAIN g[l] \in SUBSET Nat /\ IsFiniteSet(DOMAIN g[l])
         /\ Cardinality(DOMAIN g[l]) \in Nat
<1> USE SnapshotExportAssumption DEF SnapshotExportAssumption
<1>1. g \in [List -> UNION {[ns -> Val] : ns \in SUBSET Name}]
  OBVIOUS
<1>2. PICK ns \in SUBSET Name : g[l] \in [ns -> Val]
  BY <1>1
<1>3. IsFiniteSet(ns) /\ ns \in SUBSET Nat
  BY FS_Subset
<1> QED
  BY <1>2, <1>3, FS_CardinalityType

\* A page shows items of the list, no two of a name, and all of a short list.
LEMMA PageShows ==
  ASSUME NEW g \in Graphs, NEW l \in List, NEW at \in Nat
  PROVE  LET items == g[l]
             size  == Cardinality(DOMAIN items)
             page  == FirstPage(Shown(l, items, at))
         IN  /\ page \in Items
             /\ Len(page) = IF size < Limit THEN size ELSE Limit
             /\ \A i \in 1..Len(page) : \E k \in DOMAIN items :
                  page[i] = [id |-> <<k>>, val |-> <<items[k], Stamp(l, at)>>]
             /\ \A i, j \in 1..Len(page) : page[i].id = page[j].id => i = j
             /\ size <= Limit =>
                  \A k \in DOMAIN items : \E i \in 1..Len(page) : page[i].id = <<k>>
<1> DEFINE items == g[l]
           size  == Cardinality(DOMAIN items)
           sorted == Sorted(DOMAIN items)
           all == Shown(l, items, at)
           page == FirstPage(all)
           ItemOf(k) == [id |-> <<k>>, val |-> <<items[k], Stamp(l, at)>>]
           T == [id : Key \cup {NoId}, val : Val \X Nat]
<1>1. /\ items \in [DOMAIN items -> Val] /\ DOMAIN items \in SUBSET Nat
      /\ IsFiniteSet(DOMAIN items) /\ size \in Nat
  BY GraphTyped
<1>2. sorted \in Bijection(1..size, DOMAIN items)
  BY <1>1, SortedOnce
<1>3. /\ sorted \in [1..size -> DOMAIN items]
      /\ \A i, j \in 1..size : sorted[i] = sorted[j] => i = j
      /\ \A k \in DOMAIN items : \E i \in 1..size : sorted[i] = k
  BY <1>2 DEF Bijection, Injection, Surjection, IsInjective
<1>4. all = [i \in 1..size |-> ItemOf(sorted[i])]
  BY <1>3 DEF Shown, Stamp
<1>5. \A k \in DOMAIN items : ItemOf(k) \in T /\ ItemOf(k).id = <<k>>
  <2> SUFFICES ASSUME NEW k \in DOMAIN items PROVE ItemOf(k) \in T /\ ItemOf(k).id = <<k>>
    OBVIOUS
  <2>1. k \in Int /\ items[k] \in Val /\ Stamp(l, at) \in Nat
    BY <1>1 DEF Stamp
  <2>2. <<k>> \in Key
    BY <2>1 DEF Key
  <2> QED
    BY <2>1, <2>2
<1>6. all \in Seq(T) /\ Len(all) = size
  <2> HIDE DEF T, ItemOf, sorted, all, size
  <2>1. all \in [1..size -> T]
    BY <1>3, <1>4, <1>5
  <2> HIDE DEF all
  <2> QED
    BY <1>1, <2>1
<1> DEFINE n == IF size < Limit THEN size ELSE Limit
<1>7. n \in Nat /\ n <= size /\ n <= Limit /\ (size <= Limit => n = size)
  BY <1>1, SnapshotExportAssumption DEF SnapshotExportAssumption
<1>8. page = SubSeq(all, 1, n)
  <2> HIDE DEF all
  <2> QED
    BY <1>6 DEF FirstPage
<1>9. page \in Seq(T) /\ Len(page) = n /\ \A i \in 1..n : page[i] = all[i]
  <2> HIDE DEF all, T, n, page
  <2> QED
    BY <1>6, <1>7, <1>8
<1> HIDE DEF page, all, T, sorted, ItemOf
<1>10. \A i \in 1..n : i \in 1..size
  BY <1>1, <1>7
<1> HIDE DEF n, size
<1>11. \A i \in 1..n : i \in 1..size /\ page[i] = ItemOf(sorted[i]) /\ sorted[i] \in DOMAIN items
  BY <1>3, <1>4, <1>9, <1>10
<1>12. \A i \in 1..n : page[i].id = <<sorted[i]>>
  BY <1>11, <1>5
<1>13. \A i, j \in 1..n : page[i].id = page[j].id => i = j
  <2> SUFFICES ASSUME NEW i \in 1..n, NEW j \in 1..n, page[i].id = page[j].id
               PROVE  i = j
    OBVIOUS
  <2>1. <<sorted[i]>> = <<sorted[j]>>
    BY <1>12
  <2>2. sorted[i] = sorted[j]
    BY <2>1
  <2> QED
    BY <1>3, <1>11, <2>2
<1>14. size <= Limit => \A k \in DOMAIN items : \E i \in 1..n : page[i].id = <<k>>
  BY <1>3, <1>7, <1>12
<1>15. page \in Items
  BY <1>9 DEF Items, T
<1>16. \A i \in 1..n : \E k \in DOMAIN items : page[i] = ItemOf(k)
  BY <1>11
<1> QED
  BY <1>9, <1>13, <1>14, <1>15, <1>16 DEF n, size, page, all, ItemOf

\* The index of a page is by the names that it shows.
LEMMA IndexOfPage ==
  ASSUME NEW g \in Graphs, NEW l \in List, NEW at \in Nat
  PROVE  LET index == Index(FirstPage(Shown(l, g[l], at)))
         IN  \E ns \in SUBSET DOMAIN g[l] :
               /\ DOMAIN index = {<<k>> : k \in ns}
               /\ \A k \in ns : index[<<k>>] = <<g[l][k], Stamp(l, at)>>
               /\ Cardinality(DOMAIN g[l]) <= Limit => ns = DOMAIN g[l]
<1> DEFINE items == g[l]
           page == FirstPage(Shown(l, items, at))
           index == Index(page)
           n == Len(page)
           ns == {k \in DOMAIN items : \E i \in 1..n : page[i].id = <<k>>}
<1>1. /\ page \in Items
      /\ \A i \in 1..n : \E k \in DOMAIN items :
           page[i] = [id |-> <<k>>, val |-> <<items[k], Stamp(l, at)>>]
      /\ \A i, j \in 1..n : page[i].id = page[j].id => i = j
      /\ Cardinality(DOMAIN items) <= Limit =>
           \A k \in DOMAIN items : \E i \in 1..n : page[i].id = <<k>>
  BY PageShows
<1>2. DOMAIN items \in SUBSET Nat
  BY GraphTyped
<1> HIDE DEF page, index
<1>3. \A i \in 1..n : \E k \in DOMAIN items : page[i].id = <<k>>
  <2> SUFFICES ASSUME NEW i \in 1..n PROVE \E k \in DOMAIN items : page[i].id = <<k>>
    OBVIOUS
  <2>1. PICK k \in DOMAIN items : page[i] = [id |-> <<k>>, val |-> <<items[k], Stamp(l, at)>>]
    BY <1>1
  <2> QED
    BY <2>1
<1>4. \A i \in 1..n : page[i].id # NoId
  <2> SUFFICES ASSUME NEW i \in 1..n PROVE page[i].id # NoId
    OBVIOUS
  <2>1. PICK k \in DOMAIN items : page[i].id = <<k>>
    BY <1>3
  <2>2. k \in Int
    BY <1>2
  <2>3. <<k>> \in Key
    BY <2>2 DEF Key
  <2> QED
    BY <2>1, <2>3, NoIdAssumption
<1>5. /\ DOMAIN index = {page[i].id : i \in 1..n}
      /\ \A i \in 1..n : index[page[i].id] = page[i].val
  BY <1>1, <1>4, IndexOfDistinct DEF index
<1>6. DOMAIN index = {<<k>> : k \in ns}
  BY <1>5, <1>3
<1>7. ASSUME NEW k \in ns
      PROVE  index[<<k>>] = <<items[k], Stamp(l, at)>>
  <2>1. PICK i \in 1..n : page[i].id = <<k>>
    OBVIOUS
  <2>2. PICK m \in DOMAIN items : page[i] = [id |-> <<m>>, val |-> <<items[m], Stamp(l, at)>>]
    BY <1>1
  <2>3. m = k
    BY <2>1, <2>2
  <2> QED
    BY <1>5, <2>1, <2>2, <2>3
<1>8. Cardinality(DOMAIN items) <= Limit => ns = DOMAIN items
  BY <1>1
<1>9. ns \in SUBSET DOMAIN items
  OBVIOUS
<1> HIDE DEF ns
<1> QED
  BY <1>6, <1>7, <1>8, <1>9 DEF index, page

-----------------------------------------------------------------------------
(* The invariant.                                                          *)

\* The answer that a graph gives to one request at one time.
Given(r, source) ==
  IF r = "config" THEN [l \in List |-> Cardinality(DOMAIN source.graph[l])]
  ELSE FirstPage(Shown(r, source.graph[r], source.at))

\* Each answer is that of one graph that was published since the export began.
Whole(parts, from, since, now) ==
  /\ since \in 1..now
  /\ DOMAIN from = DOMAIN parts
  /\ \A r \in DOMAIN from : /\ from[r] \in [graph : Graphs, at : since..now]
                            /\ parts[r] = Given(r, from[r])

JobInv ==
  job # Idle =>
    /\ job = [at |-> job.at, out |-> job.out, inc |-> job.inc, parts |-> job.parts,
              from |-> job.from, since |-> job.since]
    /\ job.at \in {"asking", "writing"}
    /\ job.out \in File
    /\ job.inc \in Includes
    /\ DOMAIN job.parts \subseteq Range(job.inc)
    /\ job.at = "writing" => DOMAIN job.parts = Range(job.inc)
    /\ Whole(job.parts, job.from, job.since, stamp)

IsHandMade(f) == f.parts \in HandMade /\ f = [parts |-> f.parts, export |-> FALSE]

IsExport(f) ==
  /\ f = [parts |-> f.parts, export |-> TRUE, asked |-> f.asked, from |-> f.from,
          since |-> f.since]
  /\ \E inc \in Includes : f.asked = Range(inc)
  /\ DOMAIN f.parts = f.asked
  /\ Whole(f.parts, f.from, f.since, stamp)

FileInv ==
  /\ DOMAIN file = File
  /\ \A n \in File : Readable(file[n]) => IsHandMade(file[n]) \/ IsExport(file[n])

ExportInv ==
  /\ graph \in Graphs
  /\ stamp \in 1..MaxPublications + 1
  /\ writes \in 0..MaxWrites
  /\ JobInv
  /\ FileInv

\* The graphs that an answer somewhere is of, each with its time; and the
\* published one.
Current == [graph |-> graph, at |-> stamp]

Known ==
  {Current} \cup (IF job = Idle THEN {} ELSE Range(job.from))
            \cup UNION {IF Exported(file[n]) THEN Range(file[n].from) ELSE {} : n \in File}

\* Two graphs of the same time are the same.
StampsIdentify ==
  \A s, t \in Known : s.at \in 1..stamp /\ (s.at = t.at => s.graph = t.graph)

-----------------------------------------------------------------------------
(* It is preserved.                                                        *)

\* An export that has not every answer has a resource to ask for.
LEMMA MoreToAsk ==
  ASSUME JobInv, job # Idle, Asking
  PROVE  NextResource \in Range(job.inc)
<1> DEFINE inc == job.inc
           have == DOMAIN job.parts
<1>1. inc \in Seq(List \cup {"config"})
  BY SnapshotExportAssumption DEF SnapshotExportAssumption, JobInv
<1> DEFINE n == Len(inc)
<1>2. DOMAIN inc = 1..n /\ n \in Nat
  BY <1>1
<1> HIDE DEF inc, n
<1>3. IsFiniteSet(1..n) /\ Cardinality(1..n) = n
  BY <1>2, FS_Interval
<1>4. IsFiniteSet(Range(inc)) /\ Cardinality(Range(inc)) <= n
  BY <1>2, <1>3, FiniteRange
<1>5. have \in SUBSET Range(inc) /\ have # Range(inc)
  BY DEF JobInv, Asking, inc
<1> HIDE DEF have
<1>6. /\ IsFiniteSet(have) /\ Cardinality(have) <= Cardinality(Range(inc))
      /\ Cardinality(have) # Cardinality(Range(inc))
  BY <1>4, <1>5, FS_Subset
<1>7. Cardinality(have) \in Nat /\ Cardinality(Range(inc)) \in Nat
  BY <1>4, <1>6, FS_CardinalityType
<1>8. Cardinality(have) + 1 \in DOMAIN inc
  BY <1>2, <1>4, <1>6, <1>7
<1>9. inc[Cardinality(have) + 1] \in Range(inc)
  BY <1>8 DEF Range
<1> QED
  BY <1>9 DEF NextResource, inc, have

\* A later publication takes nothing from answers that were given.
LEMMA WholeLater ==
  ASSUME NEW parts, NEW from, NEW since, NEW now \in Nat, NEW later \in Nat,
         Whole(parts, from, since, now), now <= later
  PROVE  Whole(parts, from, since, later)
<1>1. since \in 1..later /\ since..now \subseteq since..later
  BY DEF Whole
<1>2. ASSUME NEW r \in DOMAIN from
      PROVE  from[r] \in [graph : Graphs, at : since..later]
  <2>1. from[r] \in [graph : Graphs, at : since..now]
    BY DEF Whole
  <2> QED
    BY <1>1, <2>1
<1> QED
  BY <1>1, <1>2 DEF Whole

\* The files, when a graph may have been published.
LEMMA FilesLater ==
  ASSUME FileInv, UNCHANGED file, stamp \in Nat, stamp' \in Nat, stamp <= stamp'
  PROVE  FileInv'
<1> SUFFICES ASSUME NEW n \in File, Readable(file[n])
             PROVE  (IsHandMade(file[n]) \/ IsExport(file[n]))'
  BY DEF FileInv
<1>1. CASE IsHandMade(file[n])
  BY <1>1 DEF IsHandMade
<1>2. CASE IsExport(file[n])
  <2>1. Whole(file[n].parts, file[n].from, file[n].since, stamp')
    BY <1>2, WholeLater DEF IsExport
  <2> QED
    BY <1>2, <2>1 DEF IsExport
<1> QED
  BY <1>1, <1>2 DEF FileInv

\* And the job.
LEMMA JobLater ==
  ASSUME JobInv, UNCHANGED job, stamp \in Nat, stamp' \in Nat, stamp <= stamp'
  PROVE  JobInv'
<1>1. CASE job = Idle
  BY <1>1 DEF JobInv
<1>2. CASE job # Idle
  <2>1. Whole(job.parts, job.from, job.since, stamp')
    BY <1>2, WholeLater DEF JobInv
  <2> QED
    BY <1>2, <2>1 DEF JobInv
<1> QED
  BY <1>1, <1>2

\* The files, when one of them is written.
LEMMA FileWritten ==
  ASSUME FileInv, stamp' = stamp, NEW n \in File, NEW f,
         file' = [file EXCEPT ![n] = f], Readable(f) => IsHandMade(f) \/ IsExport(f)
  PROVE  FileInv'
<1>1. DOMAIN file' = File /\ \A m \in File : file'[m] = IF m = n THEN f ELSE file[m]
  BY DEF FileInv
<1>2. (Readable(f) => IsHandMade(f) \/ IsExport(f))'
  BY DEF Readable, IsHandMade, IsExport
<1> SUFFICES ASSUME NEW m \in File, Readable(file'[m])
             PROVE  (IsHandMade(file[m]) \/ IsExport(file[m]))'
  BY <1>1 DEF FileInv, Readable
<1>3. CASE m = n
  BY <1>1, <1>3 DEF Readable, IsHandMade, IsExport
<1>4. CASE m # n
  BY <1>1, <1>4 DEF FileInv, Readable, IsHandMade, IsExport
<1> QED
  BY <1>3, <1>4

\* What a job is made of.
JobOf(at, out, inc, parts, from, since) ==
  [at |-> at, out |-> out, inc |-> inc, parts |-> parts, from |-> from, since |-> since]

LEMMA JobParts ==
  ASSUME NEW at, NEW out, NEW inc, NEW parts, NEW from, NEW since,
         NEW j, j = JobOf(at, out, inc, parts, from, since)
  PROVE  /\ j.at = at /\ j.out = out /\ j.inc = inc
         /\ j.parts = parts /\ j.from = from /\ j.since = since
BY DEF JobOf

\* An answer is added to those of a job.
LEMMA AnswerAdded ==
  ASSUME ExportInv, job # Idle, Receive
  PROVE  JobInv'
<1> DEFINE r == NextResource
           parts == Extended(job.parts, r, Answer(r))
           from == Extended(job.from, r, Current)
<1>1. r \in Range(job.inc)
  BY MoreToAsk DEF ExportInv, Receive
<1>2. job' = [job EXCEPT !.parts = parts, !.from = from] /\ stamp' = stamp
  BY DEF Receive, Current
<1>3. Answer(r) = Given(r, Current)
  BY DEF Answer, Given, Current
<1>4. DOMAIN parts = DOMAIN job.parts \cup {r} /\ DOMAIN from = DOMAIN job.from \cup {r}
  BY DEF Extended
<1>5. Whole(job.parts, job.from, job.since, stamp) /\ stamp \in Nat
  BY DEF ExportInv, JobInv
<1>6. Current \in [graph : Graphs, at : job.since..stamp]
  BY <1>5 DEF ExportInv, Current, Whole
<1>7. ASSUME NEW q \in DOMAIN from
      PROVE  from[q] \in [graph : Graphs, at : job.since..stamp] /\ parts[q] = Given(q, from[q])
  <2>1. CASE q = r
    <3>1. from[q] = Current /\ parts[q] = Answer(r)
      BY <1>4, <2>1 DEF Extended
    <3> QED
      BY <1>3, <1>6, <2>1, <3>1
  <2>2. CASE q # r
    <3>1. q \in DOMAIN job.from /\ q \in DOMAIN job.parts
      BY <1>4, <1>5, <2>2 DEF Whole
    <3>2. from[q] = job.from[q] /\ parts[q] = job.parts[q]
      BY <2>2, <3>1 DEF Extended
    <3> QED
      BY <1>5, <3>1, <3>2 DEF Whole
  <2> QED
    BY <2>1, <2>2
<1>8. Whole(parts, from, job.since, stamp)
  <2> HIDE DEF parts, from
  <2> QED
    BY <1>4, <1>5, <1>7 DEF Whole
<1>9. job = JobOf("asking", job.out, job.inc, job.parts, job.from, job.since)
  BY DEF ExportInv, JobInv, Receive, Asking, JobOf
<1>10. DOMAIN parts \subseteq Range(job.inc)
  BY <1>1, <1>4 DEF ExportInv, JobInv
<1>11. job.out \in File /\ job.inc \in Includes
  BY DEF ExportInv, JobInv
<1> HIDE DEF parts, from
<1>12. job' = JobOf("asking", job.out, job.inc, parts, from, job.since)
  <2>1. PICK out, inc, ps, fr, since : job = JobOf("asking", out, inc, ps, fr, since)
    BY <1>9
  <2>2. job.out = out /\ job.inc = inc /\ job.since = since
    BY <2>1, JobParts
  <2> DEFINE k == [job EXCEPT !.parts = parts]
  <2>3. job' = [k EXCEPT !.from = from]
    BY <1>2
  <2>4. k = JobOf("asking", out, inc, parts, fr, since)
    BY <2>1 DEF JobOf
  <2>5. [k EXCEPT !.from = from] = JobOf("asking", out, inc, parts, from, since)
    <3> HIDE DEF k
    <3> QED
      BY <2>4 DEF JobOf
  <2> QED
    BY <2>2, <2>3, <2>5
<1>13. /\ job'.at = "asking" /\ job'.out = job.out /\ job'.inc = job.inc
       /\ job'.parts = parts /\ job'.from = from /\ job'.since = job.since
  BY <1>12, JobParts
<1>14. job' = [at |-> job'.at, out |-> job'.out, inc |-> job'.inc, parts |-> job'.parts,
               from |-> job'.from, since |-> job'.since]
  BY <1>12, <1>13 DEF JobOf
<1> QED
  BY <1>2, <1>8, <1>10, <1>11, <1>13, <1>14 DEF JobInv

\* The invariant holds.
LEMMA InitExport == Init => ExportInv
<1> SUFFICES ASSUME Init PROVE ExportInv
  OBVIOUS
<1>1. JobInv
  BY DEF Init, JobInv
<1>2. FileInv
  BY DEF Init, FileInv, Readable
<1> QED
  BY <1>1, <1>2, SnapshotExportAssumption DEF Init, ExportInv, SnapshotExportAssumption

LEMMA NextExport == ExportInv /\ [Next]_vars => ExportInv'
<1> SUFFICES ASSUME ExportInv, [Next]_vars PROVE ExportInv'
  OBVIOUS
<1> USE SnapshotExportAssumption DEF SnapshotExportAssumption
<1>1. stamp \in Nat /\ stamp \in 1..MaxPublications + 1
  BY DEF ExportInv
<1>2. JobInv /\ FileInv
  BY DEF ExportInv
<1>3. ASSUME NEW g \in Graphs, Publish(g)
      PROVE  ExportInv'
  <2>1. stamp' \in 1..MaxPublications + 1 /\ stamp' \in Nat /\ stamp <= stamp'
    BY <1>1, <1>3 DEF Publish
  <2>2. UNCHANGED <<job, file, writes>> /\ graph' \in Graphs
    BY <1>3 DEF Publish
  <2>3. JobInv' /\ FileInv'
    BY <1>1, <1>2, <2>1, <2>2, JobLater, FilesLater
  <2> QED
    BY <2>1, <2>2, <2>3 DEF ExportInv
<1>4. ASSUME NEW f \in File, NEW lists \in HandMade, Edit(f, lists)
      PROVE  ExportInv'
  <2>1. /\ UNCHANGED <<graph, stamp, job>> /\ writes' \in 0..MaxWrites
        /\ file' = [file EXCEPT ![f] = [parts |-> lists, export |-> FALSE]]
    BY <1>4 DEF Edit, ExportInv
  <2>2. IsHandMade([parts |-> lists, export |-> FALSE])
    BY DEF IsHandMade
  <2>3. FileInv'
    BY <1>2, <2>1, <2>2, FileWritten
  <2>4. JobInv'
    BY <1>1, <1>2, <2>1, JobLater
  <2> QED
    BY <2>1, <2>3, <2>4 DEF ExportInv
<1>5. ASSUME NEW f \in File, NEW inc \in Includes, Begin(f, inc)
      PROVE  ExportInv'
  <2> DEFINE none == [r \in {} |-> 0]
  <2>1. /\ UNCHANGED <<graph, stamp, file>> /\ writes' \in 0..MaxWrites
        /\ job' = JobOf("asking", f, inc, none, none, stamp)
    BY <1>5 DEF Begin, ExportInv, JobOf
  <2>2. DOMAIN none = {}
    OBVIOUS
  <2> HIDE DEF none
  <2>3. /\ job'.at = "asking" /\ job'.out = f /\ job'.inc = inc
        /\ job'.parts = none /\ job'.from = none /\ job'.since = stamp
    BY <2>1, JobParts
  <2>4. job' = [at |-> job'.at, out |-> job'.out, inc |-> job'.inc, parts |-> job'.parts,
                from |-> job'.from, since |-> job'.since]
    BY <2>1, <2>3 DEF JobOf
  <2>5. Whole(none, none, stamp, stamp')
    BY <1>1, <2>1, <2>2 DEF Whole
  <2>6. JobInv'
    BY <2>2, <2>3, <2>4, <2>5 DEF JobInv
  <2>7. FileInv'
    BY <1>1, <1>2, <2>1, FilesLater
  <2> QED
    BY <2>1, <2>6, <2>7 DEF ExportInv
<1>6. ASSUME Receive
      PROVE  ExportInv'
  <2>1. UNCHANGED <<graph, stamp, file, writes>> /\ job # Idle
    BY <1>6 DEF Receive, Asking, Idle
  <2>2. JobInv'
    BY <1>6, <2>1, AnswerAdded
  <2>3. FileInv'
    BY <1>1, <1>2, <2>1, FilesLater
  <2> QED
    BY <2>1, <2>2, <2>3 DEF ExportInv
<1>7. ASSUME RequestFails \/ Abort
      PROVE  ExportInv'
  <2>1. UNCHANGED <<graph, stamp, file, writes>> /\ job' = Idle
    BY <1>7 DEF RequestFails, Abort
  <2>2. FileInv'
    BY <1>1, <1>2, <2>1, FilesLater
  <2> QED
    BY <2>1, <2>2 DEF ExportInv, JobInv
<1>8. ASSUME OpenOutput
      PROVE  ExportInv'
  <2>1. /\ UNCHANGED <<graph, stamp, writes>> /\ job.at = "asking" /\ job # Idle
        /\ DOMAIN job.parts = Range(job.inc) /\ job' = [job EXCEPT !.at = "writing"]
    BY <1>8 DEF OpenOutput, Asking, Idle
  <2>2. file' = [file EXCEPT ![job.out] = Torn] /\ job.out \in File
    BY <1>2, <1>8, <2>1 DEF OpenOutput, JobInv
  <2>3. FileInv'
    BY <1>2, <2>1, <2>2, FileWritten DEF Readable
  <2>4. job = JobOf("asking", job.out, job.inc, job.parts, job.from, job.since)
    BY <1>2, <2>1 DEF JobInv, JobOf
  <2>5. PICK out, inc, ps, fr, since : job = JobOf("asking", out, inc, ps, fr, since)
    BY <2>4
  <2>6. job' = JobOf("writing", out, inc, ps, fr, since)
    BY <2>1, <2>5 DEF JobOf
  <2>7. /\ job.out = out /\ job.inc = inc /\ job.parts = ps /\ job.from = fr /\ job.since = since
        /\ job'.at = "writing" /\ job'.out = out /\ job'.inc = inc
        /\ job'.parts = ps /\ job'.from = fr /\ job'.since = since
    BY <2>5, <2>6, JobParts
  <2>8. job' = [at |-> job'.at, out |-> job'.out, inc |-> job'.inc, parts |-> job'.parts,
                from |-> job'.from, since |-> job'.since]
    BY <2>6, <2>7 DEF JobOf
  <2>9. JobInv'
    BY <1>2, <2>1, <2>7, <2>8 DEF JobInv
  <2> QED
    BY <2>1, <2>3, <2>9 DEF ExportInv
<1>9. ASSUME WriteOutput
      PROVE  ExportInv'
  <2> DEFINE f == [parts |-> job.parts, export |-> TRUE, asked |-> Range(job.inc),
                   from |-> job.from, since |-> job.since]
  <2>1. /\ UNCHANGED <<graph, stamp, writes>> /\ job.at = "writing" /\ job # Idle
        /\ job' = Idle /\ file' = [file EXCEPT ![job.out] = f]
    BY <1>9 DEF WriteOutput, Idle
  <2>2. /\ job.out \in File /\ job.inc \in Includes
        /\ DOMAIN job.parts = Range(job.inc)
        /\ Whole(job.parts, job.from, job.since, stamp)
    BY <1>2, <2>1 DEF JobInv
  <2>3. IsExport(f)
    BY <2>2 DEF IsExport
  <2> HIDE DEF f
  <2>4. FileInv'
    BY <1>2, <2>1, <2>2, <2>3, FileWritten
  <2> QED
    BY <2>1, <2>4 DEF ExportInv, JobInv
<1>10. ASSUME UNCHANGED vars
       PROVE  ExportInv'
  <2>1. UNCHANGED <<graph, stamp, file, job, writes>>
    BY <1>10 DEF vars
  <2>2. JobInv' /\ FileInv'
    BY <1>1, <1>2, <2>1, JobLater, FilesLater
  <2> QED
    BY <2>1, <2>2 DEF ExportInv
<1> QED
  BY <1>3, <1>4, <1>5, <1>6, <1>7, <1>8, <1>9, <1>10 DEF Next

LEMMA ExportsHold == Spec => []ExportInv
BY InitExport, NextExport, PTL DEF Spec

\* A step makes no graph known but the published one.
LEMMA KnownGrows ==
  ASSUME ExportInv, [Next]_vars
  PROVE  Known' \subseteq Known \cup {Current'}
<1>1. ASSUME UNCHANGED <<file, job>>
      PROVE  Known' \subseteq Known \cup {Current'}
  BY <1>1 DEF Known, Exported, Readable
<1>2. ASSUME UNCHANGED <<graph, stamp>>, NEW n \in File, NEW f,
             file' = [file EXCEPT ![n] = f], job' = Idle \/ Range(job'.from) = Range(job.from),
             job' # Idle => job # Idle,
             Exported(f) => job # Idle /\ Range(f.from) = Range(job.from)
      PROVE  Known' \subseteq Known \cup {Current'}
  <2>1. Current' = Current
    BY <1>2 DEF Current
  <2>2. DOMAIN file' = File /\ \A m \in File : file'[m] = IF m = n THEN f ELSE file[m]
    BY <1>2 DEF ExportInv, FileInv
  <2> SUFFICES ASSUME NEW s \in Known' PROVE s \in Known
    OBVIOUS
  <2>3. CASE s = Current'
    BY <2>1, <2>3 DEF Known
  <2>4. CASE job' # Idle /\ s \in Range(job'.from)
    BY <1>2, <2>4 DEF Known
  <2>5. ASSUME NEW m \in File, Exported(file'[m]), s \in Range(file'[m].from)
        PROVE  s \in Known
    <3>1. CASE m = n
      BY <1>2, <2>2, <2>5, <3>1 DEF Known
    <3>2. CASE m # n
      BY <2>2, <2>5, <3>2 DEF Known
    <3> QED
      BY <3>1, <3>2
  <2> QED
    BY <2>3, <2>4, <2>5 DEF Known, Exported, Readable
<1>3. ASSUME UNCHANGED <<graph, stamp, file>>,
             job' = Idle \/ Range(job'.from) \subseteq {Current}
               \/ (job # Idle /\ Range(job'.from) \subseteq Range(job.from) \cup {Current})
      PROVE  Known' \subseteq Known \cup {Current'}
  BY <1>3 DEF Known, Current, Exported, Readable
<1>4. ASSUME NEW g \in Graphs, Publish(g)
      PROVE  Known' \subseteq Known \cup {Current'}
  BY <1>1, <1>4 DEF Publish
<1>5. ASSUME NEW n \in File, NEW lists \in HandMade, Edit(n, lists)
      PROVE  Known' \subseteq Known \cup {Current'}
  <2> DEFINE f == [parts |-> lists, export |-> FALSE]
  <2>1. ~Exported(f)
    BY DEF Exported
  <2>2. /\ UNCHANGED <<graph, stamp>> /\ file' = [file EXCEPT ![n] = f]
        /\ job' = Idle /\ ~(job' # Idle)
    BY <1>5 DEF Edit
  <2> HIDE DEF f
  <2> QED
    BY <1>2, <2>1, <2>2
<1>6. ASSUME NEW f \in File, NEW inc \in Includes, Begin(f, inc)
      PROVE  Known' \subseteq Known \cup {Current'}
  <2>1. UNCHANGED <<graph, stamp, file>>
    BY <1>6 DEF Begin
  <2>2. Range(job'.from) = {}
    <3>1. job'.from = [r \in {} |-> 0]
      BY <1>6 DEF Begin
    <3> QED
      BY <3>1 DEF Range
  <2> QED
    BY <1>3, <2>1, <2>2
<1>7. ASSUME Receive
      PROVE  Known' \subseteq Known \cup {Current'}
  <2> DEFINE r == NextResource
  <2>1. UNCHANGED <<graph, stamp, file>> /\ job # Idle
    BY <1>7 DEF Receive, Asking, Idle
  <2>2. job'.from = Extended(job.from, r, Current)
    <3> DEFINE ps == Extended(job.parts, r, Answer(r))
               fr == Extended(job.from, r, Current)
               k == [job EXCEPT !.parts = ps]
    <3>1. job' = [k EXCEPT !.from = fr]
      BY <1>7 DEF Receive, Current
    <3>2. "from" \in DOMAIN job
      <4>1. job = JobOf(job.at, job.out, job.inc, job.parts, job.from, job.since)
        BY <2>1 DEF ExportInv, JobInv, JobOf
      <4>2. PICK at, out, inc, p, f, since : job = JobOf(at, out, inc, p, f, since)
        BY <4>1
      <4> QED
        BY <4>2 DEF JobOf
    <3>3. "from" \in DOMAIN k
      BY <3>2
    <3> HIDE DEF k, fr
    <3>4. job'.from = fr
      BY <3>1, <3>3
    <3> QED
      BY <3>4 DEF fr
  <2> HIDE DEF r
  <2>3. Range(job'.from) \subseteq Range(job.from) \cup {Current}
    BY <2>2 DEF Range, Extended
  <2> QED
    BY <1>3, <2>1, <2>3
<1>8. ASSUME RequestFails \/ Abort
      PROVE  Known' \subseteq Known \cup {Current'}
  BY <1>3, <1>8 DEF RequestFails, Abort
<1>9. ASSUME OpenOutput
      PROVE  Known' \subseteq Known \cup {Current'}
  <2>1. /\ UNCHANGED <<graph, stamp>> /\ job # Idle
        /\ file' = [file EXCEPT ![job.out] = Torn] /\ job' = [job EXCEPT !.at = "writing"]
    BY <1>9 DEF OpenOutput, Idle
  <2>2. job.out \in File
    BY <2>1 DEF ExportInv, JobInv
  <2>3. job'.from = job.from
    BY <2>1
  <2>4. ~Exported(Torn)
    BY DEF Exported, Readable
  <2> QED
    BY <1>2, <2>1, <2>2, <2>3, <2>4
<1>10. ASSUME WriteOutput
       PROVE  Known' \subseteq Known \cup {Current'}
  <2> DEFINE f == [parts |-> job.parts, export |-> TRUE, asked |-> Range(job.inc),
                   from |-> job.from, since |-> job.since]
  <2>1. /\ UNCHANGED <<graph, stamp>> /\ job # Idle /\ job' = Idle /\ ~(job' # Idle)
        /\ file' = [file EXCEPT ![job.out] = f]
    BY <1>10 DEF WriteOutput, Idle
  <2>2. job.out \in File /\ f.from = job.from
    BY <2>1 DEF ExportInv, JobInv
  <2> HIDE DEF f
  <2> QED
    BY <1>2, <2>1, <2>2
<1>11. ASSUME UNCHANGED vars
       PROVE  Known' \subseteq Known \cup {Current'}
  BY <1>1, <1>11 DEF vars
<1> QED
  BY <1>4, <1>5, <1>6, <1>7, <1>8, <1>9, <1>10, <1>11 DEF Next

\* No two graphs of one time are known: each publication has a time of its own.
LEMMA StampsHold == Spec => []StampsIdentify
<1>1. Init => StampsIdentify
  <2> SUFFICES ASSUME Init PROVE StampsIdentify
    OBVIOUS
  <2>1. \A n \in File : ~Exported(file[n])
    BY DEF Init, Exported, Readable
  <2>2. Known = {Current}
    BY <2>1 DEF Init, Known
  <2> QED
    BY <2>2 DEF Init, StampsIdentify, Current
<1>2. ExportInv /\ StampsIdentify /\ [Next]_vars => StampsIdentify'
  <2> SUFFICES ASSUME ExportInv, StampsIdentify, [Next]_vars PROVE StampsIdentify'
    OBVIOUS
  <2>1. Known' \subseteq Known \cup {Current'}
    BY KnownGrows
  <2>2. Current' = [graph |-> graph', at |-> stamp'] /\ stamp \in Nat /\ stamp >= 1
    BY SnapshotExportAssumption DEF Current, ExportInv, SnapshotExportAssumption
  <2>3. Current \in Known /\ Current.at = stamp /\ Current.graph = graph
    BY DEF Known, Current
  <2>4. (stamp' = stamp /\ graph' = graph) \/ stamp' = stamp + 1
    BY DEF Next, Publish, Edit, Begin, Receive, RequestFails, OpenOutput, WriteOutput, Abort, vars
  <2>5. \A s \in Known : s.at \in 1..stamp
    BY DEF StampsIdentify
  <2>6. CASE stamp' = stamp /\ graph' = graph
    <3>1. Current' = Current
      BY <2>6 DEF Current
    <3> QED
      BY <2>1, <2>3, <2>6, <3>1 DEF StampsIdentify
  <2>7. CASE stamp' = stamp + 1
    <3>1. Current'.at = stamp + 1 /\ stamp + 1 \in 1..stamp'
      BY <2>2, <2>7
    <3>2. \A s \in Known : s.at \in 1..stamp' /\ s.at # stamp + 1
      BY <2>2, <2>5, <2>7
    <3> SUFFICES ASSUME NEW s \in Known \cup {Current'}, NEW t \in Known \cup {Current'}
                 PROVE  s.at \in 1..stamp' /\ (s.at = t.at => s.graph = t.graph)
      BY <2>1 DEF StampsIdentify
    <3>3. CASE s \in Known /\ t \in Known
      BY <3>2, <3>3 DEF StampsIdentify
    <3>4. CASE ~(s \in Known /\ t \in Known)
      BY <3>1, <3>2, <3>4
    <3> QED
      BY <3>3, <3>4
  <2> QED
    BY <2>4, <2>6, <2>7
<1> QED
  BY <1>1, <1>2, ExportsHold, PTL DEF Spec

-----------------------------------------------------------------------------
(* What the files hold.                                                    *)

\* A file that was exported is an export.
LEMMA ExportedIs ==
  ASSUME ExportInv, NEW n \in File, Exported(file[n])
  PROVE  IsExport(file[n])
<1>1. IsHandMade(file[n]) \/ IsExport(file[n])
  BY DEF ExportInv, FileInv, Exported
<1>2. IsHandMade(file[n]) => file[n].export = FALSE
  BY DEF IsHandMade
<1> QED
  BY <1>1, <1>2 DEF Exported

\* A list of an export is the page of one graph.
LEMMA ExportedList ==
  ASSUME ExportInv, NEW n \in File, Exported(file[n]), NEW l \in List \cap file[n].asked
  PROVE  LET source == file[n].from[l]
         IN  /\ source.graph \in Graphs
             /\ source.at \in file[n].since..stamp /\ source.at \in Nat /\ file[n].since \in 1..stamp
             /\ source \in Known
             /\ l \in DOMAIN file[n].parts
             /\ file[n].parts[l] = FirstPage(Shown(l, source.graph[l], source.at))
<1> DEFINE f == file[n]
           source == f.from[l]
<1>1. IsExport(f)
  BY ExportedIs
<1>2. /\ f.since \in 1..stamp /\ DOMAIN f.from = DOMAIN f.parts /\ DOMAIN f.parts = f.asked
      /\ \A r \in DOMAIN f.from : /\ f.from[r] \in [graph : Graphs, at : f.since..stamp]
                                  /\ f.parts[r] = Given(r, f.from[r])
  BY <1>1 DEF IsExport, Whole
<1>3. l \in DOMAIN f.from /\ l # "config"
  BY <1>2, SnapshotExportAssumption DEF SnapshotExportAssumption
<1>4. source \in [graph : Graphs, at : f.since..stamp] /\ f.parts[l] = Given(l, source)
  BY <1>2, <1>3
<1>5. source \in Range(f.from)
  BY <1>3 DEF Range
<1>6. source \in Known
  BY <1>5 DEF Known
<1>7. stamp \in Nat
  BY SnapshotExportAssumption DEF ExportInv, SnapshotExportAssumption
<1>8. source.graph \in Graphs /\ source.at \in f.since..stamp
  BY <1>4
<1>9. source.at \in Nat
  BY <1>2, <1>7, <1>8
<1>10. f.parts[l] = FirstPage(Shown(l, source.graph[l], source.at))
  BY <1>3, <1>4 DEF Given
<1> QED
  BY <1>2, <1>3, <1>6, <1>8, <1>9, <1>10

\* Whatever a file holds, its lists are of items.
LEMMA ListsTyped ==
  ASSUME ExportInv, NEW n \in File, Readable(file[n]), NEW l \in List
  PROVE  ListIn(file[n], l) \in Items
<1> DEFINE T == [id : Key \cup {NoId}, val : Val \X Nat]
<1>1. CASE l \notin DOMAIN file[n].parts
  <2>1. ListIn(file[n], l) = <<>>
    BY <1>1 DEF ListIn
  <2> HIDE DEF T
  <2>2. <<>> \in Seq(T)
    OBVIOUS
  <2> QED
    BY <2>1, <2>2 DEF Items, T
<1>2. CASE l \in DOMAIN file[n].parts
  <2>1. ListIn(file[n], l) = file[n].parts[l]
    BY <1>2 DEF ListIn
  <2>2. CASE IsHandMade(file[n])
    <3>1. file[n].parts[l] \in Seq(Item)
      <4>1. file[n].parts[l] \in Range(file[n].parts)
        BY <1>2 DEF Range
      <4> QED
        BY <2>2, <4>1, SnapshotExportAssumption DEF IsHandMade, SnapshotExportAssumption
    <3>2. Item \subseteq T
      BY DEF Item
    <3> HIDE DEF T
    <3>3. file[n].parts[l] \in Seq(T)
      BY <3>1, <3>2
    <3> QED
      BY <2>1, <3>3 DEF Items, T
  <2>3. CASE IsExport(file[n])
    <3>1. Exported(file[n]) /\ l \in file[n].asked
      BY <1>2, <2>3 DEF Exported, IsExport
    <3> DEFINE source == file[n].from[l]
    <3>2. /\ source.graph \in Graphs /\ source.at \in Nat
          /\ file[n].parts[l] = FirstPage(Shown(l, source.graph[l], source.at))
      BY <3>1, ExportedList
    <3>3. file[n].parts[l] \in Items
      BY <3>2, PageShows
    <3> QED
      BY <2>1, <3>3
  <2> QED
    BY <2>2, <2>3 DEF ExportInv, FileInv
<1> QED
  BY <1>1, <1>2

-----------------------------------------------------------------------------
(* The theorems.                                                           *)

\* Every item of either list is in the comparison: the new, gone and common
\* keys are as many as the items (buildSnapshotDiff, indexSnapshotItems).
THEOREM NothingLost == Spec => []DiffLosesNothing
<1>1. ExportInv => DiffLosesNothing
  <2> SUFFICES ASSUME ExportInv, Readable(file[Old]), Readable(file[New]), NEW l \in List
               PROVE  LET a == ListIn(file[Old], l)
                          b == ListIn(file[New], l)
                          both == DOMAIN Index(a) \cap DOMAIN Index(b)
                      IN  /\ Cardinality(Added(a, b)) + Cardinality(both) = Len(b)
                          /\ Cardinality(Removed(a, b)) + Cardinality(both) = Len(a)
                          /\ Changed(a, b) \subseteq both
    BY DEF DiffLosesNothing
  <2> DEFINE a == ListIn(file[Old], l)
             b == ListIn(file[New], l)
             A == DOMAIN Index(a)
             B == DOMAIN Index(b)
  <2>1. a \in Items /\ b \in Items
    BY ListsTyped DEF File
  <2>2. /\ IsFiniteSet(A) /\ Cardinality(A) = Len(a)
        /\ IsFiniteSet(B) /\ Cardinality(B) = Len(b)
    BY <2>1, IndexKeys
  <2>3. Added(a, b) = B \ A /\ Removed(a, b) = A \ B /\ Changed(a, b) \subseteq A \cap B
    BY DEF Added, Removed, Changed
  <2> HIDE DEF a, b, A, B
  <2>4. /\ Cardinality(B \ A) = Cardinality(B) - Cardinality(B \cap A)
        /\ Cardinality(A \ B) = Cardinality(A) - Cardinality(A \cap B)
    BY <2>2, FS_Difference
  <2>5. B \cap A = A \cap B
    OBVIOUS
  <2>6. /\ Cardinality(A) \in Nat /\ Cardinality(B) \in Nat
        /\ Cardinality(A \cap B) \in Nat
    <3>1. IsFiniteSet(A \cap B)
      BY <2>2, FS_Subset
    <3> QED
      BY <2>2, <3>1, FS_CardinalityType
  <2>7. /\ Cardinality(B \ A) + Cardinality(A \cap B) = Len(b)
        /\ Cardinality(A \ B) + Cardinality(A \cap B) = Len(a)
    <3> DEFINE x == Cardinality(A)
               y == Cardinality(B)
               z == Cardinality(A \cap B)
    <3>1. Cardinality(B \ A) = y - z /\ Cardinality(A \ B) = x - z
      BY <2>4, <2>5
    <3>2. x \in Nat /\ y \in Nat /\ z \in Nat
      BY <2>6
    <3>3. x = Len(a) /\ y = Len(b)
      BY <2>2
    <3> HIDE DEF x, y, z
    <3>4. Cardinality(B \ A) + z = Len(b) /\ Cardinality(A \ B) + z = Len(a)
      BY <3>1, <3>2, <3>3
    <3> QED
      BY <3>4 DEF z
  <2> QED
    BY <2>3, <2>7 DEF a, b, A, B
<1> QED
  BY <1>1, ExportsHold, PTL

\* A file that was exported has every answer that was asked for, each given
\* since the export began (runSnapshotExport).
THEOREM WholeFiles == Spec => []FilesAreWhole
<1>1. ExportInv => ExportsAreComplete
  <2> SUFFICES ASSUME ExportInv, NEW n \in File, Exported(file[n])
               PROVE  \E inc \in Includes :
                        /\ DOMAIN file[n].parts = Range(inc)
                        /\ DOMAIN file[n].from = Range(inc)
                        /\ file[n].asked = Range(inc)
                        /\ \A r \in Range(inc) : file[n].from[r].at >= file[n].since
    BY DEF ExportsAreComplete
  <2> DEFINE f == file[n]
  <2>1. IsExport(f)
    BY ExportedIs
  <2>2. PICK inc \in Includes : f.asked = Range(inc)
    BY <2>1 DEF IsExport
  <2>3. /\ f.since \in 1..stamp /\ DOMAIN f.from = DOMAIN f.parts /\ DOMAIN f.parts = f.asked
        /\ \A r \in DOMAIN f.from : f.from[r] \in [graph : Graphs, at : f.since..stamp]
    BY <2>1 DEF IsExport, Whole
  <2>4. \A r \in DOMAIN f.from : f.from[r].at \in f.since..stamp
    BY <2>3
  <2> HIDE DEF f
  <2>5. stamp \in Nat
    BY SnapshotExportAssumption DEF ExportInv, SnapshotExportAssumption
  <2>6. \A r \in DOMAIN f.from : f.from[r].at >= f.since
    BY <2>3, <2>4, <2>5
  <2> QED
    BY <2>2, <2>3, <2>6 DEF f
<1>2. ExportInv => TypeOK
  <2> SUFFICES ASSUME ExportInv PROVE TypeOK
    OBVIOUS
  <2>1. ASSUME NEW n \in File, Readable(file[n]),
               NEW r \in DOMAIN file[n].parts \ {"config"}, NEW i \in DOMAIN file[n].parts[r]
        PROVE  file[n].parts[r][i].val \in Val \X (0..stamp)
    <3>1. stamp \in Nat
      BY SnapshotExportAssumption DEF ExportInv, SnapshotExportAssumption
    <3> DEFINE items == file[n].parts[r]
    <3>2. CASE IsHandMade(file[n])
      <4>1. items \in Range(file[n].parts)
        BY DEF Range
      <4>2. items \in Seq(Item)
        BY <3>2, <4>1, SnapshotExportAssumption DEF IsHandMade, SnapshotExportAssumption
      <4>3. i \in DOMAIN items
        OBVIOUS
      <4> HIDE DEF items
      <4>4. items[i] \in Item
        BY <4>2, <4>3
      <4>5. items[i].val \in Val \X {0}
        BY <4>4 DEF Item
      <4>6. Val \X {0} \subseteq Val \X (0..stamp)
        BY <3>1
      <4> QED
        BY <4>5, <4>6 DEF items
    <3>3. CASE IsExport(file[n])
      <4>1. Exported(file[n]) /\ r \in List \cap file[n].asked
        <5>1. PICK inc \in Includes : file[n].asked = Range(inc)
          BY <3>3 DEF IsExport
        <5>2. inc \in Seq(List \cup {"config"})
          BY SnapshotExportAssumption DEF SnapshotExportAssumption
        <5>3. Range(inc) \subseteq List \cup {"config"}
          BY <5>2 DEF Range
        <5> QED
          BY <2>1, <3>3, <5>1, <5>3 DEF Exported, IsExport
      <4> DEFINE source == file[n].from[r]
      <4>2. /\ source.graph \in Graphs /\ source.at \in Nat /\ source.at \in file[n].since..stamp
            /\ file[n].since \in 1..stamp
            /\ items = FirstPage(Shown(r, source.graph[r], source.at))
        BY <4>1, ExportedList
      <4>3. /\ items \in Items
            /\ \A j \in 1..Len(items) : \E k \in DOMAIN source.graph[r] :
                 items[j] = [id |-> <<k>>, val |-> <<source.graph[r][k], Stamp(r, source.at)>>]
        <5> DEFINE g == source.graph
                   at == source.at
        <5>1. g \in Graphs /\ at \in Nat /\ r \in List /\ items = FirstPage(Shown(r, g[r], at))
          BY <4>1, <4>2
        <5> HIDE DEF g, at, items
        <5>2. /\ items \in Items
              /\ \A j \in 1..Len(items) : \E k \in DOMAIN g[r] :
                   items[j] = [id |-> <<k>>, val |-> <<g[r][k], Stamp(r, at)>>]
          <6> DEFINE page == FirstPage(Shown(r, g[r], at))
          <6>1. /\ page \in Items
                /\ \A j \in 1..Len(page) : \E k \in DOMAIN g[r] :
                     page[j] = [id |-> <<k>>, val |-> <<g[r][k], Stamp(r, at)>>]
            BY <5>1, PageShows
          <6> HIDE DEF page
          <6> QED
            BY <5>1, <6>1 DEF page
        <5> QED
          BY <5>2 DEF g, at
      <4>4. DOMAIN items = 1..Len(items)
        BY <4>3 DEF Items
      <4>5. i \in 1..Len(items)
        BY <4>4
      <4> HIDE DEF items
      <4>6. PICK k \in DOMAIN source.graph[r] :
              items[i] = [id |-> <<k>>, val |-> <<source.graph[r][k], Stamp(r, source.at)>>]
        BY <4>3, <4>5
      <4>7. source.graph[r] \in [DOMAIN source.graph[r] -> Val]
        BY <4>1, <4>2, GraphTyped
      <4>8. source.graph[r][k] \in Val
        BY <4>7
      <4>9. Stamp(r, source.at) \in 0..stamp
        BY <3>1, <4>2 DEF Stamp
      <4> QED
        BY <4>6, <4>8, <4>9 DEF items
    <3> QED
      BY <2>1, <3>2, <3>3 DEF ExportInv, FileInv
  <2>2. job.at \in {"idle", "asking", "writing"}
    BY DEF ExportInv, JobInv, Idle
  <2>3. job # Idle => DOMAIN job.parts \subseteq Range(job.inc) /\ job.since <= stamp
    BY SnapshotExportAssumption DEF ExportInv, JobInv, Whole, SnapshotExportAssumption
  <2> QED
    BY <2>1, <2>2, <2>3 DEF TypeOK, ExportInv
<1> QED
  BY <1>1, <1>2, ExportsHold, PTL DEF FilesAreWhole

\* When all answers of an export are of one time, they are of one graph.
LEMMA CalmGraph ==
  ASSUME ExportInv, StampsIdentify,
         NEW n \in File, NEW m \in File, Exported(file[n]), Exported(file[m]),
         Calm(file[n]), Calm(file[m]), file[n].since = file[m].since,
         NEW q \in file[n].asked, NEW r \in file[m].asked
  PROVE  /\ file[n].from[q].at = file[m].from[r].at
         /\ file[n].from[q].graph = file[m].from[r].graph
<1>1. q \in DOMAIN file[n].from /\ r \in DOMAIN file[m].from
  BY ExportedIs DEF IsExport, Whole
<1>2. file[n].from[q].at = file[m].from[r].at
  BY <1>1 DEF Calm
<1>3. file[n].from[q] \in Known /\ file[m].from[r] \in Known
  BY <1>1 DEF Known, Range
<1> QED
  BY <1>2, <1>3 DEF StampsIdentify

\* The names on a page.
LEMMA PageNames ==
  ASSUME NEW g \in Graphs, NEW l \in List, NEW at \in Nat
  PROVE  LET page == FirstPage(Shown(l, g[l], at))
         IN  /\ Names(page) \subseteq DOMAIN g[l]
             /\ Cardinality(DOMAIN g[l]) <= Limit => Names(page) = DOMAIN g[l]
<1> DEFINE page == FirstPage(Shown(l, g[l], at))
<1>1. /\ page \in Items
      /\ \A i \in 1..Len(page) : \E k \in DOMAIN g[l] :
           page[i] = [id |-> <<k>>, val |-> <<g[l][k], Stamp(l, at)>>]
      /\ Cardinality(DOMAIN g[l]) <= Limit =>
           \A k \in DOMAIN g[l] : \E i \in 1..Len(page) : page[i].id = <<k>>
  BY PageShows
<1>2. DOMAIN page = 1..Len(page)
  BY <1>1 DEF Items
<1> HIDE DEF page
<1>3. \A i \in DOMAIN page : \E k \in DOMAIN g[l] : page[i].id = <<k>>
  <2> SUFFICES ASSUME NEW i \in DOMAIN page PROVE \E k \in DOMAIN g[l] : page[i].id = <<k>>
    OBVIOUS
  <2>1. PICK k \in DOMAIN g[l] : page[i] = [id |-> <<k>>, val |-> <<g[l][k], Stamp(l, at)>>]
    BY <1>1, <1>2
  <2> QED
    BY <2>1
<1>4. \A i \in DOMAIN page : page[i].id[1] \in DOMAIN g[l]
  <2> SUFFICES ASSUME NEW i \in DOMAIN page PROVE page[i].id[1] \in DOMAIN g[l]
    OBVIOUS
  <2>1. PICK k \in DOMAIN g[l] : page[i].id = <<k>>
    BY <1>3
  <2> QED
    BY <2>1
<1>5. ASSUME Cardinality(DOMAIN g[l]) <= Limit, NEW k \in DOMAIN g[l]
      PROVE  k \in Names(page)
  <2>1. PICK i \in DOMAIN page : page[i].id = <<k>>
    BY <1>1, <1>2, <1>5
  <2>2. page[i].id[1] = k
    BY <2>1
  <2> QED
    BY <2>2 DEF Names
<1>6. Names(page) \subseteq DOMAIN g[l]
  BY <1>4 DEF Names
<1> QED
  BY <1>5, <1>6 DEF page

\* An export that no publication disturbed: its sizes are those of its lists, up
\* to the page, and what its edges point to is in it, unless cut off.
THEOREM QuietConsistent == Spec => []QuietExportIsConsistent
<1>1. ExportInv /\ StampsIdentify => QuietExportIsConsistent
  <2> SUFFICES ASSUME ExportInv, StampsIdentify, NEW n \in File, Exported(file[n]), Calm(file[n])
               PROVE  LET f == file[n]
                      IN  /\ \A l \in List : {l, "config"} \subseteq f.asked =>
                               Len(f.parts[l]) = f.parts["config"][l]
                                 \/ (CutShort(f, l) /\ Len(f.parts[l]) = Limit)
                          /\ \A l, m \in List :
                               {l, m} \subseteq f.asked /\ l \in Stamped /\ ~CutShort(f, m) =>
                                 Names(f.parts[l]) \subseteq Names(f.parts[m])
    BY DEF QuietExportIsConsistent
  <2> DEFINE f == file[n]
  <2>1. Limit \in Nat
    BY SnapshotExportAssumption DEF SnapshotExportAssumption
  <2>2. ASSUME NEW l \in List, l \in f.asked, "config" \in f.asked
        PROVE  Len(f.parts[l]) = f.parts["config"][l]
                 \/ (CutShort(f, l) /\ Len(f.parts[l]) = Limit)
    <3> DEFINE g == f.from[l].graph
               at == f.from[l].at
               size == Cardinality(DOMAIN g[l])
    <3>1. g \in Graphs /\ at \in Nat /\ f.parts[l] = FirstPage(Shown(l, g[l], at))
      BY <2>2, ExportedList
    <3>2. f.from["config"].graph = g
      BY <2>2, CalmGraph
    <3>3. f.parts["config"] = Given("config", f.from["config"])
      BY <2>2, ExportedIs DEF IsExport, Whole
    <3>4. f.parts["config"][l] = size
      BY <3>2, <3>3 DEF Given
    <3>5. CutShort(f, l) <=> size > Limit
      BY DEF CutShort
    <3> HIDE DEF f, g, at, size
    <3>6. Len(FirstPage(Shown(l, g[l], at))) = IF size < Limit THEN size ELSE Limit
      BY <3>1, PageShows DEF size
    <3>7. size \in Nat
      BY <3>1, GraphTyped DEF size
    <3> QED
      BY <2>1, <3>1, <3>4, <3>5, <3>6, <3>7
  <2>3. ASSUME NEW l \in List, NEW m \in List, l \in f.asked, m \in f.asked,
               l \in Stamped, ~CutShort(f, m)
        PROVE  Names(f.parts[l]) \subseteq Names(f.parts[m])
    <3> DEFINE g == f.from[l].graph
               at == f.from[l].at
               ta == f.from[m].at
    <3>1. g \in Graphs /\ at \in Nat /\ f.parts[l] = FirstPage(Shown(l, g[l], at))
      BY <2>3, ExportedList
    <3>2. f.from[m].graph = g
      BY <2>3, CalmGraph
    <3>3. ta \in Nat /\ f.parts[m] = FirstPage(Shown(m, g[m], ta))
      BY <2>3, <3>2, ExportedList
    <3>4. ~(Cardinality(DOMAIN g[m]) > Limit)
      BY <2>3, <3>2 DEF CutShort
    <3> HIDE DEF f, g, at, ta
    <3>5. Cardinality(DOMAIN g[m]) <= Limit
      BY <2>1, <3>1, <3>4, GraphTyped
    <3>6. Names(FirstPage(Shown(l, g[l], at))) \subseteq DOMAIN g[l]
      BY <3>1, PageNames
    <3>7. Names(FirstPage(Shown(m, g[m], ta))) = DOMAIN g[m]
      BY <3>1, <3>3, <3>5, PageNames
    <3>8. DOMAIN g[l] \subseteq DOMAIN g[m]
      BY <2>3, <3>1, SnapshotExportAssumption DEF SnapshotExportAssumption
    <3> QED
      BY <3>1, <3>3, <3>6, <3>7, <3>8
  <2> QED
    BY <2>2, <2>3
<1> QED
  BY <1>1, ExportsHold, StampsHold, PTL

\* The keys of sets of names, and back.
LEMMA NamesOfKeys ==
  ASSUME NEW X
  PROVE  {k[1] : k \in {<<x>> : x \in X}} = X
<1>1. \A x \in X : <<x>>[1] = x
  OBVIOUS
<1> QED
  BY <1>1

LEMMA KeysDiffer ==
  ASSUME NEW X, NEW Y
  PROVE  {<<x>> : x \in X} \ {<<x>> : x \in Y} = {<<x>> : x \in X \ Y}
<1>1. \A x, y : <<x>> = <<y>> => x = y
  OBVIOUS
<1> QED
  BY <1>1

\* What the index of the two pages says of the two graphs.
LEMMA DiffOfExports ==
  ASSUME ExportInv
  PROVE  DiffIsTrueOfGraphs
<1> SUFFICES ASSUME ExportInv, Exported(file[Old]), Exported(file[New]),
                    NEW l \in List \cap file[Old].asked \cap file[New].asked
             PROVE  LET f == file[Old]
                        g == file[New]
                        a == f.from[l].graph[l]
                        b == g.from[l].graph[l]
                        names(keys) == {k[1] : k \in keys}
                        added   == names(Added(ListIn(f, l), ListIn(g, l)))
                        removed == names(Removed(ListIn(f, l), ListIn(g, l)))
                        changed == names(Changed(ListIn(f, l), ListIn(g, l)))
                    IN  /\ CutShort(f, l) \/ added \cap DOMAIN a = {}
                        /\ CutShort(g, l) \/ removed \cap DOMAIN b = {}
                        /\ ~CutShort(f, l) /\ ~CutShort(g, l) =>
                             /\ added = DOMAIN b \ DOMAIN a
                             /\ removed = DOMAIN a \ DOMAIN b
                             /\ changed = {k \in DOMAIN a \cap DOMAIN b :
                                            \/ a[k] # b[k]
                                            \/ l \in Stamped /\ f.from[l].at # g.from[l].at}
  BY DEF DiffIsTrueOfGraphs
<1> DEFINE f == file[Old]
           g == file[New]
           s == f.from[l].graph
           t == g.from[l].graph
           a == s[l]
           b == t[l]
           at == f.from[l].at
           ta == g.from[l].at
           x == ListIn(f, l)
           y == ListIn(g, l)
           names(keys) == {k[1] : k \in keys}
           keys(ns) == {<<k>> : k \in ns}
<1>1. /\ s \in Graphs /\ at \in Nat /\ x = FirstPage(Shown(l, a, at))
      /\ t \in Graphs /\ ta \in Nat /\ y = FirstPage(Shown(l, b, ta))
  BY ExportedList DEF File, ListIn
<1>2. (CutShort(f, l) <=> Cardinality(DOMAIN a) > Limit)
      /\ (CutShort(g, l) <=> Cardinality(DOMAIN b) > Limit)
  BY DEF CutShort
<1>3. l \in List /\ Limit \in Nat
  BY SnapshotExportAssumption DEF SnapshotExportAssumption
<1> HIDE DEF f, g, s, t, at, ta, x, y
<1>4. PICK na \in SUBSET DOMAIN a :
         /\ DOMAIN Index(x) = keys(na)
         /\ \A k \in na : Index(x)[<<k>>] = <<a[k], Stamp(l, at)>>
         /\ Cardinality(DOMAIN a) <= Limit => na = DOMAIN a
  BY <1>1, <1>3, IndexOfPage, ZenonT(30)
<1>5. PICK nb \in SUBSET DOMAIN b :
         /\ DOMAIN Index(y) = keys(nb)
         /\ \A k \in nb : Index(y)[<<k>>] = <<b[k], Stamp(l, ta)>>
         /\ Cardinality(DOMAIN b) <= Limit => nb = DOMAIN b
  BY <1>1, <1>3, IndexOfPage, ZenonT(30)
<1>6. (CutShort(f, l) \/ na = DOMAIN a) /\ (CutShort(g, l) \/ nb = DOMAIN b)
  <2>1. Cardinality(DOMAIN a) \in Nat /\ Cardinality(DOMAIN b) \in Nat
    BY <1>1, <1>3, GraphTyped
  <2> QED
    BY <1>2, <1>3, <1>4, <1>5, <2>1
<1>7. names(Added(x, y)) = nb \ na
  <2>1. Added(x, y) = keys(nb \ na)
    BY <1>4, <1>5, KeysDiffer DEF Added
  <2> QED
    BY <2>1, NamesOfKeys
<1>8. names(Removed(x, y)) = na \ nb
  <2>1. Removed(x, y) = keys(na \ nb)
    BY <1>4, <1>5, KeysDiffer DEF Removed
  <2> QED
    BY <2>1, NamesOfKeys
<1> DEFINE differ == {k \in na \cap nb : \/ a[k] # b[k]
                                         \/ l \in Stamped /\ at # ta}
<1>9. names(Changed(x, y)) = differ
  <2>1. \A k \in na \cap nb : Index(x)[<<k>>] # Index(y)[<<k>>] <=> k \in differ
    <3> SUFFICES ASSUME NEW k \in na \cap nb
                 PROVE  Index(x)[<<k>>] # Index(y)[<<k>>] <=> k \in differ
      OBVIOUS
    <3>1. Index(x)[<<k>>] = <<a[k], Stamp(l, at)>> /\ Index(y)[<<k>>] = <<b[k], Stamp(l, ta)>>
      BY <1>4, <1>5
    <3>2. Stamp(l, at) # Stamp(l, ta) <=> l \in Stamped /\ at # ta
      BY DEF Stamp
    <3> QED
      BY <3>1, <3>2
  <2>2. DOMAIN Index(x) \cap DOMAIN Index(y) = keys(na \cap nb)
    <3>1. \A j, k : <<j>> = <<k>> => j = k
      OBVIOUS
    <3> QED
      BY <1>4, <1>5, <3>1
  <2>3. Changed(x, y) = {k \in keys(na \cap nb) : Index(x)[k] # Index(y)[k]}
    BY <2>2 DEF Changed
  <2> HIDE DEF differ
  <2>4. differ \subseteq na \cap nb
    BY DEF differ
  <2>5. Changed(x, y) = keys(differ)
    BY <2>1, <2>3, <2>4
  <2> QED
    BY <2>5, NamesOfKeys
<1> HIDE DEF differ
<1>10. /\ CutShort(f, l) \/ (nb \ na) \cap DOMAIN a = {}
       /\ CutShort(g, l) \/ (na \ nb) \cap DOMAIN b = {}
  BY <1>6
<1>11. ASSUME ~CutShort(f, l), ~CutShort(g, l)
       PROVE  /\ nb \ na = DOMAIN b \ DOMAIN a
              /\ na \ nb = DOMAIN a \ DOMAIN b
              /\ differ = {k \in DOMAIN a \cap DOMAIN b : \/ a[k] # b[k]
                                                          \/ l \in Stamped /\ at # ta}
  BY <1>6, <1>11 DEF differ
<1> QED
  BY <1>7, <1>8, <1>9, <1>10, <1>11 DEF f, g, s, t, at, ta, x, y

\* What the comparison of two exports says of a list is true of the two graphs
\* it is of, up to what was cut off (runSnapshotDiff, diffSnapshotResource).
THEOREM DiffTrue == Spec => []DiffIsTrueOfGraphs
BY DiffOfExports, ExportsHold, PTL

\* A list that has no changes is the same in both graphs.
LEMMA NoChangeSame ==
  ASSUME ExportInv, Exported(file[Old]), Exported(file[New]),
         NEW l \in List \cap file[Old].asked \cap file[New].asked,
         ~CutShort(file[Old], l), ~CutShort(file[New], l),
         Added(ListIn(file[Old], l), ListIn(file[New], l)) = {},
         Removed(ListIn(file[Old], l), ListIn(file[New], l)) = {},
         Changed(ListIn(file[Old], l), ListIn(file[New], l)) = {}
  PROVE  SameList(file[Old], file[New], l)
<1> DEFINE f == file[Old]
           g == file[New]
           a == f.from[l].graph[l]
           b == g.from[l].graph[l]
           names(keys) == {k[1] : k \in keys}
<1>1. names({}) = {}
  OBVIOUS
<1>2. /\ names(Added(ListIn(f, l), ListIn(g, l))) = DOMAIN b \ DOMAIN a
      /\ names(Removed(ListIn(f, l), ListIn(g, l))) = DOMAIN a \ DOMAIN b
      /\ names(Changed(ListIn(f, l), ListIn(g, l)))
           = {k \in DOMAIN a \cap DOMAIN b : \/ a[k] # b[k]
                                             \/ l \in Stamped /\ f.from[l].at # g.from[l].at}
  BY DiffOfExports DEF DiffIsTrueOfGraphs
<1>3. DOMAIN a = DOMAIN b
  BY <1>1, <1>2
<1>4. \A k \in DOMAIN a : a[k] = b[k] /\ ~(l \in Stamped /\ f.from[l].at # g.from[l].at)
  BY <1>1, <1>2, <1>3
<1>5. a \in UNION {[ns -> Val] : ns \in SUBSET Name} /\ b \in UNION {[ns -> Val] : ns \in SUBSET Name}
  BY ExportedList, SnapshotExportAssumption DEF File, SnapshotExportAssumption
<1> HIDE DEF a, b
<1>6. a = b
  BY <1>3, <1>4, <1>5
<1> QED
  BY <1>4, <1>6 DEF SameList, a, b

\* Two undisturbed exports of the same time, asked for the same, have no
\* changes.
LEMMA CalmUnchanged ==
  ASSUME ExportInv, StampsIdentify, Exported(file[Old]), Exported(file[New]),
         Calm(file[Old]), Calm(file[New]),
         file[Old].since = file[New].since, file[Old].asked = file[New].asked,
         NEW include \in SUBSET List
  PROVE  ~HasChanges(file[Old], file[New], include)
<1> DEFINE f == file[Old]
           g == file[New]
<1>1. ASSUME NEW l \in List
      PROVE  ListIn(f, l) = ListIn(g, l)
  <2>1. DOMAIN f.parts = f.asked /\ DOMAIN g.parts = g.asked
    BY ExportedIs DEF File, IsExport
  <2>2. CASE l \notin f.asked
    BY <2>1, <2>2 DEF ListIn
  <2>3. CASE l \in f.asked
    <3>1. f.from[l].at = g.from[l].at /\ f.from[l].graph = g.from[l].graph
      BY <2>3, CalmGraph DEF File
    <3>2. /\ f.parts[l] = FirstPage(Shown(l, f.from[l].graph[l], f.from[l].at))
          /\ g.parts[l] = FirstPage(Shown(l, g.from[l].graph[l], g.from[l].at))
      BY <2>3, ExportedList DEF File
    <3> QED
      BY <2>1, <2>3, <3>1, <3>2 DEF ListIn
  <2> QED
    BY <2>2, <2>3
<1>2. \A items : Added(items, items) = {} /\ Removed(items, items) = {} /\ Changed(items, items) = {}
  BY DEF Added, Removed, Changed
<1> QED
  BY <1>1, <1>2 DEF HasChanges

\* Under --fail-on-change the status 0 means two snapshots whose lists agree,
\* and undisturbed exports of one graph have it (runSnapshotDiff).
THEOREM StatusTells == Spec => []ExitStatusTells
<1>1. ExportInv /\ StampsIdentify => ExitStatusTells
  <2> SUFFICES ASSUME ExportInv, StampsIdentify, NEW q \in DiffRequests PROVE
        LET f == file[Old]
            g == file[New]
        IN  /\ q.failOnChange /\ ExitStatus(f, g, q) = 0 =>
                 /\ Readable(f) /\ Readable(g)
                 /\ Exported(f) /\ Exported(g) =>
                      \A l \in q.include \cap f.asked \cap g.asked :
                        ~CutShort(f, l) /\ ~CutShort(g, l) => SameList(f, g, l)
            /\ /\ Exported(f) /\ Exported(g) /\ Calm(f) /\ Calm(g)
               /\ f.since = g.since /\ f.asked = g.asked
               /\ q.args /\ q.include # {} /\ q.format /\ q.output
               => ExitStatus(f, g, q) = 0
    BY DEF ExitStatusTells
  <2> DEFINE f == file[Old]
             g == file[New]
  <2>1. q.include \in SUBSET List
    BY SnapshotExportAssumption DEF SnapshotExportAssumption
  <2>2. ASSUME q.failOnChange, ExitStatus(f, g, q) = 0
        PROVE  Readable(f) /\ Readable(g) /\ ~HasChanges(f, g, q.include)
    BY <2>2 DEF ExitStatus
  <2>3. ASSUME q.failOnChange, ExitStatus(f, g, q) = 0, Exported(f), Exported(g),
               NEW l \in q.include \cap f.asked \cap g.asked, ~CutShort(f, l), ~CutShort(g, l)
        PROVE  SameList(f, g, l)
    <3>1. /\ Added(ListIn(f, l), ListIn(g, l)) = {}
          /\ Removed(ListIn(f, l), ListIn(g, l)) = {}
          /\ Changed(ListIn(f, l), ListIn(g, l)) = {}
      BY <2>2, <2>3 DEF HasChanges
    <3> QED
      BY <2>1, <2>3, <3>1, NoChangeSame
  <2>4. ASSUME Exported(f), Exported(g), Calm(f), Calm(g), f.since = g.since, f.asked = g.asked,
               q.args, q.include # {}, q.format, q.output
        PROVE  ExitStatus(f, g, q) = 0
    <3>1. ~HasChanges(f, g, q.include)
      BY <2>1, <2>4, CalmUnchanged
    <3> QED
      BY <2>4, <3>1 DEF ExitStatus, Exported
  <2> QED
    BY <2>2, <2>3, <2>4
<1> QED
  BY <1>1, ExportsHold, StampsHold, PTL

=============================================================================
