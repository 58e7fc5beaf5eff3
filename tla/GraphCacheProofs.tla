--------------------------- MODULE GraphCacheProofs ---------------------------
(***************************************************************************)
(* For any Secrets, workloads, manifests and filter, and any number of     *)
(* snapshots: what a snapshot says is consistent and, once the cluster     *)
(* rests, exact; what is carried from one snapshot to the next, the age of *)
(* an edge, the time of a change and the number of changes, is what the    *)
(* history says; and every way to read a snapshot tells the same story,    *)
(* the counts that were made when it was applied included.                 *)
(***************************************************************************)
EXTENDS GraphQueries, FiniteSetTheorems, WellFoundedInduction, TLAPS

-----------------------------------------------------------------------------
(* Finite sets and sums.                                                   *)

\* The values of a function on a finite set are finite in number, and as many
\* as its arguments when no two of these have the same.
LEMMA FiniteRange ==
  ASSUME NEW D, IsFiniteSet(D), NEW R, NEW f \in [D -> R]
  PROVE  /\ IsFiniteSet(Range(f))
         /\ (\A x, y \in D : f[x] = f[y] => x = y) => Cardinality(Range(f)) = Cardinality(D)
<1>1. f \in Surjection(D, Range(f))
  BY DEF Surjection, Range
<1>2. (\A x, y \in D : f[x] = f[y] => x = y) => f \in Injection(D, Range(f))
  BY DEF Injection, IsInjective, Range
<1> QED
  BY <1>1, <1>2, FS_Surjection

\* A sum over the parts of a set.
LEMMA SumOfParts ==
  ASSUME NEW E, IsFiniteSet(E), NEW K, IsFiniteSet(K), NEW key \in [E -> K], NEW f \in [K -> Nat],
         \A x \in K : f[x] = Cardinality({e \in E : key[e] = x})
  PROVE  SumFunction(f) = Cardinality(E)
<1> DEFINE Def(g) == [s \in SUBSET K |-> IF s = {} THEN 0
                                         ELSE LET x == CHOOSE x \in s : TRUE IN f[x] + g[s \ {x}]]
           sum == CHOOSE g : g = Def(g)
           part(s) == {e \in E : key[e] \in s}
           count == [s \in SUBSET K |-> Cardinality(part(s))]
<1>1. SumFunction(f) = sum[K]
  BY DEF SumFunction, SumFunctionOnSet, FoldFunctionOnSet, MapThenFoldSet
<1>2. ASSUME NEW s \in SUBSET K, NEW x \in s
      PROVE  Cardinality(part(s)) = f[x] + Cardinality(part(s \ {x}))
  <2> DEFINE of == {e \in E : key[e] = x}
  <2>1. part(s) = of \cup part(s \ {x}) /\ of \cap part(s \ {x}) = {}
    OBVIOUS
  <2>2. of \in SUBSET E /\ part(s \ {x}) \in SUBSET E
    OBVIOUS
  <2>3. f[x] = Cardinality(of)
    OBVIOUS
  <2> HIDE DEF of, part
  <2>4. /\ IsFiniteSet(of) /\ IsFiniteSet(part(s \ {x}))
        /\ Cardinality(of) \in Nat /\ Cardinality(part(s \ {x})) \in Nat
    BY <2>2, FS_Subset, FS_CardinalityType
  <2>5. Cardinality(of \cap part(s \ {x})) = 0
    BY <2>1, FS_EmptySet
  <2>6. Cardinality(of \cup part(s \ {x}))
          = Cardinality(of) + Cardinality(part(s \ {x})) - Cardinality(of \cap part(s \ {x}))
    BY <2>4, FS_Union
  <2>7. Cardinality(of \cup part(s \ {x})) = Cardinality(of) + Cardinality(part(s \ {x}))
    BY <2>4, <2>5, <2>6
  <2>8. Cardinality(part(s)) = Cardinality(of \cup part(s \ {x}))
    BY <2>1, Zenon
  <2> QED
    BY <2>3, <2>7, <2>8
<1>3. Cardinality(part({})) = 0
  BY FS_EmptySet
<1> HIDE DEF part
<1>4. count = Def(count)
  <2>1. ASSUME NEW s \in SUBSET K, s # {}
        PROVE  count[s] = LET x == CHOOSE x \in s : TRUE IN f[x] + count[s \ {x}]
    <3> DEFINE x == CHOOSE x \in s : TRUE
    <3>1. x \in s
      BY <2>1
    <3> HIDE DEF x
    <3>2. count[s] = f[x] + count[s \ {x}]
      BY <1>2, <3>1
    <3> QED
      BY <3>2 DEF x
  <2> QED
    BY <1>3, <2>1
<1>5. sum = Def(sum)
  <2> HIDE DEF Def, count
  <2> QED
    BY <1>4
<1> HIDE DEF sum
<1> DEFINE bad == {s \in SUBSET K : sum[s] # count[s]}
<1>6. bad = {}
  <2> SUFFICES ASSUME bad # {} PROVE FALSE
    OBVIOUS
  <2>1. IsWellFoundedOn(StrictSubsetOrdering(K), SUBSET K)
    BY FS_StrictSubsetOrderingWellFounded, FS_FiniteSubsetsOfFinite
  <2>2. bad \subseteq SUBSET K
    OBVIOUS
  <2>3. PICK s \in bad : \A t \in bad : <<t, s>> \notin StrictSubsetOrdering(K)
    <3> HIDE DEF bad
    <3> QED
      BY <2>1, <2>2, WFMin
  <2>4. s # {}
    BY <1>3, <1>5
  <2> DEFINE x == CHOOSE x \in s : TRUE
  <2>5. x \in s
    BY <2>4
  <2>6. s \in SUBSET K /\ s \ {x} \in SUBSET K
    OBVIOUS
  <2>7. sum[s] = f[x] + sum[s \ {x}]
    BY <1>5, <2>4, <2>6
  <2>8. count[s] = f[x] + count[s \ {x}]
    BY <1>4, <2>4, <2>6
  <2>9. s \ {x} \in bad
    BY <2>6, <2>7, <2>8
  <2>10. <<s \ {x}, s>> \in StrictSubsetOrdering(K)
    BY <2>5, <2>6 DEF StrictSubsetOrdering
  <2> QED
    BY <2>3, <2>9, <2>10
<1>7. sum[K] = count[K]
  BY <1>6
<1>8. count[K] = Cardinality(E)
  BY DEF part
<1> QED
  BY <1>1, <1>7, <1>8

\* A set of criticalities that is not empty has a highest one.
LEMMA MaxOfRanks ==
  ASSUME NEW S \in SUBSET (0..4), S # {}
  PROVE  Max(S) \in S /\ \A x \in S : Max(S) >= x
<1>1. \E m \in S : \A x \in S : m >= x
  <2>1. \A x \in S : x \in {0, 1, 2, 3, 4}
    OBVIOUS
  <2>2. CASE 4 \in S
    BY <2>1, <2>2
  <2>3. CASE 4 \notin S /\ 3 \in S
    BY <2>1, <2>3
  <2>4. CASE 4 \notin S /\ 3 \notin S /\ 2 \in S
    BY <2>1, <2>4
  <2>5. CASE 4 \notin S /\ 3 \notin S /\ 2 \notin S /\ 1 \in S
    BY <2>1, <2>5
  <2>6. CASE 4 \notin S /\ 3 \notin S /\ 2 \notin S /\ 1 \notin S
    <3>1. \A x \in S : x = 0
      BY <2>1, <2>6
    <3>2. 0 \in S
      <4>1. PICK y \in S : TRUE
        OBVIOUS
      <4>2. y = 0
        BY <3>1
      <4> QED
        BY <4>2
    <3> QED
      BY <3>1, <3>2
  <2> QED
    BY <2>2, <2>3, <2>4, <2>5, <2>6
<1> QED
  BY <1>1 DEF Max

-----------------------------------------------------------------------------
(* The shape of what ApplySnapshot computes.                               *)

\* Aggregation adds to a node; it leaves alone what the node remembers.
LEMMA AggregationKeeps ==
  ASSUME NEW node, NEW es, NEW newEdges
  PROVE  /\ Aggregated(node, es, newEdges).exists = node.exists
         /\ Aggregated(node, es, newEdges).changes = node.changes
         /\ Aggregated(node, es, newEdges).changedAt = node.changedAt
BY DEF Aggregated

\* The nodes and edges of the next snapshot.
LEMMA SnapshotShape ==
  ASSUME ApplySnapshot
  PROVE  /\ DOMAIN edges' = References(manifests)
         /\ \A e \in DOMAIN edges' : edges'[e] = NewEdge(e, manifests, clock')
         /\ DOMAIN workloads' = DOMAIN manifests
         /\ DOMAIN secrets' = DOMAIN secretInputs \cup {e[2] : e \in DOMAIN edges'}
         /\ \A s \in DOMAIN secrets' :
              secrets'[s] = Aggregated(IF s \in DOMAIN secretInputs
                                       THEN ListedSecret(s, secretInputs[s], clock')
                                       ELSE AbsentSecret,
                                       EdgesTo(s, edges'), edges')
<1>1. edges' = [e \in References(manifests) |-> NewEdge(e, manifests, clock')]
  BY DEF ApplySnapshot, NewEdges
<1>2. secrets' = NewSecrets(edges', clock')
  BY DEF ApplySnapshot
<1>3. workloads' = NewWorkloads(manifests, edges')
  BY DEF ApplySnapshot
<1>4. DOMAIN workloads' = DOMAIN manifests
  BY <1>3 DEF NewWorkloads
<1> QED
  BY <1>1, <1>2, <1>4 DEF NewSecrets

\* A Secret's node exists exactly when the Secret was listed, and it remembers
\* what ListedSecret says.
LEMMA NodeOfSecret ==
  ASSUME ApplySnapshot, NEW s \in DOMAIN secrets'
  PROVE  /\ secrets'[s].exists <=> s \in DOMAIN secretInputs
         /\ secrets'[s].exists =>
              secrets'[s].changedAt = ListedSecret(s, secretInputs[s], clock').changedAt
         /\ ~secrets'[s].exists => secrets'[s].changedAt = 0
<1>1. CASE s \in DOMAIN secretInputs
  <2>1. secrets'[s] = Aggregated(ListedSecret(s, secretInputs[s], clock'),
                                 EdgesTo(s, edges'), edges')
    BY <1>1, SnapshotShape
  <2>2. ListedSecret(s, secretInputs[s], clock').exists
    BY DEF ListedSecret
  <2> QED
    BY <1>1, <2>1, <2>2, AggregationKeeps
<1>2. CASE s \notin DOMAIN secretInputs
  <2>1. secrets'[s] = Aggregated(AbsentSecret, EdgesTo(s, edges'), edges')
    BY <1>2, SnapshotShape
  <2>2. ~AbsentSecret.exists /\ AbsentSecret.changedAt = 0
    BY DEF AbsentSecret
  <2> QED
    BY <1>2, <2>1, <2>2, AggregationKeeps
<1> QED
  BY <1>1, <1>2

\* Outside ApplySnapshot and Restart the graph and its history stay.
LEMMA GraphKept ==
  ASSUME [Next]_vars
  PROVE  \/ ApplySnapshot
         \/ Restart
         \/ UNCHANGED <<secrets, workloads, edges, secretVersions, published>>
<1>1. ASSUME NEW s \in Secret, DeleteSecret(s) \/ \E meta \in SecretMeta : WriteSecret(s, meta)
      PROVE  UNCHANGED <<secrets, workloads, edges, secretVersions, published>>
  BY <1>1 DEF DeleteSecret, WriteSecret, Written, cache
<1>2. ASSUME NEW w \in Workload, DeleteWorkload(w) \/ \E m \in Manifest : WriteWorkload(w, m)
      PROVE  UNCHANGED <<secrets, workloads, edges, secretVersions, published>>
  BY <1>2 DEF DeleteWorkload, WriteWorkload, Written, cache
<1>3. ASSUME ListSecrets \/ TimeIsUp \/ UNCHANGED vars
      PROVE  UNCHANGED <<secrets, workloads, edges, secretVersions, published>>
  BY <1>3 DEF ListSecrets, TimeIsUp, vars, cache
<1> QED
  BY <1>1, <1>2, <1>3 DEF Next, ClusterWrite

-----------------------------------------------------------------------------
(* A snapshot agrees with itself.                                          *)

\* Both ends of every edge are nodes of the same snapshot, and an edge is
\* resolved exactly when its Secret's node exists, even when the Secrets were
\* listed before a change and the workloads after it.
THEOREM EdgesAndNodesAgree == Spec => []EdgesMatchNodes
<1>1. Init => EdgesMatchNodes
  BY DEF Init, EdgesMatchNodes, Empty
<1>2. EdgesMatchNodes /\ [Next]_vars => EdgesMatchNodes'
  <2> SUFFICES ASSUME EdgesMatchNodes, [Next]_vars
               PROVE  EdgesMatchNodes'
    OBVIOUS
  <2>1. CASE ApplySnapshot
    <3> SUFFICES ASSUME NEW e \in DOMAIN edges'
                 PROVE  /\ e[1] \in DOMAIN workloads'
                        /\ e[2] \in DOMAIN secrets'
                        /\ edges'[e].resolved <=> secrets'[e[2]].exists
      BY DEF EdgesMatchNodes
    <3>1. e \in References(manifests)
      BY <2>1, SnapshotShape
    <3>2. e[1] \in DOMAIN workloads'
      BY <2>1, <3>1, SnapshotShape DEF References
    <3>3. e[2] \in DOMAIN secrets'
      BY <2>1, SnapshotShape
    <3>4. edges'[e].resolved = (e[2] \in DOMAIN secretInputs)
      BY <2>1, SnapshotShape DEF NewEdge
    <3> QED
      BY <2>1, <3>2, <3>3, <3>4, NodeOfSecret
  <2>2. CASE Restart
    BY <2>2 DEF Restart, EdgesMatchNodes, Empty
  <2>3. CASE UNCHANGED <<secrets, workloads, edges, secretVersions, published>>
    BY <2>3 DEF EdgesMatchNodes
  <2> QED
    BY <2>1, <2>2, <2>3, GraphKept
<1> QED
  BY <1>1, <1>2, PTL DEF Spec

-----------------------------------------------------------------------------
(* Once the cluster rests the graph is the cluster's.                      *)

\* While nothing is written, what was listed is what there is.
ListIsCurrent == fresh => DOMAIN secretInputs = DOMAIN objects \cap Observable

\* When nothing was written since the last list began, the graph shows exactly
\* the workloads, references and visible Secrets of the cluster.
THEOREM SettledIsExact == Spec => []SettledGraphIsExact
<1> DEFINE IInv == ListIsCurrent /\ SettledGraphIsExact
<1>1. Init => IInv
  BY DEF Init, ListIsCurrent, SettledGraphIsExact
<1>2. IInv /\ [Next]_vars => IInv'
  <2> SUFFICES ASSUME IInv, [Next]_vars
               PROVE  IInv'
    OBVIOUS
  <2>1. ASSUME Written
        PROVE  IInv'
    BY <2>1 DEF Written, ListIsCurrent, SettledGraphIsExact
  <2>2. CASE ClusterWrite
    BY <2>1, <2>2 DEF ClusterWrite, WriteSecret, DeleteSecret, WriteWorkload, DeleteWorkload
  <2>3. CASE ListSecrets
    BY <2>3 DEF ListSecrets, ListIsCurrent, SettledGraphIsExact, Restrict, cluster
  <2>4. CASE ApplySnapshot
    <3>1. ListIsCurrent'
      BY <2>4 DEF ApplySnapshot, ListIsCurrent
    <3>2. UNCHANGED <<objects, manifests, secretInputs, fresh>>
      BY <2>4 DEF ApplySnapshot
    <3>3. SettledGraphIsExact'
      <4> SUFFICES ASSUME fresh
                   PROVE  /\ DOMAIN edges' = References(manifests)
                          /\ DOMAIN workloads' = DOMAIN manifests
                          /\ DOMAIN secrets' = (DOMAIN objects \cap Observable)
                                                 \cup {e[2] : e \in References(manifests)}
                          /\ \A e \in DOMAIN edges' :
                               edges'[e].resolved <=> e[2] \in DOMAIN objects \cap Observable
        BY <3>2 DEF SettledGraphIsExact, References
      <4>1. DOMAIN secretInputs = DOMAIN objects \cap Observable
        BY DEF ListIsCurrent
      <4>2. \A e \in DOMAIN edges' : edges'[e].resolved = (e[2] \in DOMAIN secretInputs)
        BY <2>4, SnapshotShape DEF NewEdge
      <4> QED
        BY <2>4, <4>1, <4>2, SnapshotShape
    <3> QED
      BY <3>1, <3>3
  <2>5. CASE Restart
    BY <2>5 DEF Restart, ListIsCurrent, SettledGraphIsExact
  <2>6. CASE TimeIsUp \/ UNCHANGED vars
    <3>1. /\ UNCHANGED <<objects, manifests, secretInputs, fresh, listing>>
          /\ UNCHANGED <<secrets, workloads, edges>>
      BY <2>6 DEF TimeIsUp, vars, cluster, cache
    <3>2. ListIsCurrent'
      BY <3>1 DEF ListIsCurrent
    <3>3. SettledGraphIsExact'
      BY <3>1 DEF SettledGraphIsExact, References
    <3> QED
      BY <3>2, <3>3
  <2> QED
    BY <2>2, <2>3, <2>4, <2>5, <2>6 DEF Next
<1>3. IInv => SettledGraphIsExact
  OBVIOUS
<1> QED
  BY <1>1, <1>2, <1>3, PTL DEF Spec

-----------------------------------------------------------------------------
(* The time of a Secret's last change.                                     *)

\* Times are numbers, none is in the future, and the Secrets that exist have
\* one.
TimesArePast ==
  /\ clock \in Nat
  /\ \A s \in DOMAIN objects : objects[s].created \in Nat \ {0} /\ objects[s].created <= clock
  /\ \A s \in DOMAIN secretInputs :
       secretInputs[s].created \in Nat \ {0} /\ secretInputs[s].created <= clock
  /\ \A s \in DOMAIN secrets : /\ secrets[s].changedAt \in Nat /\ secrets[s].changedAt <= clock
                              /\ secrets[s].exists <=> secrets[s].changedAt # 0

\* What ListedSecret remembers lies between the last change and now.
LEMMA ChangeTimeOfListed ==
  ASSUME TimesArePast, clock' = clock + 1, NEW s \in DOMAIN secretInputs
  PROVE  LET t == ListedSecret(s, secretInputs[s], clock').changedAt
         IN  t \in Nat \ {0} /\ t <= clock' /\ (s \in DOMAIN secrets => t >= secrets[s].changedAt)
<1> DEFINE t == ListedSecret(s, secretInputs[s], clock').changedAt
           old == IF s \in DOMAIN secrets THEN secrets[s].changedAt ELSE 0
<1>1. Prev(s).changedAt = old
  BY DEF Prev
<1>2. old \in Nat /\ old <= clock
  BY DEF TimesArePast
<1>3. secretInputs[s].created \in Nat \ {0} /\ secretInputs[s].created <= clock
  BY DEF TimesArePast
<1>4. t = clock' \/ (old # 0 /\ t = old) \/ (old = 0 /\ t = secretInputs[s].created)
  BY <1>1 DEF ListedSecret
<1>5. clock \in Nat
  BY DEF TimesArePast
<1> QED
  BY <1>2, <1>3, <1>4, <1>5

\* No time is in the future, in any reachable state.
LEMMA TimesInvariant == Spec => []TimesArePast
<1>1. Init => TimesArePast
  BY DEF Init, TimesArePast, Empty
<1>2. TimesArePast /\ [Next]_vars => TimesArePast'
  <2> SUFFICES ASSUME TimesArePast, [Next]_vars
               PROVE  TimesArePast'
    OBVIOUS
  <2>1. clock \in Nat
    BY DEF TimesArePast
  <2>2. ASSUME NEW s \in Secret, NEW meta \in SecretMeta, WriteSecret(s, meta)
        PROVE  TimesArePast'
    <3>1. clock' = clock + 1 /\ UNCHANGED <<secretInputs, secrets>>
      BY <2>2 DEF WriteSecret, Tick, Written, cache
    <3>2. \A x \in DOMAIN objects' : objects'[x].created = clock'
                                      \/ (x \in DOMAIN objects /\ objects'[x].created = objects[x].created)
      BY <2>2 DEF WriteSecret, Put
    <3> QED
      BY <2>1, <3>1, <3>2 DEF TimesArePast
  <2>3. ASSUME NEW s \in Secret, DeleteSecret(s)
        PROVE  TimesArePast'
    <3>1. clock' = clock + 1 /\ UNCHANGED <<secretInputs, secrets>>
      BY <2>3 DEF DeleteSecret, Tick, Written, cache
    <3>2. \A x \in DOMAIN objects' : x \in DOMAIN objects /\ objects'[x] = objects[x]
      BY <2>3 DEF DeleteSecret, Restrict
    <3> QED
      BY <2>1, <3>1, <3>2 DEF TimesArePast
  <2>4. ASSUME NEW w \in Workload, DeleteWorkload(w) \/ \E m \in Manifest : WriteWorkload(w, m)
        PROVE  TimesArePast'
    <3>1. clock' = clock + 1 /\ UNCHANGED <<objects, secretInputs, secrets>>
      BY <2>4 DEF DeleteWorkload, WriteWorkload, Tick, Written, cache
    <3> QED
      BY <2>1, <3>1 DEF TimesArePast
  <2>5. CASE ListSecrets
    <3>1. UNCHANGED <<clock, objects, secrets>>
      BY <2>5 DEF ListSecrets, cluster, cache
    <3>2. \A x \in DOMAIN secretInputs' : x \in DOMAIN objects /\ secretInputs'[x] = objects[x]
      BY <2>5 DEF ListSecrets, Restrict
    <3> QED
      BY <3>1, <3>2 DEF TimesArePast
  <2>6. CASE ApplySnapshot
    <3>1. clock' = clock + 1 /\ UNCHANGED <<objects, secretInputs>>
      BY <2>6 DEF ApplySnapshot, Tick
    <3>2. ASSUME NEW s \in DOMAIN secrets'
          PROVE  /\ secrets'[s].changedAt \in Nat /\ secrets'[s].changedAt <= clock'
                 /\ secrets'[s].exists <=> secrets'[s].changedAt # 0
      <4>1. CASE s \in DOMAIN secretInputs
        BY <2>6, <3>1, <4>1, NodeOfSecret, ChangeTimeOfListed
      <4>2. CASE s \notin DOMAIN secretInputs
        BY <2>1, <2>6, <3>1, <4>2, NodeOfSecret
      <4> QED
        BY <4>1, <4>2
    <3> QED
      BY <2>1, <3>1, <3>2 DEF TimesArePast
  <2>7. CASE Restart
    BY <2>1, <2>7 DEF Restart, Tick, Empty, TimesArePast
  <2>8. CASE TimeIsUp \/ UNCHANGED vars
    <3>1. UNCHANGED <<clock, objects, secretInputs, secrets>>
      BY <2>8 DEF TimeIsUp, vars, cluster, cache
    <3> QED
      BY <3>1 DEF TimesArePast
  <2> QED
    BY <2>2, <2>3, <2>4, <2>5, <2>6, <2>7, <2>8 DEF Next, ClusterWrite
<1> QED
  BY <1>1, <1>2, PTL DEF Spec

\* As long as a Secret stays in the graph the time of its last change does not
\* go back, whatever its creation time says.
THEOREM ChangeTimeMonotone == Spec => ChangeTimeNeverGoesBack
<1> DEFINE Kept ==
      \A s \in DOMAIN secrets \cap DOMAIN secrets' :
        secrets[s].exists /\ secrets'[s].exists => secrets'[s].changedAt >= secrets[s].changedAt
<1>1. TimesArePast /\ [Next]_vars => [Kept]_vars
  <2> SUFFICES ASSUME TimesArePast, [Next]_vars
               PROVE  Kept
    OBVIOUS
  <2>1. CASE ApplySnapshot
    <3>1. clock' = clock + 1
      BY <2>1 DEF ApplySnapshot, Tick
    <3> QED
      BY <2>1, <3>1, NodeOfSecret, ChangeTimeOfListed
  <2>2. CASE Restart
    BY <2>2 DEF Restart, Empty
  <2>3. CASE UNCHANGED <<secrets, workloads, edges, secretVersions, published>>
    BY <2>3 DEF TimesArePast
  <2> QED
    BY <2>1, <2>2, <2>3, GraphKept
<1> QED
  BY <1>1, TimesInvariant, PTL DEF Spec, ChangeTimeNeverGoesBack

-----------------------------------------------------------------------------
(* The age of an edge.                                                     *)

\* The history is a sequence and its last entry has the edges of the graph.
HistoryEndsWithGraph ==
  /\ \E S : published \in Seq(S)
  /\ DOMAIN edges = IF published = <<>> THEN {} ELSE published[Len(published)].refs

\* The unbroken run of every edge has a first snapshot, and the edge its time.
AgesFromHistory ==
  \A e \in DOMAIN edges :
    \E i \in SnapshotsWithEdge(e) :
      /\ \A j \in SnapshotsWithEdge(e) : i <= j
      /\ edges[e].firstObservedAt = published[i].at

\* A snapshot that has the edge makes its unbroken run longer.
LEMMA RunGrows ==
  ASSUME NEW S, published \in Seq(S), NEW p, NEW e,
         published' = Append(published, p), e \in p.refs
  PROVE  SnapshotsWithEdge(e)' = SnapshotsWithEdge(e) \cup {Len(published) + 1}
<1> DEFINE n == Len(published)
<1>1. /\ n \in Nat
      /\ Len(published') = n + 1
      /\ \A i \in 1..n : published'[i] = published[i]
      /\ published'[n + 1] = p
  OBVIOUS
<1>2. ASSUME NEW i \in 1..n
      PROVE  (\A j \in i..(n + 1) : e \in published'[j].refs)
               <=> (\A j \in i..n : e \in published[j].refs)
  <2>1. \A j \in i..(n + 1) : j \in 1..n \/ j = n + 1
    BY <1>1
  <2>2. i..n \subseteq i..(n + 1) /\ i..n \subseteq 1..n
    BY <1>1
  <2> QED
    BY <1>1, <2>1, <2>2
<1>3. \A j \in (n + 1)..(n + 1) : e \in published'[j].refs
  BY <1>1
<1>4. 1..(n + 1) = 1..n \cup {n + 1}
  BY <1>1
<1> QED
  BY <1>1, <1>2, <1>3, <1>4 DEF SnapshotsWithEdge

\* An edge the last snapshot did not have has no run.
LEMMA NoRunWithoutEdge ==
  ASSUME NEW S, published \in Seq(S), NEW e,
         published # <<>> => e \notin published[Len(published)].refs
  PROVE  SnapshotsWithEdge(e) = {}
<1> DEFINE n == Len(published)
<1>1. CASE published = <<>>
  BY <1>1 DEF SnapshotsWithEdge
<1>2. CASE published # <<>>
  <2>1. n \in Nat \ {0} /\ e \notin published[n].refs
    BY <1>2
  <2>2. \A i \in 1..n : n \in i..n
    BY <2>1
  <2> QED
    BY <2>1, <2>2 DEF SnapshotsWithEdge
<1> QED
  BY <1>1, <1>2

\* Every snapshot that has the edge since it last was absent leaves its first
\* observation alone; when it comes back it is observed anew.
THEOREM EdgeAges == Spec => []EdgeAgeIsUnbroken
<1> DEFINE IInv == HistoryEndsWithGraph /\ AgesFromHistory
<1>1. Init => IInv
  <2> SUFFICES ASSUME Init PROVE IInv
    OBVIOUS
  <2>1. published = <<>> /\ DOMAIN edges = {}
    BY DEF Init, Empty
  <2>2. published \in Seq({})
    BY <2>1
  <2> QED
    BY <2>1, <2>2 DEF HistoryEndsWithGraph, AgesFromHistory
<1>2. IInv /\ [Next]_vars => IInv'
  <2> SUFFICES ASSUME IInv, [Next]_vars
               PROVE  IInv'
    OBVIOUS
  <2>1. CASE ApplySnapshot
    <3> DEFINE p == [inputs |-> secretInputs, refs |-> DOMAIN edges', at |-> clock']
               n == Len(published)
    <3>1. PICK S : published \in Seq(S)
      BY DEF HistoryEndsWithGraph
    <3>2. published' = Append(published, p)
      BY <2>1 DEF ApplySnapshot
    <3>3. published' \in Seq(S \cup {p})
      BY <3>1, <3>2
    <3>4. /\ n \in Nat
          /\ Len(published') = n + 1
          /\ \A i \in 1..n : published'[i] = published[i]
          /\ published'[n + 1] = p
      BY <3>1, <3>2
    <3>5. HistoryEndsWithGraph'
      <4>1. published' # <<>> /\ published'[Len(published')].refs = DOMAIN edges'
        BY <3>4
      <4> QED
        BY <3>3, <4>1 DEF HistoryEndsWithGraph
    <3>6. ASSUME NEW e \in DOMAIN edges'
          PROVE  \E i \in SnapshotsWithEdge(e)' :
                   /\ \A j \in SnapshotsWithEdge(e)' : i <= j
                   /\ edges'[e].firstObservedAt = published'[i].at
      <4>1. SnapshotsWithEdge(e)' = SnapshotsWithEdge(e) \cup {n + 1}
        BY <3>1, <3>2, RunGrows
      <4>2. edges'[e].firstObservedAt =
              IF e \in DOMAIN edges THEN edges[e].firstObservedAt ELSE clock'
        BY <2>1, SnapshotShape DEF NewEdge
      <4>3. CASE e \in DOMAIN edges
        <5>1. PICK i \in SnapshotsWithEdge(e) :
                /\ \A j \in SnapshotsWithEdge(e) : i <= j
                /\ edges[e].firstObservedAt = published[i].at
          BY <4>3 DEF AgesFromHistory
        <5>2. i \in 1..n
          BY DEF SnapshotsWithEdge
        <5>3. i <= n + 1 /\ published'[i] = published[i]
          BY <3>4, <5>2
        <5>4. i \in SnapshotsWithEdge(e)' /\ \A j \in SnapshotsWithEdge(e)' : i <= j
          BY <4>1, <5>1, <5>3
        <5>5. edges'[e].firstObservedAt = published'[i].at
          BY <4>2, <4>3, <5>1, <5>3
        <5> QED
          BY <5>4, <5>5
      <4>4. CASE e \notin DOMAIN edges
        <5>1. SnapshotsWithEdge(e) = {}
          BY <3>1, <4>4, NoRunWithoutEdge DEF HistoryEndsWithGraph
        <5> QED
          BY <3>4, <4>1, <4>2, <4>4, <5>1
      <4> QED
        BY <4>3, <4>4
    <3> QED
      BY <3>5, <3>6 DEF AgesFromHistory
  <2>2. CASE Restart
    <3>1. published' = <<>> /\ DOMAIN edges' = {}
      BY <2>2 DEF Restart, Empty
    <3>2. published' \in Seq({})
      BY <3>1
    <3> QED
      BY <3>1, <3>2 DEF HistoryEndsWithGraph, AgesFromHistory
  <2>3. CASE UNCHANGED <<secrets, workloads, edges, secretVersions, published>>
    BY <2>3 DEF HistoryEndsWithGraph, AgesFromHistory, SnapshotsWithEdge
  <2> QED
    BY <2>1, <2>2, <2>3, GraphKept
<1>3. IInv => EdgeAgeIsUnbroken
  <2> SUFFICES ASSUME IInv, NEW e \in DOMAIN edges
               PROVE  edges[e].firstObservedAt = published[Min(SnapshotsWithEdge(e))].at
    BY DEF EdgeAgeIsUnbroken
  <2>1. PICK i \in SnapshotsWithEdge(e) :
          /\ \A j \in SnapshotsWithEdge(e) : i <= j
          /\ edges[e].firstObservedAt = published[i].at
    BY DEF AgesFromHistory
  <2>2. PICK S : published \in Seq(S)
    BY DEF HistoryEndsWithGraph
  <2>3. SnapshotsWithEdge(e) \subseteq Nat
    BY <2>2 DEF SnapshotsWithEdge
  <2>4. \A k \in SnapshotsWithEdge(e) :
          (\A j \in SnapshotsWithEdge(e) : k <= j) => k = i
    BY <2>1, <2>3
  <2>5. Min(SnapshotsWithEdge(e)) = i
    BY <2>1, <2>4 DEF Min
  <2> QED
    BY <2>1, <2>5
<1> QED
  BY <1>1, <1>2, <1>3, PTL DEF Spec

-----------------------------------------------------------------------------
(* The changes of a Secret.                                                *)

\* The Secrets of the last snapshot.
LastInputs == IF published = <<>> THEN Empty ELSE published[Len(published)].inputs

\* The graph was made from the last snapshot of the history, and remembers its
\* resource versions.
HistoryEndsWithSecrets ==
  /\ \E S : published \in Seq(S)
  /\ DOMAIN LastInputs \subseteq DOMAIN secrets
  /\ \A s \in DOMAIN secrets : secrets[s].exists <=> s \in DOMAIN LastInputs
  /\ secretVersions = [s \in DOMAIN LastInputs |-> LastInputs[s].version]

\* What is known of the Secrets after a snapshot, and after anything else.
LEMMA LastInputsSteps ==
  ASSUME NEW S, published \in Seq(S), [Next]_vars
  PROVE  /\ ApplySnapshot => LastInputs' = secretInputs
         /\ Restart => LastInputs' = Empty
         /\ UNCHANGED published => LastInputs' = LastInputs
<1>1. ASSUME ApplySnapshot PROVE LastInputs' = secretInputs
  <2> DEFINE p == [inputs |-> secretInputs, refs |-> DOMAIN edges', at |-> clock']
  <2>1. published' = Append(published, p)
    BY <1>1 DEF ApplySnapshot
  <2> HIDE DEF p
  <2>2. published' # <<>> /\ published'[Len(published')] = p
    BY <2>1
  <2> QED
    BY <2>2 DEF LastInputs, p
<1> QED
  BY <1>1 DEF Restart, LastInputs, Empty

\* The graph keeps being made from the last snapshot.
LEMMA HistoryInvariant == Spec => []HistoryEndsWithSecrets
<1>1. Init => HistoryEndsWithSecrets
  <2> SUFFICES ASSUME Init PROVE HistoryEndsWithSecrets
    OBVIOUS
  <2>1. published \in Seq({}) /\ LastInputs = Empty
    BY DEF Init, LastInputs
  <2> QED
    BY <2>1 DEF Init, HistoryEndsWithSecrets, Empty
<1>2. HistoryEndsWithSecrets /\ [Next]_vars => HistoryEndsWithSecrets'
  <2> SUFFICES ASSUME HistoryEndsWithSecrets, [Next]_vars
               PROVE  HistoryEndsWithSecrets'
    OBVIOUS
  <2>0. PICK S : published \in Seq(S)
    BY DEF HistoryEndsWithSecrets
  <2>1. CASE ApplySnapshot
    <3>1. LastInputs' = secretInputs
      BY <2>0, <2>1, LastInputsSteps
    <3> DEFINE p == [inputs |-> secretInputs, refs |-> DOMAIN edges', at |-> clock']
    <3>2. published' = Append(published, p)
      BY <2>1 DEF ApplySnapshot
    <3>3. published' \in Seq(S \cup {p})
      BY <2>0, <3>2
    <3>4. DOMAIN secretInputs \subseteq DOMAIN secrets'
      BY <2>1, SnapshotShape
    <3>5. \A s \in DOMAIN secrets' : secrets'[s].exists <=> s \in DOMAIN secretInputs
      BY <2>1, NodeOfSecret
    <3>6. secretVersions' = [s \in DOMAIN secretInputs |-> secretInputs[s].version]
      BY <2>1 DEF ApplySnapshot
    <3> QED
      BY <3>1, <3>3, <3>4, <3>5, <3>6 DEF HistoryEndsWithSecrets
  <2>2. CASE Restart
    <3>0. published' = <<>>
      BY <2>2 DEF Restart
    <3>1. LastInputs' = Empty /\ published' \in Seq({})
      BY <2>0, <2>2, <3>0, LastInputsSteps
    <3> QED
      BY <2>2, <3>1 DEF Restart, HistoryEndsWithSecrets, Empty
  <2>3. CASE UNCHANGED <<secrets, workloads, edges, secretVersions, published>>
    BY <2>3 DEF HistoryEndsWithSecrets, LastInputs
  <2> QED
    BY <2>1, <2>2, <2>3, GraphKept
<1> QED
  BY <1>1, <1>2, PTL DEF Spec

\* One resource version stands for one object, whether it is in the cluster,
\* was listed, or is of the last snapshot.
SameObject(f, g) ==
  \A s \in DOMAIN f \cap DOMAIN g : f[s].version = g[s].version => f[s].created = g[s].created

VersionsArePast(f) == \A s \in DOMAIN f : f[s].version \in Nat /\ f[s].version <= clock

VersionsIdentify ==
  /\ VersionsArePast(objects) /\ VersionsArePast(secretInputs) /\ VersionsArePast(LastInputs)
  /\ SameObject(objects, secretInputs) /\ SameObject(objects, LastInputs)
  /\ SameObject(secretInputs, LastInputs)

\* A Secret deleted and created again has another resource version.
LEMMA VersionsInvariant == Spec => []VersionsIdentify
<1>1. Init => VersionsIdentify
  BY DEF Init, VersionsIdentify, VersionsArePast, SameObject, LastInputs, Empty
<1>2. HistoryEndsWithSecrets /\ TimesArePast /\ VersionsIdentify /\ [Next]_vars => VersionsIdentify'
  <2> SUFFICES ASSUME HistoryEndsWithSecrets, TimesArePast, VersionsIdentify, [Next]_vars
               PROVE  VersionsIdentify'
    OBVIOUS
  <2>0. PICK S : published \in Seq(S)
    BY DEF HistoryEndsWithSecrets
  <2>1. clock \in Nat
    BY DEF TimesArePast
  <2>2. ASSUME NEW s \in Secret, NEW meta \in SecretMeta, WriteSecret(s, meta)
        PROVE  VersionsIdentify'
    <3>1. clock' = clock + 1 /\ UNCHANGED <<secretInputs, published>>
      BY <2>2 DEF WriteSecret, Tick, Written
    <3>2. LastInputs' = LastInputs
      BY <3>1 DEF LastInputs
    <3>3. \A x \in DOMAIN objects' :
             \/ objects'[x].version = clock'
             \/ x \in DOMAIN objects /\ objects'[x] = objects[x]
      BY <2>2 DEF WriteSecret, Put
    <3> QED
      BY <2>1, <3>1, <3>2, <3>3 DEF VersionsIdentify, VersionsArePast, SameObject
  <2>3. ASSUME NEW s \in Secret, DeleteSecret(s)
        PROVE  VersionsIdentify'
    <3>1. clock' = clock + 1 /\ UNCHANGED <<secretInputs, published>>
      BY <2>3 DEF DeleteSecret, Tick, Written
    <3>2. LastInputs' = LastInputs
      BY <3>1 DEF LastInputs
    <3>3. \A x \in DOMAIN objects' : x \in DOMAIN objects /\ objects'[x] = objects[x]
      BY <2>3 DEF DeleteSecret, Restrict
    <3> QED
      BY <2>1, <3>1, <3>2, <3>3 DEF VersionsIdentify, VersionsArePast, SameObject
  <2>4. ASSUME NEW w \in Workload, DeleteWorkload(w) \/ \E m \in Manifest : WriteWorkload(w, m)
        PROVE  VersionsIdentify'
    <3>1. clock' = clock + 1 /\ UNCHANGED <<objects, secretInputs, published>>
      BY <2>4 DEF DeleteWorkload, WriteWorkload, Tick, Written
    <3> QED
      BY <2>1, <3>1 DEF VersionsIdentify, VersionsArePast, SameObject, LastInputs
  <2>5. CASE ListSecrets
    <3>1. UNCHANGED <<clock, objects, published>>
      BY <2>5 DEF ListSecrets, cluster
    <3>2. \A x \in DOMAIN secretInputs' : x \in DOMAIN objects /\ secretInputs'[x] = objects[x]
      BY <2>5 DEF ListSecrets, Restrict
    <3> QED
      BY <3>1, <3>2 DEF VersionsIdentify, VersionsArePast, SameObject, LastInputs
  <2>6. CASE ApplySnapshot
    <3>1. clock' = clock + 1 /\ UNCHANGED <<objects, secretInputs>>
      BY <2>6 DEF ApplySnapshot, Tick
    <3>2. LastInputs' = secretInputs
      BY <2>0, <2>6, LastInputsSteps
    <3> QED
      BY <2>1, <3>1, <3>2 DEF VersionsIdentify, VersionsArePast, SameObject
  <2>7. CASE Restart
    <3>1. clock' = clock + 1 /\ UNCHANGED objects /\ secretInputs' = Empty
      BY <2>7 DEF Restart, Tick
    <3>2. LastInputs' = Empty
      BY <2>0, <2>7, LastInputsSteps
    <3> QED
      BY <2>1, <3>1, <3>2 DEF VersionsIdentify, VersionsArePast, SameObject, Empty
  <2>8. CASE TimeIsUp \/ UNCHANGED vars
    <3>1. UNCHANGED <<clock, objects, secretInputs, published>>
      BY <2>8 DEF TimeIsUp, vars, cluster
    <3> QED
      BY <3>1 DEF VersionsIdentify, VersionsArePast, SameObject, LastInputs
  <2> QED
    BY <2>2, <2>3, <2>4, <2>5, <2>6, <2>7, <2>8 DEF Next, ClusterWrite
<1> QED
  BY <1>1, <1>2, HistoryInvariant, TimesInvariant, PTL DEF Spec

\* A snapshot that has the Secret makes its unbroken run longer.
LEMMA StayGrows ==
  ASSUME NEW S, published \in Seq(S), NEW p, NEW s,
         published' = Append(published, p), s \in DOMAIN p.inputs
  PROVE  SnapshotsWith(s)' = SnapshotsWith(s) \cup {Len(published) + 1}
<1> DEFINE n == Len(published)
<1>1. /\ n \in Nat
      /\ Len(published') = n + 1
      /\ \A i \in 1..n : published'[i] = published[i]
      /\ published'[n + 1] = p
  OBVIOUS
<1>2. ASSUME NEW i \in 1..n
      PROVE  (\A j \in i..(n + 1) : s \in DOMAIN published'[j].inputs)
               <=> (\A j \in i..n : s \in DOMAIN published[j].inputs)
  <2>1. \A j \in i..(n + 1) : j \in 1..n \/ j = n + 1
    BY <1>1
  <2>2. i..n \subseteq i..(n + 1) /\ i..n \subseteq 1..n
    BY <1>1
  <2> QED
    BY <1>1, <2>1, <2>2
<1>3. \A j \in (n + 1)..(n + 1) : s \in DOMAIN published'[j].inputs
  BY <1>1
<1>4. 1..(n + 1) = 1..n \cup {n + 1}
  BY <1>1
<1> QED
  BY <1>1, <1>2, <1>3, <1>4 DEF SnapshotsWith

\* The run of a Secret ends with the last snapshot, or there is none.
LEMMA StayEnds ==
  ASSUME NEW S, published \in Seq(S), NEW s
  PROVE  /\ SnapshotsWith(s) \subseteq 1..Len(published)
         /\ s \in DOMAIN LastInputs => Len(published) \in SnapshotsWith(s)
         /\ s \notin DOMAIN LastInputs => SnapshotsWith(s) = {}
<1> DEFINE n == Len(published)
<1>1. CASE published = <<>>
  BY <1>1 DEF SnapshotsWith, LastInputs, Empty
<1>2. CASE published # <<>>
  <2>1. n \in Nat \ {0} /\ LastInputs = published[n].inputs
    BY <1>2 DEF LastInputs
  <2>2. \A i \in 1..n : n \in i..n
    BY <2>1
  <2>3. n \in 1..n /\ \A j \in n..n : j = n
    BY <2>1
  <2> QED
    BY <2>1, <2>2, <2>3 DEF SnapshotsWith
<1> QED
  BY <1>1, <1>2

\* A snapshot adds itself to the differences when it found another version
\* than the snapshot before, and keeps the others.
LEMMA DifferencesGrow ==
  ASSUME NEW S, published \in Seq(S), NEW p, NEW s,
         published' = Append(published, p), s \in DOMAIN p.inputs
  PROVE  /\ Differences(s) \subseteq 1..Len(published)
         /\ Differences(s)' =
              IF s \in DOMAIN LastInputs /\ LastInputs[s].version # p.inputs[s].version
              THEN Differences(s) \cup {Len(published) + 1} ELSE Differences(s)
         /\ s \notin DOMAIN LastInputs => Differences(s) = {}
<1> DEFINE n == Len(published)
<1>1. /\ n \in Nat
      /\ \A i \in 1..n : published'[i] = published[i]
      /\ published'[n + 1] = p
  OBVIOUS
<1>2. SnapshotsWith(s)' = SnapshotsWith(s) \cup {n + 1}
  BY StayGrows
<1>3. /\ SnapshotsWith(s) \subseteq 1..n
      /\ s \in DOMAIN LastInputs => n \in SnapshotsWith(s)
      /\ s \notin DOMAIN LastInputs => SnapshotsWith(s) = {}
  BY StayEnds
<1>4. ASSUME NEW i \in SnapshotsWith(s)
      PROVE  i \in Differences(s)' <=> i \in Differences(s)
  <2>1. i \in 1..n /\ i - 1 # n + 1 /\ i \in SnapshotsWith(s)'
    BY <1>1, <1>2, <1>3
  <2>2. i - 1 \in SnapshotsWith(s)' <=> i - 1 \in SnapshotsWith(s)
    BY <1>2, <2>1
  <2>3. i - 1 \in SnapshotsWith(s) => published'[i - 1] = published[i - 1]
    BY <1>1, <1>3
  <2> QED
    BY <1>1, <2>1, <2>2, <2>3 DEF Differences
<1>5. n + 1 \notin SnapshotsWith(s) /\ n + 1 \in SnapshotsWith(s)' /\ (n + 1) - 1 = n
  BY <1>1, <1>2, <1>3
<1>6. n + 1 \in Differences(s)' <=> s \in DOMAIN LastInputs /\ LastInputs[s].version # p.inputs[s].version
  <2>1. n \in SnapshotsWith(s)' <=> s \in DOMAIN LastInputs
    BY <1>1, <1>2, <1>3
  <2>2. s \in DOMAIN LastInputs => n \in 1..n /\ published'[n] = published[n]
    BY <1>1, <1>3
  <2>3. s \in DOMAIN LastInputs => LastInputs = published[n].inputs
    BY DEF LastInputs, Empty
  <2> QED
    BY <1>1, <1>5, <2>1, <2>2, <2>3 DEF Differences
<1>7. Differences(s)' \subseteq SnapshotsWith(s) \cup {n + 1} /\ Differences(s) \subseteq SnapshotsWith(s)
  BY <1>2 DEF Differences
<1>8. CASE s \in DOMAIN LastInputs /\ LastInputs[s].version # p.inputs[s].version
  <2>1. n + 1 \in Differences(s)'
    BY <1>6, <1>8
  <2>2. Differences(s)' = Differences(s) \cup {n + 1}
    BY <1>4, <1>7, <2>1
  <2> QED
    BY <1>3, <1>7, <1>8, <2>2
<1>9. CASE ~(s \in DOMAIN LastInputs /\ LastInputs[s].version # p.inputs[s].version)
  <2>1. n + 1 \notin Differences(s)'
    BY <1>6, <1>9
  <2>2. Differences(s)' = Differences(s)
    BY <1>4, <1>5, <1>7, <2>1
  <2> QED
    BY <1>3, <1>7, <1>9, <2>2
<1> QED
  BY <1>8, <1>9

\* What the nodes remember of their changes is what the history says, and
\* snapshots are never at time 0, which stands for no time.
ChangesFromHistory ==
  /\ \A i \in 1..Len(published) : published[i].at \in Nat \ {0}
  /\ \A s \in DOMAIN secrets :
       IF secrets[s].exists
       THEN /\ secrets[s].changes = Cardinality(Differences(s))
            /\ Differences(s) = {} => secrets[s].changedAt = LastInputs[s].created
            /\ Differences(s) # {} => \E i \in Differences(s) :
                                        /\ \A j \in Differences(s) : i >= j
                                        /\ secrets[s].changedAt = published[i].at
       ELSE secrets[s].changes = 0 /\ secrets[s].changedAt = 0

\* What the node of a listed Secret, or of one that is not, remembers.
LEMMA ChangesOfNode ==
  ASSUME ApplySnapshot, NEW s \in DOMAIN secrets'
  PROVE  IF s \in DOMAIN secretInputs
         THEN LET node == ListedSecret(s, secretInputs[s], clock')
              IN  secrets'[s].changes = node.changes /\ secrets'[s].changedAt = node.changedAt
         ELSE secrets'[s].changes = 0 /\ secrets'[s].changedAt = 0
<1>1. CASE s \in DOMAIN secretInputs
  <2>1. secrets'[s] = Aggregated(ListedSecret(s, secretInputs[s], clock'),
                                 EdgesTo(s, edges'), edges')
    BY <1>1, SnapshotShape
  <2> QED
    BY <1>1, <2>1, AggregationKeeps
<1>2. CASE s \notin DOMAIN secretInputs
  <2>1. secrets'[s] = Aggregated(AbsentSecret, EdgesTo(s, edges'), edges')
    BY <1>2, SnapshotShape
  <2>2. AbsentSecret.changes = 0 /\ AbsentSecret.changedAt = 0
    BY DEF AbsentSecret
  <2> QED
    BY <1>2, <2>1, <2>2, AggregationKeeps
<1> QED
  BY <1>1, <1>2

\* A snapshot counts and dates the changes of a listed Secret as the history
\* that ends with it does.
LEMMA ListedChanges ==
  ASSUME NEW S, published \in Seq(S), HistoryEndsWithSecrets, TimesArePast, VersionsIdentify,
         ChangesFromHistory, ApplySnapshot, NEW s \in DOMAIN secretInputs
  PROVE  LET node == ListedSecret(s, secretInputs[s], clock')
         IN  /\ node.changes = Cardinality(Differences(s)')
             /\ Differences(s)' = {} => node.changedAt = secretInputs[s].created
             /\ Differences(s)' # {} => \E i \in Differences(s)' :
                                          /\ \A j \in Differences(s)' : i >= j
                                          /\ node.changedAt = published'[i].at
<1> DEFINE n == Len(published)
           p == [inputs |-> secretInputs, refs |-> DOMAIN edges', at |-> clock']
           node == ListedSecret(s, secretInputs[s], clock')
           known == s \in DOMAIN LastInputs
           differs == known /\ LastInputs[s].version # secretInputs[s].version
<1>1. published' = Append(published, p) /\ s \in DOMAIN p.inputs
  BY DEF ApplySnapshot
<1>2. /\ n \in Nat
      /\ \A i \in 1..n : published'[i] = published[i]
      /\ published'[n + 1].at = clock'
  BY <1>1
<1>3. /\ Differences(s) \subseteq 1..n
      /\ Differences(s)' = IF differs THEN Differences(s) \cup {n + 1} ELSE Differences(s)
      /\ ~known => Differences(s) = {}
  BY <1>1, DifferencesGrow
<1>4. /\ known => s \in DOMAIN secrets /\ secrets[s].exists
      /\ ~known => ~(s \in DOMAIN secrets /\ secrets[s].exists)
      /\ known <=> s \in DOMAIN secretVersions
      /\ known => secretVersions[s] = LastInputs[s].version
  BY DEF HistoryEndsWithSecrets
<1>5. /\ node.changes = Prev(s).changes + (IF differs THEN 1 ELSE 0)
      /\ differs => node.changedAt = clock'
      /\ ~differs /\ Prev(s).changedAt # 0 => node.changedAt = Prev(s).changedAt
      /\ ~differs /\ Prev(s).changedAt = 0 => node.changedAt = secretInputs[s].created
  BY <1>4 DEF ListedSecret
<1>6. known => Prev(s) = secrets[s]
  BY <1>4 DEF Prev
<1>7. ~known => Prev(s).changes = 0 /\ Prev(s).changedAt = 0
  BY <1>4 DEF Prev, ChangesFromHistory
<1>8. IsFiniteSet(Differences(s)) /\ Cardinality(Differences(s)) \in Nat
  <2>1. IsFiniteSet(1..n)
    BY <1>2, FS_Interval
  <2> QED
    BY <1>3, <2>1, FS_Subset, FS_CardinalityType
<1>9. Prev(s).changes = Cardinality(Differences(s))
  BY <1>3, <1>4, <1>6, <1>7, FS_EmptySet DEF ChangesFromHistory
<1>10. node.changes = Cardinality(Differences(s)')
  <2>1. n + 1 \notin Differences(s)
    BY <1>2, <1>3
  <2>2. Cardinality(Differences(s) \cup {n + 1}) = Cardinality(Differences(s)) + 1
    BY <1>8, <2>1, FS_AddElement
  <2> HIDE DEF node
  <2> QED
    BY <1>3, <1>5, <1>8, <1>9, <2>2
<1> HIDE DEF node
<1>11. CASE differs
  <2>1. n + 1 \in Differences(s)' /\ \A j \in Differences(s)' : n + 1 >= j
    BY <1>2, <1>3, <1>11
  <2> QED
    BY <1>2, <1>5, <1>10, <1>11, <2>1 DEF node
<1>12. CASE known /\ ~differs
  <2>1. Differences(s)' = Differences(s)
    BY <1>3, <1>12
  <2>2. Differences(s) = {} => node.changedAt = secretInputs[s].created
    <3>1. secretInputs[s].created = LastInputs[s].created
      BY <1>12 DEF VersionsIdentify, SameObject
    <3> QED
      BY <1>4, <1>5, <1>6, <1>12, <3>1 DEF ChangesFromHistory
  <2>3. ASSUME Differences(s) # {}
        PROVE  \E i \in Differences(s) : /\ \A j \in Differences(s) : i >= j
                                         /\ node.changedAt = published'[i].at
    <3>1. PICK i \in Differences(s) : /\ \A j \in Differences(s) : i >= j
                                      /\ secrets[s].changedAt = published[i].at
      BY <1>4, <1>12, <2>3 DEF ChangesFromHistory
    <3>2. i \in 1..n /\ published[i].at # 0 /\ published'[i] = published[i]
      BY <1>2, <1>3 DEF ChangesFromHistory
    <3> QED
      BY <1>5, <1>6, <1>12, <3>1, <3>2
  <2> QED
    BY <1>10, <2>1, <2>2, <2>3 DEF node
<1>13. CASE ~known
  <2>1. Differences(s)' = {} /\ node.changedAt = secretInputs[s].created
    BY <1>3, <1>5, <1>7, <1>13
  <2> QED
    BY <1>10, <2>1 DEF node
<1> QED
  BY <1>11, <1>12, <1>13

\* The count of a Secret's changes is the number of snapshots that found another
\* version, if it never left, and not less since it was last absent; their time
\* is that of the last of them (ApplySnapshot).
THEOREM ChangesCounted == Spec => []ChangesAreDifferences
<1>1. Init => ChangesFromHistory
  BY DEF Init, ChangesFromHistory, Empty
<1>2. /\ HistoryEndsWithSecrets /\ TimesArePast /\ VersionsIdentify
      /\ ChangesFromHistory /\ [Next]_vars
      => ChangesFromHistory'
  <2> SUFFICES ASSUME HistoryEndsWithSecrets, TimesArePast, VersionsIdentify,
                      ChangesFromHistory, [Next]_vars
               PROVE  ChangesFromHistory'
    OBVIOUS
  <2>0. PICK S : published \in Seq(S)
    BY DEF HistoryEndsWithSecrets
  <2>1. CASE ApplySnapshot
    <3> DEFINE p == [inputs |-> secretInputs, refs |-> DOMAIN edges', at |-> clock']
               n == Len(published)
    <3>1. published' = Append(published, p)
      BY <2>1 DEF ApplySnapshot
    <3>2. /\ n \in Nat /\ Len(published') = n + 1
          /\ \A i \in 1..n : published'[i] = published[i]
          /\ published'[n + 1].at = clock'
      BY <2>0, <3>1
    <3>3. clock' \in Nat \ {0}
      BY <2>1 DEF ApplySnapshot, Tick, TimesArePast
    <3>4. \A i \in 1..Len(published') : published'[i].at \in Nat \ {0}
      <4>1. \A i \in 1..Len(published') : i \in 1..n \/ i = n + 1
        BY <3>2
      <4> QED
        BY <3>2, <3>3, <4>1 DEF ChangesFromHistory
    <3>5. LastInputs' = secretInputs
      BY <2>0, <2>1, LastInputsSteps
    <3>6. ASSUME NEW s \in DOMAIN secrets'
          PROVE  IF secrets'[s].exists
                 THEN /\ secrets'[s].changes = Cardinality(Differences(s)')
                      /\ Differences(s)' = {} => secrets'[s].changedAt = secretInputs[s].created
                      /\ Differences(s)' # {} => \E i \in Differences(s)' :
                                                   /\ \A j \in Differences(s)' : i >= j
                                                   /\ secrets'[s].changedAt = published'[i].at
                 ELSE secrets'[s].changes = 0 /\ secrets'[s].changedAt = 0
      <4>1. CASE s \in DOMAIN secretInputs
        BY <2>0, <2>1, <4>1, NodeOfSecret, ChangesOfNode, ListedChanges, SMTT(30)
      <4>2. CASE s \notin DOMAIN secretInputs
        BY <2>1, <4>2, NodeOfSecret, ChangesOfNode
      <4> QED
        BY <4>1, <4>2
    <3> QED
      BY <3>4, <3>5, <3>6 DEF ChangesFromHistory
  <2>2. CASE Restart
    <3>1. published' = <<>> /\ DOMAIN secrets' = {}
      BY <2>2 DEF Restart, Empty
    <3> QED
      BY <3>1 DEF ChangesFromHistory
  <2>3. CASE UNCHANGED <<secrets, workloads, edges, secretVersions, published>>
    <3>1. \A s : Differences(s)' = Differences(s)
      BY <2>3 DEF Differences, SnapshotsWith
    <3>2. LastInputs' = LastInputs /\ secrets' = secrets /\ published' = published
      BY <2>3 DEF LastInputs
    <3> QED
      BY <3>1, <3>2 DEF ChangesFromHistory
  <2> QED
    BY <2>1, <2>2, <2>3, GraphKept
<1>3. HistoryEndsWithSecrets /\ ChangesFromHistory => ChangesAreDifferences
  <2> SUFFICES ASSUME HistoryEndsWithSecrets, ChangesFromHistory,
                      NEW s \in DOMAIN secrets, secrets[s].exists
               PROVE  /\ secrets[s].changes = Cardinality(Differences(s))
                      /\ secrets[s].changes >= Cardinality(Differences(s))
                      /\ Differences(s) # {} =>
                           secrets[s].changedAt = published[Max(Differences(s))].at
    BY DEF ChangesAreDifferences
  <2>1. secrets[s].changes = Cardinality(Differences(s))
    BY DEF ChangesFromHistory
  <2>2. Cardinality(Differences(s)) \in Nat
    <3>1. Len(published) \in Nat /\ Differences(s) \subseteq 1..Len(published)
      BY DEF HistoryEndsWithSecrets, Differences, SnapshotsWith
    <3>2. IsFiniteSet(1..Len(published))
      BY <3>1, FS_Interval
    <3> QED
      BY <3>1, <3>2, FS_Subset, FS_CardinalityType
  <2>3. secrets[s].changes >= Cardinality(Differences(s))
    BY <2>1, <2>2
  <2>4. ASSUME Differences(s) # {}
        PROVE  secrets[s].changedAt = published[Max(Differences(s))].at
    <3>1. PICK i \in Differences(s) : /\ \A j \in Differences(s) : i >= j
                                      /\ secrets[s].changedAt = published[i].at
      BY <2>4 DEF ChangesFromHistory
    <3>2. Differences(s) \subseteq Nat
      BY DEF HistoryEndsWithSecrets, Differences, SnapshotsWith
    <3>3. \A k \in Differences(s) : (\A j \in Differences(s) : k >= j) => k = i
      BY <3>1, <3>2
    <3>4. Max(Differences(s)) = i
      BY <3>1, <3>3 DEF Max
    <3> QED
      BY <3>1, <3>4
  <2> QED
    BY <2>1, <2>3, <2>4
<1> QED
  BY <1>1, <1>2, <1>3, HistoryInvariant, TimesInvariant, VersionsInvariant, PTL DEF Spec

-----------------------------------------------------------------------------
(* Nodes are derived from edges.                                           *)

\* What the node of a workload says of its edges.
WorkloadFits(w) ==
  /\ workloads[w].dependencies = Cardinality({e[2] : e \in EdgesOf(w, edges)})
  /\ workloads[w].unresolved = UnresolvedIn(EdgesOf(w, edges), edges)

\* What the node of a Secret says of a set of edges.
Summarises(node, es, newEdges) ==
  /\ node.affectedWorkloads = Cardinality({e[1] : e \in es})
  /\ node.affectedTeams = Cardinality(Teams(es, newEdges))
  /\ node.affectedNamespaces = Cardinality({Ns[e[1]] : e \in es})
  /\ node.unresolved = UnresolvedIn(es, newEdges)
  /\ node.criticality \in 0..4 /\ \A e \in es : node.criticality >= newEdges[e].criticality
  /\ node.score \in 0..100

NodesAreDerived ==
  /\ DOMAIN edges \subseteq Workload \X Secret
  /\ DOMAIN workloads \subseteq Workload /\ DOMAIN secrets \subseteq Secret
  /\ \A e \in DOMAIN edges : /\ edges[e].team = workloads[e[1]].team
                             /\ edges[e].criticality = workloads[e[1]].criticality
  /\ \A w \in DOMAIN workloads : WorkloadFits(w)
  /\ \A s \in DOMAIN secrets : /\ Summarises(secrets[s], EdgesTo(s, edges), edges)
                               /\ secrets[s].exists \/ EdgesTo(s, edges) # {}

\* What the agent is given has its types, and so has what it keeps.
InputsTyped ==
  /\ clock \in 1..MaxTime
  /\ listing \in BOOLEAN /\ fresh \in BOOLEAN
  /\ DOMAIN objects \subseteq Secret /\ \A s \in DOMAIN objects : objects[s].meta \in SecretMeta
  /\ DOMAIN secretInputs \subseteq Observable
  /\ \A s \in DOMAIN secretInputs : secretInputs[s].meta \in SecretMeta
  /\ \E ws \in SUBSET Workload : manifests \in [ws -> Manifest]
  /\ DOMAIN secretVersions \subseteq DOMAIN secrets

\* The edges at a node are finite in number, and so is what they lead to.
LEMMA EdgesFinite ==
  ASSUME NEW es, es \subseteq Workload \X Secret, NEW newEdges
  PROVE  /\ IsFiniteSet(es) /\ IsFiniteSet({e[1] : e \in es})
         /\ IsFiniteSet(Teams(es, newEdges)) /\ IsFiniteSet({Ns[e[1]] : e \in es})
         /\ UnresolvedIn(es, newEdges) \in Nat
<1>1. IsFiniteSet(Workload \X Secret)
  BY GraphCacheAssumption, FS_Product DEF GraphCacheAssumption
<1>2. IsFiniteSet(es)
  BY <1>1, FS_Subset
<1>3. IsFiniteSet({e[1] : e \in es})
  <2>1. {e[1] : e \in es} \in SUBSET Workload
    OBVIOUS
  <2> QED
    BY <2>1, GraphCacheAssumption, FS_Subset DEF GraphCacheAssumption
<1>4. IsFiniteSet(Teams(es, newEdges))
  <2> DEFINE f == [e \in es |-> newEdges[e].team]
  <2>1. f \in [es -> {newEdges[e].team : e \in es}] /\ Teams(es, newEdges) \in SUBSET Range(f)
    BY DEF Teams, Range
  <2> HIDE DEF f
  <2>2. IsFiniteSet(Range(f))
    BY <1>2, <2>1, FiniteRange
  <2> QED
    BY <2>1, <2>2, FS_Subset
<1>5. IsFiniteSet({Ns[e[1]] : e \in es})
  <2> DEFINE f == [e \in es |-> Ns[e[1]]]
  <2>1. f \in [es -> {Ns[e[1]] : e \in es}]
    OBVIOUS
  <2>2. Range(f) = {Ns[e[1]] : e \in es}
    BY DEF Range
  <2> HIDE DEF f
  <2>3. IsFiniteSet(Range(f))
    BY <1>2, <2>1, FiniteRange
  <2> QED
    BY <2>2, <2>3, Zenon
<1>6. UnresolvedIn(es, newEdges) \in Nat
  <2>1. {e \in es : ~newEdges[e].resolved} \in SUBSET es
    OBVIOUS
  <2> QED
    BY <1>2, <2>1, FS_Subset, FS_CardinalityType DEF UnresolvedIn
<1> QED
  BY <1>2, <1>3, <1>4, <1>5, <1>6

\* Aggregation makes a node a summary of the edges, with a score up to 100.
LEMMA AggregatedSummarises ==
  ASSUME NEW node, node.criticality \in 0..4, NEW es, es \subseteq Workload \X Secret,
         NEW newEdges, \A e \in es : newEdges[e].criticality \in 0..4
  PROVE  Summarises(Aggregated(node, es, newEdges), es, newEdges)
<1> DEFINE a == Aggregated(node, es, newEdges)
<1>1. /\ a.affectedWorkloads = Cardinality({e[1] : e \in es})
      /\ a.affectedTeams = Cardinality(Teams(es, newEdges))
      /\ a.affectedNamespaces = Cardinality({Ns[e[1]] : e \in es})
      /\ a.unresolved = UnresolvedIn(es, newEdges)
      /\ a.criticality = MaxCriticality(node.criticality, es, newEdges)
  BY DEF Aggregated
<1>2. a.criticality \in 0..4 /\ \A e \in es : a.criticality >= newEdges[e].criticality
  <2> DEFINE all == {node.criticality} \cup {newEdges[e].criticality : e \in es}
  <2>1. all \in SUBSET (0..4) /\ all # {}
    OBVIOUS
  <2>2. Max(all) \in all /\ \A x \in all : Max(all) >= x
    <3> HIDE DEF all
    <3> QED
      BY <2>1, MaxOfRanks
  <2>3. a.criticality = Max(all)
    BY <1>1 DEF MaxCriticality
  <2> HIDE DEF a
  <2> QED
    BY <2>1, <2>2, <2>3
<1>3. /\ a.affectedWorkloads \in Nat /\ a.affectedTeams \in Nat
      /\ a.affectedNamespaces \in Nat /\ a.unresolved \in Nat
  BY <1>1, EdgesFinite, FS_CardinalityType
<1>4. a.score \in 0..100
  <2> DEFINE x == 2 * (a.affectedWorkloads + a.affectedTeams + a.affectedNamespaces
                       + a.unresolved) + CriticalityPoints[a.criticality]
  <2>1. a.score = Min({100, x})
    BY DEF Aggregated, ImpactScore
  <2> HIDE DEF a
  <2>2. CriticalityPoints[a.criticality] \in Nat
    BY <1>2 DEF CriticalityPoints
  <2>3. x \in Nat
    BY <1>3, <2>2
  <2> HIDE DEF x
  <2>4. \E m \in {100, x} : \A y \in {100, x} : m <= y
    BY <2>3
  <2>5. Min({100, x}) \in {100, x} /\ Min({100, x}) <= 100
    BY <2>4 DEF Min
  <2> QED
    BY <2>1, <2>3, <2>5
<1> HIDE DEF a
<1> QED
  BY <1>1, <1>2, <1>4 DEF Summarises, a

\* The inputs of the graph have their types in every reachable state.
LEMMA InputsInvariant == Spec => []InputsTyped
<1> USE GraphCacheAssumption DEF GraphCacheAssumption
<1>1. Init => InputsTyped
  <2> SUFFICES ASSUME Init PROVE InputsTyped
    OBVIOUS
  <2>1. \E ws \in SUBSET Workload : manifests \in [ws -> Manifest]
    BY DEF Init
  <2>2. DOMAIN objects \subseteq Secret /\ \A s \in DOMAIN objects : objects[s].meta \in SecretMeta
    BY DEF Init
  <2>3. clock \in 1..MaxTime
    BY DEF Init
  <2>4. listing \in BOOLEAN /\ fresh \in BOOLEAN
    BY DEF Init
  <2>5. DOMAIN secretInputs = {} /\ DOMAIN secretVersions = {}
    BY DEF Init, Empty
  <2> QED
    BY <2>1, <2>2, <2>3, <2>4, <2>5 DEF InputsTyped
<1>2. HistoryEndsWithSecrets' /\ InputsTyped /\ [Next]_vars => InputsTyped'
  <2> SUFFICES ASSUME HistoryEndsWithSecrets', InputsTyped, [Next]_vars
               PROVE  InputsTyped'
    OBVIOUS
  <2> USE DEF InputsTyped
  <2>0. DOMAIN secretVersions' \subseteq DOMAIN secrets'
    BY DEF HistoryEndsWithSecrets
  <2>1. Tick => clock' \in 1..MaxTime
    BY DEF Tick
  <2>2. ASSUME NEW s \in Secret, NEW meta \in SecretMeta, WriteSecret(s, meta)
        PROVE  InputsTyped'
    <3>1. DOMAIN objects' = DOMAIN objects \cup {s}
      BY <2>2 DEF WriteSecret, Put
    <3>2. \A x \in DOMAIN objects' : objects'[x].meta \in SecretMeta
      BY <2>2 DEF WriteSecret, Put
    <3> QED
      BY <2>0, <2>1, <2>2, <3>1, <3>2 DEF WriteSecret, Written
  <2>3. ASSUME NEW s \in Secret, DeleteSecret(s)
        PROVE  InputsTyped'
    <3>1. DOMAIN objects' \subseteq DOMAIN objects /\ \A x \in DOMAIN objects' : objects'[x] = objects[x]
      BY <2>3 DEF DeleteSecret, Restrict
    <3> QED
      BY <2>0, <2>1, <2>3, <3>1 DEF DeleteSecret, Written
  <2>4. ASSUME NEW w \in Workload, NEW m \in Manifest, WriteWorkload(w, m)
        PROVE  InputsTyped'
    <3>1. PICK ws \in SUBSET Workload : manifests \in [ws -> Manifest]
      OBVIOUS
    <3>2. manifests' \in [ws \cup {w} -> Manifest] /\ ws \cup {w} \in SUBSET Workload
      BY <2>4, <3>1 DEF WriteWorkload, Put
    <3> QED
      BY <2>0, <2>1, <2>4, <3>2 DEF WriteWorkload, Written
  <2>5. ASSUME NEW w \in Workload, DeleteWorkload(w)
        PROVE  InputsTyped'
    <3>1. PICK ws \in SUBSET Workload : manifests \in [ws -> Manifest]
      OBVIOUS
    <3>2. manifests' \in [ws \ {w} -> Manifest] /\ ws \ {w} \in SUBSET Workload
      BY <2>5, <3>1 DEF DeleteWorkload, Restrict
    <3> QED
      BY <2>0, <2>1, <2>5, <3>2 DEF DeleteWorkload, Written
  <2>6. CASE ListSecrets
    <3>1. /\ DOMAIN secretInputs' = DOMAIN objects \cap Observable
          /\ \A x \in DOMAIN secretInputs' : secretInputs'[x] = objects[x]
      BY <2>6 DEF ListSecrets, Restrict
    <3> QED
      BY <2>0, <2>6, <3>1 DEF ListSecrets, cluster
  <2>7. CASE ApplySnapshot
    BY <2>0, <2>1, <2>7 DEF ApplySnapshot
  <2>8. CASE Restart
    BY <2>0, <2>1, <2>8 DEF Restart, Empty
  <2>9. CASE TimeIsUp \/ UNCHANGED vars
    BY <2>0, <2>9 DEF TimeIsUp, vars, cluster
  <2> QED
    BY <2>2, <2>3, <2>4, <2>5, <2>6, <2>7, <2>8, <2>9 DEF Next, ClusterWrite
<1> QED
  BY <1>1, <1>2, HistoryInvariant, PTL DEF Spec

\* The nodes summarise the edges in every reachable state.
LEMMA DerivedInvariant == Spec => []NodesAreDerived
<1>1. Init => NodesAreDerived
  BY DEF Init, NodesAreDerived, Empty
<1>2. InputsTyped /\ NodesAreDerived /\ [Next]_vars => NodesAreDerived'
  <2> SUFFICES ASSUME InputsTyped, NodesAreDerived, [Next]_vars
               PROVE  NodesAreDerived'
    OBVIOUS
  <2>1. CASE ApplySnapshot
    <3> USE GraphCacheAssumption DEF GraphCacheAssumption
    <3>1. PICK ws \in SUBSET Workload : manifests \in [ws -> Manifest]
      BY DEF InputsTyped
    <3>2. DOMAIN edges' = References(manifests) /\ DOMAIN edges' \subseteq Workload \X Secret
      BY <2>1, <3>1, SnapshotShape DEF References
    <3>3. workloads' = NewWorkloads(manifests, edges')
      BY <2>1 DEF ApplySnapshot
    <3>4. \A w \in DOMAIN manifests : /\ workloads'[w].team = manifests[w].team
                                      /\ workloads'[w].criticality = manifests[w].criticality
      BY <3>3 DEF NewWorkloads
    <3>5. ASSUME NEW e \in DOMAIN edges'
          PROVE  /\ edges'[e].team = workloads'[e[1]].team
                 /\ edges'[e].criticality = workloads'[e[1]].criticality
                 /\ edges'[e].criticality \in 0..4
      <4>1. e[1] \in ws /\ DOMAIN manifests = ws /\ manifests[e[1]] \in Manifest
        BY <3>1, <3>2 DEF References
      <4>2. edges'[e] = NewEdge(e, manifests, clock')
        BY <2>1, SnapshotShape
      <4>3. /\ edges'[e].team = manifests[e[1]].team
            /\ edges'[e].criticality = manifests[e[1]].criticality
        BY <4>2 DEF NewEdge
      <4> QED
        BY <3>4, <4>1, <4>3
    <3>6. DOMAIN workloads' \subseteq Workload
      BY <2>1, <3>1, SnapshotShape
    <3>7. ASSUME NEW w \in DOMAIN workloads'
          PROVE  WorkloadFits(w)'
      <4>1. w \in DOMAIN manifests
        BY <2>1, <3>7, SnapshotShape
      <4> QED
        BY <3>3, <4>1 DEF NewWorkloads, WorkloadFits, EdgesOf, UnresolvedIn
    <3>8. DOMAIN secrets' = DOMAIN secretInputs \cup {e[2] : e \in DOMAIN edges'}
      BY <2>1, SnapshotShape
    <3>9. DOMAIN secrets' \subseteq Secret
      BY <3>2, <3>8 DEF InputsTyped
    <3>10. ASSUME NEW s \in DOMAIN secrets'
           PROVE  /\ Summarises(secrets'[s], EdgesTo(s, edges'), edges')
                  /\ secrets'[s].exists \/ EdgesTo(s, edges') # {}
      <4> DEFINE node == IF s \in DOMAIN secretInputs
                         THEN ListedSecret(s, secretInputs[s], clock') ELSE AbsentSecret
      <4>1. secrets'[s] = Aggregated(node, EdgesTo(s, edges'), edges')
        BY <2>1, SnapshotShape
      <4>2. node.criticality \in 0..4
        BY DEF ListedSecret, AbsentSecret, InputsTyped
      <4>3. EdgesTo(s, edges') \subseteq DOMAIN edges'
        BY DEF EdgesTo
      <4>4. secrets'[s].exists <=> s \in DOMAIN secretInputs
        BY <2>1, NodeOfSecret
      <4>5. s \notin DOMAIN secretInputs => EdgesTo(s, edges') # {}
        BY <3>8 DEF EdgesTo
      <4> HIDE DEF node
      <4>6. Summarises(Aggregated(node, EdgesTo(s, edges'), edges'), EdgesTo(s, edges'), edges')
        BY <3>2, <3>5, <4>2, <4>3, AggregatedSummarises
      <4> QED
        BY <4>1, <4>4, <4>5, <4>6
    <3> QED
      BY <3>2, <3>5, <3>6, <3>7, <3>9, <3>10
      DEF NodesAreDerived, Summarises, EdgesTo, Teams, UnresolvedIn
  <2>2. CASE Restart
    BY <2>2 DEF Restart, NodesAreDerived, Empty
  <2>3. CASE UNCHANGED <<secrets, workloads, edges, secretVersions, published>>
    <3>1. secrets' = secrets /\ workloads' = workloads /\ edges' = edges
      BY <2>3
    <3>2. ASSUME NEW w \in DOMAIN workloads'
          PROVE  WorkloadFits(w)'
      BY <3>1 DEF NodesAreDerived, WorkloadFits
    <3>3. ASSUME NEW s \in DOMAIN secrets'
          PROVE  /\ Summarises(secrets'[s], EdgesTo(s, edges'), edges')
                 /\ secrets'[s].exists \/ EdgesTo(s, edges') # {}
      BY <3>1 DEF NodesAreDerived
    <3>4. /\ DOMAIN edges' \subseteq Workload \X Secret
          /\ DOMAIN workloads' \subseteq Workload /\ DOMAIN secrets' \subseteq Secret
      BY <3>1 DEF NodesAreDerived
    <3>5. ASSUME NEW e \in DOMAIN edges'
          PROVE  /\ edges'[e].team = workloads'[e[1]].team
                 /\ edges'[e].criticality = workloads'[e[1]].criticality
      BY <3>1 DEF NodesAreDerived
    <3> QED
      BY <3>2, <3>3, <3>4, <3>5
      DEF NodesAreDerived, Summarises, EdgesTo, Teams, UnresolvedIn
  <2> QED
    BY <2>1, <2>2, <2>3, GraphKept
<1> QED
  BY <1>1, <1>2, InputsInvariant, PTL DEF Spec

\* The variables of the graph have their types in every reachable state.
THEOREM TypeCorrect == Spec => []TypeOK
<1>1. InputsTyped /\ NodesAreDerived => TypeOK
  <2> SUFFICES ASSUME InputsTyped, NodesAreDerived PROVE TypeOK
    OBVIOUS
  <2>1. manifests \in UNION {[ws -> Manifest] : ws \in SUBSET Workload}
    BY DEF InputsTyped
  <2>2. \A s \in DOMAIN secrets : secrets[s].score \in 0..100
    BY DEF NodesAreDerived, Summarises
  <2> QED
    BY <2>1, <2>2 DEF TypeOK, InputsTyped, NodesAreDerived
<1> QED
  BY <1>1, InputsInvariant, DerivedInvariant, PTL

-----------------------------------------------------------------------------
(* What readers are told.                                                  *)

\* The workloads behind the edges to a Secret are nodes, and so is the Secret.
LEMMA EndsOfEdges ==
  ASSUME EdgesMatchNodes, NodesAreDerived, NEW s
  PROVE  /\ EdgesTo(s, edges) \subseteq Workload \X Secret
         /\ {e[1] : e \in EdgesTo(s, edges)} \subseteq DOMAIN workloads
         /\ EdgesTo(s, edges) # {} => s \in DOMAIN secrets
BY DEF EdgesTo, EdgesMatchNodes, NodesAreDerived

\* GetSecretImpact returns the edges to the Secret and the workloads behind them.
LEMMA ImpactOf ==
  ASSUME EdgesMatchNodes, NodesAreDerived, NEW s \in Secret
  PROVE  LET affected == {e[1] : e \in EdgesTo(s, edges)}
         IN  Impact(s) = IF s \notin DOMAIN secrets THEN NotFound
                         ELSE [found |-> TRUE, secret |-> secrets[s], workloads |-> affected,
                               teams |-> TeamsOf(affected), edges |-> EdgesTo(s, edges)]
<1> DEFINE es == EdgesTo(s, edges)
           affected == {e[1] : e \in es}
<1>1. affected \cap DOMAIN workloads = affected /\ (es # {} => s \in DOMAIN secrets)
  BY EndsOfEdges
<1> QED
  BY <1>1 DEF Impact, SummaryOf

\* The answer about a Secret agrees with the counts of its node.
LEMMA ImpactAgrees ==
  ASSUME EdgesMatchNodes, NodesAreDerived
  PROVE  ImpactMatchesSummary
<1> SUFFICES ASSUME NEW s \in Secret
             PROVE  LET impact == Impact(s)
                    IN  /\ impact.found <=> s \in DOMAIN secrets
                        /\ impact.found =>
                             /\ Cardinality(impact.workloads) = impact.secret.affectedWorkloads
                             /\ Cardinality(DOMAIN impact.teams) = impact.secret.affectedTeams
                             /\ SumFunction(impact.teams)
                                  = Cardinality({w \in impact.workloads :
                                                   workloads[w].team # NoTeam})
                             /\ Cardinality({Ns[w] : w \in impact.workloads})
                                  = impact.secret.affectedNamespaces
                             /\ UnresolvedIn(impact.edges, edges) = impact.secret.unresolved
  BY DEF ImpactMatchesSummary
<1> DEFINE es == EdgesTo(s, edges)
           affected == {e[1] : e \in es}
           teams == TeamsOf(affected)
<1>1. CASE s \notin DOMAIN secrets
  <2>1. Impact(s) = NotFound
    BY <1>1, ImpactOf
  <2>2. ~Impact(s).found
    BY <2>1 DEF NotFound
  <2> QED
    BY <1>1, <2>2
<1>2. CASE s \in DOMAIN secrets
  <2>1. Impact(s) = [found |-> TRUE, secret |-> secrets[s], workloads |-> affected,
                     teams |-> teams, edges |-> es]
    BY <1>2, ImpactOf
  <2>2. /\ secrets[s].affectedWorkloads = Cardinality(affected)
        /\ secrets[s].affectedTeams = Cardinality(Teams(es, edges))
        /\ secrets[s].affectedNamespaces = Cardinality({Ns[e[1]] : e \in es})
        /\ secrets[s].unresolved = UnresolvedIn(es, edges)
    BY <1>2 DEF NodesAreDerived, Summarises
  <2>3. \A e \in es : edges[e].team = workloads[e[1]].team
    BY DEF NodesAreDerived, EdgesTo
  <2>4. {workloads[w].team : w \in affected} \ {NoTeam} = Teams(es, edges)
    BY <2>3 DEF Teams
  <2>5. DOMAIN teams = Teams(es, edges)
    BY <2>4 DEF TeamsOf
  <2>6. {Ns[w] : w \in affected} = {Ns[e[1]] : e \in es}
    OBVIOUS
  <2>7. SumFunction(teams) = Cardinality({w \in affected : workloads[w].team # NoTeam})
    <3> DEFINE E == {w \in affected : workloads[w].team # NoTeam}
               key == [w \in E |-> workloads[w].team]
               K == Teams(es, edges)
    <3>1. IsFiniteSet(affected) /\ IsFiniteSet(K)
      BY EndsOfEdges, EdgesFinite
    <3>2. IsFiniteSet(E)
      BY <3>1, FS_Subset
    <3>3. key \in [E -> K]
      BY <2>4
    <3>4. \A x \in K : /\ {e \in E : key[e] = x} = {w \in affected : workloads[w].team = x}
                       /\ IsFiniteSet({w \in affected : workloads[w].team = x})
      <4> SUFFICES ASSUME NEW x \in K
                   PROVE  /\ {e \in E : key[e] = x} = {w \in affected : workloads[w].team = x}
                          /\ IsFiniteSet({w \in affected : workloads[w].team = x})
        OBVIOUS
      <4>1. x # NoTeam
        BY DEF Teams
      <4>2. {w \in affected : workloads[w].team = x} \in SUBSET affected
        OBVIOUS
      <4> QED
        BY <3>1, <4>1, <4>2, FS_Subset
    <3>5. \A x \in K : teams[x] = Cardinality({w \in affected : workloads[w].team = x})
      BY <2>4 DEF TeamsOf
    <3>6. \A x \in K : teams[x] = Cardinality({e \in E : key[e] = x}) /\ teams[x] \in Nat
      BY <3>4, <3>5, FS_CardinalityType
    <3>7. teams \in [K -> Nat]
      <4>1. teams = [x \in K |-> teams[x]]
        BY <2>5 DEF TeamsOf
      <4> HIDE DEF teams, K
      <4> QED
        BY <3>6, <4>1
    <3> HIDE DEF key, K, E, teams, affected
    <3>8. SumFunction(teams) = Cardinality(E)
      BY <3>1, <3>2, <3>3, <3>6, <3>7, SumOfParts
    <3> QED
      BY <3>8 DEF E
  <2> HIDE DEF teams, affected, es
  <2>8. /\ Impact(s).found /\ Impact(s).secret = secrets[s] /\ Impact(s).workloads = affected
        /\ Impact(s).teams = teams /\ Impact(s).edges = es
    BY <2>1
  <2>9. /\ Cardinality(DOMAIN teams) = secrets[s].affectedTeams
        /\ Cardinality({Ns[w] : w \in affected}) = secrets[s].affectedNamespaces
    BY <2>2, <2>5, <2>6, Zenon
  <2> QED
    BY <1>2, <2>2, <2>7, <2>8, <2>9
<1> QED
  BY <1>1, <1>2

\* Of some workloads one has the least id.
LEMMA FirstOfSome ==
  ASSUME NEW ws \in SUBSET Workload, ws # {}
  PROVE  First(ws) \in ws
<1> DEFINE ranks == {Rank[w] : w \in ws}
           less == {p \in Nat \X Nat : p[1] < p[2]}
<1>1. ranks \subseteq Nat /\ ranks # {}
  BY GraphQueriesAssumption DEF GraphQueriesAssumption
<1>2. PICK r \in ranks : \A q \in ranks : <<q, r>> \notin less
  <2>1. IsWellFoundedOn(less, Nat)
    BY NatLessThanWellFounded DEF OpToRel
  <2> HIDE DEF ranks, less
  <2> QED
    BY <1>1, <2>1, WFMin
<1>3. \A q \in ranks : r <= q
  <2> SUFFICES ASSUME NEW q \in ranks PROVE r <= q
    OBVIOUS
  <2>1. q \in Nat /\ r \in Nat
    BY <1>1
  <2>2. q < r => <<q, r>> \in less
    BY <2>1
  <2>3. <<q, r>> \notin less
    BY <1>2
  <2> HIDE DEF ranks, less
  <2> QED
    BY <2>1, <2>2, <2>3
<1>4. \E w \in ws : \A v \in ws : Rank[w] <= Rank[v]
  BY <1>2, <1>3 DEF ranks
<1> QED
  BY <1>4 DEF First

\* GetWorkloadDependencies finds the workload that is asked for, and lists a
\* Secret for each of its edges.
LEMMA DependenciesOf ==
  ASSUME EdgesMatchNodes, NodesAreDerived, NEW w \in DOMAIN workloads
  PROVE  LET es == EdgesOf(w, edges)
         IN  Dependencies(Ns[w], KindOf[w], NameOf[w])
               = [found    |-> TRUE,
                  workload |-> w,
                  secrets  |-> [s \in {e[2] : e \in es} |-> SummaryOf(s)],
                  resolved |-> [s \in {e[2] : e \in es} |->
                                  \E e \in es : e[2] = s /\ edges[e].resolved]]
<1> DEFINE found == Matching(Ns[w], KindOf[w], NameOf[w])
<1>1. w \in Workload /\ DOMAIN workloads \subseteq Workload
  BY DEF NodesAreDerived
<1>2. found = {w}
  BY <1>1, GraphQueriesAssumption DEF GraphQueriesAssumption, Matching
<1> HIDE DEF found
<1>3. First(found) = w
  BY <1>1, <1>2, FirstOfSome
<1>4. found # {} /\ found = Matching(Ns[w], KindOf[w], NameOf[w])
  BY <1>2 DEF found
<1> QED
  BY <1>3, <1>4 DEF Dependencies, OwnEdges

\* The answers about Secrets and about workloads agree.
LEMMA AnswersMirror ==
  ASSUME EdgesMatchNodes, NodesAreDerived
  PROVE  QueriesMirror
<1> SUFFICES ASSUME NEW w \in DOMAIN workloads
             PROVE  LET answer == Dependencies(Ns[w], KindOf[w], NameOf[w])
                        byName == Dependencies(Ns[w], AnyKind, NameOf[w])
                    IN  /\ answer.found /\ answer.workload = w
                        /\ \A s \in DOMAIN secrets :
                             w \in Impact(s).workloads <=> s \in DOMAIN answer.secrets
                        /\ \A s \in DOMAIN answer.secrets :
                             answer.resolved[s] <=> answer.secrets[s].exists
                        /\ workloads[w].dependencies = Cardinality(DOMAIN answer.secrets)
                        /\ workloads[w].unresolved
                             = Cardinality({s \in DOMAIN answer.secrets : ~answer.resolved[s]})
                        /\ byName.found /\ NameOf[byName.workload] = NameOf[w]
  BY DEF QueriesMirror
<1> DEFINE answer == Dependencies(Ns[w], KindOf[w], NameOf[w])
           byName == Dependencies(Ns[w], AnyKind, NameOf[w])
           es == EdgesOf(w, edges)
           deps == {e[2] : e \in es}
           open == {s \in deps : ~answer.resolved[s]}
<1>1. answer = [found    |-> TRUE,
                workload |-> w,
                secrets  |-> [s \in deps |-> SummaryOf(s)],
                resolved |-> [s \in deps |-> \E e \in es : e[2] = s /\ edges[e].resolved]]
  BY DependenciesOf
<1>2. es \subseteq DOMAIN edges /\ es \subseteq Workload \X Secret /\ \A e \in es : e = <<w, e[2]>>
  BY DEF EdgesOf, NodesAreDerived
<1>3. deps \subseteq DOMAIN secrets
  BY <1>2 DEF EdgesMatchNodes
<1>4. \A s \in DOMAIN secrets : w \in Impact(s).workloads <=> s \in DOMAIN answer.secrets
  <2> SUFFICES ASSUME NEW s \in DOMAIN secrets
               PROVE  w \in Impact(s).workloads <=> s \in deps
    BY <1>1
  <2>1. s \in Secret
    BY DEF NodesAreDerived
  <2>2. Impact(s) = [found |-> TRUE, secret |-> secrets[s],
                     workloads |-> {e[1] : e \in EdgesTo(s, edges)},
                     teams |-> TeamsOf({e[1] : e \in EdgesTo(s, edges)}),
                     edges |-> EdgesTo(s, edges)]
    BY <2>1, ImpactOf
  <2>3. Impact(s).workloads = {e[1] : e \in EdgesTo(s, edges)}
    BY <2>2
  <2>4. EdgesTo(s, edges) = {e \in DOMAIN edges : e[2] = s}
    BY DEF EdgesTo
  <2>5. es = {e \in DOMAIN edges : e[1] = w}
    BY DEF EdgesOf
  <2> QED
    BY <2>3, <2>4, <2>5
<1>5. \A s \in deps : <<w, s>> \in es /\ (answer.resolved[s] <=> edges[<<w, s>>].resolved)
  <2> SUFFICES ASSUME NEW s \in deps
               PROVE  <<w, s>> \in es /\ (answer.resolved[s] <=> edges[<<w, s>>].resolved)
    OBVIOUS
  <2>1. answer.resolved[s] <=> \E e \in es : e[2] = s /\ edges[e].resolved
    BY <1>1
  <2>2. <<w, s>> \in es
    BY <1>2
  <2>3. \A e \in es : e[2] = s => e = <<w, s>>
    BY <1>2
  <2> HIDE DEF answer, es
  <2> QED
    BY <2>1, <2>2, <2>3
<1>6. \A s \in deps : answer.resolved[s] <=> answer.secrets[s].exists
  <2> SUFFICES ASSUME NEW s \in deps
               PROVE  answer.resolved[s] <=> answer.secrets[s].exists
    OBVIOUS
  <2>1. answer.secrets[s] = secrets[s]
    BY <1>1, <1>3 DEF SummaryOf
  <2>2. edges[<<w, s>>].resolved <=> secrets[s].exists
    BY <1>2, <1>5 DEF EdgesMatchNodes
  <2> QED
    BY <1>5, <2>1, <2>2
<1>7. workloads[w].dependencies = Cardinality(DOMAIN answer.secrets)
  BY <1>1 DEF NodesAreDerived, WorkloadFits
<1>8. workloads[w].unresolved = Cardinality(open)
  <2> DEFINE U == {e \in es : ~edges[e].resolved}
             f == [e \in U |-> e[2]]
  <2>1. IsFiniteSet(U)
    BY <1>2, EdgesFinite, FS_Subset
  <2>2. f \in [U -> deps] /\ \A x, y \in U : f[x] = f[y] => x = y
    BY <1>2
  <2>3. Range(f) = open
    <3>1. \A e \in U : e[2] \in open
      <4> SUFFICES ASSUME NEW e \in U PROVE e[2] \in open
        OBVIOUS
      <4>1. e \in es /\ e = <<w, e[2]>> /\ e[2] \in deps /\ ~edges[e].resolved
        BY <1>2
      <4> QED
        BY <1>5, <4>1
    <3>2. \A s \in open : <<w, s>> \in U /\ <<w, s>>[2] = s
      BY <1>5
    <3>3. Range(f) = {e[2] : e \in U}
      BY DEF Range
    <3> HIDE DEF U, open, f
    <3> QED
      BY <3>1, <3>2, <3>3
  <2> HIDE DEF f, open
  <2>4. Cardinality(open) = Cardinality(U)
    BY <2>1, <2>2, <2>3, FiniteRange
  <2>5. workloads[w].unresolved = Cardinality(U)
    BY DEF NodesAreDerived, WorkloadFits, UnresolvedIn
  <2> QED
    BY <2>4, <2>5
<1>9. byName.found /\ NameOf[byName.workload] = NameOf[w]
  <2> DEFINE some == Matching(Ns[w], AnyKind, NameOf[w])
  <2>1. w \in some /\ some \in SUBSET Workload /\ \A v \in some : NameOf[v] = NameOf[w]
    BY DEF Matching, NodesAreDerived
  <2>2. byName.found /\ byName.workload = First(some)
    BY <2>1 DEF Dependencies
  <2> HIDE DEF some, byName
  <2> QED
    BY <2>1, <2>2, FirstOfSome
<1>10. answer.found /\ answer.workload = w /\ DOMAIN answer.secrets = deps
  BY <1>1
<1>11. open = {s \in DOMAIN answer.secrets : ~answer.resolved[s]}
  BY <1>10
<1> HIDE DEF open
<1> QED
  BY <1>4, <1>6, <1>7, <1>8, <1>9, <1>10, <1>11

\* A page of the map has the nodes of its edges, and no other.
LEMMA MapCloses ==
  ASSUME EdgesMatchNodes, NodesAreDerived
  PROVE  MapIsClosed
<1> SUFFICES ASSUME NEW page \in SUBSET DOMAIN edges
             PROVE  LET nodes == MapPage(page).nodes
                    IN  /\ \A e \in page :
                             /\ \E n \in nodes : /\ n.type = "workload" /\ n.ref = e[1]
                                                 /\ n.team = edges[e].team
                                                 /\ n.criticality = edges[e].criticality
                             /\ \E n \in nodes : /\ n.type = "secret" /\ n.ref = e[2]
                                                 /\ n.criticality >= edges[e].criticality
                        /\ \A n \in nodes : \E e \in page : n.ref \in {e[1], e[2]}
  BY DEF MapIsClosed
<1> DEFINE all == {WorkloadNode(w) : w \in DOMAIN workloads}
                    \cup {SecretNode(s) : s \in DOMAIN secrets}
           nodes == MapPage(page).nodes
<1>1. nodes = {n \in all : \/ n.type = "workload" /\ n.ref \in {e[1] : e \in page}
                           \/ n.type = "secret" /\ n.ref \in {e[2] : e \in page}}
  BY DEF MapPage, NodesForEdges
<1>2. ASSUME NEW e \in page
      PROVE  /\ WorkloadNode(e[1]) \in nodes /\ SecretNode(e[2]) \in nodes
             /\ WorkloadNode(e[1]).team = edges[e].team
             /\ WorkloadNode(e[1]).criticality = edges[e].criticality
             /\ SecretNode(e[2]).criticality >= edges[e].criticality
  <2>1. e[1] \in DOMAIN workloads /\ e[2] \in DOMAIN secrets
    BY DEF EdgesMatchNodes
  <2>2. WorkloadNode(e[1]) \in nodes /\ SecretNode(e[2]) \in nodes
    BY <1>1, <2>1 DEF WorkloadNode, SecretNode
  <2>3. edges[e].team = workloads[e[1]].team /\ edges[e].criticality = workloads[e[1]].criticality
    BY DEF NodesAreDerived
  <2>4. secrets[e[2]].criticality >= edges[e].criticality
    BY <2>1 DEF NodesAreDerived, Summarises, EdgesTo
  <2> QED
    BY <2>2, <2>3, <2>4 DEF WorkloadNode, SecretNode
<1>3. \A n \in nodes : \E e \in page : n.ref \in {e[1], e[2]}
  BY <1>1
<1>4. ASSUME NEW e \in page
      PROVE  /\ \E n \in nodes : /\ n.type = "workload" /\ n.ref = e[1]
                                 /\ n.team = edges[e].team
                                 /\ n.criticality = edges[e].criticality
             /\ \E n \in nodes : /\ n.type = "secret" /\ n.ref = e[2]
                                 /\ n.criticality >= edges[e].criticality
  <2> HIDE DEF nodes
  <2>1. /\ WorkloadNode(e[1]).type = "workload" /\ WorkloadNode(e[1]).ref = e[1]
        /\ SecretNode(e[2]).type = "secret" /\ SecretNode(e[2]).ref = e[2]
    BY DEF WorkloadNode, SecretNode
  <2> QED
    BY <1>2, <2>1
<1> QED
  BY <1>3, <1>4

\* Whichever way a reader asks, one snapshot gives one story: what
\* GetSecretImpact, GetWorkloadDependencies and DependencyMap say agrees.
THEOREM ReadersAgree == Spec => []GraphIsConsistent
<1>1. EdgesMatchNodes /\ NodesAreDerived /\ TypeOK => GraphIsConsistent
  BY ImpactAgrees, AnswersMirror, MapCloses DEF GraphIsConsistent
<1> QED
  BY <1>1, EdgesAndNodesAgree, DerivedInvariant, TypeCorrect, PTL

\* A Secret has unresolved references exactly when it does not exist.
LEMMA UnresolvedOfAbsent ==
  ASSUME EdgesMatchNodes, NodesAreDerived, NEW s \in DOMAIN secrets
  PROVE  /\ secrets[s].unresolved \in Nat
         /\ secrets[s].unresolved > 0 => ~secrets[s].exists
         /\ ~secrets[s].exists => secrets[s].unresolved > 0
<1> DEFINE es == EdgesTo(s, edges)
           open == {e \in es : ~edges[e].resolved}
<1>1. es \subseteq Workload \X Secret /\ es \subseteq DOMAIN edges /\ \A e \in es : e[2] = s
  BY EndsOfEdges DEF EdgesTo
<1>2. IsFiniteSet(es) /\ UnresolvedIn(es, edges) \in Nat
  BY <1>1, EdgesFinite
<1>3. IsFiniteSet(open)
  BY <1>2, FS_Subset
<1>4. secrets[s].unresolved = UnresolvedIn(es, edges) /\ (secrets[s].exists \/ es # {})
  BY DEF NodesAreDerived, Summarises
<1>5. secrets[s].unresolved = Cardinality(open)
  BY <1>4 DEF UnresolvedIn
<1>6. \A e \in es : edges[e].resolved <=> secrets[s].exists
  BY <1>1 DEF EdgesMatchNodes
<1>7. secrets[s].exists => open = {}
  BY <1>6
<1>8. ~secrets[s].exists => open # {}
  BY <1>4, <1>6
<1>9. Cardinality(open) = 0 <=> open = {}
  BY <1>3, FS_EmptySet
<1> HIDE DEF open, es
<1> QED
  BY <1>2, <1>4, <1>5, <1>7, <1>8, <1>9

\* The dependencies at the Secrets, and those at the workloads, are the edges.
LEMMA DependenciesAddUp ==
  ASSUME EdgesMatchNodes, NodesAreDerived
  PROVE  /\ SumFunction([s \in DOMAIN secrets |-> secrets[s].affectedWorkloads])
              = Cardinality(DOMAIN edges)
         /\ SumFunction([w \in DOMAIN workloads |-> workloads[w].dependencies])
              = Cardinality(DOMAIN edges)
<1> DEFINE E == DOMAIN edges
<1>1. E \subseteq Workload \X Secret /\ IsFiniteSet(E)
  BY EdgesFinite DEF NodesAreDerived
<1>2. IsFiniteSet(DOMAIN secrets) /\ IsFiniteSet(DOMAIN workloads)
  BY GraphCacheAssumption, FS_Subset DEF GraphCacheAssumption, NodesAreDerived
<1>3. SumFunction([s \in DOMAIN secrets |-> secrets[s].affectedWorkloads]) = Cardinality(E)
  <2> DEFINE K == DOMAIN secrets
             key == [e \in E |-> e[2]]
             f == [s \in K |-> secrets[s].affectedWorkloads]
  <2>1. key \in [E -> K]
    BY DEF EdgesMatchNodes
  <2>2. ASSUME NEW s \in K
        PROVE  f[s] = Cardinality({e \in E : key[e] = s}) /\ f[s] \in Nat
    <3> DEFINE es == EdgesTo(s, edges)
               end == [e \in es |-> e[1]]
    <3>1. es = {e \in E : key[e] = s} /\ es \subseteq E
      BY DEF EdgesTo
    <3>2. f[s] = Cardinality({e[1] : e \in es})
      BY DEF NodesAreDerived, Summarises
    <3>3. \A e \in es : e = <<e[1], s>>
      BY <1>1, <3>1
    <3>4. IsFiniteSet(es)
      BY <1>1, <3>1, FS_Subset
    <3>5. /\ end \in [es -> {e[1] : e \in es}]
          /\ \A x, y \in es : end[x] = end[y] => x = y
          /\ Range(end) = {e[1] : e \in es}
      BY <3>3 DEF Range
    <3> HIDE DEF end, es, f, key, E
    <3>6. Cardinality(Range(end)) = Cardinality(es)
      BY <3>4, <3>5, FiniteRange
    <3>7. Cardinality(es) \in Nat
      BY <3>4, FS_CardinalityType
    <3> QED
      BY <3>1, <3>2, <3>5, <3>6, <3>7, Zenon
  <2>3. f \in [K -> Nat]
    BY <2>2
  <2> HIDE DEF f, key, K, E
  <2>4. IsFiniteSet(K)
    BY <1>2 DEF K
  <2>5. SumFunction(f) = Cardinality(E)
    BY <1>1, <2>1, <2>2, <2>3, <2>4, SumOfParts
  <2> QED
    BY <2>5 DEF f, K
<1>4. SumFunction([w \in DOMAIN workloads |-> workloads[w].dependencies]) = Cardinality(E)
  <2> DEFINE K == DOMAIN workloads
             key == [e \in E |-> e[1]]
             f == [w \in K |-> workloads[w].dependencies]
  <2>1. key \in [E -> K]
    BY DEF EdgesMatchNodes
  <2>2. ASSUME NEW w \in K
        PROVE  f[w] = Cardinality({e \in E : key[e] = w}) /\ f[w] \in Nat
    <3> DEFINE es == EdgesOf(w, edges)
               end == [e \in es |-> e[2]]
    <3>1. es = {e \in E : key[e] = w} /\ es \subseteq E
      BY DEF EdgesOf
    <3>2. f[w] = Cardinality({e[2] : e \in es})
      BY DEF NodesAreDerived, WorkloadFits
    <3>3. \A e \in es : e = <<w, e[2]>>
      BY <1>1, <3>1
    <3>4. IsFiniteSet(es)
      BY <1>1, <3>1, FS_Subset
    <3>5. /\ end \in [es -> {e[2] : e \in es}]
          /\ \A x, y \in es : end[x] = end[y] => x = y
          /\ Range(end) = {e[2] : e \in es}
      BY <3>3 DEF Range
    <3> HIDE DEF end, es, f, key, E
    <3>6. Cardinality(Range(end)) = Cardinality(es)
      BY <3>4, <3>5, FiniteRange
    <3>7. Cardinality(es) \in Nat
      BY <3>4, FS_CardinalityType
    <3> QED
      BY <3>1, <3>2, <3>5, <3>6, <3>7, Zenon
  <2>3. f \in [K -> Nat]
    BY <2>2
  <2> HIDE DEF f, key, K, E
  <2>4. IsFiniteSet(K)
    BY <1>2 DEF K
  <2>5. SumFunction(f) = Cardinality(E)
    BY <1>1, <2>1, <2>2, <2>3, <2>4, SumOfParts
  <2> QED
    BY <2>5 DEF f, K
<1> QED
  BY <1>3, <1>4

\* The unresolved references at the Secrets are the edges not resolved.
LEMMA UnresolvedAddUp ==
  ASSUME EdgesMatchNodes, NodesAreDerived
  PROVE  SumFunction([s \in {t \in DOMAIN secrets : secrets[t].unresolved > 0} |->
                        secrets[s].unresolved])
           = Cardinality({e \in DOMAIN edges : ~edges[e].resolved})
<1> DEFINE E == {e \in DOMAIN edges : ~edges[e].resolved}
           K == {s \in DOMAIN secrets : secrets[s].unresolved > 0}
           key == [e \in E |-> e[2]]
           f == [s \in K |-> secrets[s].unresolved]
<1>1. IsFiniteSet(E)
  BY EdgesFinite, FS_Subset DEF NodesAreDerived
<1>2. IsFiniteSet(K)
  <2>1. K \in SUBSET Secret
    BY DEF NodesAreDerived
  <2> QED
    BY <2>1, GraphCacheAssumption, FS_Subset DEF GraphCacheAssumption
<1>3. key \in [E -> K]
  BY UnresolvedOfAbsent DEF EdgesMatchNodes
<1>4. ASSUME NEW s \in K
      PROVE  f[s] = Cardinality({e \in E : key[e] = s}) /\ f[s] \in Nat
  <2>1. f[s] = UnresolvedIn(EdgesTo(s, edges), edges)
    BY DEF NodesAreDerived, Summarises
  <2>2. {e \in EdgesTo(s, edges) : ~edges[e].resolved} = {e \in E : key[e] = s}
    BY DEF EdgesTo
  <2>3. f[s] \in Nat
    BY UnresolvedOfAbsent
  <2> QED
    BY <2>1, <2>2, <2>3 DEF UnresolvedIn
<1>5. f \in [K -> Nat]
  BY <1>4
<1> HIDE DEF f, key, K, E
<1>6. SumFunction(f) = Cardinality(E)
  BY <1>1, <1>2, <1>3, <1>4, <1>5, SumOfParts
<1> QED
  BY <1>6 DEF f, K, E

\* The series of one scrape add up: GraphCollector.Collect reports as many
\* dependencies and unresolved references at the nodes as there are edges.
THEOREM ScrapesAddUp == Spec => []MetricsAddUp
<1>1. ASSUME EdgesMatchNodes, NodesAreDerived, TimesArePast
      PROVE  MetricsAddUp
  <2> DEFINE m == Collect(TRUE)
  <2>1. /\ m.dependencyCount = Cardinality(DOMAIN edges)
        /\ m.edge = edges
        /\ m.ofWorkload = [w \in DOMAIN workloads |-> workloads[w].dependencies]
        /\ m.affected = [s \in DOMAIN secrets |-> secrets[s].affectedWorkloads]
        /\ m.exists = [s \in DOMAIN secrets |-> secrets[s].exists]
        /\ m.changedAt = [s \in {t \in DOMAIN secrets : secrets[t].changedAt # 0} |->
                            secrets[s].changedAt]
        /\ m.unresolved = [s \in {t \in DOMAIN secrets : secrets[t].unresolved > 0} |->
                             secrets[s].unresolved]
    BY DEF Collect, WithUnresolved
  <2> HIDE DEF m
  <2>2. /\ m.dependencyCount = SumFunction(m.affected)
        /\ m.dependencyCount = SumFunction(m.ofWorkload)
        /\ m.dependencyCount = Cardinality(DOMAIN m.edge)
    BY <1>1, <2>1, DependenciesAddUp
  <2>3. DOMAIN m.unresolved = {s \in DOMAIN secrets : ~secrets[s].exists}
    BY <1>1, <2>1, UnresolvedOfAbsent
  <2>4. SumFunction(m.unresolved) = Cardinality({e \in DOMAIN m.edge : ~m.edge[e].resolved})
    BY <1>1, <2>1, UnresolvedAddUp
  <2>5. /\ DOMAIN m.exists = DOMAIN secrets
        /\ {s \in DOMAIN m.exists : ~m.exists[s]} = {s \in DOMAIN secrets : ~secrets[s].exists}
        /\ {s \in DOMAIN m.exists : m.exists[s]} = {s \in DOMAIN secrets : secrets[s].exists}
    BY <2>1
  <2>6. DOMAIN m.changedAt = {s \in DOMAIN m.exists : m.exists[s]}
    <3>1. {t \in DOMAIN secrets : secrets[t].changedAt # 0} = {s \in DOMAIN secrets : secrets[s].exists}
      BY <1>1 DEF TimesArePast
    <3> QED
      BY <2>1, <2>5, <3>1
  <2> QED
    BY <2>2, <2>3, <2>4, <2>5, <2>6 DEF MetricsAddUp, m
<1> QED
  BY <1>1, EdgesAndNodesAgree, DerivedInvariant, TimesInvariant, PTL

=============================================================================
