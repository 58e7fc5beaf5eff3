------------------------------ MODULE GraphCache ------------------------------
(***************************************************************************)
(* The in-memory graph: internal/graph/cache.go.                           *)
(*                                                                         *)
(* ApplySnapshot replaces the whole graph by one computed from the listed  *)
(* Secrets and workloads.  Three things survive from the previous graph:   *)
(* how often and when a Secret was seen to change, and when an edge was    *)
(* first observed.  Nothing is stored outside the process.                 *)
(*                                                                         *)
(* The cluster changes between the listing of the Secrets and that of the  *)
(* workloads, as in rebuild.  One clock ticks at every write and           *)
(* publication; resource versions, creation times and observation times    *)
(* are its readings.  Criticalities are their ranks, 0 to 4.               *)
(***************************************************************************)
EXTENDS Naturals, FiniteSets, FiniteSetsExt, Functions, Sequences

CONSTANTS
  Secret,      \* Secret names that may exist or be referenced
  Observable,  \* those in a namespace the agent lists Secrets of
  Workload,    \* workload objects
  Ns,          \* namespace of each workload
  NoTeam,      \* the empty owner team
  SecretMeta,  \* owner team and criticality annotations a Secret may carry
  Manifest,    \* what a workload may say: team, criticality, Secrets referenced
  MaxTime      \* bound on the clock

ASSUME GraphCacheAssumption ==
  /\ IsFiniteSet(Secret) /\ IsFiniteSet(Workload)
  /\ Observable \subseteq Secret
  /\ \A m \in SecretMeta : m.criticality \in 0..4
  /\ \A m \in Manifest : m.criticality \in 0..4 /\ m.refs \subseteq Secret
  /\ MaxTime \in Nat \ {0}

VARIABLES
  \* the cluster
  clock,
  objects,         \* the Secrets that exist: version, created, meta
  manifests,       \* the workloads that exist: their manifests
  \* the agent
  secretInputs,    \* the Secrets rebuild has listed
  listing,         \* rebuild is between the two lists
  \* Cache
  secrets,         \* SecretSummary of each Secret node
  workloads,       \* WorkloadSummary of each workload node
  edges,           \* DependencyEdge of each pair of workload and Secret
  secretVersions,  \* resource versions of the last snapshot
  \* history
  published,       \* what each snapshot since NewCache was made of
  fresh            \* nothing was written since the last list began

cluster == <<clock, objects, manifests>>
cache   == <<secrets, workloads, edges, secretVersions>>
vars    == <<cluster, secretInputs, listing, cache, published, fresh>>

Empty == [x \in {} |-> x]

\* The map f with v at key k.
Put(f, k, v) == [x \in DOMAIN f \cup {k} |-> IF x = k THEN v ELSE f[x]]

-----------------------------------------------------------------------------
(* ApplySnapshot(secretInputs, manifests, now), loop by loop.              *)

\* What c.secrets holds of a key it does not have: the zero SecretSummary.
\* The entry of a Secret that is only referenced has the same two fields.
Prev(s) ==
  IF s \in DOMAIN secrets THEN secrets[s] ELSE [changes |-> 0, changedAt |-> 0]

\* Bug: a Secret without a previous version counts as changed.
ListedSecretAlwaysNew(s, input, now) ==
  LET changed == ~(s \in DOMAIN secretVersions /\ secretVersions[s] = input.version)
  IN  [exists      |-> TRUE,
       team        |-> input.meta.team,
       criticality |-> input.meta.criticality,
       changes     |-> Prev(s).changes + (IF changed THEN 1 ELSE 0),
       changedAt   |-> IF changed THEN now ELSE Prev(s).changedAt]

\* Bug: the time of the last change is not carried over.
ListedSecretForgetsTime(s, input, now) ==
  LET changed == s \in DOMAIN secretVersions /\ secretVersions[s] # input.version
  IN  [exists      |-> TRUE,
       team        |-> input.meta.team,
       criticality |-> input.meta.criticality,
       changes     |-> Prev(s).changes + (IF changed THEN 1 ELSE 0),
       changedAt   |-> IF changed THEN now ELSE input.created]

\* The node of a listed Secret, before aggregation.
ListedSecret(s, input, now) ==
  LET changed == s \in DOMAIN secretVersions /\ secretVersions[s] # input.version
  IN  [exists      |-> TRUE,
       team        |-> input.meta.team,
       criticality |-> input.meta.criticality,
       changes     |-> Prev(s).changes + (IF changed THEN 1 ELSE 0),
       changedAt   |-> IF changed THEN now
                       ELSE IF Prev(s).changedAt # 0 THEN Prev(s).changedAt
                       ELSE input.created]

\* The node of a Secret that is referenced and was not listed.
AbsentSecret ==
  [exists |-> FALSE, team |-> NoTeam, criticality |-> 0, changes |-> 0, changedAt |-> 0]

\* Discovery merges the references of a workload to one Secret, so there is
\* one edge for each pair.
References(inputs) == UNION {{w} \X inputs[w].refs : w \in DOMAIN inputs}

\* Bug: resolution looks at the informer's store, which has moved on.
NewEdgeResolvedLive(e, inputs, now) ==
  [resolved        |-> e[2] \in DOMAIN objects \cap Observable,
   team            |-> inputs[e[1]].team,
   criticality     |-> inputs[e[1]].criticality,
   firstObservedAt |-> IF e \in DOMAIN edges THEN edges[e].firstObservedAt ELSE now,
   lastObservedAt  |-> now]

\* Bug: an edge the graph has is carried over as it was.
NewEdgeResolvedOnce(e, inputs, now) ==
  [resolved        |-> IF e \in DOMAIN edges THEN edges[e].resolved
                       ELSE e[2] \in DOMAIN secretInputs,
   team            |-> inputs[e[1]].team,
   criticality     |-> inputs[e[1]].criticality,
   firstObservedAt |-> IF e \in DOMAIN edges THEN edges[e].firstObservedAt ELSE now,
   lastObservedAt  |-> now]

\* Bug: only a resolved edge keeps its age.
NewEdgeAgeIfResolved(e, inputs, now) ==
  [resolved        |-> e[2] \in DOMAIN secretInputs,
   team            |-> inputs[e[1]].team,
   criticality     |-> inputs[e[1]].criticality,
   firstObservedAt |-> IF e \in DOMAIN edges /\ edges[e].resolved
                       THEN edges[e].firstObservedAt ELSE now,
   lastObservedAt  |-> now]

NewEdge(e, inputs, now) ==
  [resolved        |-> e[2] \in DOMAIN secretInputs,
   team            |-> inputs[e[1]].team,
   criticality     |-> inputs[e[1]].criticality,
   firstObservedAt |-> IF e \in DOMAIN edges THEN edges[e].firstObservedAt ELSE now,
   lastObservedAt  |-> now]

EdgesTo(s, newEdges) == {e \in DOMAIN newEdges : e[2] = s}
EdgesOf(w, newEdges) == {e \in DOMAIN newEdges : e[1] = w}
UnresolvedIn(es, newEdges) == Cardinality({e \in es : ~newEdges[e].resolved})

\* The teams that own the workloads behind these edges.
Teams(es, newEdges) == {newEdges[e].team : e \in es} \ {NoTeam}

\* singleTeam: the owner, when there is just one.
SingleTeam(teams) ==
  IF Cardinality(teams) = 1 THEN CHOOSE t \in teams : TRUE ELSE NoTeam

\* maxCriticality of the Secret's own and those of its edges.
MaxCriticality(own, es, newEdges) == Max({own} \cup {newEdges[e].criticality : e \in es})

CriticalityPoints == [c \in 0..4 |-> <<0, 2, 8, 18, 30>>[c + 1]]

\* impactScore.
ImpactScore(n) ==
  Min({100, 2 * (n.affectedWorkloads + n.affectedTeams + n.affectedNamespaces
                 + n.unresolved) + CriticalityPoints[n.criticality]})

\* A Secret node with its owner, criticality and counts derived from the edges.
Aggregated(node, es, newEdges) ==
  LET teams == Teams(es, newEdges)
      own   == IF node.team # NoTeam THEN node.team ELSE SingleTeam(teams)
      full  == [exists      |-> node.exists,
                team        |-> own,
                criticality |-> MaxCriticality(node.criticality, es, newEdges),
                changes     |-> node.changes,
                changedAt   |-> node.changedAt,
                affectedWorkloads  |-> Cardinality({e[1] : e \in es}),
                affectedTeams      |-> Cardinality(teams),
                affectedNamespaces |-> Cardinality({Ns[e[1]] : e \in es}),
                unresolved         |-> UnresolvedIn(es, newEdges),
                score              |-> 0]
  IN  [full EXCEPT !.score = ImpactScore(full)]

NewEdges(inputs, now) == [e \in References(inputs) |-> NewEdge(e, inputs, now)]

NewSecrets(newEdges, now) ==
  [s \in DOMAIN secretInputs \cup {e[2] : e \in DOMAIN newEdges} |->
     Aggregated(IF s \in DOMAIN secretInputs
                THEN ListedSecret(s, secretInputs[s], now) ELSE AbsentSecret,
                EdgesTo(s, newEdges), newEdges)]

NewWorkloads(inputs, newEdges) ==
  [w \in DOMAIN inputs |->
     [team         |-> inputs[w].team,
      criticality  |-> inputs[w].criticality,
      dependencies |-> Cardinality({e[2] : e \in EdgesOf(w, newEdges)}),
      unresolved   |-> UnresolvedIn(EdgesOf(w, newEdges), newEdges)]]

-----------------------------------------------------------------------------

Tick == clock < MaxTime /\ clock' = clock + 1

\* The agent starts on a cluster that already has any of its objects.
Init ==
  /\ clock = 1
  /\ \E present \in SUBSET Secret :
       objects \in [present -> [version : {1}, created : {1}, meta : SecretMeta]]
  /\ \E present \in SUBSET Workload : manifests \in [present -> Manifest]
  /\ secretInputs = Empty
  /\ listing = FALSE
  /\ secrets = Empty
  /\ workloads = Empty
  /\ edges = Empty
  /\ secretVersions = Empty
  /\ published = <<>>
  /\ fresh = FALSE

Written == fresh' = FALSE /\ UNCHANGED <<secretInputs, listing, cache, published>>

\* A Secret is created, or its metadata or data updated.
WriteSecret(s, meta) ==
  /\ Tick
  /\ objects' = Put(objects, s,
                     [version |-> clock',
                      created |-> IF s \in DOMAIN objects THEN objects[s].created ELSE clock',
                      meta    |-> meta])
  /\ UNCHANGED manifests
  /\ Written

DeleteSecret(s) ==
  /\ s \in DOMAIN objects
  /\ Tick
  /\ objects' = Restrict(objects, DOMAIN objects \ {s})
  /\ UNCHANGED manifests
  /\ Written

WriteWorkload(w, m) ==
  /\ ~(w \in DOMAIN manifests /\ manifests[w] = m)
  /\ Tick
  /\ manifests' = Put(manifests, w, m)
  /\ UNCHANGED objects
  /\ Written

DeleteWorkload(w) ==
  /\ w \in DOMAIN manifests
  /\ Tick
  /\ manifests' = Restrict(manifests, DOMAIN manifests \ {w})
  /\ UNCHANGED objects
  /\ Written

\* rebuild lists the Secrets, in the namespaces it may see.
ListSecrets ==
  /\ ~listing
  /\ listing' = TRUE
  /\ secretInputs' = Restrict(objects, DOMAIN objects \cap Observable)
  /\ fresh' = TRUE
  /\ UNCHANGED <<cluster, cache, published>>

\* rebuild lists the workloads and calls ApplySnapshot.
ApplySnapshot ==
  /\ listing
  /\ Tick
  /\ listing' = FALSE
  /\ edges' = NewEdges(manifests, clock')
  /\ secrets' = NewSecrets(edges', clock')
  /\ workloads' = NewWorkloads(manifests, edges')
  /\ secretVersions' = [s \in DOMAIN secretInputs |-> secretInputs[s].version]
  /\ published' = Append(published, [inputs |-> secretInputs,
                                     refs   |-> DOMAIN edges',
                                     at     |-> clock'])
  /\ UNCHANGED <<objects, manifests, secretInputs, fresh>>

\* The agent crashes or is restarted: the graph is rebuilt from nothing.
Restart ==
  /\ Tick
  /\ secrets' = Empty
  /\ workloads' = Empty
  /\ edges' = Empty
  /\ secretVersions' = Empty
  /\ secretInputs' = Empty
  /\ listing' = FALSE
  /\ published' = <<>>
  /\ fresh' = FALSE
  /\ UNCHANGED <<objects, manifests>>

ClusterWrite ==
  \/ \E s \in Secret : DeleteSecret(s) \/ \E meta \in SecretMeta : WriteSecret(s, meta)
  \/ \E w \in Workload : DeleteWorkload(w) \/ \E m \in Manifest : WriteWorkload(w, m)

\* The bound on the clock, not the system, stops the behavior.
TimeIsUp == clock = MaxTime /\ UNCHANGED vars

Next == ClusterWrite \/ ListSecrets \/ ApplySnapshot \/ Restart \/ TimeIsUp

Spec == Init /\ [][Next]_vars

-----------------------------------------------------------------------------
(* Properties.                                                             *)

TypeOK ==
  /\ clock \in 1..MaxTime
  /\ DOMAIN objects \subseteq Secret
  /\ manifests \in UNION {[ws -> Manifest] : ws \in SUBSET Workload}
  /\ DOMAIN secretInputs \subseteq Observable
  /\ listing \in BOOLEAN /\ fresh \in BOOLEAN
  /\ DOMAIN secrets \subseteq Secret
  /\ \A s \in DOMAIN secrets : secrets[s].score \in 0..100
  /\ DOMAIN workloads \subseteq Workload
  /\ DOMAIN edges \subseteq Workload \X Secret
  /\ DOMAIN secretVersions \subseteq DOMAIN secrets

\* A snapshot agrees with itself even when the cluster changed between the two
\* lists: both ends of an edge are nodes, and the edge is resolved exactly when
\* its Secret's node exists.
EdgesMatchNodes ==
  \A e \in DOMAIN edges :
    /\ e[1] \in DOMAIN workloads
    /\ e[2] \in DOMAIN secrets
    /\ edges[e].resolved <=> secrets[e[2]].exists

\* When nothing was written since rebuild began to list, the graph is the
\* cluster's: nothing of a deleted Secret or of a dropped reference is left in
\* it, and a reference is unresolved exactly when the agent cannot see a Secret
\* of that name.
SettledGraphIsExact ==
  fresh /\ ~listing =>
    /\ DOMAIN edges = References(manifests)
    /\ DOMAIN workloads = DOMAIN manifests
    /\ DOMAIN secrets = (DOMAIN objects \cap Observable) \cup {e[2] : e \in References(manifests)}
    /\ \A e \in DOMAIN edges : edges[e].resolved <=> e[2] \in DOMAIN objects \cap Observable

\* The snapshots at the end of the history that all hold the Secret.
SnapshotsWith(s) ==
  {i \in 1..Len(published) :
     \A j \in i..Len(published) : s \in DOMAIN published[j].inputs}

\* Those of them that found another resource version than the one before.
Differences(s) ==
  {i \in SnapshotsWith(s) :
     /\ i - 1 \in SnapshotsWith(s)
     /\ published[i].inputs[s].version # published[i - 1].inputs[s].version}

\* No snapshot since the agent started had the Secret and the next one not.
NeverLeft(s) ==
  \A i, j \in 1..Len(published) :
    i < j /\ s \in DOMAIN published[i].inputs => s \in DOMAIN published[j].inputs

\* What is remembered of a Secret is its history.  As long as it never left, the
\* count is the number of snapshots that found another version than the one
\* before; after it left it is at least the number of those since; and the time
\* is that of the last of them.  Whether the count goes on or starts anew when
\* a Secret returns is left open, and so is the time before the first change.
ChangesAreDifferences ==
  \A s \in DOMAIN secrets : secrets[s].exists =>
    /\ NeverLeft(s) => secrets[s].changes = Cardinality(Differences(s))
    /\ secrets[s].changes >= Cardinality(Differences(s))
    /\ Differences(s) # {} => secrets[s].changedAt = published[Max(Differences(s))].at

\* The snapshots at the end of the history that all have the edge.
SnapshotsWithEdge(e) ==
  {i \in 1..Len(published) :
     \A j \in i..Len(published) : e \in published[j].refs}

\* An edge keeps the time it was first observed as long as every snapshot has
\* it, whatever becomes of its Secret; an edge that comes back is a new one.
EdgeAgeIsUnbroken ==
  \A e \in DOMAIN edges :
    edges[e].firstObservedAt = published[Min(SnapshotsWithEdge(e))].at

\* The time of the last change of a Secret that stays does not go back.
ChangeTimeNeverGoesBack ==
  [][\A s \in DOMAIN secrets \cap DOMAIN secrets' :
       secrets[s].exists /\ secrets'[s].exists => secrets'[s].changedAt >= secrets[s].changedAt]_vars

=============================================================================
