---------------------------- MODULE GraphQueries ----------------------------
(***************************************************************************)
(* What readers are told of the graph: the queries of                      *)
(* internal/graph/cache.go, the handlers of internal/server/server.go that *)
(* return them, and the collector of internal/metrics/collector.go.        *)
(*                                                                         *)
(* Each takes one snapshot under the lock and computes its answer from it, *)
(* partly from the counts of the nodes and partly by going through the     *)
(* edges again.  They change nothing, so they are operators on the state   *)
(* of GraphCache.                                                          *)
(***************************************************************************)
EXTENDS GraphCache

CONSTANTS
  KindOf,   \* kind of each workload
  NameOf,   \* name of each workload
  Rank,     \* place of each workload in the order of their ids
  AnyKind   \* a query that names no kind

ASSUME GraphQueriesAssumption ==
  /\ Rank \in [Workload -> Nat]
  /\ \A v, w \in Workload :
       \/ v = w
       \/ /\ Rank[v] # Rank[w]
          /\ <<Ns[v], KindOf[v], NameOf[v]>> # <<Ns[w], KindOf[w], NameOf[w]>>
  /\ \A w \in Workload : KindOf[w] # AnyKind

NotFound == [found |-> FALSE]

\* The zero SecretSummary, for a Secret without a node.
NoSummary ==
  [exists |-> FALSE, team |-> NoTeam, criticality |-> 0, changes |-> 0, changedAt |-> 0,
   affectedWorkloads |-> 0, affectedTeams |-> 0, affectedNamespaces |-> 0,
   unresolved |-> 0, score |-> 0]

SummaryOf(s) == IF s \in DOMAIN secrets THEN secrets[s] ELSE NoSummary

\* Workloads of each team that has one among these.
TeamsOf(ws) ==
  [t \in {workloads[w].team : w \in ws} \ {NoTeam} |->
     Cardinality({w \in ws : workloads[w].team = t})]

\* GetSecretImpact: the counts are the node's, the lists are made from the
\* edges, in this call.
Impact(s) ==
  LET es       == EdgesTo(s, edges)
      affected == {e[1] : e \in es} \cap DOMAIN workloads
  IN  IF s \notin DOMAIN secrets /\ es = {} THEN NotFound
      ELSE [found     |-> TRUE,
            secret    |-> SummaryOf(s),
            workloads |-> affected,
            teams     |-> TeamsOf(affected),
            edges     |-> es]

Matching(ns, kind, name) ==
  {w \in DOMAIN workloads :
     Ns[w] = ns /\ NameOf[w] = name /\ kind \in {AnyKind, KindOf[w]}}

\* The first in the snapshot's order.
First(ws) == CHOOSE w \in ws : \A v \in ws : Rank[w] <= Rank[v]

\* Bug: the edges are matched by namespace and name.
EdgesOfName(w) == {e \in DOMAIN edges : Ns[e[1]] = Ns[w] /\ NameOf[e[1]] = NameOf[w]}

\* The edges that GetWorkloadDependencies takes for the workload's.
OwnEdges(w) == EdgesOf(w, edges)

\* GetWorkloadDependencies: each Secret as its node shows it.
Dependencies(ns, kind, name) ==
  LET found == Matching(ns, kind, name)
      w     == First(found)
  IN  IF found = {} THEN NotFound
      ELSE [found    |-> TRUE,
            workload |-> w,
            secrets  |-> [s \in {e[2] : e \in OwnEdges(w)} |-> SummaryOf(s)],
            resolved |-> [s \in {e[2] : e \in OwnEdges(w)} |->
                            \E e \in OwnEdges(w) : e[2] = s /\ edges[e].resolved]]

\* DependencyMap: a node for each workload and Secret.
WorkloadNode(w) == [type |-> "workload", ref |-> w, team |-> workloads[w].team,
                    criticality |-> workloads[w].criticality]
SecretNode(s)   == [type |-> "secret", ref |-> s, team |-> secrets[s].team,
                    criticality |-> secrets[s].criticality]

\* nodesForEdges: the nodes at both ends of a page of edges.
NodesForEdges(nodes, page) ==
  {n \in nodes : \/ n.type = "workload" /\ n.ref \in {e[1] : e \in page}
                 \/ n.type = "secret" /\ n.ref \in {e[2] : e \in page}}

\* Server.dependencyMap: a page is some of the edges, as the filters, the limit
\* and the offset say.
MapPage(page) ==
  [edges |-> page,
   nodes |-> NodesForEdges({WorkloadNode(w) : w \in DOMAIN workloads}
                             \cup {SecretNode(s) : s \in DOMAIN secrets}, page)]

\* The Secrets kbeacon_cluster_secret_count counts.
Observed == {s \in DOMAIN secrets : secrets[s].exists}

\* Bug: only a Secret that was observed has a series of unresolved references.
WithUnresolvedObserved == {s \in Observed : secrets[s].unresolved > 0}

\* The Secrets with a series of unresolved references.
WithUnresolved == {s \in DOMAIN secrets : secrets[s].unresolved > 0}

\* GraphCollector.Collect: a number for each series; those of unresolved
\* references and change times are there only when there is something to say.
Collect(emitEdges) ==
  [dependencyCount |-> Cardinality(DOMAIN edges),
   secretCount     |-> Cardinality(Observed),
   workloadCount   |-> Cardinality(DOMAIN workloads),
   edge            |-> IF emitEdges THEN edges ELSE Empty,
   ofWorkload      |-> [w \in DOMAIN workloads |-> workloads[w].dependencies],
   affected        |-> [s \in DOMAIN secrets |-> secrets[s].affectedWorkloads],
   score           |-> [s \in DOMAIN secrets |-> secrets[s].score],
   exists          |-> [s \in DOMAIN secrets |-> secrets[s].exists],
   changes         |-> [s \in DOMAIN secrets |-> secrets[s].changes],
   changedAt       |-> [s \in {t \in DOMAIN secrets : secrets[t].changedAt # 0} |->
                          secrets[s].changedAt],
   unresolved      |-> [s \in WithUnresolved |-> secrets[s].unresolved]]

-----------------------------------------------------------------------------
(* Properties.                                                             *)

\* The answer about one Secret does not contradict itself, although its counts
\* were made when the graph was applied and its lists when it was asked: as
\* many workloads, teams and namespaces as it lists, each workload with a team
\* at one team, and as many unresolved references as the edges it shows.
ImpactMatchesSummary ==
  \A s \in Secret :
    LET impact == Impact(s)
    IN  /\ impact.found <=> s \in DOMAIN secrets
        /\ impact.found =>
             /\ Cardinality(impact.workloads) = impact.secret.affectedWorkloads
             /\ Cardinality(DOMAIN impact.teams) = impact.secret.affectedTeams
             /\ SumFunction(impact.teams)
                  = Cardinality({w \in impact.workloads : workloads[w].team # NoTeam})
             /\ Cardinality({Ns[w] : w \in impact.workloads}) = impact.secret.affectedNamespaces
             /\ UnresolvedIn(impact.edges, edges) = impact.secret.unresolved

\* The two queries mirror one another: a Secret affects exactly the workloads
\* that depend on it, a dependency is resolved exactly when the Secret it shows
\* exists, and the workload's own counts are those of its list.  A query without
\* a kind answers for some workload of that name whenever there is one.
QueriesMirror ==
  \A w \in DOMAIN workloads :
    LET answer == Dependencies(Ns[w], KindOf[w], NameOf[w])
        byName == Dependencies(Ns[w], AnyKind, NameOf[w])
    IN  /\ answer.found /\ answer.workload = w
        /\ \A s \in DOMAIN secrets :
             w \in Impact(s).workloads <=> s \in DOMAIN answer.secrets
        /\ \A s \in DOMAIN answer.secrets : answer.resolved[s] <=> answer.secrets[s].exists
        /\ workloads[w].dependencies = Cardinality(DOMAIN answer.secrets)
        /\ workloads[w].unresolved = Cardinality({s \in DOMAIN answer.secrets : ~answer.resolved[s]})
        /\ byName.found /\ NameOf[byName.workload] = NameOf[w]

\* However the map is filtered and cut into pages, a page has the two nodes of
\* each of its edges and no other, the workload's node has the team and the
\* criticality of the edge, and the Secret's is at least as critical.
MapIsClosed ==
  \A page \in SUBSET DOMAIN edges :
    LET nodes == MapPage(page).nodes
    IN  /\ \A e \in page :
             /\ \E n \in nodes : /\ n.type = "workload" /\ n.ref = e[1]
                                 /\ n.team = edges[e].team
                                 /\ n.criticality = edges[e].criticality
             /\ \E n \in nodes : /\ n.type = "secret" /\ n.ref = e[2]
                                 /\ n.criticality >= edges[e].criticality
        /\ \A n \in nodes : \E e \in page : n.ref \in {e[1], e[2]}

\* Whichever way a reader asks, one snapshot gives one story: the answers about
\* Secrets, those about workloads, and the map agree (GetSecretImpact,
\* GetWorkloadDependencies, DependencyMap and nodesForEdges).
GraphIsConsistent == TypeOK /\ ImpactMatchesSummary /\ QueriesMirror /\ MapIsClosed

\* The series of one scrape add up: the dependencies of the cluster are those at
\* the workloads, those at the Secrets and the edges; a Secret has a series of
\* unresolved references exactly when it does not exist, and they are the edges
\* that are not resolved; each Secret that exists, and no other, has a time of
\* change (GraphCollector.Collect).
MetricsAddUp ==
  LET m == Collect(TRUE)
  IN  /\ m.dependencyCount = SumFunction(m.affected)
      /\ m.dependencyCount = SumFunction(m.ofWorkload)
      /\ m.dependencyCount = Cardinality(DOMAIN m.edge)
      /\ DOMAIN m.unresolved = {s \in DOMAIN m.exists : ~m.exists[s]}
      /\ SumFunction(m.unresolved) = Cardinality({e \in DOMAIN m.edge : ~m.edge[e].resolved})
      /\ DOMAIN m.changedAt = {s \in DOMAIN m.exists : m.exists[s]}

=============================================================================
