-------------------------- MODULE GraphPublication --------------------------
(***************************************************************************)
(* What the rebuild pipeline promises to a reader of the graph, without    *)
(* goroutines, channels or timers: a view of several stores that chases    *)
(* them.  The view is published only once the agent is ready, which it     *)
(* becomes after every store holds its first list; a publication never     *)
(* goes back and never runs ahead of a store; and every change of a store  *)
(* is eventually in the view, unless the agent is stopped.                 *)
(***************************************************************************)
EXTENDS Naturals

CONSTANTS
  Resource,      \* the stores the view is computed from
  InitialItems,  \* version of each store that holds its first list
  MaxVersion     \* bound on the changes of one store

VARIABLES
  store,    \* version of each store
  graph,    \* version of each store the view was computed from
  ready,    \* what readiness reports
  stopped   \* the agent has been told to stop

vars == <<store, graph, ready, stopped>>

FirstList(v) == \A r \in Resource : v[r] >= InitialItems[r]

Init ==
  /\ store = [r \in Resource |-> 0]
  /\ graph = [r \in Resource |-> 0]
  /\ ready = (Resource = {})   \* with every kind disabled, ready at once
  /\ stopped = FALSE

ChangeStore(r) ==
  /\ store[r] < MaxVersion
  /\ store' = [store EXCEPT ![r] = @ + 1]
  /\ UNCHANGED <<graph, ready, stopped>>

BecomeReady ==
  /\ FirstList(store)
  /\ ready' = TRUE
  /\ UNCHANGED <<store, graph, stopped>>

\* The stores are read one after another, so the view may combine versions
\* that never existed together; each is one the store has reached.
Publish ==
  /\ ready
  /\ graph' \in [Resource -> Nat]
  /\ \A r \in Resource : graph[r] <= graph'[r] /\ graph'[r] <= store[r]
  /\ FirstList(graph')
  /\ UNCHANGED <<store, ready, stopped>>

Stop == stopped' = TRUE /\ UNCHANGED <<store, graph, ready>>

Next ==
  \/ \E r \in Resource : ChangeStore(r)
  \/ BecomeReady
  \/ Publish
  \/ Stop

SafeSpec == Init /\ [][Next]_vars

\* Every version a store reaches is eventually covered by the view.
EveryChangePublished ==
  \A r \in Resource : \A n \in 1..MaxVersion :
    (store[r] >= n) ~> (graph[r] >= n \/ stopped)

Spec == SafeSpec /\ EveryChangePublished

=============================================================================
