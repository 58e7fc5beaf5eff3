----------------------------- MODULE Controller -----------------------------
(***************************************************************************)
(* The rebuild pipeline of the agent: internal/controller/controller.go.   *)
(*                                                                         *)
(* Four kinds of goroutines share a Controller.  One informer per enabled  *)
(* resource kind keeps a store and queues notifications for its handler;   *)
(* every handler call asks for a rebuild on rebuildCh, a channel of        *)
(* capacity one, and drops its request when the channel is full.  Start    *)
(* waits for the stores one after another and then asks for the first      *)
(* rebuild.  runRebuildLoop waits for a request, drains further requests   *)
(* for a fixed window, lists every store in turn and replaces the graph.   *)
(*                                                                         *)
(* The content of a store is abstracted to a version: the number of        *)
(* changes the informer has applied to it.  The graph is abstracted to the *)
(* version of each store it was computed from.                             *)
(***************************************************************************)
EXTENDS Naturals, Sequences

CONSTANTS
  Resource,      \* the enabled resource kinds
  SyncOrder,     \* the order in which Start waits for their stores
  ListOrder,     \* the order in which rebuild lists them
  InitialItems,  \* objects in the first list of each kind
  Absent,        \* kinds whose resource the API server does not have
  ListMayFail,   \* kinds whose lister may return an error
  MaxVersion,    \* bound on the changes of one store
  MaxPending     \* bound on the undelivered notifications of one kind

ASSUME ControllerAssumption ==
  /\ SyncOrder \in Seq(Resource)
  /\ ListOrder \in Seq(Resource)
  /\ \A r \in Resource : \E i \in 1..Len(SyncOrder) : SyncOrder[i] = r
  /\ \A i, j \in 1..Len(SyncOrder) : SyncOrder[i] = SyncOrder[j] => i = j
  /\ \A r \in Resource : \E i \in 1..Len(ListOrder) : ListOrder[i] = r
  /\ InitialItems \in [Resource -> Nat]
  /\ Absent \subseteq Resource
  /\ ListMayFail \subseteq Resource
  /\ MaxVersion \in Nat
  /\ MaxPending \in Nat \ {0}

VARIABLES
  \* the informers (client-go)
  store,         \* version of each informer's store
  occupied,      \* kinds whose store holds an object
  hasSynced,     \* informer.HasSynced() of each kind
  pending,       \* notifications not yet handed to the handler
  \* the Controller
  rebuildCh,     \* number of requests buffered in rebuildCh
  synced,        \* the map c.synced
  graph,         \* store versions the published graph was built from
  counts,        \* store versions c.lastGraphCounts was computed from
  \* the goroutine of Start
  startPc,       \* where Start is
  syncIdx,       \* the entry of SyncOrder it waits for
  \* the goroutine of runRebuildLoop
  loop,          \* where the loop is
  timerFired,    \* the debounce timer has fired
  listIdx,       \* the entry of ListOrder rebuild lists next
  listed,        \* what rebuild has listed so far
  \* the context
  ctxDone

informerVars == <<store, occupied, hasSynced, pending>>
startVars    == <<startPc, syncIdx, synced>>
loopVars     == <<loop, timerFired, listIdx, listed, graph, counts>>
vars == <<informerVars, rebuildCh, startVars, loopVars, ctxDone>>

-----------------------------------------------------------------------------

\* Buffer size of rebuildCh.
Capacity == 1

\* Status and Ready: every enabled kind has been marked synced.
Ready == \A r \in Resource : synced[r]

\* Bug: a request is also dropped while a rebuild is running, as if the rebuild
\* would cover it.
RequestRebuildUnlessRunning ==
  rebuildCh' = IF rebuildCh < Capacity /\ loop \notin {"list", "stats"}
               THEN rebuildCh + 1 ELSE rebuildCh

\* requestRebuild: a send that gives up when the channel is full.
RequestRebuild ==
  rebuildCh' = IF rebuildCh < Capacity THEN rebuildCh + 1 ELSE rebuildCh

TypeOK ==
  /\ store \in [Resource -> Nat]
  /\ occupied \subseteq Resource
  /\ hasSynced \in [Resource -> BOOLEAN]
  /\ pending \in [Resource -> Nat]
  /\ rebuildCh \in 0..Capacity
  /\ synced \in [Resource -> BOOLEAN]
  /\ graph \in [Resource -> Nat]
  /\ counts \in [Resource -> Nat]
  /\ startPc \in {"syncing", "serving", "failed", "returned"}
  /\ syncIdx \in 1..(Len(SyncOrder) + 1)
  /\ loop \in {"idle", "drain", "gate", "list", "stats", "exited"}
  /\ timerFired \in BOOLEAN
  /\ listIdx \in 1..(Len(ListOrder) + 1)
  /\ listed \in [Resource -> Nat]
  /\ ctxDone \in BOOLEAN

Zero == [r \in Resource |-> 0]

\* New has run, and Start has launched the loop and the informers.
Init ==
  /\ store = Zero
  /\ occupied = {}
  /\ hasSynced = [r \in Resource |-> FALSE]
  /\ pending = Zero
  /\ rebuildCh = 0
  /\ synced = [r \in Resource |-> FALSE]
  /\ graph = Zero
  /\ counts = Zero
  /\ startPc = "syncing"
  /\ syncIdx = 1
  /\ loop = "idle"
  /\ timerFired = FALSE
  /\ listIdx = 1
  /\ listed = Zero
  /\ ctxDone = FALSE

-----------------------------------------------------------------------------
(* The informers: a store is changed first, its handler hears of it later. *)

\* One change of the store of r, with the notification it causes.
Change(r) ==
  /\ store[r] < MaxVersion
  /\ pending[r] < MaxPending
  /\ store' = [store EXCEPT ![r] = @ + 1]
  /\ pending' = [pending EXCEPT ![r] = @ + 1]

\* An object of the first list is added to the store.
LoadInitial(r) ==
  /\ r \notin Absent
  /\ ~hasSynced[r]
  /\ store[r] < InitialItems[r]
  /\ Change(r)
  /\ occupied' = occupied \cup {r}
  /\ UNCHANGED <<hasSynced, rebuildCh, startVars, loopVars, ctxDone>>

\* The first list, possibly empty, is in the store.  The reflector of a kind
\* the API server does not have lists in vain, and never gets here.
InitialListDone(r) ==
  /\ r \notin Absent
  /\ ~hasSynced[r]
  /\ store[r] >= InitialItems[r]
  /\ hasSynced' = [hasSynced EXCEPT ![r] = TRUE]
  /\ UNCHANGED <<store, occupied, pending, rebuildCh, startVars, loopVars, ctxDone>>

\* The watch delivers an added, updated or deleted object, which may have been
\* the last one of its kind.
WatchEvent(r) ==
  /\ hasSynced[r]
  /\ Change(r)
  /\ \/ occupied' = occupied \cup {r}
     \/ r \in occupied /\ occupied' = occupied \ {r}
  /\ UNCHANGED <<hasSynced, rebuildCh, startVars, loopVars, ctxDone>>

\* The periodic resync replays an object of the store to the handler.
Resync(r) ==
  /\ hasSynced[r]
  /\ r \in occupied
  /\ pending[r] < MaxPending
  /\ pending' = [pending EXCEPT ![r] = @ + 1]
  /\ UNCHANGED <<store, occupied, hasSynced, rebuildCh, startVars, loopVars, ctxDone>>

\* A store without objects has nothing to replay.
ResyncNothing(r) ==
  /\ hasSynced[r]
  /\ r \notin occupied
  /\ UNCHANGED vars

\* registerResourceHandler: add, update and delete all request a rebuild.
HandleEvent(r) ==
  /\ pending[r] > 0
  /\ pending' = [pending EXCEPT ![r] = @ - 1]
  /\ RequestRebuild
  /\ UNCHANGED <<store, occupied, hasSynced, startVars, loopVars, ctxDone>>

-----------------------------------------------------------------------------
(* The goroutine of Start.                                                 *)

\* WaitForCacheSync returned true for the kind Start waits for.
CacheSynced ==
  /\ startPc = "syncing"
  /\ syncIdx <= Len(SyncOrder)
  /\ hasSynced[SyncOrder[syncIdx]]
  /\ synced' = [synced EXCEPT ![SyncOrder[syncIdx]] = TRUE]
  /\ syncIdx' = syncIdx + 1
  /\ UNCHANGED <<informerVars, rebuildCh, startPc, loopVars, ctxDone>>

\* WaitForCacheSync returned false, which it does only when the context is
\* done: Start gives up.
CacheSyncFailed ==
  /\ startPc = "syncing"
  /\ syncIdx <= Len(SyncOrder)
  /\ ctxDone
  /\ synced' = [synced EXCEPT ![SyncOrder[syncIdx]] = FALSE]
  /\ startPc' = "failed"
  /\ UNCHANGED <<informerVars, rebuildCh, syncIdx, loopVars, ctxDone>>

\* Bug: Start relies on the events of the first lists.
ServeWithoutRequest ==
  /\ startPc = "syncing"
  /\ syncIdx > Len(SyncOrder)
  /\ startPc' = "serving"
  /\ UNCHANGED <<informerVars, rebuildCh, synced, syncIdx, loopVars, ctxDone>>

\* Every store has synced: requestRebuild("initial-sync").
RequestInitialSync ==
  /\ startPc = "syncing"
  /\ syncIdx > Len(SyncOrder)
  /\ RequestRebuild
  /\ startPc' = "serving"
  /\ UNCHANGED <<informerVars, synced, syncIdx, loopVars, ctxDone>>

StartReturns ==
  /\ startPc = "serving"
  /\ ctxDone
  /\ startPc' = "returned"
  /\ UNCHANGED <<informerVars, rebuildCh, synced, syncIdx, loopVars, ctxDone>>

StartStep ==
  CacheSynced \/ CacheSyncFailed \/ RequestInitialSync \/ StartReturns

\* main cancels the context.
Cancel ==
  /\ ~ctxDone
  /\ ctxDone' = TRUE
  /\ UNCHANGED <<informerVars, rebuildCh, startVars, loopVars>>

-----------------------------------------------------------------------------
(* The goroutine of runRebuildLoop.                                        *)

\* The first request opens the debounce window: a new timer is started.
OpenWindow ==
  /\ loop = "idle"
  /\ rebuildCh > 0
  /\ rebuildCh' = rebuildCh - 1
  /\ loop' = "drain"
  /\ timerFired' = FALSE
  /\ UNCHANGED <<informerVars, startVars, listIdx, listed, graph, counts,
                 ctxDone>>

\* Bug: every request starts the timer again.
DrainRequestRestartingTimer ==
  /\ loop = "drain"
  /\ rebuildCh > 0
  /\ rebuildCh' = rebuildCh - 1
  /\ timerFired' = FALSE
  /\ UNCHANGED <<informerVars, startVars, loop, listIdx, listed, graph, counts,
                 ctxDone>>

\* A request inside the window is absorbed; the timer keeps running.
DrainRequest ==
  /\ loop = "drain"
  /\ rebuildCh > 0
  /\ rebuildCh' = rebuildCh - 1
  /\ UNCHANGED <<informerVars, startVars, loopVars, ctxDone>>

TimerFires ==
  /\ loop = "drain"
  /\ ~timerFired
  /\ timerFired' = TRUE
  /\ UNCHANGED <<informerVars, rebuildCh, startVars, loop, listIdx, listed,
                 graph, counts, ctxDone>>

\* The select takes the timer's branch: rebuild is called.
CloseWindow ==
  /\ loop = "drain"
  /\ timerFired
  /\ loop' = "gate"
  /\ UNCHANGED <<informerVars, rebuildCh, startVars, timerFired, listIdx,
                 listed, graph, counts, ctxDone>>

\* Bug: the loop ends only when it has no request left to serve.
LoopExitsWhenDrained ==
  /\ loop = "idle"
  /\ rebuildCh = 0
  /\ ctxDone
  /\ loop' = "exited"
  /\ UNCHANGED <<informerVars, rebuildCh, startVars, timerFired, listIdx,
                 listed, graph, counts, ctxDone>>

\* The select takes the context's branch.
LoopExits ==
  /\ loop \in {"idle", "drain"}
  /\ ctxDone
  /\ loop' = "exited"
  /\ UNCHANGED <<informerVars, rebuildCh, startVars, timerFired, listIdx,
                 listed, graph, counts, ctxDone>>

\* Bug: rebuild does not ask whether the stores are synced.
EnterRebuildUngated ==
  /\ loop = "gate"
  /\ loop' = "list"
  /\ listIdx' = 1
  /\ UNCHANGED <<informerVars, rebuildCh, startVars, timerFired, listed,
                 graph, counts, ctxDone>>

\* Bug: the graph is rebuilt in place, from an empty one.
EnterRebuildInPlace ==
  /\ loop = "gate"
  /\ IF Ready
     THEN loop' = "list" /\ listIdx' = 1 /\ graph' = Zero
     ELSE loop' = "idle" /\ UNCHANGED <<listIdx, graph>>
  /\ UNCHANGED <<informerVars, rebuildCh, startVars, timerFired, listed,
                 counts, ctxDone>>

\* rebuild returns at once unless every kind is synced.
EnterRebuild ==
  /\ loop = "gate"
  /\ IF Ready
     THEN loop' = "list" /\ listIdx' = 1
     ELSE loop' = "idle" /\ UNCHANGED listIdx
  /\ UNCHANGED <<informerVars, rebuildCh, startVars, timerFired, listed,
                 graph, counts, ctxDone>>

\* rebuild lists the store of r while the informers go on changing it.
ListStore(r) ==
  /\ loop = "list"
  /\ listIdx <= Len(ListOrder)
  /\ r = ListOrder[listIdx]
  /\ listed' = [listed EXCEPT ![r] = store[r]]
  /\ listIdx' = listIdx + 1
  /\ UNCHANGED <<informerVars, rebuildCh, startVars, loop, timerFired, graph,
                 counts, ctxDone>>

\* Bug: the error ends the goroutine.
ListFailureEndsLoop(r) ==
  /\ loop = "list"
  /\ listIdx <= Len(ListOrder)
  /\ r = ListOrder[listIdx]
  /\ r \in ListMayFail
  /\ loop' = "exited"
  /\ UNCHANGED <<informerVars, rebuildCh, startVars, timerFired, listIdx,
                 listed, graph, counts, ctxDone>>

\* A lister returns an error: rebuild returns and nothing retries it.
ListFails(r) ==
  /\ loop = "list"
  /\ listIdx <= Len(ListOrder)
  /\ r = ListOrder[listIdx]
  /\ r \in ListMayFail
  /\ loop' = "idle"
  /\ UNCHANGED <<informerVars, rebuildCh, startVars, timerFired, listIdx,
                 listed, graph, counts, ctxDone>>

\* graph.ApplySnapshot replaces the graph under its write lock.
PublishGraph ==
  /\ loop = "list"
  /\ listIdx > Len(ListOrder)
  /\ graph' = listed
  /\ loop' = "stats"
  /\ UNCHANGED <<informerVars, rebuildCh, startVars, timerFired, listIdx,
                 listed, counts, ctxDone>>

\* Bug: the counts are taken from the stores, which have moved on.
SetStatsFromStores ==
  /\ loop = "stats"
  /\ counts' = store
  /\ loop' = "idle"
  /\ UNCHANGED <<informerVars, rebuildCh, startVars, timerFired, listIdx,
                 listed, graph, ctxDone>>

\* setRebuildStats, under the controller's own lock: the Secrets and workloads
\* that were listed, and the edges of a second Snapshot, which is still the
\* graph just published because only this goroutine publishes.
SetRebuildStats ==
  /\ loop = "stats"
  /\ counts' = listed
  /\ loop' = "idle"
  /\ UNCHANGED <<informerVars, rebuildCh, startVars, timerFired, listIdx,
                 listed, graph, ctxDone>>

-----------------------------------------------------------------------------

InformerStep(r) ==
  \/ LoadInitial(r)
  \/ InitialListDone(r)
  \/ WatchEvent(r)
  \/ Resync(r)
  \/ ResyncNothing(r)
  \/ HandleEvent(r)

RebuildStep ==
  \/ EnterRebuild
  \/ \E r \in Resource : ListStore(r) \/ ListFails(r)
  \/ PublishGraph
  \/ SetRebuildStats

LoopStep ==
  \/ OpenWindow
  \/ DrainRequest
  \/ TimerFires
  \/ CloseWindow
  \/ LoopExits
  \/ RebuildStep

Next ==
  \/ \E r \in Resource : InformerStep(r)
  \/ StartStep
  \/ LoopStep
  \/ Cancel

Spec == Init /\ [][Next]_vars

(***************************************************************************)
(* Fairness.  A goroutine that can run does run, time passes, and the API  *)
(* server answers the first list of every kind it has.  The select of the  *)
(* loop chooses at random among its ready branches, so a branch that is    *)
(* ready again and again is taken: strong fairness for the context's       *)
(* branch.  Watch events, resyncs and cancellation may or may not happen.  *)
(***************************************************************************)
Fairness ==
  /\ \A r \in Resource :
       /\ WF_vars(LoadInitial(r))
       /\ WF_vars(InitialListDone(r))
       /\ WF_vars(HandleEvent(r))
  /\ WF_vars(StartStep)
  /\ WF_vars(OpenWindow)
  /\ WF_vars(TimerFires)
  /\ WF_vars(CloseWindow)
  /\ SF_vars(LoopExits)
  /\ WF_vars(RebuildStep)

FairSpec == Spec /\ Fairness

(***************************************************************************)
(* The error path: listers that may fail, though not for ever, and         *)
(* informers whose resync timer goes on firing.  A resync replays what is  *)
(* in the store; it notifies nobody of a store without objects.            *)
(***************************************************************************)
RecoverySpec ==
  /\ FairSpec
  /\ \A r \in Resource : SF_vars(ListStore(r)) /\ WF_vars(Resync(r))

-----------------------------------------------------------------------------
(* Properties.                                                             *)

\* Nothing is on its way: no notification, no request, no rebuild.
Quiet ==
  /\ startPc = "serving"
  /\ \A r \in Resource : pending[r] = 0
  /\ rebuildCh = 0
  /\ loop = "idle"

\* No change is lost.  Requests are dropped when rebuildCh is full and ignored
\* before the caches are synced, and rebuild reads stores that keep changing;
\* still, once the pipeline has come to rest the graph is computed from the
\* present content of every store.
QuietGraphIsCurrent == Quiet => graph = store

\* A graph published from a partly loaded cache would show resolved references
\* as missing.  Whatever rebuild lists or has published covers the first list
\* of every enabled kind.
NoPartialGraph ==
  (graph # Zero \/ loop = "stats") => \A r \in Resource : graph[r] >= InitialItems[r]

\* Readers of successive snapshots never see a store go back in time.
GraphNeverGoesBack == [][\A r \in Resource : graph'[r] >= graph[r]]_vars

\* LastGraphCounts, which the runtime collector exports, describes the
\* published graph except between the publication and setRebuildStats.
CountsDescribeGraph == loop # "stats" => counts = graph

\* A graph is published even when no object exists and no event ever arrives:
\* the request that Start makes once the caches are synced is enough, although
\* it is dropped when rebuildCh is full.
FirstGraphIsPublished == <>(loop = "stats" \/ ctxDone)

\* After cancellation both goroutines end, whatever the informers still do.
ShutdownCompletes ==
  ctxDone ~> (loop = "exited" /\ startPc \in {"failed", "returned"})

\* docs/technical-design.md: a kind whose CRD is not installed is left aside and
\* does not make readiness fail.
AbsentKindIsLeftAside == <>(Ready \/ ctxDone)

\* The pipeline implements the publication of a view: no change of a store
\* waits for ever, even under an endless stream of events.
Publication ==
  INSTANCE GraphPublication WITH ready <- Ready, stopped <- ctxDone

ImplementsPublication == Publication!Spec

\* A rebuild that a lister ended is made up for.  Nothing in rebuild retries
\* it, but the resync of any kind asks for another one, and that one lists all
\* kinds; so every change is published unless the agent is stopped or no store
\* holds an object any more.  In the last case the graph stays as it was, with
\* what has been deleted, until the next event.
FailedRebuildIsMadeUpFor ==
  \A r \in Resource : \A n \in 1..MaxVersion :
    (store[r] >= n) ~> (graph[r] >= n \/ ctxDone \/ occupied = {})

=============================================================================
