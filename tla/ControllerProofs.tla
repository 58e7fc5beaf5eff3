-------------------------- MODULE ControllerProofs --------------------------
(***************************************************************************)
(* Proofs about the rebuild pipeline, for every set of resource kinds,     *)
(* every sync and list order and every bound; and, at the end, about the   *)
(* process around it, for any number of requests: main does to the         *)
(* controller what Controller says it does, so everything proved of the    *)
(* controller holds in the process, and the exit status has a cause.       *)
(***************************************************************************)
EXTENDS AgentLifecycle, TLAPS

(***************************************************************************)
(* The entries of the two orders are resource kinds.                       *)
(***************************************************************************)
LEMMA OrderEntries ==
  /\ \A i \in 1..Len(SyncOrder) : SyncOrder[i] \in Resource
  /\ \A i \in 1..Len(ListOrder) : ListOrder[i] \in Resource
  /\ Len(SyncOrder) \in Nat
  /\ Len(ListOrder) \in Nat
BY ControllerAssumption DEF ControllerAssumption

-----------------------------------------------------------------------------
(***************************************************************************)
(* A change of a store and its notification keep their types.              *)
(***************************************************************************)
LEMMA ChangeTyped ==
  ASSUME store \in [Resource -> Nat], pending \in [Resource -> Nat],
         NEW r \in Resource, Change(r)
  PROVE  store' \in [Resource -> Nat] /\ pending' \in [Resource -> Nat]
BY DEF Change

(***************************************************************************)
(* The initial state has the types of TypeOK.                              *)
(***************************************************************************)
LEMMA InitTyped ==
  ASSUME Init
  PROVE  TypeOK
<1> USE OrderEntries
<1>1. Zero \in [Resource -> Nat]
  BY DEF Zero
<1>2. 1 \in 1..(Len(SyncOrder) + 1) /\ 1 \in 1..(Len(ListOrder) + 1)
  OBVIOUS
<1>3. /\ store \in [Resource -> Nat] /\ pending \in [Resource -> Nat]
      /\ graph \in [Resource -> Nat] /\ counts \in [Resource -> Nat]
      /\ listed \in [Resource -> Nat]
  BY <1>1 DEF Init
<1>4. /\ hasSynced \in [Resource -> BOOLEAN] /\ synced \in [Resource -> BOOLEAN]
      /\ timerFired \in BOOLEAN /\ ctxDone \in BOOLEAN
  BY DEF Init
<1>5. rebuildCh \in 0..Capacity
  BY DEF Init, Capacity
<1>6. /\ startPc \in {"syncing", "serving", "failed", "returned"}
      /\ loop \in {"idle", "drain", "gate", "list", "stats", "exited"}
  BY DEF Init
<1>7. /\ syncIdx \in 1..(Len(SyncOrder) + 1)
      /\ listIdx \in 1..(Len(ListOrder) + 1)
  BY <1>2 DEF Init
<1>8. occupied \subseteq Resource
  BY DEF Init
<1>9. QED
  BY <1>3, <1>4, <1>5, <1>6, <1>7, <1>8 DEF TypeOK

(***************************************************************************)
(* Every step keeps them.                                                  *)
(***************************************************************************)
LEMMA StepTyped ==
  ASSUME TypeOK, [Next]_vars
  PROVE  TypeOK'
<1> USE OrderEntries
<1> USE DEF TypeOK, Capacity, informerVars, startVars, loopVars
<1>1. ASSUME NEW r \in Resource, LoadInitial(r) PROVE TypeOK'
  <2>1. Change(r)
    BY <1>1 DEF LoadInitial
  <2>2. store' \in [Resource -> Nat] /\ pending' \in [Resource -> Nat]
    BY <2>1, ChangeTyped
  <2>3. QED
    BY <1>1, <2>2 DEF LoadInitial
<1>2. ASSUME NEW r \in Resource, InitialListDone(r) PROVE TypeOK'
  BY <1>2 DEF InitialListDone
<1>3. ASSUME NEW r \in Resource, WatchEvent(r) PROVE TypeOK'
  <2>1. Change(r)
    BY <1>3 DEF WatchEvent
  <2>2. store' \in [Resource -> Nat] /\ pending' \in [Resource -> Nat]
    BY <2>1, ChangeTyped
  <2>3. QED
    BY <1>3, <2>2 DEF WatchEvent
<1>4. ASSUME NEW r \in Resource, Resync(r) PROVE TypeOK'
  <2>1. pending' \in [Resource -> Nat]
    BY <1>4 DEF Resync
  <2>2. QED
    BY <1>4, <2>1 DEF Resync
<1>4a. ASSUME NEW r \in Resource, ResyncNothing(r) PROVE TypeOK'
  BY <1>4a DEF ResyncNothing, vars
<1>5. ASSUME NEW r \in Resource, HandleEvent(r) PROVE TypeOK'
  <2>1. pending' \in [Resource -> Nat] /\ rebuildCh' \in 0..Capacity
    BY <1>5 DEF HandleEvent, RequestRebuild
  <2>2. QED
    BY <1>5, <2>1 DEF HandleEvent
<1>6. CASE CacheSynced
  BY <1>6 DEF CacheSynced
<1>7. CASE CacheSyncFailed
  BY <1>7 DEF CacheSyncFailed
<1>8. CASE RequestInitialSync
  BY <1>8 DEF RequestInitialSync, RequestRebuild
<1>9. CASE StartReturns
  BY <1>9 DEF StartReturns
<1>10. CASE OpenWindow
  <2>1. rebuildCh' \in 0..Capacity
    BY <1>10 DEF OpenWindow
  <2>2. QED
    BY <1>10, <2>1 DEF OpenWindow
<1>11. CASE DrainRequest
  BY <1>11 DEF DrainRequest
<1>12. CASE TimerFires
  BY <1>12 DEF TimerFires
<1>13. CASE CloseWindow
  BY <1>13 DEF CloseWindow
<1>14. CASE LoopExits
  BY <1>14 DEF LoopExits
<1>15. CASE EnterRebuild
  BY <1>15 DEF EnterRebuild
<1>16. ASSUME NEW r \in Resource, ListStore(r) PROVE TypeOK'
  BY <1>16 DEF ListStore
<1>17. ASSUME NEW r \in Resource, ListFails(r) PROVE TypeOK'
  BY <1>17 DEF ListFails
<1>18. CASE PublishGraph
  BY <1>18 DEF PublishGraph
<1>19. CASE SetRebuildStats
  BY <1>19 DEF SetRebuildStats
<1>20. CASE Cancel
  BY <1>20 DEF Cancel
<1>21. CASE UNCHANGED vars
  BY <1>21 DEF vars
<1>22. QED
  BY <1>1, <1>2, <1>3, <1>4, <1>4a, <1>5, <1>6, <1>7, <1>8, <1>9, <1>10, <1>11,
     <1>12, <1>13, <1>14, <1>15, <1>16, <1>17, <1>18, <1>19, <1>20, <1>21
     DEF Next, InformerStep, StartStep, LoopStep, RebuildStep

(***************************************************************************)
(* Every variable of the pipeline keeps its type: in particular rebuildCh  *)
(* never holds more than one request and the two indexes stay in bounds.   *)
(***************************************************************************)
THEOREM TypeCorrect == Spec => []TypeOK
BY InitTyped, StepTyped, PTL DEF Spec

-----------------------------------------------------------------------------
(***************************************************************************)
(* What Start knows of the caches: a kind is marked synced only after its  *)
(* informer has synced, which is after its first list; the kinds marked    *)
(* are those Start has passed; and Start serves only when it has passed    *)
(* them all.                                                               *)
(***************************************************************************)
SyncInv ==
  /\ \A r \in Resource : synced[r] => hasSynced[r]
  /\ \A r \in Resource : hasSynced[r] => store[r] >= InitialItems[r]
  /\ \A i \in 1..Len(SyncOrder) : synced[SyncOrder[i]] <=> i < syncIdx
  /\ startPc \in {"serving", "returned"} => syncIdx > Len(SyncOrder)

(***************************************************************************)
(* The version of a store never decreases: the informers only count up and *)
(* no goroutine of the controller writes a store.                          *)
(***************************************************************************)
LEMMA StoreGrows ==
  ASSUME TypeOK, [Next]_vars
  PROVE  \A r \in Resource : store'[r] \in Nat /\ store'[r] >= store[r]
<1>1. ASSUME NEW r \in Resource, LoadInitial(r) \/ WatchEvent(r)
      PROVE  \A q \in Resource : store'[q] \in Nat /\ store'[q] >= store[q]
  <2>1. store' = [store EXCEPT ![r] = store[r] + 1]
    BY <1>1 DEF LoadInitial, WatchEvent, Change
  <2>2. store \in [Resource -> Nat]
    BY DEF TypeOK
  <2>3. QED
    BY <2>1, <2>2
<1>2. ASSUME \A r \in Resource : ~(LoadInitial(r) \/ WatchEvent(r))
      PROVE  store' = store
  BY <1>2 DEF Next, InformerStep, StartStep, LoopStep, RebuildStep, vars,
     informerVars, InitialListDone, Resync, ResyncNothing, HandleEvent, CacheSynced,
     CacheSyncFailed, RequestInitialSync, StartReturns, Cancel, OpenWindow,
     DrainRequest, TimerFires, CloseWindow, LoopExits, EnterRebuild, ListStore,
     ListFails, PublishGraph, SetRebuildStats
<1>3. QED
  BY <1>1, <1>2 DEF TypeOK

(***************************************************************************)
(* A store that holds its first list goes on holding it.                   *)
(***************************************************************************)
LEMMA FirstListKept ==
  ASSUME TypeOK, [Next]_vars, NEW r \in Resource, store[r] >= InitialItems[r]
  PROVE  store'[r] >= InitialItems[r]
<1>1. store[r] \in Nat
  BY DEF TypeOK
<1>2. InitialItems[r] \in Nat
  BY ControllerAssumption DEF ControllerAssumption
<1>3. store'[r] \in Nat /\ store'[r] >= store[r]
  BY StoreGrows
<1>4. QED
  BY <1>1, <1>2, <1>3

(***************************************************************************)
(* SyncInv is inductive.                                                   *)
(***************************************************************************)
LEMMA SyncInvariant == Spec => []SyncInv
<1> USE OrderEntries
<1>1. Init => SyncInv
  BY ControllerAssumption DEF Init, SyncInv, Zero, ControllerAssumption
<1>2. TypeOK /\ SyncInv /\ [Next]_vars => SyncInv'
  <2> SUFFICES ASSUME TypeOK, SyncInv, [Next]_vars PROVE SyncInv'
    OBVIOUS
  <2>0. InitialItems \in [Resource -> Nat]
    BY ControllerAssumption DEF ControllerAssumption
  <2> USE <2>0 DEF TypeOK, SyncInv, informerVars, startVars, loopVars
  <2>1. ASSUME NEW r \in Resource, LoadInitial(r) PROVE SyncInv'
    <3>1. UNCHANGED <<hasSynced, synced, startPc, syncIdx>>
      BY <2>1 DEF LoadInitial
    <3>2. ASSUME NEW q \in Resource, hasSynced'[q]
          PROVE  store'[q] >= InitialItems[q]
      <4>1. store[q] >= InitialItems[q]
        BY <3>1, <3>2
      <4>2. QED
        BY <4>1, FirstListKept
    <3>3. QED
      BY <3>1, <3>2
  <2>2. ASSUME NEW r \in Resource, InitialListDone(r) PROVE SyncInv'
    <3>1. store[r] >= InitialItems[r]
      BY <2>2 DEF InitialListDone
    <3>2. UNCHANGED <<store, synced, startPc, syncIdx>>
      BY <2>2 DEF InitialListDone
    <3>3. \A q \in Resource : hasSynced'[q] <=> hasSynced[q] \/ q = r
      BY <2>2 DEF InitialListDone
    <3>4. QED
      BY <3>1, <3>2, <3>3
  <2>3. ASSUME NEW r \in Resource, WatchEvent(r) PROVE SyncInv'
    <3>1. UNCHANGED <<hasSynced, synced, startPc, syncIdx>>
      BY <2>3 DEF WatchEvent
    <3>2. ASSUME NEW q \in Resource, hasSynced'[q]
          PROVE  store'[q] >= InitialItems[q]
      <4>1. store[q] >= InitialItems[q]
        BY <3>1, <3>2
      <4>2. QED
        BY <4>1, FirstListKept
    <3>3. QED
      BY <3>1, <3>2
  <2>4. ASSUME NEW r \in Resource, Resync(r) PROVE SyncInv'
    BY <2>4 DEF Resync
  <2>4a. ASSUME NEW r \in Resource, ResyncNothing(r) PROVE SyncInv'
    BY <2>4a DEF ResyncNothing, vars
  <2>5. ASSUME NEW r \in Resource, HandleEvent(r) PROVE SyncInv'
    BY <2>5 DEF HandleEvent
  <2>6. CASE CacheSynced
    <3>1. \A i \in 1..Len(SyncOrder) : SyncOrder[i] = SyncOrder[syncIdx] => i = syncIdx
      BY <2>6, ControllerAssumption DEF CacheSynced, ControllerAssumption
    <3>2. \A i \in 1..Len(SyncOrder) : synced'[SyncOrder[i]] <=> i < syncIdx'
      BY <2>6, <3>1 DEF CacheSynced
    <3>3. QED
      BY <2>6, <3>2 DEF CacheSynced
  <2>7. CASE CacheSyncFailed
    <3>1. \A i \in 1..Len(SyncOrder) : SyncOrder[i] = SyncOrder[syncIdx] => i = syncIdx
      BY <2>7, ControllerAssumption DEF CacheSyncFailed, ControllerAssumption
    <3>2. \A i \in 1..Len(SyncOrder) : synced'[SyncOrder[i]] <=> i < syncIdx'
      BY <2>7, <3>1 DEF CacheSyncFailed
    <3>3. QED
      BY <2>7, <3>2 DEF CacheSyncFailed
  <2>8. CASE RequestInitialSync
    BY <2>8 DEF RequestInitialSync
  <2>9. CASE StartReturns
    BY <2>9 DEF StartReturns
  <2>10. CASE LoopStep \/ Cancel \/ UNCHANGED vars
    <3>1. UNCHANGED <<store, hasSynced, synced, startPc, syncIdx>>
      BY <2>10 DEF LoopStep, RebuildStep, OpenWindow, DrainRequest, TimerFires,
         CloseWindow, LoopExits, EnterRebuild, ListStore, ListFails,
         PublishGraph, SetRebuildStats, Cancel, vars
    <3>2. QED
      BY <3>1
  <2>11. QED
    BY <2>1, <2>2, <2>3, <2>4, <2>4a, <2>5, <2>6, <2>7, <2>8, <2>9, <2>10
       DEF Next, InformerStep, StartStep
<1>3. QED
  BY <1>1, <1>2, TypeCorrect, PTL DEF Spec

(***************************************************************************)
(* Within the pipeline readiness is never taken back.  CacheSyncFailed      *)
(* stores FALSE for a kind that was never marked, because Start has not    *)
(* passed it.                                                              *)
(***************************************************************************)
LEMMA ReadyKept ==
  ASSUME TypeOK, SyncInv, [Next]_vars, Ready
  PROVE  Ready'
<1> USE OrderEntries DEF Ready
<1>1. CASE CacheSynced
  BY <1>1 DEF CacheSynced, TypeOK
<1>2. CASE CacheSyncFailed
  <2>1. ~synced[SyncOrder[syncIdx]] /\ SyncOrder[syncIdx] \in Resource
    BY <1>2 DEF CacheSyncFailed, SyncInv, TypeOK
  <2>2. QED
    BY <2>1
<1>3. CASE ~CacheSynced /\ ~CacheSyncFailed
  <2>1. synced' = synced
    BY <1>3 DEF Next, InformerStep, StartStep, LoopStep, RebuildStep, vars,
       startVars, LoadInitial, WatchEvent, InitialListDone, Resync, ResyncNothing,
       HandleEvent, RequestInitialSync, StartReturns, Cancel, OpenWindow,
       DrainRequest, TimerFires, CloseWindow, LoopExits, EnterRebuild,
       ListStore, ListFails, PublishGraph, SetRebuildStats
  <2>2. QED
    BY <2>1
<1>4. QED
  BY <1>1, <1>2, <1>3

-----------------------------------------------------------------------------
(***************************************************************************)
(* What rebuild has read: the listing is between the graph and the stores, *)
(* it is made only when every kind is synced, and the part already listed  *)
(* covers the first list of its kinds.                                     *)
(***************************************************************************)
ListInv ==
  /\ \A r \in Resource : graph[r] <= listed[r] /\ listed[r] <= store[r]
  /\ loop \in {"list", "stats"} => Ready
  /\ loop = "list" =>
       \A i \in 1..Len(ListOrder) :
         i < listIdx => listed[ListOrder[i]] >= InitialItems[ListOrder[i]]
  /\ loop = "stats" => graph = listed
  /\ NoPartialGraph
  /\ CountsDescribeGraph

(***************************************************************************)
(* When rebuild has been through ListOrder, what it listed covers the      *)
(* first list of every kind: each kind occurs in the order.                *)
(***************************************************************************)
LEMMA ListingComplete ==
  ASSUME TypeOK, ListInv, PublishGraph, NEW r \in Resource
  PROVE  listed[r] >= InitialItems[r]
<1>1. PICK i \in 1..Len(ListOrder) : ListOrder[i] = r
  BY ControllerAssumption DEF ControllerAssumption
<1>2. i < listIdx /\ loop = "list"
  BY OrderEntries DEF PublishGraph, TypeOK
<1>3. QED
  BY <1>1, <1>2 DEF ListInv

(***************************************************************************)
(* What was listed stays between the graph and the store.                  *)
(***************************************************************************)
LEMMA ListedBetween ==
  ASSUME store \in [Resource -> Nat], graph \in [Resource -> Nat],
         listed \in [Resource -> Nat],
         \A q \in Resource : graph[q] <= listed[q] /\ listed[q] <= store[q],
         NEW r \in Resource, ListStore(r)
  PROVE  \A q \in Resource : graph'[q] <= listed'[q] /\ listed'[q] <= store'[q]
<1>1. store' = store /\ graph' = graph /\ listed' = [listed EXCEPT ![r] = store[r]]
  BY DEF ListStore, informerVars
<1>2. \A q \in Resource : listed'[q] = IF q = r THEN store[q] ELSE listed[q]
  BY <1>1
<1>3. ASSUME NEW q \in Resource PROVE graph[q] <= store[q]
  <2>1. graph[q] \in Nat /\ listed[q] \in Nat /\ store[q] \in Nat
    OBVIOUS
  <2>2. graph[q] <= listed[q] /\ listed[q] <= store[q]
    OBVIOUS
  <2>3. QED
    BY <2>1, <2>2
<1>4. QED
  BY <1>1, <1>2, <1>3

(***************************************************************************)
(* ListInv is inductive given that the stores grow and readiness stays.    *)
(***************************************************************************)
LEMMA ListInvariant == Spec => []ListInv
<1> USE OrderEntries
<1>1. Init => ListInv
  BY DEF Init, ListInv, Zero, NoPartialGraph, CountsDescribeGraph
<1>2. TypeOK /\ SyncInv /\ ListInv /\ [Next]_vars => ListInv'
  <2> SUFFICES ASSUME TypeOK, SyncInv, ListInv, [Next]_vars PROVE ListInv'
    OBVIOUS
  <2>0. InitialItems \in [Resource -> Nat]
    BY ControllerAssumption DEF ControllerAssumption
  <2>1. Ready => Ready'
    BY ReadyKept
  <2>2. \A r \in Resource : store'[r] \in Nat /\ store'[r] >= store[r]
    BY StoreGrows
  <2> USE <2>0, <2>1 DEF TypeOK, ListInv, NoPartialGraph, CountsDescribeGraph
  <2>3. CASE UNCHANGED loopVars
    <3>1. UNCHANGED <<loop, listIdx, listed, graph, counts>>
      BY <2>3 DEF loopVars
    <3>2. \A r \in Resource : graph'[r] <= listed'[r] /\ listed'[r] <= store'[r]
      BY <2>2, <3>1
    <3>3. QED
      BY <3>1, <3>2 DEF Zero
  <2>4. CASE OpenWindow \/ TimerFires \/ CloseWindow \/ LoopExits
    BY <2>4 DEF OpenWindow, TimerFires, CloseWindow, LoopExits, informerVars, Zero
  <2>5. CASE EnterRebuild
    BY <2>5 DEF EnterRebuild, informerVars, Zero
  <2>6. ASSUME NEW r \in Resource, ListStore(r) PROVE ListInv'
    <3>1. store[r] >= InitialItems[r]
      BY <2>6 DEF ListStore, SyncInv, Ready
    <3>2. \A q \in Resource : graph'[q] <= listed'[q] /\ listed'[q] <= store'[q]
      BY <2>6, ListedBetween
    <3>3. \A i \in 1..Len(ListOrder) :
            i < listIdx' => listed'[ListOrder[i]] >= InitialItems[ListOrder[i]]
      <4> SUFFICES ASSUME NEW i \in 1..Len(ListOrder), i < listIdx'
                   PROVE  listed'[ListOrder[i]] >= InitialItems[ListOrder[i]]
        OBVIOUS
      <4>1. /\ loop = "list" /\ r = ListOrder[listIdx]
            /\ listIdx' = listIdx + 1
            /\ listed' = [listed EXCEPT ![r] = store[r]]
        BY <2>6 DEF ListStore
      <4>2. CASE ListOrder[i] = r
        BY <3>1, <4>1, <4>2
      <4>3. CASE ListOrder[i] # r
        <5>1. i < listIdx
          BY <4>1, <4>3
        <5>2. listed'[ListOrder[i]] = listed[ListOrder[i]]
          BY <4>1, <4>3
        <5>3. QED
          BY <4>1, <5>1, <5>2
      <4>4. QED
        BY <4>2, <4>3
    <3>4. QED
      BY <2>6, <3>2, <3>3 DEF ListStore, Zero
  <2>7. ASSUME NEW r \in Resource, ListFails(r) PROVE ListInv'
    BY <2>7 DEF ListFails, informerVars, Zero
  <2>8. CASE PublishGraph
    <3>1. \A r \in Resource : listed[r] >= InitialItems[r]
      BY <2>8, ListingComplete
    <3>2. QED
      BY <2>8, <3>1 DEF PublishGraph, informerVars
  <2>9. CASE SetRebuildStats
    BY <2>9 DEF SetRebuildStats, informerVars, Zero
  <2>10. QED
    BY <2>3, <2>4, <2>5, <2>6, <2>7, <2>8, <2>9
       DEF Next, InformerStep, StartStep, LoopStep, RebuildStep, vars,
           LoadInitial, WatchEvent, InitialListDone, Resync, ResyncNothing, HandleEvent,
           CacheSynced, CacheSyncFailed, RequestInitialSync, StartReturns,
           Cancel, DrainRequest
<1>3. QED
  BY <1>1, <1>2, TypeCorrect, SyncInvariant, PTL DEF Spec

(***************************************************************************)
(* A published graph covers the first list of every enabled kind.          *)
(***************************************************************************)
THEOREM NoPartialGraphEver == Spec => []NoPartialGraph
<1>1. ListInv => NoPartialGraph
  BY DEF ListInv
<1>2. QED
  BY <1>1, ListInvariant, PTL

(***************************************************************************)
(* Successive snapshots of the graph never go back in time for any store.  *)
(***************************************************************************)
THEOREM GraphMonotone == Spec => GraphNeverGoesBack
<1>1. TypeOK /\ ListInv /\ [Next]_vars
        => [\A r \in Resource : graph'[r] >= graph[r]]_vars
  <2> SUFFICES ASSUME TypeOK, ListInv, Next
               PROVE  \A r \in Resource : graph'[r] >= graph[r]
    OBVIOUS
  <2>1. CASE PublishGraph
    BY <2>1 DEF PublishGraph, ListInv, TypeOK
  <2>2. CASE ~PublishGraph
    <3>1. graph' = graph
      BY <2>2 DEF Next, InformerStep, StartStep, LoopStep, RebuildStep, vars,
         loopVars, LoadInitial, WatchEvent, InitialListDone, Resync, ResyncNothing,
         HandleEvent, CacheSynced, CacheSyncFailed, RequestInitialSync,
         StartReturns, Cancel, OpenWindow, DrainRequest, TimerFires,
         CloseWindow, LoopExits, EnterRebuild, ListStore, ListFails,
         SetRebuildStats
    <3>2. QED
      BY <3>1 DEF TypeOK
  <2>3. QED
    BY <2>1, <2>2
<1>2. QED
  BY <1>1, TypeCorrect, ListInvariant, PTL DEF Spec, GraphNeverGoesBack


-----------------------------------------------------------------------------
(***************************************************************************)
(* Why no change is lost.  Once Start has asked for the first rebuild,     *)
(* every store whose content is not in the graph is covered by something   *)
(* that is still on its way: a notification, a request in rebuildCh, a     *)
(* rebuild that is about to start, or one that will read this store later  *)
(* or has read its present content.                                        *)
(***************************************************************************)
Unlisted(r) == \E i \in 1..Len(ListOrder) : i >= listIdx /\ ListOrder[i] = r

Covered(r) ==
  \/ pending[r] > 0
  \/ rebuildCh > 0
  \/ loop \in {"drain", "gate", "exited"}
  \/ loop = "list" /\ (Unlisted(r) \/ listed[r] = store[r])
  \/ loop \in {"idle", "stats"} /\ graph[r] = store[r]

CoverInv == startPc = "serving" => \A r \in Resource : Covered(r)

(***************************************************************************)
(* A step of the informers of r leaves the other kinds as they were.       *)
(***************************************************************************)
LEMMA CoverKeptByInformer ==
  ASSUME TypeOK, CoverInv, NEW r \in Resource, InformerStep(r)
  PROVE  CoverInv'
<1>1. CASE HandleEvent(r)
  <2>1. rebuildCh' > 0
    BY <1>1 DEF HandleEvent, RequestRebuild, Capacity, TypeOK
  <2>2. startPc' = startPc
    BY <1>1 DEF HandleEvent, startVars
  <2>3. QED
    BY <2>1, <2>2 DEF CoverInv, Covered
<1>2. CASE InitialListDone(r)
  BY <1>2 DEF InitialListDone, startVars, loopVars, CoverInv, Covered, Unlisted
<1>3. CASE LoadInitial(r) \/ WatchEvent(r) \/ Resync(r)
  <2>1. /\ pending' = [pending EXCEPT ![r] = pending[r] + 1]
        /\ \A q \in Resource : q # r => store'[q] = store[q]
        /\ UNCHANGED <<rebuildCh, startPc, loop, listIdx, listed, graph>>
    BY <1>3 DEF LoadInitial, WatchEvent, Resync, Change, startVars, loopVars, TypeOK
  <2>2. pending'[r] > 0
    BY <2>1 DEF TypeOK
  <2>3. \A q \in Resource : q # r => pending'[q] = pending[q]
    BY <2>1 DEF TypeOK
  <2>4. QED
    BY <2>1, <2>2, <2>3 DEF CoverInv, Covered, Unlisted
<1>4. CASE ResyncNothing(r)
  <2>1. UNCHANGED <<pending, store, rebuildCh, startPc, loop, listIdx, listed, graph>>
    BY <1>4 DEF ResyncNothing, vars, informerVars, startVars, loopVars
  <2>2. QED
    BY <2>1 DEF CoverInv, Covered, Unlisted
<1>5. QED
  BY <1>1, <1>2, <1>3, <1>4 DEF InformerStep

(***************************************************************************)
(* CoverInv is inductive when no lister fails: every way a rebuild can end *)
(* without covering a change is a lister's error or a shutdown.            *)
(***************************************************************************)
LEMMA CoverInvariant ==
  ASSUME ListMayFail = {}
  PROVE  Spec => []CoverInv
<1> USE OrderEntries
<1>1. Init => CoverInv
  BY DEF Init, CoverInv
<1>2. TypeOK /\ SyncInv /\ CoverInv /\ [Next]_vars => CoverInv'
  <2> SUFFICES ASSUME TypeOK, SyncInv, CoverInv, [Next]_vars PROVE CoverInv'
    OBVIOUS
  <2>1. ASSUME NEW r \in Resource, InformerStep(r) PROVE CoverInv'
    BY <2>1, CoverKeptByInformer
  <2>2. CASE CacheSynced \/ CacheSyncFailed \/ StartReturns
    BY <2>2 DEF CacheSynced, CacheSyncFailed, StartReturns, CoverInv
  <2>3. CASE RequestInitialSync
    <3>1. rebuildCh' > 0
      BY <2>3 DEF RequestInitialSync, RequestRebuild, Capacity, TypeOK
    <3>2. QED
      BY <3>1 DEF CoverInv, Covered
  <2>4. CASE OpenWindow \/ DrainRequest \/ TimerFires \/ CloseWindow \/ LoopExits
    <3>1. loop' \in {"drain", "gate", "exited"}
      BY <2>4 DEF OpenWindow, DrainRequest, TimerFires, CloseWindow, LoopExits,
         loopVars
    <3>2. QED
      BY <3>1 DEF CoverInv, Covered
  <2>5. CASE EnterRebuild
    <3> SUFFICES ASSUME startPc = "serving", NEW r \in Resource
                 PROVE  Unlisted(r)' /\ loop' = "list"
      BY <2>5 DEF EnterRebuild, startVars, CoverInv, Covered
    <3>1. Ready
      <4> SUFFICES ASSUME NEW q \in Resource PROVE synced[q]
        BY DEF Ready
      <4>1. PICK i \in 1..Len(SyncOrder) : SyncOrder[i] = q
        BY ControllerAssumption DEF ControllerAssumption
      <4>2. i < syncIdx
        BY DEF SyncInv, TypeOK
      <4>3. QED
        BY <4>1, <4>2 DEF SyncInv
    <3>2. loop' = "list" /\ listIdx' = 1
      BY <2>5, <3>1 DEF EnterRebuild
    <3>3. PICK i \in 1..Len(ListOrder) : ListOrder[i] = r
      BY ControllerAssumption DEF ControllerAssumption
    <3>4. QED
      BY <3>2, <3>3 DEF Unlisted
  <2>6. ASSUME NEW q \in Resource, ListStore(q) PROVE CoverInv'
    <3> SUFFICES ASSUME startPc = "serving", NEW r \in Resource, Covered(r)
                 PROVE  Covered(r)'
      BY <2>6 DEF ListStore, startVars, CoverInv
    <3>1. /\ loop = "list" /\ loop' = "list" /\ q = ListOrder[listIdx]
          /\ listIdx' = listIdx + 1
          /\ listed' = [listed EXCEPT ![q] = store[q]]
          /\ UNCHANGED <<store, pending, rebuildCh>>
      BY <2>6 DEF ListStore, informerVars
    <3>2. CASE r = q
      <4>1. listed'[r] = store'[r]
        BY <3>1, <3>2 DEF TypeOK
      <4>2. QED
        BY <3>1, <4>1 DEF Covered
    <3>3. CASE r # q
      <4>1. listed'[r] = listed[r]
        BY <3>1, <3>3 DEF TypeOK
      <4>2. Unlisted(r) => Unlisted(r)'
        BY <3>1, <3>3 DEF Unlisted, TypeOK
      <4>3. QED
        BY <3>1, <4>1, <4>2 DEF Covered
    <3>4. QED
      BY <3>2, <3>3
  <2>7. ASSUME NEW r \in Resource, ListFails(r) PROVE CoverInv'
    BY <2>7, ListMayFail = {} DEF ListFails
  <2>8. CASE PublishGraph
    <3> SUFFICES ASSUME startPc = "serving", NEW r \in Resource, Covered(r)
                 PROVE  Covered(r)'
      BY <2>8 DEF PublishGraph, startVars, CoverInv
    <3>1. ~Unlisted(r)
      BY <2>8 DEF PublishGraph, Unlisted, TypeOK
    <3>2. QED
      BY <2>8, <3>1 DEF PublishGraph, informerVars, Covered
  <2>9. CASE SetRebuildStats
    BY <2>9 DEF SetRebuildStats, informerVars, startVars, CoverInv, Covered
  <2>10. CASE Cancel \/ UNCHANGED vars
    BY <2>10 DEF Cancel, vars, informerVars, startVars, loopVars, CoverInv,
       Covered, Unlisted
  <2>11. QED
    BY <2>1, <2>2, <2>3, <2>4, <2>5, <2>6, <2>7, <2>8, <2>9, <2>10
       DEF Next, StartStep, LoopStep, RebuildStep
<1>3. QED
  BY <1>1, <1>2, TypeCorrect, SyncInvariant, PTL DEF Spec

(***************************************************************************)
(* No change is lost: when the pipeline has come to rest, the graph is     *)
(* computed from the present content of every store, provided no lister    *)
(* returns an error.                                                       *)
(***************************************************************************)
THEOREM NoLostUpdate ==
  ASSUME ListMayFail = {}
  PROVE  Spec => []QuietGraphIsCurrent
<1>1. TypeOK /\ CoverInv => QuietGraphIsCurrent
  <2> SUFFICES ASSUME TypeOK, CoverInv, Quiet PROVE graph = store
    BY DEF QuietGraphIsCurrent
  <2>1. ASSUME NEW r \in Resource PROVE graph[r] = store[r]
    <3>1. Covered(r) /\ pending[r] = 0 /\ rebuildCh = 0 /\ loop = "idle"
      BY DEF CoverInv, Quiet
    <3>2. QED
      BY <3>1 DEF Covered
  <2>2. QED
    BY <2>1 DEF TypeOK
<1>2. QED
  BY <1>1, TypeCorrect, CoverInvariant, PTL

-----------------------------------------------------------------------------
(***************************************************************************)
(* The counts behind kbeacon_cache_objects describe the published graph in *)
(* every state but those between the publication and setRebuildStats.      *)
(***************************************************************************)
THEOREM CountsFollowGraph == Spec => []CountsDescribeGraph
<1>1. ListInv => CountsDescribeGraph
  BY DEF ListInv
<1>2. QED
  BY <1>1, ListInvariant, PTL

-----------------------------------------------------------------------------
(***************************************************************************)
(* The pipeline implements the safety part of GraphPublication: what a     *)
(* reader sees of the graph, of readiness and of the stores changes only   *)
(* in the ways that module allows.                                         *)
(***************************************************************************)
THEOREM ImplementsSafePublication == Spec => Publication!SafeSpec
<1> USE OrderEntries
<1>1. Init => Publication!Init
  BY DEF Init, Publication!Init, Ready, Zero
<1>2. TypeOK /\ SyncInv /\ ListInv /\ [Next]_vars
        => [Publication!Next]_(Publication!vars)
  <2> SUFFICES ASSUME TypeOK, SyncInv, ListInv, [Next]_vars
               PROVE  Publication!Next \/ UNCHANGED <<store, graph, Ready, ctxDone>>
    BY DEF Publication!vars
  <2>1. ASSUME NEW r \in Resource, LoadInitial(r) \/ WatchEvent(r)
        PROVE  Publication!ChangeStore(r)
    BY <2>1 DEF LoadInitial, WatchEvent, Change, startVars, loopVars, Ready,
       Publication!ChangeStore
  <2>2. CASE CacheSynced
    <3>1. UNCHANGED <<store, graph, ctxDone>>
      BY <2>2 DEF CacheSynced, informerVars, loopVars
    <3>2. CASE Ready'
      <4>1. \A r \in Resource : hasSynced[r]
        BY <2>2, <3>2 DEF CacheSynced, SyncInv, TypeOK, Ready
      <4>2. Publication!FirstList(store)
        BY <4>1 DEF SyncInv, Publication!FirstList
      <4>3. Publication!BecomeReady
        BY <3>1, <3>2, <4>2 DEF Publication!BecomeReady
      <4>4. QED
        BY <4>3 DEF Publication!Next
    <3>3. CASE ~Ready'
      <4>1. ~Ready
        BY <3>3, ReadyKept
      <4>2. Ready' = Ready
        BY <3>3, <4>1 DEF Ready
      <4>3. QED
        BY <3>1, <4>2
    <3>4. QED
      BY <3>2, <3>3
  <2>3. CASE CacheSyncFailed
    <3>1. /\ SyncOrder[syncIdx] \in Resource
          /\ ~synced[SyncOrder[syncIdx]] /\ ~synced'[SyncOrder[syncIdx]]
      BY <2>3 DEF CacheSyncFailed, SyncInv, TypeOK
    <3>2. Ready' = Ready
      BY <3>1 DEF Ready
    <3>3. QED
      BY <2>3, <3>2 DEF CacheSyncFailed, informerVars, loopVars
  <2>4. CASE PublishGraph
    <3>1. /\ graph' = listed
          /\ UNCHANGED <<store, synced, ctxDone>>
          /\ loop = "list" /\ loop' = "stats"
      BY <2>4 DEF PublishGraph, informerVars, startVars
    <3>2. \A r \in Resource : graph[r] <= graph'[r] /\ graph'[r] <= store[r]
      BY <3>1 DEF ListInv
    <3>3. Publication!FirstList(graph')
      BY <2>4, <3>1, ListingComplete DEF Publication!FirstList
    <3>4. Ready /\ Ready' = Ready
      BY <3>1 DEF ListInv, Ready
    <3>5. Publication!Publish
      BY <3>1, <3>2, <3>3, <3>4 DEF Publication!Publish, TypeOK
    <3>6. QED
      BY <3>5 DEF Publication!Next
  <2>5. CASE Cancel
    BY <2>5 DEF Cancel, informerVars, startVars, loopVars, Ready,
       Publication!Next, Publication!Stop
  <2>6. CASE UNCHANGED <<store, graph, synced, ctxDone>>
    BY <2>6 DEF Ready
  <2>7. QED
    BY <2>1, <2>2, <2>3, <2>4, <2>5, <2>6
       DEF Next, InformerStep, StartStep, LoopStep, RebuildStep, vars,
           informerVars, startVars, loopVars, InitialListDone, Resync, ResyncNothing,
           HandleEvent, RequestInitialSync, StartReturns, OpenWindow,
           DrainRequest, TimerFires, CloseWindow, LoopExits, EnterRebuild,
           ListStore, ListFails, SetRebuildStats, Publication!Next
<1>3. QED
  BY <1>1, <1>2, TypeCorrect, SyncInvariant, ListInvariant, PTL
     DEF Spec, Publication!SafeSpec

-----------------------------------------------------------------------------
(* The controller inside the process.                                      *)

\* The controller's goroutines do not touch the context.
LEMMA ContextKept ==
  ASSUME ControllerStep
  PROVE  ctxDone' = ctxDone /\ UNCHANGED agentVars
<1>1. CASE \E r \in Resource : InformerStep(r)
  BY <1>1 DEF ControllerStep, InformerStep, LoadInitial, InitialListDone,
     WatchEvent, Resync, ResyncNothing, HandleEvent, vars, informerVars,
     startVars, loopVars
<1>2. CASE StartStep
  BY <1>2 DEF ControllerStep, StartStep, CacheSynced, CacheSyncFailed,
     RequestInitialSync, StartReturns
<1>3. CASE LoopStep
  BY <1>3 DEF ControllerStep, LoopStep, RebuildStep, OpenWindow, DrainRequest,
     TimerFires, CloseWindow, LoopExits, EnterRebuild, ListStore, ListFails,
     PublishGraph, SetRebuildStats, startVars, loopVars
<1> QED
  BY <1>1, <1>2, <1>3 DEF ControllerStep

\* Cancelling a context that is done changes nothing; otherwise it is Cancel.
LEMMA CancelOrNothing ==
  ASSUME CancelContext, ctxDone \in BOOLEAN
  PROVE  Cancel \/ UNCHANGED vars
<1>1. CASE ctxDone
  BY <1>1 DEF CancelContext, vars, startVars, informerVars, loopVars
<1>2. CASE ~ctxDone
  BY <1>2 DEF CancelContext, Cancel
<1> QED
  BY <1>1, <1>2

\* A step of the process is a step of the controller or leaves it alone.
LEMMA StepOfController ==
  ASSUME TypeOK, [AgentNext]_agent
  PROVE  [Next]_vars
<1>1. CASE ControllerStep
  BY <1>1 DEF ControllerStep, Next
<1>2. CASE Signal \/ SelectError
  BY <1>2, CancelOrNothing DEF Signal, SelectError, Next, TypeOK
<1>3. CASE SignalKills \/ ServerStep
  BY <1>3 DEF SignalKills, ServerStep, ServerListens, ServerFails,
     RequestArrives, RequestAnswered
<1>4. CASE MainStep /\ ~SelectError
  BY <1>4 DEF MainStep, SelectContext, CloseListener, GracePeriodEnds,
     ShutdownReturns, ShutdownTimesOut
<1>5. CASE UNCHANGED agent
  BY <1>5 DEF agent
<1> QED
  BY <1>1, <1>2, <1>3, <1>4, <1>5 DEF AgentNext, MainStep

\* The process runs the controller as Controller specifies it: its cancellation
\* comes from a signal or from main, and exit only stops it.  Every theorem
\* about Spec is thereby one about the process.
THEOREM ImplementsController == AgentSpec => Spec
<1>1. AgentInit => Init
  BY DEF AgentInit
<1>2. Init => TypeOK
  BY InitTyped
<1>3. TypeOK /\ [Next]_vars => TypeOK'
  BY StepTyped
<1>4. TypeOK /\ [AgentNext]_agent => [Next]_vars
  BY StepOfController
<1> QED
  BY <1>1, <1>2, <1>3, <1>4, PTL DEF AgentSpec, Spec

-----------------------------------------------------------------------------
(* The exit status.                                                        *)

(***************************************************************************)
(* Why the status is right: main leaves its select with an error, and then *)
(* the server has failed and the status is 1, or with the context done,    *)
(* and while main selects only a signal cancels the context.               *)
(***************************************************************************)
StatusInv ==
  /\ AgentTypeOK
  /\ ctxDone \in BOOLEAN
  /\ errCh > 0 => server = "failed"
  /\ server \in {"starting", "serving"} => errCh = 0
  /\ exitCode = 1 => server = "failed" \/ graceOver
  /\ main = "selecting" => exitCode = 0 /\ (ctxDone => signalled)
  /\ main \in {"shutdown", "draining", "exited"} => exitCode = 1 \/ signalled
  /\ main \in {"draining", "exited"} => server \in {"failed", "closed"}
  /\ main = "exited" => exitCode = 1 \/ requests = 0

LEMMA StatusInvariant == AgentSpec => []StatusInv
<1>1. ASSUME AgentInit PROVE StatusInv
  <2>1. /\ main = "selecting" /\ server = "starting"
        /\ errCh = 0 /\ requests = 0 /\ exitCode = 0
    BY <1>1 DEF AgentInit
  <2>2. signalled = FALSE /\ released = FALSE /\ graceOver = FALSE
    BY <1>1 DEF AgentInit
  <2>3. ctxDone = FALSE
    BY <1>1 DEF AgentInit, Init
  <2>4. signalled \in BOOLEAN /\ released \in BOOLEAN /\ graceOver \in BOOLEAN
    BY <2>2
  <2>5. ctxDone \in BOOLEAN
    BY <2>3
  <2>6. errCh \in 0..1 /\ requests \in 0..MaxRequests /\ exitCode \in {0, 1}
    BY <2>1, AgentAssumption DEF AgentAssumption
  <2>7. AgentTypeOK
    BY <2>1, <2>4, <2>6 DEF AgentTypeOK
  <2>8. main = "selecting" => exitCode = 0 /\ (ctxDone => signalled)
    BY <2>1, <2>3
  <2>9. errCh > 0 => server = "failed"
    BY <2>1
  <2>10. QED
    BY <2>1, <2>5, <2>7, <2>8, <2>9 DEF StatusInv
<1>2. StatusInv /\ [AgentNext]_agent => StatusInv'
  <2> SUFFICES ASSUME StatusInv, [AgentNext]_agent
               PROVE  StatusInv'
    OBVIOUS
  <2> USE AgentAssumption DEF AgentAssumption, StatusInv, AgentTypeOK, mainVars,
        serverVars, agentVars, vars, Running
  <2>1. CASE ControllerStep
    BY <2>1, ContextKept
  <2>2. CASE Signal
    BY <2>2 DEF Signal, CancelContext
  <2>3. CASE SignalKills
    BY <2>3 DEF SignalKills
  <2>4. CASE ServerListens
    BY <2>4 DEF ServerListens
  <2>5. CASE ServerFails
    BY <2>5 DEF ServerFails
  <2>6. CASE RequestArrives
    BY <2>6 DEF RequestArrives
  <2>7. CASE RequestAnswered
    BY <2>7 DEF RequestAnswered
  <2>8. CASE SelectContext
    BY <2>8 DEF SelectContext
  <2>9. CASE SelectError
    BY <2>9 DEF SelectError, CancelContext
  <2>10. CASE CloseListener
    BY <2>10 DEF CloseListener
  <2>11. CASE GracePeriodEnds
    BY <2>11 DEF GracePeriodEnds
  <2>12. CASE ShutdownReturns
    BY <2>12 DEF ShutdownReturns
  <2>13. CASE ShutdownTimesOut
    BY <2>13 DEF ShutdownTimesOut
  <2>14. CASE UNCHANGED agent
    BY <2>14 DEF agent
  <2> QED
    BY <2>1, <2>2, <2>3, <2>4, <2>5, <2>6, <2>7, <2>8, <2>9, <2>10, <2>11,
       <2>12, <2>13, <2>14 DEF AgentNext, MainStep, ServerStep
<1> QED
  BY <1>1, <1>2, PTL DEF AgentSpec

\* The variables of main keep their types.
THEOREM AgentTypeCorrect == AgentSpec => []AgentTypeOK
<1>1. StatusInv => AgentTypeOK
  BY DEF StatusInv
<1> QED
  BY <1>1, StatusInvariant, PTL

\* An exit with 0 was asked for and cut no request; an exit with 1 follows a
\* failed server or an exceeded grace period.
THEOREM ExitStatus == AgentSpec => []ExitStatusHasACause
<1>1. StatusInv => ExitStatusHasACause
  BY DEF StatusInv, AgentTypeOK, ExitStatusHasACause
<1> QED
  BY <1>1, StatusInvariant, PTL

=============================================================================
