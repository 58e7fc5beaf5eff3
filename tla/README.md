# KBeacon in TLA+

TLA+ models of the KBeacon agent, model-checked with TLC, with theorems proved
by TLAPS. Paths below are relative to the repository root, as are the lines in
`PROJECT.json`, which maps every definition to the code it stands for.

KBeacon answers one question about a Kubernetes cluster: which workloads use
which Secret. An agent watches the cluster through informers, recomputes a
dependency graph a moment after anything changes, and serves it over HTTP and
as Prometheus metrics; `kbeaconctl` reads that API. The graph lives in memory
only.

## 1. Inventory

| Component | Code | State it keeps | Operations that change it |
|---|---|---|---|
| Rebuild pipeline | `internal/controller/controller.go` | informer stores (client-go), `rebuildCh` (capacity 1), the map `synced`, `lastGraphCounts` | handlers, `requestRebuild`, `Start`, `runRebuildLoop`, `rebuild`, `setSynced`, `setRebuildStats` |
| Owner resolution | `internal/controller/owner_resolution.go`, `rebuild`, `NamespaceFilter` | `controllerOwnerIndex`, made anew by each rebuild | adding an object to the index, choosing the workload nodes |
| Graph cache | `internal/graph/cache.go`, `types.go` | nodes, edges, resource versions of the last snapshot | `NewCache`, `ApplySnapshot` |
| Discovery | `internal/discovery` | none: pure functions of an object | |
| HTTP API | `internal/server/server.go` | none: one `Snapshot` per request | |
| Metrics | `internal/metrics` | counters of the recorder; the rest is read at scrape time | `Collect`, `RecordRebuild...` |
| Agent lifecycle | `cmd/kbeacon-agent/main.go` | context, `errCh`, HTTP server | signal, failure of either goroutine, shutdown |
| Configuration | `internal/config` | one `Config` value | defaults, file, environment, flags |
| CLI | `cmd/kbeaconctl` | a configuration file; a snapshot file per export | `config set/unset/reset`, `snapshot export`, `snapshot diff` |

How they interact. An informer changes its store and later calls the handler;
the handler asks for a rebuild by a non-blocking send on `rebuildCh`. `Start`
waits for the stores one after another, marks each in `synced`, and makes the
first request. The loop takes a request, absorbs further ones for a fixed
window, and calls `rebuild`, which returns at once unless all stores are synced,
lists the stores one by one, runs owner resolution and discovery on what it
listed, calls `Cache.ApplySnapshot` (under the cache's lock) and then
`setRebuildStats` (under the controller's). API handlers and the graph
collector take a `Snapshot` under the cache's read lock; `/readyz` and the
runtime collector read `synced` and `lastGraphCounts` under the controller's
lock. `main` joins them by one context and one error channel.

Which behaviours are hard:

- *Coalescing.* Requests are dropped (channel full), absorbed (window open) or
  ignored (not synced). Losing the last one would leave the graph stale until
  the next event, hours later.
- *Reading while others write.* `rebuild` lists the stores in sequence while
  informers change them. The graph can combine states that never coexisted, and
  decisions taken from such a mixture (is this Pod's owner in the graph?) must
  still not hide anything.
- *Errors.* A lister that fails ends the rebuild without a retry; what may ask
  for another one is the periodic resync, which is silent on empty stores.
- *Start and stop.* Readiness is decided by one goroutine while others run;
  cancellation races the loop's `select`.
- *History in a graph that is replaced.* Change counts, change times and edge
  ages are carried from one graph to the next by lookup in the previous one, and
  must survive deletion and recreation of what they describe.
- *Clients reading in several requests* (pages, an export) while the graph is
  replaced.
- *Files written in place*: the settings and the exports of the CLI are cut to
  nothing and then written, without a lock; several commands may meet there, and
  each may be killed.
- *References from many places*: sections of a Pod spec, pull Secrets with a
  fallback, annotations in two formats and four modes, an ignore list, all merged
  in an order nobody fixes.
- *Settings from four sources*, normalised twice, and kinds gone through one by
  one in four functions that have to agree.

What makes each component correct:

- *Pipeline*: no change is lost; no graph from a partly loaded cache; the graph
  never goes back; every change is published in the end; counts describe the
  graph; cancellation ends it.
- *Owner resolution*: every listed object that can carry references is in the
  graph, itself or through exactly one workload that stands for it.
- *Graph cache*: a snapshot agrees with itself, is exact when the cluster rests,
  and what it remembers equals the history of snapshots.
- *Discovery*: one edge for each Secret that is referenced and not ignored, the
  same in whatever order the references are found; annotations do what they say.
- *API*: a list read page by page while nothing changes is complete and without
  repetition; two queries, the map and the metrics of one graph agree.
- *Export and diff*: a file has all that was asked for; a comparison says nothing
  of two graphs that is not so.
- *Lifecycle*: one exit status per cause, and shutdown ends.
- *Configuration*: the nearest source wins; what is watched is what passes the
  filter; no agent runs with settings that make no sense.
- *CLI configuration*: commands that do not meet add up, and whatever they do, a
  setting is one that somebody made.

`PROJECT.json` lists every hazard at its line, with the properties that cover it.

## 2. Plan

| # | Modules | Status |
|---|---|---|
| 1 | `Controller`, with the abstract specification `GraphPublication` | done, proved |
| 2 | `OwnerResolution` | done, proved |
| 3 | `GraphCache` (`ApplySnapshot`, history, restart) | done, proved |
| 4 | `AgentLifecycle`: `main.go` around `Controller` | done, proved |
| 5 | `GraphReads`: paging against a graph that is replaced | done, proved |
| 6 | `Discovery`: references, annotations, ignore list, merge, owner, pull Secrets | done, proved |
| 7 | `CLIConfig`: commands that load, change and save one file, with crashes | done, proved |
| 8 | `SnapshotDiff` and `SnapshotExport`: the CLI's export, its file, and the comparison of two | done, proved |
| 9 | `AgentConfig`: from the four sources of settings to the controller's options | done, proved |
| 10 | `GraphQueries`: the queries, the map and the metrics of one graph | done, proved in `GraphCacheProofs` |
| 11 | composition of `Controller` and `GraphCache`: the content of what is published | left |
| 12 | runtime metrics: a scrape at three moments | left |

"Proved" means that every invariant and every safety action property of the
module's runs is a theorem; liveness is model-checked (section 5).

## 3. Modules and the code

### Controller (and GraphPublication)

The content of an informer store is a version: the number of changes applied to
it. `occupied` is the set of the kinds whose store holds an object.
`graph` is the version of each store the published graph was computed from,
`counts` that of `lastGraphCounts`. Program counters stand for the goroutines of
`Start` (`startPc`, `syncIdx`) and `runRebuildLoop` (`loop`, `timerFired`,
`listIdx`, `listed`).

| Actions | Code |
|---|---|
| `LoadInitial`, `InitialListDone`, `WatchEvent` | client-go informers: the store changes first, the handler is called later (`pending`); an event may take the last object out of a store |
| `Resync`, `ResyncNothing` | the resync timer replays the objects of a store; a store without objects has none to replay, and no handler is called |
| `HandleEvent` | `registerResourceHandler` → `requestRebuild` |
| `CacheSynced`, `CacheSyncFailed`, `RequestInitialSync`, `StartReturns` | `Start` and `enabledSyncs` |
| `OpenWindow`, `DrainRequest`, `TimerFires`, `CloseWindow`, `LoopExits` | `runRebuildLoop`, one action per branch of its `select`s |
| `EnterRebuild`, `ListStore`, `ListFails`, `PublishGraph`, `SetRebuildStats` | `rebuild`: each lister call and each lock section is a step of its own |
| `Cancel` | `main` cancelling the context |

`GraphPublication` is what the pipeline promises: a view of several stores that
is published when ready, never goes back, never runs ahead, and eventually
covers every change. `Controller!ImplementsPublication` is the refinement; the
mapping is `ready <- Ready`, `stopped <- ctxDone`, the other variables by name.

The metrics recorder and log lines of `rebuild` are left out. A `select` with
several ready branches is a choice between actions.

### OwnerResolution

An object is its kind, namespace, name and controller reference. `Put` and `Delete` change the stores at
any moment; `BeginRebuild`, `ListKind` (one kind after another, in the order of
`rebuild`) and `ApplyWorkloads` are the rebuild. `index` is
`controllerOwnerIndex` and `workloads` the inputs collected so far. The helpers
carry the names of the Go functions. Ingresses and custom resources take no part
in owner resolution and are left out here.

### GraphCache

One clock gives resource versions, creation times and observation times.
`WriteSecret`, `DeleteSecret`, `WriteWorkload` and `DeleteWorkload` are the
cluster; `ListSecrets` and `ApplySnapshot` the two moments of a rebuild that
matter here (Secrets are listed first, and workloads, with their edges, after);
`Restart` is a new process. `ApplySnapshot` is translated loop by loop
(`ListedSecret`, `AbsentSecret`, `NewEdge`, `Aggregated`). `published` and
`fresh` are history variables: no action reads them.

Abstractions: criticalities are ranks 0 to 4; the flags `optional`, the
discovery mode and the sources of an edge are left out, they are copied. Two
edges of one workload to one Secret have been merged by discovery before they
reach the cache, so the merging loop of `ApplySnapshot` never merges. A Secret
always has a resource version and a creation time, as every object read from an
API server has.
`TimeIsUp` is a stutter at the bound of the clock, so that deadlock can be
checked.

### GraphReads

An item is its key, and keys are ordered as `Snapshot` sorts them; its field is
what the query filters by. `Publish` is `ApplySnapshot` seen from outside: any
other graph takes the place of the present one. `ReadPage` is a list handler of
`server.go` answering a client that follows `nextOffset` and may change the
limit from page to page: validation and cap (`ValidLimit`, `Limit`), filter, and
`paginate` (`Start`, `End`, `Page`, `HasNext`, `NextOffset`). A page is the set
of the items whose rank lies between two offsets. `seen`, `repeated`, `first`,
`gained` and `lost` are history variables.

### GraphQueries

It extends `GraphCache` with what readers are told of one graph, as operators:
`Impact` is `GetSecretImpact`, `Dependencies` is `GetWorkloadDependencies` (with
its lookup of a workload by name, with or without the kind), `MapPage` is
`Server.dependencyMap` with `nodesForEdges`, and `Collect` is
`GraphCollector.Collect`. Some of the numbers in an answer were computed when the
graph was applied, others are when it is asked for; the properties say that they
agree. A page of the map is any set of the edges, which includes every page that
the filters, the limit and the offset can make.

### Discovery

One object goes through `workloadFromPodSpec` and its siblings: `Discover` takes
an object, `Collect` computes the references and the owner, `Merge` takes one
reference at a time, in any order, as `filterAndMergeEdges` does, `Return` and
`AppendWorkload` end the object. The object is a record of what the code looks
at: annotations and labels of the object and of its template, the sections of a
Pod spec with their references, the pull Secrets of the spec and of the service
account, and the targets of a custom resource. `Effective`, `ModeFor`, `OwnerTeam`,
`PullEdges`, `TokenEdges`, `Watched` and `Ignored` are the functions of
`extractor.go` and `annotations.go`. Text that is not a Secret reference is a
token with a blank name or with parts that are absent. A reference keeps the
place it was found at, which stands for its source path; key names and their
redaction are left out. An owner annotation (`RawTeam`) may have spaces around
it: `metadataValue` trims it (`Trim`), and the two connectors take it as it is
(`ConnectorOwner`) and look at no labels.

### CLIConfig

`file` is the settings file: absent, empty, torn, or a function from keys to
values. A command is a process with a program counter: `Start`, `LoadAndChange`,
`Open` (`os.WriteFile` cuts the file to nothing), `Write`, and `Remove` for a
reset; each of these may fail, and `Crash` may come anywhere. `LoadAndUse` is any
command of the API, which takes flags, environment, file and defaults in that
order. `unlinked` is the set of the commands that have a file open whose name a
reset took away. A write that overlaps another one leaves a torn file if the two
lengths differ, or either of the two; the model takes any of these. `settings`,
`disturbed`, `cut`, `last`, `given`, `bystanders` and `seen` are history
variables: what a store without files would hold, and who met whom.

### SnapshotDiff and SnapshotExport

`SnapshotDiff` has the pure part: `ItemKey` is `snapshotItemID`, `Index` is
`indexSnapshotItems` (with the names it makes for items without an id or with
one that is taken), and `Added`, `Removed` and `Changed` are
`diffSnapshotResource`. `SnapshotExport` runs an export: `Begin`, one `Receive` for each
request, `OpenOutput` and `WriteOutput`, with `RequestFails` and `Abort`, while
`Publish` replaces the graph and `Edit` is somebody who writes a snapshot file by
hand. An answer is the first page of the list in the snapshot's order; an edge
carries the time of its graph, as `lastObservedAt` does. `from` and `since` in a
file, which the program does not store, say which graph each answer came from.
`ExitStatus` is `runSnapshotDiff`: a request (`DiffRequests`) has arguments, a
list of resources and a format that are in order or not, an output that can be
written or not, and `--fail-on-change`; each refusal has its status, in the order
of the code.

### AgentConfig

`cfg` goes through `Load` (`LoadNoFile`, `LoadFails`, `LoadFile`), `ApplyEnv`,
`ApplyFlags`, and `main`'s checks (`ParseDurations`, `StartFails`);
`NewController` is `controller.New`. A setting that is a text is one of a few
values: good, zero, one that does not parse, and blank; lists of label keys and
the port are settings like the others, for which blank is the empty list and 0.
Lists of namespaces keep blank entries and spaces, because a file's list is not
trimmed and that of a variable or flag is. The fifteen kinds are a set, and the
functions that go through them one by one are one set each (`Enabled`,
`Informers`, `Handled`, `Awaited`, `AskedByStatus`). The syntax of YAML, durations and
truth values is left out; a truth value that does not parse is `Blank`.

### AgentLifecycle

It extends `Controller` with the end of `main`: the goroutine of the HTTP server
(`server`, `errCh`, `requests`), the two branches of the `select`
(`SelectContext`, `SelectError`), `srv.Shutdown` (`CloseListener`, then
`ShutdownReturns` or `ShutdownTimesOut`) and signals (`Signal`; `SignalKills`
once `stop()` has run). `ControllerStep` is a step of the controller's
goroutines, which run until the process exits: `main` does not wait for them.
The context of `main` is `ctxDone` of `Controller`. `Start` returns an error
only if the context is done, and its goroutine then drops it, so that `errCh`
holds the server's error only.

## 4. Runs

| Run | Shows |
|---|---|
| `controller_safety` | three kinds, two of whose first lists are empty, in different orders of waiting and listing: no lost change, no partial graph, no older graph, counts that match |
| `controller_live` | under fairness: refinement of `GraphPublication` with its liveness, a first graph without any event, shutdown ends |
| `controller_absent` | finding: a watched kind the API server does not have |
| `controller_recover` | a lister that may fail: the periodic resync alone repairs the graph, as long as some store holds an object |
| `owner_roots` | nothing hidden, nothing twice, with objects that come and go between lists |
| `graph_cache` | change counts, change times and edge ages against the sequence of all snapshots; consistency and exactness of each; the queries, the map and the metrics of each agree |
| `reads_pages` | a traversal misses nothing while items are only added, repeats nothing while they are only removed, and ends whatever is published |
| `agent_stop` | the process exits after a signal or a failure, even if a request or the controller never ends, and its status has a cause |
| `discovery` | objects of every kind with references in every place, in every mode and order: one edge per Secret, explicit lists that are shown, ignore lists that hide what they name, pull Secrets of one origin, and an owner that was declared |
| `cli_config` | commands on one file, two at a time, that overlap, fail and are killed: undisturbed ones add up, the last one is in effect, values were given by somebody, and a torn file needs a reset |
| `snapshot_diff` | exports while graphs are published, and their comparison: files are complete, calm exports are consistent, a comparison is true of the two graphs and loses no item, and its exit status can be relied on |
| `agent_config` | what a file, the environment and flags say together: the nearest source wins, the watch fits the filter, the kinds agree, no senseless interval |

A run checks few properties, each of which says something of its own; where
several parts make one statement they are conjoined under one name, and the parts
keep theirs: `NamespacesAsWritten` is `FilterIsAsWritten` and `WatchFitsFilter`,
`AgentIsSound` is `KindsAgree` and `IntervalsMakeSense`, `FilesAreWhole` contains
`ExportsAreComplete`, `ReadsAreExplained` is `ValuesWereGiven` and
`ClientFollowsSettings`, and `GraphIsConsistent` is `ImpactMatchesSummary`,
`QueriesMirror` and `MapIsClosed`. The type invariants of `AgentConfig`,
`CLIConfig`, `SnapshotExport` and `GraphCache` are parts of these too; every
type invariant is also part of a theorem. The conjuncts of the inductive
invariants of section 5 are proved and not checked in a run.

*Bounds.* `MaxVersion` bounds the changes of one store; two are enough for a
change before, during and after a listing, and a version is only compared with
another. `MaxPending` 2 leaves a second notification waiting while the first is
handled, which is all that a channel of one request can tell apart.
`controller_live` uses two kinds: every interaction between kinds is between
the one listed and one listed earlier or later. The
objects of `OwnerResolution` make each kind of chain of up to three, its orphaned
variant, an owner with a namesake in another namespace and an owner that is not
watched. One Pod takes all these places in turn, since Pods do not depend on one
another.
`MaxTime` 6 in `graph_cache` allows a Secret to be published, changed, published,
deleted and published again, or recreated in between: six ticks from a cluster
that may already hold any of its objects. Its two workloads have the same
namespace and name and different kinds, its two Secrets are one the agent lists
and one it does not, and a workload has one of two teams or none.
`reads_pages` has four items and the limits -1 and 0 (refused), 1, the default 2
and 4 (capped to 3): a traversal of up to four pages, ends inside a page and at
its edge, and any graph over the four items published in between.
`agent_stop` has two requests, one of which can end while the other does not,
and a controller of one kind: `main` does not look at what the controller lists.
`discovery` has two Secrets and namespaces, and families of objects that each
vary one part of what the code looks at, with all modes and options that part
depends on; three references are enough for a merge of equal and different ones
in every order.
`cli_config` has two processes, four commands, two settings with two values, and
raw keys that are an alias, blank or unknown; four commands are enough for two that
overlap and one before and after them. The processes are symmetric.
`snapshot_diff` has pages of two items and lists of up to three, two values, three
publications and two files; items of a file made by hand may lack an id or share
one. `agent_config` gives texts, lists, kinds and truth values in all
combinations of the three sources, one family at a time, because the code does not
mix them.
Deadlock is not checked in `agent_stop`, `cli_config`, `snapshot_diff` and
`agent_config`: the process exits, or the commands, writes and publications that
the bounds allow are spent.

*Fairness.* A goroutine that can run does run, timers fire, and the API server
answers the first list of every kind: weak fairness. `select` chooses among its
ready branches at random, so the context's branch is taken if it is ready again
and again: strong fairness of `LoopExits`. Nothing is assumed of watch events,
resyncs or cancellation, except in `controller_recover`, where a lister fails
only finitely often in a row (strong fairness of `ListStore`) and the informers'
resync timer keeps firing (weak fairness of `Resync`, for every store that holds
an object). Without the resync the property fails: nothing in `rebuild` retries.
When no store holds an object any more the resync notifies nobody, and
`FailedRebuildIsMadeUpFor` claims nothing: a graph whose rebuild failed then shows
what was deleted until the next event. In `reads_pages` the client goes on
reading (weak fairness of `ReadSomePage`): the traversal is its own. In
`agent_stop` the goroutine of `main` runs and the grace period elapses (weak
fairness of `MainStep`); no request and no goroutine of the controller is
assumed to make progress.

## 5. Proofs

TLAPS proves the following for every value of the constants that satisfies the
named assumptions of the modules. Together these are all invariants and all
safety action properties that the passing runs check. The assumptions are of
two kinds: types, and facts about the environment that the code relies on. Of
the second kind are that sets of Secrets, workloads and names are finite; that
trimming leaves a namespace and the blank entry alone (`AgentConfigAssumption`);
that a file, the environment and flags say what their syntax allows
(`SourcesAssumption`); that an id which is absent is no id (`NoIdAssumption`);
and that in a graph an edge points to an item that is there
(`SnapshotExportAssumption`, which `EdgesAndNodesAgree` shows of `GraphCache`).

Where a definition counts, sums or goes through a list, its proof needs an
induction over data, which the provers cannot be asked for directly. It is done
by hand, from a least counterexample (`WFMin`): `SplitSteps`, `IndexSteps` and
`SumOfParts` show that a recursive function has the value its equation says, and
`NoneFails` that a set of failing numbers without 0 and without first member is
empty.

*ControllerProofs.* `TypeCorrect`, then two layers of invariants. `SyncInv`: the
kinds before `syncIdx` are marked and have synced, the others are not; the first
list of a synced kind is in its store. `ListInv`:
what was listed of the kinds before `listIdx` covers their first lists and is
between the graph and the store. It gives `NoPartialGraphEver`,
`GraphMonotone`, `CountsFollowGraph` and `ImplementsSafePublication`, the
refinement of the safety part of `GraphPublication`. `CoverInv`: once `Start`
has made its request, the present version of each store is in the graph, or a
notification of it is pending, or a request is buffered, or the window is open,
or a running rebuild has yet to list it or has listed it as it is. It is the
invariant behind `NoLostUpdate`, which assumes `ListMayFail = {}`: with a failing
lister the property is false.

*OwnerResolutionProofs.* `Inv` says of each kind already listed what was decided
of its objects (`TopsAreWorkloads`, `JobsDecided`, `PodsDecided`): the decision
taken for a Job or a Pod is still right when the remaining kinds have been
listed, because everything it looked at had been listed. It gives `TypeCorrect`,
`NoneHidden`, and, under `StandardControllers`, `RootsOnly`. That assumption is
needed: a CronJob with a controller of its own, for instance, would be shown
together with it.

*GraphCacheProofs.* `EdgesAndNodesAgree`, `SettledIsExact` (from
`ListIsCurrent`), `ChangeTimeMonotone` (from `TimesArePast`: every remembered
time is in the past), `EdgeAges` (from `HistoryEndsWithGraph` and
`AgesFromHistory`). `ChangesCounted` compares what a node remembers with the
sequence of all snapshots (`ChangesFromHistory`): a snapshot adds one member to
the differences of its Secret's stay or none. It needs `VersionsIdentify`: equal
resource versions mean the same object, also between the cluster, the list that
was taken and the last snapshot, so that a Secret which was deleted and made again
has another version. `TypeCorrect` and `NodesAreDerived` (each node is the
summary of the edges at it) give `ReadersAgree`: the impact of a Secret, the
dependencies of a workload, the lists and the map are all read off the same
edges. They give `ScrapesAddUp` too: a sum over the nodes counts every edge once
(`SumOfParts`).

*GraphReadsProofs.* `TypeCorrect`, `GrowingComplete` and `ShrinkingUnrepeated`, for any number
of items and any limits. The inductive invariant counts: while nothing was lost,
every item of the first list is seen or has at least `offset` items before it;
while nothing was gained, every seen item has fewer than `offset` before it. A
publication that only adds items can only raise a rank, one that only removes
can only lower it.

*DiscoveryProofs.* `MergeInv`: after any part of the references, `merged` has an
entry for exactly those Secrets that were met and are not ignored, and it is the
`Summary` of the references met so far. Each step adds one reference to the
summary, whichever it is, which is why the order does not matter
(`EdgesSummarise`). `IgnoreListRead` follows from it at the end, with
`IgnoredAreNamed` (what is ignored is what the list names, or nothing), and
`PullSecretsFallBack` from it and `CollectedInv`, which says what was collected.
`TypeCorrect` is by cases on the kind of object. `ExplicitListsRead` needs to
know where an edge may come from: `ExplicitPlaces`, `InferredPlaces` and
`PullPlaces` say which places each kind of reference has, and they are distinct,
so that an edge at an annotation's place stands for one of its tokens.
`OwnersDeclared` is from `OwnerInv`: the owner is computed once, from the object
that the workload is made of. `OwnerSays` says what comes out, `AnnotationSays`
and `LabelsDeclared` compare the metadata in effect with those of the object and
its template, and `OwnerOfObject` puts them together.

*CLIConfigProofs.* `TypeCorrect`, and an invariant for each of the others.
`UndisturbedInv`: while nothing was disturbed, either no command is between
truncating and writing, and the file and every command that has read it agree
with the settings; or one is, and what it is about to write does. `GivenInv`: what
a file and what a command holds was given, step by step from the command line.
`LastInv`: a file that parses holds the last command that wrote it, there is no
file only after a reset, and it is empty only while somebody is about to write.
`TornInv`: while the file is torn, the commands that are going to write are those
that had read it before. They give `UndisturbedExact`, `ReadsExplained`,
`LastInEffect` and `TornIsReset`.

*SnapshotExportProofs.* `NothingLost` is about the index alone: the key an item is
given is free (`FreeKeyIsFree`: among one number more than there are keys, one is
free), so the index has as many keys as the list has items (`IndexKeys`),
whatever the ids are. For the others, `SortedOnce` shows that sorting has each
name once, `PageShows` what a page shows of a list, and `IndexOfPage` that the
index of a page is by name. `ExportInv`: each answer of a running export and of
an exported file is the one that some graph gave, at a time between the export's
beginning and now; a file that is written has all of them. `StampsIdentify`: of
the graphs that are known anywhere no two have one time. The first gives
`WholeFiles` and `DiffTrue`, both together `QuietConsistent`. `StatusTells` has two
halves: a status 0 under `--fail-on-change` leaves no resource of the request with
a difference, and then two lists that were not cut off are the same
(`DiffOfExports`); and two undisturbed exports of one graph hold the same page of
each list (`CalmUnchanged`), in which a comparison finds no change
(`NoChangeSame`).

*AgentConfigProofs.* `StageInv`: at each stage the configuration is what the
sources so far make of the defaults. `NearestWins` and `SoundAgent` are read off the
last stage; `NamespacesWritten` also needs that `SplitCSV` leaves exactly the
entries that are not blank, without their spaces (`SplitExact`).

*ControllerProofs, the process.* The module also has the theorems of
`AgentLifecycle`. `ImplementsController`: a step of the process is a step
of `Controller` or leaves it alone, so that every theorem about the controller
holds of the process. `ExitStatus` from `StatusInv`: `main` leaves its `select`
with an error, and then the server has failed and the status is 1, or with the
context done, and while `main` selects only a signal cancels the context.

Only model-checked: liveness (`ImplementsPublication` beyond safety,
`FirstGraphIsPublished`, `ShutdownCompletes`, `TraversalEnds`, `AgentExits`),
which is out of the prover's reach, and the finding, which is a violation.

## 6. Disagreements between the code and its documentation

`controller_absent` ends in a violation, and `PROJECT.json` quotes both sides: an
enabled custom resource whose CRD is not installed is documented as left aside;
it keeps the agent not ready, and without a graph, for ever.

Met while modelling, and plain enough to be read off the code without a run.
Where a document promises another behaviour than the code has, the properties
named below are weaker than the code and say nothing of the case. One is not:
`OneEdgePerSecret` is about merging, and takes the set of ignored Secrets
(`Ignored`) as the code computes it.

- *Namespaces.* `exclude: []` is documented to exclude nothing, and a non-empty
  `include` to be an allow-list (`docs/user-guide/configuration.md:82`,
  `docs/user-guide/discovery-modes.md:168`, `charts/kbeacon/values.yaml:136`). An empty
  list of excluded namespaces is replaced by the namespaces of the system
  (`config.go:254`), so that an included one of these is not watched.
  `FilterIsAsWritten` says nothing of what passes when no namespace is excluded.
- *Readiness at shutdown.* The design marks readiness false on SIGTERM, before
  the server stops accepting requests (`docs/technical-design.md:4295`); nothing
  withdraws it. No property is about readiness after a cancellation.
- *Resync.* The design has a long resync provide eventual correction
  (`docs/technical-design.md:3943`). It notifies nobody of stores without objects
  (see *Fairness* in section 4), which `FailedRebuildIsMadeUpFor` leaves out.
- *Change counts.* `kbeacon_secret_changes_total` is documented to count during
  the agent's lifecycle (`docs/reference/metrics.md:158`); it returns to zero when
  a Secret is deleted while it is referenced (`cache.go:166`).
  `ChangesAreDifferences` gives the exact count for a Secret that never left, and
  for another one only that no change since it was last absent is missing.
- *Secret counts.* `kbeacon_cluster_secret_count` is documented to count observed
  or referenced Secrets (`docs/reference/metrics.md:52` and `:276`) and leaves out
  those that do not exist (`collector.go:165`). `MetricsAddUp` does not mention it.
- *Malformed tokens.* The design skips and counts an invalid token of
  `watch-secrets` (`docs/technical-design.md:847`). The code drops the whole list,
  of `watch-secrets` and of `ignore-secrets` (`annotations.go:22`), skips the token in
  `watch-secrets-json` (`extractor.go:554`), and counts none.
  `ExplicitListsAreShown` and `IgnoreHidesWhatItNames` leave open what becomes of the
  other tokens of a list that has a malformed one; of the malformed one they say
  that it shows nothing and hides nothing it does not name.
- *What ignore-secrets hides.* The design has it hide inferred references only,
  and has `force=true` keep one (`docs/technical-design.md:865`, `:1085`, `:1097`); the
  reference has it hide inferred and explicit ones (`docs/reference/annotations.md:17`),
  as the code does. `IgnoreHidesWhatItNames` is about Secrets that are only inferred.
- *The JSON form.* The design has objects with a name, a namespace and `force`
  (`docs/technical-design.md:1058`); the code takes strings (`extractor.go:555`).
- *Owner labels.* All labels of an object are documented to come before those of
  its template (`docs/reference/annotations.md:200`,
  `docs/user-guide/discovery-modes.md:191`, `docs/user-guide/configuration.md:124`). The
  code merges both and goes by the order of the label keys, so a template's label
  of an earlier key wins over the object's label of a later one. `OwnerIsDeclared`
  leaves that case open. Connectors have no labels to fall back to, and take the
  annotation with its spaces (`kafkaconnector.go:57`, `confluentconnector.go:58`).
- *Unknown modes.* A mode annotation the code does not know is documented to fall
  back; on an object it also hides a valid one of the template
  (`extractor.go:667`).
- *Ephemeral containers.* Their references are documented as discovered by
  default (`docs/technical-design.md:812`, `charts/kbeacon/values.yaml:89`), but only a
  Pod without a listed owner is a node, and only Pods have them
  (`controller.go:738`).
- *The last observed change* is documented to start from runtime observations and
  starts from the creation timestamp (`cache.go:71`).
- *Paging.* Continuation tokens are documented, and lists are paged by offset
  (`server.go:424`), which is why the properties of `GraphReads` need that nothing
  is lost, or that nothing is gained, meanwhile.

Two behaviours that no document describes and a user may not expect:

- Every edge carries the time of the last rebuild, so a comparison of two exports
  with a rebuild in between reports every edge as changed (`cache.go:136`), and a list
  that one of the files does not have is compared as empty. `DiffIsTrueOfGraphs` says
  what may be believed. A status 2 of `snapshot diff --fail-on-change` may also be a
  refusal of the request (`snapshot_diff.go:52`).
- The settings of the CLI are changed without a lock and written in place: of two
  commands that overlap, one may undo the other and both report success.
  `UndisturbedIsExact` and `LastCommandIsInEffect` say what holds nevertheless.

## 7. Not modelled

Pure I/O and formatting have no state to model: reading a kubeconfig
(`internal/kube`), building URLs and transports (`agent_client.go`), rendering,
charts, dashboards, scripts and examples. Logging and the recorder's counters are left
out of the modelled functions, as is the runtime collector, which copies the
controller's counts and the graph at two moments (`CountsDescribeGraph` is the
writer's side of it). Everything else that is missing is in the plan.
