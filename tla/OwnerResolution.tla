--------------------------- MODULE OwnerResolution ---------------------------
(***************************************************************************)
(* Which objects a rebuild turns into workload nodes:                      *)
(* internal/controller/owner_resolution.go and the loops of rebuild in     *)
(* controller.go.                                                          *)
(*                                                                         *)
(* A Pod stands behind the workload that controls it, and a Job behind its *)
(* CronJob, when that workload is in the graph; otherwise it is a node of  *)
(* its own.  rebuild decides this while it lists the informer stores kind  *)
(* by kind, and the stores change between two lists, so the index it       *)
(* decides on may never have been the state of the cluster.                *)
(*                                                                         *)
(* An object is its kind, namespace and name, and the kind and name in its *)
(* controller owner reference.                                             *)
(***************************************************************************)
EXTENDS Naturals, Sequences

CONSTANTS
  Object,     \* the objects that may be in the informer stores
  Enabled,    \* kinds with an informer
  IncludeNs,  \* NamespaceFilter.include
  ExcludeNs   \* NamespaceFilter.exclude

\* The kinds in the order rebuild lists them.  Ingresses and custom resources
\* are listed too, but take no part in owner resolution.
ListOrder == <<"Deployment", "ReplicaSet", "StatefulSet", "DaemonSet",
               "CronJob", "Job", "Pod">>

Kind == {"Deployment", "ReplicaSet", "StatefulSet", "DaemonSet", "CronJob",
         "Job", "Pod"}

\* controllerOwnerReference found no owner with a kind and a name.
NoOwner == [kind |-> "", name |-> ""]

ASSUME OwnerAssumption ==
  \A o \in Object : o.kind \in Kind

\* Controllers as Kubernetes sets them: nothing listed controls a top-level
\* workload, ReplicaSets belong to Deployments and Jobs to CronJobs.
StandardControllers ==
  \A o \in Object :
    \/ o.owner.kind \notin Kind
    \/ o.kind = "ReplicaSet" /\ o.owner.kind = "Deployment"
    \/ o.kind = "Job" /\ o.owner.kind = "CronJob"
    \/ o.kind = "Pod" /\ o.owner.kind # "Pod"

VARIABLES
  store,      \* objects in the informer stores
  next,       \* the entry of ListOrder to list next, 0 between rebuilds
  index,      \* controllerOwnerIndex: what was listed of each kind
  workloads   \* workload inputs collected so far

vars == <<store, next, index, workloads>>

-----------------------------------------------------------------------------

SameKey(o, p) == o.kind = p.kind /\ o.ns = p.ns /\ o.name = p.name

\* NamespaceFilter.Include.
Include(ns) ==
  /\ ns # ""
  /\ IncludeNs # {} => ns \in IncludeNs
  /\ ns \notin ExcludeNs

\* Bug: owners are looked up by kind and name alone.
HasInAnyNamespace(kind, ns, name) == \E w \in index[kind] : w.name = name

\* hasDeployment, hasStatefulSet, hasDaemonSet, hasCronJob: the index holds an
\* object of this kind, namespace and name.
Has(kind, ns, name) == \E w \in index[kind] : w.ns = ns /\ w.name = name

\* shouldIncludeJobWorkload.
ShouldIncludeJob(job) ==
  ~(job.owner.kind = "CronJob" /\ Has("CronJob", job.ns, job.owner.name))

\* hasJobWorkload: the Job became a workload itself.
HasJobWorkload(ns, name) ==
  \E w \in workloads : w.kind = "Job" /\ w.ns = ns /\ w.name = name

\* The ReplicaSet case of podControllerResolvedToWorkload.
ReplicaSetResolved(pod) ==
  \E rs \in index["ReplicaSet"] :
    /\ rs.ns = pod.ns
    /\ rs.name = pod.owner.name
    /\ rs.owner.kind = "Deployment"
    /\ Has("Deployment", rs.ns, rs.owner.name)

\* The Job case of podControllerResolvedToWorkload.
JobResolved(pod) ==
  \/ HasJobWorkload(pod.ns, pod.owner.name)
  \/ \E job \in index["Job"] :
       /\ job.ns = pod.ns
       /\ job.name = pod.owner.name
       /\ job.owner.kind = "CronJob"
       /\ Has("CronJob", job.ns, job.owner.name)

\* Bug: the owner of the ReplicaSet is not looked up.
PodResolvedDirectly(pod) ==
  \/ /\ pod.owner.kind \in {"Deployment", "StatefulSet", "DaemonSet", "CronJob"}
     /\ Has(pod.owner.kind, pod.ns, pod.owner.name)
  \/ pod.owner.kind = "Job" /\ JobResolved(pod)

\* podControllerResolvedToWorkload.
PodResolved(pod) ==
  \/ /\ pod.owner.kind \in {"Deployment", "StatefulSet", "DaemonSet", "CronJob"}
     /\ Has(pod.owner.kind, pod.ns, pod.owner.name)
  \/ pod.owner.kind = "ReplicaSet" /\ ReplicaSetResolved(pod)
  \/ pod.owner.kind = "Job" /\ JobResolved(pod)

\* Whether rebuild makes a workload of a listed object.
BecomesWorkload(o) ==
  CASE o.kind = "ReplicaSet" -> FALSE
    [] o.kind = "Job" -> ShouldIncludeJob(o)
    [] o.kind = "Pod" -> ~PodResolved(o)
    [] OTHER -> TRUE

EmptyIndex == [k \in Kind |-> {}]

TypeOK ==
  /\ store \subseteq Object
  /\ next \in 0..(Len(ListOrder) + 1)
  /\ index \in [Kind -> SUBSET Object]
  /\ workloads \subseteq Object

Init ==
  /\ store = {}
  /\ next = 0
  /\ index = EmptyIndex
  /\ workloads = {}

-----------------------------------------------------------------------------

\* An informer adds or replaces an object.
Put(o) ==
  /\ o \notin store
  /\ store' = {p \in store : ~SameKey(o, p)} \cup {o}
  /\ UNCHANGED <<next, index, workloads>>

\* An informer deletes an object.
Delete(o) ==
  /\ o \in store
  /\ store' = store \ {o}
  /\ UNCHANGED <<next, index, workloads>>

\* rebuild starts with an empty index and no workloads.
BeginRebuild ==
  /\ next = 0
  /\ next' = 1
  /\ index' = EmptyIndex
  /\ workloads' = {}
  /\ UNCHANGED store

\* One kind is listed: its objects enter the index and become workloads.
ListKind ==
  /\ next \in 1..Len(ListOrder)
  /\ LET kind   == ListOrder[next]
         listed == {o \in store : kind \in Enabled /\ o.kind = kind /\ Include(o.ns)}
     IN  /\ index' = [index EXCEPT ![kind] = listed]
         /\ workloads' = workloads \cup {o \in listed : BecomesWorkload(o)}
  /\ next' = next + 1
  /\ UNCHANGED store

\* The workloads are handed to ApplySnapshot.
ApplyWorkloads ==
  /\ next > Len(ListOrder)
  /\ next' = 0
  /\ UNCHANGED <<store, index, workloads>>

Next ==
  \/ \E o \in Object : Put(o) \/ Delete(o)
  \/ BeginRebuild
  \/ ListKind
  \/ ApplyWorkloads

Spec == Init /\ [][Next]_vars

-----------------------------------------------------------------------------
(* Properties, about the workloads a rebuild hands over.                   *)

Complete == next = Len(ListOrder) + 1

Listed == UNION {index[k] : k \in Kind}

\* The controller reference of o names w.
Controls(w, o) == w.kind = o.owner.kind /\ w.ns = o.ns /\ w.name = o.owner.name

\* w stands for o: it controls o, or controls what controls o.
StandsFor(w, o) ==
  Controls(w, o) \/ \E m \in Listed : Controls(w, m) /\ Controls(m, o)

\* Nothing is hidden: a listed object that could carry Secret references is a
\* workload, or a workload of the same snapshot stands for it, whatever the
\* stores did between the lists.
NothingHidden ==
  Complete =>
    \A o \in Listed :
      \/ o.kind = "ReplicaSet"
      \/ o \in workloads
      \/ \E w \in workloads : StandsFor(w, o)

\* Kind by kind listing decides as if everything had been listed at once: the
\* workloads are exactly the listed objects no other listed object stands for,
\* so nothing is shown twice either.  A ReplicaSet is no workload and stands
\* for nothing by itself.  Owners have to be as in StandardControllers.
ExactlyTheRoots ==
  Complete =>
    workloads =
      {o \in Listed : o.kind # "ReplicaSet"
                      /\ ~\E w \in Listed : w.kind # "ReplicaSet" /\ StandsFor(w, o)}

=============================================================================
