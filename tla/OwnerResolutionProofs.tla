------------------------ MODULE OwnerResolutionProofs ------------------------
(***************************************************************************)
(* For any set of objects, any filter and any changes between the lists:   *)
(* no listed object is hidden behind an owner that is not in the graph,    *)
(* and, with the controllers Kubernetes sets, none is shown twice.         *)
(***************************************************************************)
EXTENDS OwnerResolution, TLAPS

TopKinds == {"Deployment", "StatefulSet", "DaemonSet", "CronJob"}

\* Each slot of the index holds objects of its own kind, and the slots of the
\* kinds still to be listed are empty.
IndexByKind ==
  /\ \A k \in Kind : \A o \in index[k] : o.kind = k
  /\ next # 0 => \A j \in next..Len(ListOrder) : index[ListOrder[j]] = {}

\* Top-level workloads are never left out.
TopsAreWorkloads == \A k \in TopKinds : index[k] \subseteq workloads

\* A listed Job is a workload exactly when it has no listed CronJob.
JobsDecided == \A o \in index["Job"] : o \in workloads <=> ShouldIncludeJob(o)

\* A listed Pod is a workload exactly when its controller is not resolved.
PodsDecided == \A o \in index["Pod"] : o \in workloads <=> ~PodResolved(o)

\* Every workload was listed, and is no ReplicaSet.
WorkloadsListed ==
  \A o \in workloads : o.kind # "ReplicaSet" /\ o.kind \in Kind /\ o \in index[o.kind]

Inv ==
  /\ TypeOK
  /\ IndexByKind
  /\ TopsAreWorkloads
  /\ JobsDecided
  /\ PodsDecided
  /\ WorkloadsListed

-----------------------------------------------------------------------------

\* The seven kinds and their places.
LEMMA Order ==
  /\ Len(ListOrder) = 7
  /\ ListOrder[1] = "Deployment"
  /\ ListOrder[2] = "ReplicaSet"
  /\ ListOrder[3] = "StatefulSet"
  /\ ListOrder[4] = "DaemonSet"
  /\ ListOrder[5] = "CronJob"
  /\ ListOrder[6] = "Job"
  /\ ListOrder[7] = "Pod"
  /\ \A i \in 1..7 : ListOrder[i] \in Kind
  /\ \A i \in 1..7 : ListOrder[i] = "CronJob" => i = 5
BY DEF ListOrder, Kind

\* What one list does to the index and the workloads: only the slot of the kind
\* changes, and it was empty before.
LEMMA ListedKind ==
  ASSUME Inv, ListKind
  PROVE  \E k \in Kind, new \in SUBSET Object :
           /\ k = ListOrder[next]
           /\ next \in 1..7
           /\ index[k] = {}
           /\ index' = [index EXCEPT ![k] = new]
           /\ workloads' = workloads \cup {o \in new : BecomesWorkload(o)}
           /\ \A o \in new : o.kind = k
           /\ next' = next + 1
<1> DEFINE k   == ListOrder[next]
           new == {o \in store : k \in Enabled /\ o.kind = k /\ Include(o.ns)}
<1>1. next \in 1..7 /\ k \in Kind
  BY Order DEF ListKind
<1>2. new \in SUBSET Object
  BY DEF Inv, TypeOK
<1>3. index[k] = {}
  BY <1>1, Order DEF Inv, IndexByKind
<1>4. /\ index' = [index EXCEPT ![k] = new]
      /\ workloads' = workloads \cup {o \in new : BecomesWorkload(o)}
      /\ next' = next + 1
  BY DEF ListKind
<1>5. \A o \in new : o.kind = k
  OBVIOUS
<1> QED
  BY <1>1, <1>2, <1>3, <1>4, <1>5

\* Listing one kind keeps the invariant.
LEMMA ListKindKeeps ==
  ASSUME Inv, ListKind
  PROVE  Inv'
<1>1. PICK k \in Kind, new \in SUBSET Object :
           /\ k = ListOrder[next]
           /\ next \in 1..7
           /\ index[k] = {}
           /\ index' = [index EXCEPT ![k] = new]
           /\ workloads' = workloads \cup {o \in new : BecomesWorkload(o)}
           /\ \A o \in new : o.kind = k
           /\ next' = next + 1
  BY ListedKind
<1>2. index \in [Kind -> SUBSET Object]
  BY DEF Inv, TypeOK
<1>3. index'[k] = new /\ \A m \in Kind \ {k} : index'[m] = index[m]
  BY <1>1, <1>2
<1>4. \A o \in workloads : o.kind # k
  BY <1>1 DEF Inv, WorkloadsListed
<1>5. TypeOK'
  BY <1>1, <1>2, Order DEF Inv, TypeOK, ListKind
<1>6. IndexByKind'
  <2>1. \A m \in Kind : \A o \in index'[m] : o.kind = m
    BY <1>1, <1>3 DEF Inv, IndexByKind
  <2>2. ASSUME NEW j \in (next + 1)..7
        PROVE  ListOrder[j] \in Kind /\ ListOrder[j] # k
    BY <1>1, Order
  <2>3. \A j \in (next + 1)..7 : index[ListOrder[j]] = {}
    BY <1>1, Order DEF Inv, IndexByKind
  <2> QED
    BY <1>1, <1>3, <2>1, <2>2, <2>3, Order DEF IndexByKind
<1>7. TopsAreWorkloads'
  <2>1. k \in TopKinds => new \subseteq workloads'
    BY <1>1 DEF BecomesWorkload, TopKinds
  <2> QED
    BY <1>1, <1>3, <2>1 DEF Inv, TopsAreWorkloads, TopKinds, Kind
<1>8. WorkloadsListed'
  <2>1. ASSUME NEW o \in new, BecomesWorkload(o)
        PROVE  o.kind # "ReplicaSet" /\ o.kind = k
    BY <1>1, <2>1 DEF BecomesWorkload
  <2>2. ASSUME NEW o \in workloads
        PROVE  o.kind # "ReplicaSet" /\ o.kind \in Kind /\ o \in index'[o.kind]
    BY <1>3, <1>4 DEF Inv, WorkloadsListed
  <2>3. ASSUME NEW o \in new, BecomesWorkload(o)
        PROVE  o.kind # "ReplicaSet" /\ o.kind \in Kind /\ o \in index'[o.kind]
    BY <1>3, <2>1, <2>3
  <2>4. \A o \in workloads' : o \in workloads \/ (o \in new /\ BecomesWorkload(o))
    BY <1>1
  <2> QED
    BY <2>2, <2>3, <2>4 DEF WorkloadsListed
<1>9. k = "Job" \/ index["Job"] = index'["Job"]
  BY <1>3 DEF Kind
<1>10. k = "Pod" \/ index'["Pod"] = {}
  BY <1>1, <1>3, Order DEF Inv, IndexByKind, Kind
<1>11. ASSUME k = "CronJob"
       PROVE  index'["Job"] = {}
  <2>1. next = 5
    BY <1>1, <1>11, Order
  <2>2. index[ListOrder[6]] = {}
    BY <2>1, Order DEF Inv, IndexByKind
  <2> QED
    BY <1>3, <1>11, <2>2, Order DEF Kind
<1>12. JobsDecided'
  <2>1. CASE k = "CronJob"
    BY <2>1, <1>11 DEF JobsDecided
  <2>2. CASE k # "CronJob"
    <3>1. \A o : ShouldIncludeJob(o)' <=> ShouldIncludeJob(o)
      BY <1>3, <2>2 DEF ShouldIncludeJob, Has, Kind
    <3>2. CASE k = "Job"
      <4>1. \A o \in new : BecomesWorkload(o) <=> ShouldIncludeJob(o)
        BY <1>1, <3>2 DEF BecomesWorkload
      <4>2. \A o \in new : o \in workloads' <=> ShouldIncludeJob(o)
        BY <1>1, <1>4, <4>1
      <4> QED
        BY <3>1, <3>2, <4>2, <1>3 DEF JobsDecided
    <3>3. CASE k # "Job"
      <4>1. \A o \in index["Job"] : o \in workloads' <=> o \in workloads
        BY <1>1, <3>3 DEF Inv, IndexByKind, Kind
      <4> QED
        BY <3>1, <3>3, <4>1, <1>9 DEF Inv, JobsDecided
    <3> QED
      BY <3>2, <3>3
  <2> QED
    BY <2>1, <2>2
<1>13. PodsDecided'
  <2>1. CASE k # "Pod"
    BY <2>1, <1>10 DEF PodsDecided
  <2>2. CASE k = "Pod"
    <3>1. \A m \in Kind \ {"Pod"} : index'[m] = index[m]
      BY <1>3, <2>2
    <3>2. \A o \in workloads' : o \in workloads \/ o.kind = "Pod"
      BY <1>1, <2>2
    <3>3. \A ns, name : HasJobWorkload(ns, name)' <=> HasJobWorkload(ns, name)
      BY <1>1, <3>2 DEF HasJobWorkload
    <3>4. \A kind \in Kind \ {"Pod"} : \A ns, name : Has(kind, ns, name)' <=> Has(kind, ns, name)
      BY <3>1 DEF Has
    <3>5. \A o : ReplicaSetResolved(o)' <=> ReplicaSetResolved(o)
      BY <3>1, <3>4 DEF ReplicaSetResolved, Kind
    <3>6. \A o : JobResolved(o)' <=> JobResolved(o)
      BY <3>1, <3>3, <3>4 DEF JobResolved, Kind
    <3>7. \A o : PodResolved(o)' <=> PodResolved(o)
      BY <3>4, <3>5, <3>6 DEF PodResolved, Kind
    <3>8. \A o \in new : BecomesWorkload(o) <=> ~PodResolved(o)
      BY <1>1, <2>2 DEF BecomesWorkload
    <3>9. \A o \in new : o \in workloads' <=> ~PodResolved(o)
      BY <1>1, <1>4, <3>8
    <3> QED
      BY <2>2, <1>3, <3>7, <3>9 DEF PodsDecided
  <2> QED
    BY <2>1, <2>2
<1> QED
  BY <1>5, <1>6, <1>7, <1>8, <1>12, <1>13 DEF Inv

\* The invariant holds in every reachable state.
LEMMA Invariant == Spec => []Inv
<1>1. Init => Inv
  BY Order DEF Init, Inv, TypeOK, IndexByKind, TopsAreWorkloads, JobsDecided,
         PodsDecided, WorkloadsListed, EmptyIndex, TopKinds, Kind
<1>2. Inv /\ [Next]_vars => Inv'
  <2> SUFFICES ASSUME Inv, [Next]_vars
               PROVE  Inv'
    OBVIOUS
  <2>1. ASSUME UNCHANGED <<next, index, workloads>>, store' \subseteq Object
        PROVE  Inv'
    <3>1. TypeOK' /\ IndexByKind'
      BY <2>1 DEF Inv, TypeOK, IndexByKind
    <3>2. TopsAreWorkloads' /\ WorkloadsListed'
      BY <2>1 DEF Inv, TopsAreWorkloads, WorkloadsListed
    <3>3. JobsDecided'
      BY <2>1 DEF Inv, JobsDecided, ShouldIncludeJob, Has
    <3>4. \A o : PodResolved(o)' <=> PodResolved(o)
      BY <2>1 DEF PodResolved, ReplicaSetResolved, JobResolved, HasJobWorkload, Has
    <3>5. PodsDecided'
      BY <2>1, <3>4 DEF Inv, PodsDecided
    <3> QED
      BY <3>1, <3>2, <3>3, <3>5 DEF Inv
  <2>2. ASSUME NEW o \in Object, Put(o)
        PROVE  Inv'
    BY <2>1, <2>2 DEF Put, Inv, TypeOK
  <2>3. ASSUME NEW o \in Object, Delete(o)
        PROVE  Inv'
    BY <2>1, <2>3 DEF Delete, Inv, TypeOK
  <2>4. CASE BeginRebuild
    BY <2>4, Order DEF BeginRebuild, Inv, TypeOK, IndexByKind, TopsAreWorkloads,
       JobsDecided, PodsDecided, WorkloadsListed, EmptyIndex, TopKinds, Kind
  <2>5. CASE ListKind
    BY <2>5, ListKindKeeps
  <2>6. CASE ApplyWorkloads
    BY <2>6 DEF ApplyWorkloads, Inv, TypeOK, IndexByKind, TopsAreWorkloads,
       JobsDecided, PodsDecided, WorkloadsListed, ShouldIncludeJob, Has,
       PodResolved, ReplicaSetResolved, JobResolved, HasJobWorkload
  <2>7. CASE UNCHANGED vars
    BY <2>1, <2>7 DEF vars, Inv, TypeOK
  <2> QED
    BY <2>2, <2>3, <2>4, <2>5, <2>6, <2>7 DEF Next
<1> QED
  BY <1>1, <1>2, PTL DEF Spec

-----------------------------------------------------------------------------

\* The stores, the index and the workloads stay sets of objects.
THEOREM TypeCorrect == Spec => []TypeOK
<1>1. Inv => TypeOK
  BY DEF Inv
<1> QED
  BY <1>1, Invariant, PTL

\* Whatever is listed and left out has a workload that stands for it.
LEMMA HiddenHaveARoot ==
  ASSUME Inv, NEW o \in Listed, o.kind # "ReplicaSet", o \notin workloads
  PROVE  \E w \in workloads : StandsFor(w, o)
<1>1. PICK k \in Kind : o \in index[k] /\ o.kind = k
  BY DEF Listed, Inv, IndexByKind
<1>2. k \notin TopKinds
  BY <1>1 DEF Inv, TopsAreWorkloads
<1>3. \A m \in Kind : index[m] \subseteq Listed
  BY DEF Listed
<1>4. ASSUME NEW kind \in TopKinds, NEW m, Has(kind, m.ns, m.owner.name),
             kind = m.owner.kind
      PROVE  \E w \in workloads : Controls(w, m)
  <2>1. PICK w \in index[kind] : w.ns = m.ns /\ w.name = m.owner.name
    BY <1>4 DEF Has
  <2>2. kind \in Kind
    BY DEF TopKinds, Kind
  <2>3. w.kind = kind /\ w \in workloads
    BY <2>1, <2>2 DEF Inv, IndexByKind, TopsAreWorkloads
  <2> QED
    BY <1>4, <2>1, <2>3 DEF Controls
<1>5. CASE k = "Job"
  <2>1. o.owner.kind = "CronJob" /\ Has("CronJob", o.ns, o.owner.name)
    BY <1>1, <1>5 DEF Inv, JobsDecided, ShouldIncludeJob
  <2>2. \E w \in workloads : Controls(w, o)
    BY <1>4, <2>1 DEF TopKinds
  <2> QED
    BY <2>2 DEF StandsFor
<1>6. CASE k = "Pod"
  <2>1. PodResolved(o)
    BY <1>1, <1>6 DEF Inv, PodsDecided
  <2>2. CASE o.owner.kind \in TopKinds /\ Has(o.owner.kind, o.ns, o.owner.name)
    BY <1>4, <2>2 DEF StandsFor
  <2>3. CASE o.owner.kind = "ReplicaSet" /\ ReplicaSetResolved(o)
    <3>1. PICK rs \in index["ReplicaSet"] :
            /\ rs.ns = o.ns
            /\ rs.name = o.owner.name
            /\ rs.owner.kind = "Deployment"
            /\ Has("Deployment", rs.ns, rs.owner.name)
      BY <2>3 DEF ReplicaSetResolved
    <3>2. rs \in Listed /\ Controls(rs, o)
      BY <1>3, <2>3, <3>1 DEF Inv, IndexByKind, Controls, Kind
    <3>3. \E w \in workloads : Controls(w, rs)
      BY <1>4, <3>1 DEF TopKinds
    <3> QED
      BY <3>2, <3>3 DEF StandsFor
  <2>4. CASE o.owner.kind = "Job" /\ HasJobWorkload(o.ns, o.owner.name)
    BY <2>4 DEF HasJobWorkload, Controls, StandsFor
  <2>5. CASE /\ o.owner.kind = "Job"
             /\ \E job \in index["Job"] :
                  /\ job.ns = o.ns
                  /\ job.name = o.owner.name
                  /\ job.owner.kind = "CronJob"
                  /\ Has("CronJob", job.ns, job.owner.name)
    <3>1. PICK job \in index["Job"] :
            /\ job.ns = o.ns
            /\ job.name = o.owner.name
            /\ job.owner.kind = "CronJob"
            /\ Has("CronJob", job.ns, job.owner.name)
      BY <2>5
    <3>2. job \in Listed /\ Controls(job, o)
      BY <1>3, <2>5, <3>1 DEF Inv, IndexByKind, Controls, Kind
    <3>3. \E w \in workloads : Controls(w, job)
      BY <1>4, <3>1 DEF TopKinds
    <3> QED
      BY <3>2, <3>3 DEF StandsFor
  <2> QED
    BY <2>1, <2>2, <2>3, <2>4, <2>5 DEF PodResolved, JobResolved, TopKinds
<1> QED
  BY <1>1, <1>2, <1>5, <1>6 DEF Kind, TopKinds

\* No listed object is hidden: what is left out has a workload that stands for
\* it in the same snapshot, whatever changed between the lists.
THEOREM NoneHidden == Spec => []NothingHidden
<1>1. Inv => NothingHidden
  BY HiddenHaveARoot DEF NothingHidden
<1> QED
  BY <1>1, Invariant, PTL

\* No workload is behind another listed object.
LEMMA WorkloadsAreRoots ==
  ASSUME StandardControllers, Inv,
         NEW o \in workloads,
         NEW w \in Listed, w.kind # "ReplicaSet", StandsFor(w, o)
  PROVE  FALSE
<1>1. \A m \in Listed : m.kind \in Kind /\ m \in index[m.kind] /\ m \in Object
  BY DEF Listed, Inv, IndexByKind, TypeOK
<1>2. o \in Listed /\ o \in Object /\ o.kind \in Kind /\ o \in index[o.kind]
  BY <1>1 DEF Listed, Inv, WorkloadsListed, TypeOK
<1>3. ASSUME NEW v \in Listed, NEW m, Controls(v, m)
      PROVE  v \in index[m.owner.kind] /\ m.owner.kind \in Kind
             /\ Has(m.owner.kind, m.ns, m.owner.name)
  BY <1>1, <1>3 DEF Controls, Has
<1>4. o.kind \in {"Job", "Pod"}
  <2>1. \E m \in Listed : Controls(m, o)
    BY DEF StandsFor
  <2>2. o.owner.kind \in Kind
    BY <1>3, <2>1
  <2> QED
    BY <1>2, <2>2 DEF StandardControllers, Inv, WorkloadsListed
<1>5. CASE o.kind = "Job"
  <2>1. PICK m \in Listed : Controls(m, o)
    BY DEF StandsFor
  <2>2. o.owner.kind = "CronJob"
    BY <1>2, <1>3, <1>5, <2>1 DEF StandardControllers
  <2>3. Has("CronJob", o.ns, o.owner.name)
    BY <1>3, <2>1, <2>2
  <2> QED
    BY <1>2, <1>5, <2>2, <2>3 DEF Inv, JobsDecided, ShouldIncludeJob
<1>6. CASE o.kind = "Pod"
  <2>1. ~PodResolved(o)
    BY <1>2, <1>6 DEF Inv, PodsDecided
  <2>2. PICK m \in Listed : Controls(m, o) /\ (m = w \/ Controls(w, m))
    BY DEF StandsFor
  <2>3. o.owner.kind \in Kind \ {"Pod"} /\ m.kind = o.owner.kind
    BY <1>2, <1>3, <1>6, <2>2 DEF StandardControllers, Controls
  <2>4. Has(m.kind, o.ns, o.owner.name)
    BY <1>3, <2>2, <2>3
  <2>5. CASE m.kind \in TopKinds
    BY <2>1, <2>3, <2>4, <2>5 DEF PodResolved, TopKinds
  <2>6. CASE m.kind = "ReplicaSet"
    <3>1. Controls(w, m)
      BY <2>2, <2>6
    <3>2. m.owner.kind = "Deployment" /\ Has("Deployment", m.ns, m.owner.name)
      BY <1>1, <1>3, <2>6, <3>1 DEF StandardControllers
    <3>3. ReplicaSetResolved(o)
      BY <1>1, <2>2, <2>6, <3>2 DEF ReplicaSetResolved, Controls
    <3> QED
      BY <2>1, <2>3, <2>6, <3>3 DEF PodResolved
  <2>7. CASE m.kind = "Job"
    <3>1. CASE m \in workloads
      <4>1. HasJobWorkload(o.ns, o.owner.name)
        BY <2>2, <2>7, <3>1 DEF HasJobWorkload, Controls
      <4> QED
        BY <2>1, <2>3, <2>7, <4>1 DEF PodResolved, JobResolved
    <3>2. CASE m \notin workloads
      <4>1. m.owner.kind = "CronJob" /\ Has("CronJob", m.ns, m.owner.name)
        BY <1>1, <2>7, <3>2 DEF Inv, JobsDecided, ShouldIncludeJob
      <4>2. JobResolved(o)
        BY <1>1, <2>2, <2>7, <4>1 DEF JobResolved, Controls
      <4> QED
        BY <2>1, <2>3, <2>7, <4>2 DEF PodResolved
    <3> QED
      BY <3>1, <3>2
  <2> QED
    BY <2>3, <2>5, <2>6, <2>7 DEF Kind, TopKinds
<1> QED
  BY <1>4, <1>5, <1>6

\* Listing kind by kind gives the same workloads as deciding about everything
\* listed at once: exactly those no listed object stands for.
THEOREM RootsOnly ==
  ASSUME StandardControllers
  PROVE  Spec => []ExactlyTheRoots
<1>1. Inv => ExactlyTheRoots
  <2> SUFFICES ASSUME Inv
               PROVE  ExactlyTheRoots
    OBVIOUS
  <2>1. \A o \in workloads : o \in Listed /\ o.kind # "ReplicaSet"
    BY DEF Inv, WorkloadsListed, Listed
  <2>2. \A o \in workloads :
          ~\E w \in Listed : w.kind # "ReplicaSet" /\ StandsFor(w, o)
    BY WorkloadsAreRoots
  <2>3. \A o \in Listed :
          o.kind # "ReplicaSet" /\ o \notin workloads
            => \E w \in Listed : w.kind # "ReplicaSet" /\ StandsFor(w, o)
    BY HiddenHaveARoot, <2>1
  <2> QED
    BY <2>1, <2>2, <2>3 DEF ExactlyTheRoots
<1> QED
  BY <1>1, Invariant, PTL

=============================================================================
