-------------------------- MODULE MCOwnerResolution --------------------------
(***************************************************************************)
(* Instances of OwnerResolution: the controller chains that Kubernetes     *)
(* builds, with the variants that appear while they come and go.           *)
(***************************************************************************)
EXTENDS OwnerResolution

Obj(kind, ns, name, ownerKind, ownerName) ==
  [kind |-> kind, ns |-> ns, name |-> name,
   owner |-> [kind |-> ownerKind, name |-> ownerName]]

\* A Deployment with its ReplicaSet, which is orphaned when the Deployment is
\* deleted without its dependents; a CronJob and its Job, which may be orphaned
\* likewise; a StatefulSet in another namespace.  One Pod is recreated under
\* different owners, among them a namesake of that StatefulSet and a DaemonSet,
\* which is not watched: Pods do not depend on one another.  Another Pod is in
\* an excluded namespace.
Chains ==
  {Obj("Deployment", "a", "web", "", ""),
   Obj("ReplicaSet", "a", "web-1", "Deployment", "web"),
   Obj("ReplicaSet", "a", "web-1", "", ""),
   Obj("CronJob", "a", "nightly", "", ""),
   Obj("Job", "a", "nightly-1", "CronJob", "nightly"),
   Obj("Job", "a", "nightly-1", "", ""),
   Obj("StatefulSet", "b", "web", "", ""),
   Obj("Pod", "a", "x", "ReplicaSet", "web-1"),
   Obj("Pod", "a", "x", "Job", "nightly-1"),
   Obj("Pod", "a", "x", "StatefulSet", "web"),
   Obj("Pod", "a", "x", "DaemonSet", "agent"),
   Obj("Pod", "sys", "x", "", "")}

NoDaemonSets == Kind \ {"DaemonSet"}
AnyNamespace == {}
ExcludeSys   == {"sys"}

=============================================================================
