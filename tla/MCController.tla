---------------------------- MODULE MCController ----------------------------
(***************************************************************************)
(* Instances of Controller.  Start waits for Pods before Deployments and   *)
(* rebuild lists Deployments before Pods, as in the code.                  *)
(***************************************************************************)
EXTENDS Controller

CONSTANTS Secret, Deployment, Pod, Connector

TwoResources  == {Secret, Pod}
TwoOrder      == <<Secret, Pod>>
ThreeResources == {Secret, Deployment, Pod}
ThreeSyncOrder == <<Secret, Pod, Deployment>>
ThreeListOrder == <<Secret, Deployment, Pod>>

\* The first list of Secrets has an object, those of the other kinds are empty.
SomeItems == [r \in Resource |-> IF r = Secret THEN 1 ELSE 0]
NoFailure == {}
NoneAbsent == {}

\* A custom resource is watched and its CRD is not installed.
WithConnectors   == {Secret, Connector}
ConnectorsLast   == <<Secret, Connector>>
ConnectorsAbsent == {Connector}
PodsFail  == {Pod}

=============================================================================
