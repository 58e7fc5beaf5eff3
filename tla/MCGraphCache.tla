---------------------------- MODULE MCGraphCache ----------------------------
(***************************************************************************)
(* Two Secrets and two workloads, of one namespace and name but different  *)
(* kinds.  Token is referenced across namespaces, and its own namespace is *)
(* not one the agent lists Secrets of.                                     *)
(***************************************************************************)
EXTENDS GraphQueries

CONSTANTS Db, Token, Web, Batch, Pay, Ops, None

OneSecret   == {Db}
TwoSecrets  == {Db, Token}
TwoWorkloads == {Web, Batch}
Namespaces  == [w \in Workload |-> "shop"]
Kinds       == [w \in Workload |-> IF w = Web THEN "Deployment" ELSE "CronJob"]
Names       == [w \in Workload |-> "app"]
IdOrder     == [w \in Workload |-> IF w = Web THEN 2 ELSE 1]

Plain   == {[team |-> None, criticality |-> 0]}
UsesDb  == {[team |-> Pay, criticality |-> 3, refs |-> {Db}]}
UsesAny == UsesDb \cup {[team |-> Ops, criticality |-> 4, refs |-> {Db, Token}],
                       [team |-> None, criticality |-> 1, refs |-> {Token}]}

=============================================================================
