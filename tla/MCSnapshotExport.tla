-------------------------- MODULE MCSnapshotExport --------------------------
(***************************************************************************)
(* Secrets and edges of up to three names, on pages of two; exports with   *)
(* and without the sizes or the edges; files made by hand with up to three *)
(* items, without ids and with ids that collide.                           *)
(***************************************************************************)
EXTENDS SnapshotExport

CONSTANTS A, B

Lists  == {"secrets", "edges"}
Edges  == {"edges"}
Ids    == 1..3
Values == {A, B}

\* The graph of these Secrets and of edges to some of them; what is said of
\* the first Secret may change.
GraphOf(secrets, edges, first) ==
  [l \in Lists |->
     IF l = "edges" THEN [k \in edges |-> A]
     ELSE [k \in secrets |-> IF k = 1 THEN first ELSE A]]

SomeGraphs ==
  {GraphOf({}, {}, A), GraphOf({1}, {1}, A), GraphOf({1, 2}, {1}, B),
   GraphOf({2, 3}, {2, 3}, A), GraphOf({1, 2, 3}, {1, 2, 3}, A)}

Requests == {<<"config", "secrets", "edges">>, <<"edges", "secrets">>, <<"secrets">>}

\* A comparison of some lists, and one that misses each of the rest.
Compare(lists) == [args |-> TRUE, include |-> lists, format |-> TRUE,
                   output |-> TRUE, failOnChange |-> TRUE]
Comparisons ==
  {Compare({"secrets"}), Compare(Lists), Compare({}),
   [Compare(Lists) EXCEPT !.args = FALSE], [Compare(Lists) EXCEPT !.format = FALSE],
   [Compare(Lists) EXCEPT !.output = FALSE], [Compare(Lists) EXCEPT !.failOnChange = FALSE]}

Items  == [id : {NoId, <<1>>, <<1, 2>>}, val : {<<A, 0>>}]
Other  == [id |-> <<1>>, val |-> <<B, 0>>]
ByHand == {[l \in {"secrets"} |-> items] :
             items \in UNION {[1..n -> Items] : n \in 0..3} \cup {<<Other>>, <<Other, Other>>}}

=============================================================================
