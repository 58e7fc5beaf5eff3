----------------------------- MODULE GraphReads -----------------------------
(***************************************************************************)
(* Reading a list of the graph page by page: internal/server/server.go.    *)
(*                                                                         *)
(* A list request takes a snapshot of the graph, filters it, and cuts a    *)
(* page out of it at an offset; the answer tells the offset of the next    *)
(* page.  The server keeps nothing between two requests and the graph is   *)
(* replaced at any time, so each page is cut from a list of its own.       *)
(*                                                                         *)
(* An item is its key; keys are ordered as Snapshot sorts them.  A page is *)
(* the set of the items whose rank lies between two offsets.               *)
(***************************************************************************)
EXTENDS Integers, FiniteSets

CONSTANTS
  Key,           \* keys of the items of one list, in their sorted order
  Field,         \* values of the field a query may filter by
  Query,         \* the field values the query asks for
  RawLimit,      \* values a client sends as limit
  NoLimit,       \* no limit in the query
  DefaultLimit,
  MaxLimit

ASSUME GraphReadsAssumption ==
  /\ Key \subseteq Nat
  /\ IsFiniteSet(Key)
  /\ Query \subseteq Field
  /\ RawLimit \subseteq Int
  /\ NoLimit \notin RawLimit
  /\ DefaultLimit \in Nat \ {0}
  /\ MaxLimit \in Nat \ {0}
  /\ DefaultLimit <= MaxLimit

VARIABLES
  graph,      \* the items of the published graph, with their fields
  \* a client that follows nextOffset
  offset,     \* the offset it asks for next
  begun,      \* it has had a page
  done,       \* it has had a page without nextOffset
  page,       \* the items of its last page
  \* history of its traversal
  seen,       \* the items of all its pages
  repeated,   \* an item came twice
  first,      \* the list its first page was cut from
  gained,     \* an item entered the list since
  lost        \* an item left the list since

client  == <<offset, begun, done, page, seen, repeated, first>>
vars    == <<graph, client, gained, lost>>

-----------------------------------------------------------------------------

\* The items of a graph that the query selects.
Filtered(g) == {k \in DOMAIN g : g[k] \in Query}

\* Items that come before k.
Rank(k, list) == Cardinality({j \in list : j < k})

\* parsePagination refuses a limit that is not positive.
ValidLimit(raw) == raw # NoLimit => raw >= 1

\* parsePagination: a default, and a cap that is applied silently.
Limit(raw) ==
  IF raw = NoLimit THEN DefaultLimit
  ELSE IF raw > MaxLimit THEN MaxLimit ELSE raw

Least(a, b) == IF a < b THEN a ELSE b

Total(list) == Cardinality(list)

\* Where paginate starts and ends: both within the list.
Start(list, off) == Least(off, Total(list))
End(list, off, limit) == Least(Start(list, off) + limit, Total(list))

\* Bug: the end is included.
PageWithEnd(list, off, limit) ==
  {k \in list : Start(list, off) <= Rank(k, list) /\ Rank(k, list) <= End(list, off, limit)}

\* paginate: items[start:end].
Page(list, off, limit) ==
  {k \in list : Start(list, off) <= Rank(k, list) /\ Rank(k, list) < End(list, off, limit)}

\* Bug: the last page has a nextOffset when it ends with the list.
HasNextAtTotal(list, off, limit) == End(list, off, limit) <= Total(list)

\* paginate: nextOffset is left out on the last page.
HasNext(list, off, limit) == End(list, off, limit) < Total(list)

\* Bug: the next page starts after the item it should start with.
NextOffsetAfterEnd(list, off, limit) == End(list, off, limit) + 1

NextOffset(list, off, limit) == End(list, off, limit)

Graph == UNION {[ks -> Field] : ks \in SUBSET Key}

TypeOK ==
  /\ graph \in Graph
  /\ offset \in Nat
  /\ begun \in BOOLEAN
  /\ done \in BOOLEAN
  /\ page \subseteq Key
  /\ seen \subseteq Key
  /\ repeated \in BOOLEAN
  /\ first \subseteq Key
  /\ gained \in BOOLEAN
  /\ lost \in BOOLEAN

Init ==
  /\ graph \in Graph
  /\ offset = 0
  /\ begun = FALSE
  /\ done = FALSE
  /\ page = {}
  /\ seen = {}
  /\ repeated = FALSE
  /\ first = {}
  /\ gained = FALSE
  /\ lost = FALSE

-----------------------------------------------------------------------------

\* ApplySnapshot puts another graph in place.
Publish(g) ==
  /\ g # graph
  /\ graph' = g
  /\ gained' = (gained \/ (begun /\ ~(Filtered(g) \subseteq Filtered(graph))))
  /\ lost' = (lost \/ (begun /\ ~(Filtered(graph) \subseteq Filtered(g))))
  /\ UNCHANGED client

\* A list handler answers the client's next request, with the graph of this
\* moment.  The client may change the limit from page to page.
ReadPage(raw) ==
  /\ ~done
  /\ ValidLimit(raw)
  /\ LET list  == Filtered(graph)
         limit == Limit(raw)
     IN  /\ page' = Page(list, offset, limit)
         /\ offset' = NextOffset(list, offset, limit)
         /\ done' = ~HasNext(list, offset, limit)
         /\ first' = IF begun THEN first ELSE list
  /\ begun' = TRUE
  /\ seen' = seen \cup page'
  /\ repeated' = (repeated \/ page' \cap seen # {})
  /\ UNCHANGED <<graph, gained, lost>>

ReadSomePage == \E raw \in RawLimit \cup {NoLimit} : ReadPage(raw)

Next == ReadSomePage \/ \E g \in Graph : Publish(g)

\* The client goes on reading; publications may or may not happen.
Spec == Init /\ [][Next]_vars /\ WF_vars(ReadSomePage)

-----------------------------------------------------------------------------
(* Properties.                                                             *)

\* A client that reads to the end while items are only added misses none of
\* those that were there when it began.  (When one is removed it may: the
\* items behind it move to a page the client already has.)
GrowingListIsComplete == done /\ ~lost => first \subseteq seen

\* A client that reads while items are only removed gets none twice.
ShrinkingListIsNotRepeated == ~gained => ~repeated

\* Whatever is published meanwhile, the traversal ends: each page with a next
\* one moves the offset on.
TraversalEnds == <>done

=============================================================================
