--------------------------- MODULE SnapshotExport ---------------------------
(***************************************************************************)
(* Exporting the graph to a file and comparing two files:                  *)
(* cmd/kbeaconctl/main.go, with module SnapshotDiff.                       *)
(*                                                                         *)
(* An export asks for one resource after another, each with a request of   *)
(* its own and without a limit, so that each list is its first page in the *)
(* graph of that moment, while the agent goes on publishing graphs.  The   *)
(* file is written when every answer is there.  The dependency map is      *)
(* represented by its edges; "config" carries the sizes of the lists.      *)
(***************************************************************************)
EXTENDS SnapshotDiff

CONSTANTS
  List,           \* the lists of the graph
  Stamped,        \* those whose items say when they were last observed
  Name,           \* names of the items, in their sorted order
  Val,            \* what else an item says
  Graphs,         \* graphs the agent may publish: for each list, its items
  Limit,          \* the default limit of a list request
  Includes,       \* resources an export may be asked for, in their order
  HandMade,       \* files that were not exported: items for each list
  DiffRequests,   \* how two files may be asked to be compared
  Old, New,       \* the two files
  Absent, Torn, Foreign,  \* no file; not JSON; not a snapshot
  MaxPublications, MaxWrites   \* bounds

File == {Old, New}

\* An item of a file made by hand.
Item == [id : Key \cup {NoId}, val : Val \X {0}]

\* An edge has the name of the item it points to, which is in the graph
\* (EdgesMatchNodes of GraphCache).
ASSUME SnapshotExportAssumption ==
  /\ Name \subseteq Nat /\ IsFiniteSet(Name)
  /\ Graphs \subseteq [List -> UNION {[ns -> Val] : ns \in SUBSET Name}]
  /\ Stamped \subseteq List
  /\ \A g \in Graphs, l \in Stamped, m \in List : DOMAIN g[l] \subseteq DOMAIN g[m]
  /\ \A lists \in HandMade : DOMAIN lists \subseteq List /\ Range(lists) \subseteq Seq(Item)
  /\ Limit \in Nat \ {0}
  /\ "config" \notin List
  /\ \A inc \in Includes : inc \in Seq(List \cup {"config"})
  \* Does the command line parse and name two files, which lists does it
  \* include, is its format known, can the output be written?
  /\ DiffRequests \subseteq [args : BOOLEAN, include : SUBSET List, format : BOOLEAN,
                             output : BOOLEAN, failOnChange : BOOLEAN]
  /\ Old # New
  /\ MaxPublications \in Nat /\ MaxWrites \in Nat

VARIABLES
  graph,          \* the published graph
  stamp,          \* how many were published
  file,           \* the files
  job,            \* the export that is running
  writes          \* files written so far

vars == <<graph, stamp, file, job, writes>>

-----------------------------------------------------------------------------

\* The members of a set in order: as many come up to one as its position says.
Sorted(S) ==
  [i \in 1..Cardinality(S) |-> CHOOSE x \in S : Cardinality({y \in S : y <= x}) = i]

\* A list as the API shows it: sorted, items with a name, what they say and,
\* for edges, the graph they were last observed in.
Shown(l, items, at) ==
  LET sorted == Sorted(DOMAIN items)
  IN  [i \in DOMAIN sorted |->
         [id  |-> <<sorted[i]>>,
          val |-> <<items[sorted[i]], IF l \in Stamped THEN at ELSE 0>>]]

\* Bug: the page is one item short.
FirstPageShort(items) == SubSeq(items, 1, IF Len(items) < Limit THEN Len(items) ELSE Limit - 1)

\* paginate with the default limit and offset.
FirstPage(items) == SubSeq(items, 1, IF Len(items) < Limit THEN Len(items) ELSE Limit)

\* The handlers: the first page of a list; or the sizes of all of them.
Answer(r) ==
  IF r = "config" THEN [l \in List |-> Cardinality(DOMAIN graph[l])]
  ELSE FirstPage(Shown(r, graph[r], stamp))

\* No export is running.
Idle == [at |-> "idle"]

\* extractSnapshotResourceValues: a list that is not in the file is empty.
ListIn(f, l) == IF l \in DOMAIN f.parts THEN f.parts[l] ELSE <<>>

\* readSnapshotDocument.
Readable(f) == f \notin {Absent, Torn, Foreign}

\* Bug: an item that only says something else is no change.
HasChangesOfNames(f, g, include) ==
  \E l \in include : \/ Added(ListIn(f, l), ListIn(g, l)) # {}
                     \/ Removed(ListIn(f, l), ListIn(g, l)) # {}

\* buildSnapshotDiff: there is a change in one of the lists that were asked
\* for.
HasChanges(f, g, include) ==
  \E l \in include : \/ Added(ListIn(f, l), ListIn(g, l)) # {}
                     \/ Removed(ListIn(f, l), ListIn(g, l)) # {}
                     \/ Changed(ListIn(f, l), ListIn(g, l)) # {}

\* runSnapshotDiff: the format is looked at when the comparison is there.
ExitStatus(f, g, q) ==
  IF ~q.args \/ q.include = {} THEN 2
  ELSE IF ~Readable(f) \/ ~Readable(g) THEN 1
  ELSE IF ~q.format THEN 2
  ELSE IF ~q.output THEN 1
  ELSE IF q.failOnChange /\ HasChanges(f, g, q.include) THEN 2
  ELSE 0

Init ==
  /\ graph \in Graphs
  /\ stamp = 1
  /\ file \in [File -> {Absent, Foreign}]
  /\ job = Idle
  /\ writes = 0

-----------------------------------------------------------------------------

\* The agent publishes a graph: another one, or the same one again.
Publish(g) ==
  /\ stamp <= MaxPublications
  /\ graph' = g
  /\ stamp' = stamp + 1
  /\ UNCHANGED <<file, job, writes>>

\* Somebody puts another snapshot where the file was.
Edit(f, lists) ==
  /\ writes < MaxWrites
  /\ job = Idle
  /\ file' = [file EXCEPT ![f] = [parts |-> lists, export |-> FALSE]]
  /\ writes' = writes + 1
  /\ UNCHANGED <<graph, stamp, job>>

\* snapshot export --output f --include inc
Begin(f, inc) ==
  /\ writes < MaxWrites
  /\ job = Idle
  /\ job' = [at |-> "asking", out |-> f, inc |-> inc, parts |-> [r \in {} |-> 0],
             from |-> [r \in {} |-> 0], since |-> stamp]
  /\ writes' = writes + 1
  /\ UNCHANGED <<graph, stamp, file>>

NextResource == job.inc[Cardinality(DOMAIN job.parts) + 1]

Asking == job.at = "asking" /\ DOMAIN job.parts # Range(job.inc)

\* One request is answered.
Receive ==
  /\ Asking
  /\ LET r == NextResource
     IN  job' = [job EXCEPT !.parts = Extended(@, r, Answer(r)),
                            !.from = Extended(@, r, [graph |-> graph, at |-> stamp])]
  /\ UNCHANGED <<graph, stamp, file, writes>>

\* Bug: the resource is left out and the export goes on.
RequestFailsAlone ==
  /\ Asking
  /\ job' = [job EXCEPT !.inc = SelectSeq(@, LAMBDA r : r # NextResource)]
  /\ UNCHANGED <<graph, stamp, file, writes>>

\* A request is not answered, not with 2xx, or not with JSON: the export ends
\* with status 1.
RequestFails ==
  /\ Asking
  /\ job' = Idle
  /\ UNCHANGED <<graph, stamp, file, writes>>

\* os.WriteFile cuts the file to nothing ...
OpenOutput ==
  /\ job.at = "asking" /\ ~Asking
  /\ file' = [file EXCEPT ![job.out] = Torn]
  /\ job' = [job EXCEPT !.at = "writing"]
  /\ UNCHANGED <<graph, stamp, writes>>

\* ... and writes the document.
WriteOutput ==
  /\ job.at = "writing"
  /\ file' = [file EXCEPT ![job.out] =
                [parts |-> job.parts, export |-> TRUE, asked |-> Range(job.inc),
                 from |-> job.from, since |-> job.since]]
  /\ job' = Idle
  /\ UNCHANGED <<graph, stamp, writes>>

\* The export is killed, or cannot open or write its file.
Abort ==
  /\ job.at = "writing" \/ (job.at = "asking" /\ ~Asking)
  /\ job' = Idle
  /\ UNCHANGED <<graph, stamp, file, writes>>

Next ==
  \/ \E g \in Graphs : Publish(g)
  \/ \E f \in File, lists \in HandMade : Edit(f, lists)
  \/ \E f \in File, inc \in Includes : Begin(f, inc)
  \/ Receive \/ RequestFails \/ OpenOutput \/ WriteOutput \/ Abort

Spec == Init /\ [][Next]_vars

-----------------------------------------------------------------------------
(* Properties.                                                             *)

Exported(f) == Readable(f) /\ f.export

TypeOK ==
  /\ graph \in Graphs
  /\ stamp \in 1..MaxPublications + 1
  /\ \A n \in File : Readable(file[n]) =>
       \A r \in DOMAIN file[n].parts \ {"config"} : \A i \in DOMAIN file[n].parts[r] :
         file[n].parts[r][i].val \in Val \X (0..stamp)
  /\ job.at \in {"idle", "asking", "writing"}
  /\ job # Idle => DOMAIN job.parts \subseteq Range(job.inc) /\ job.since <= stamp
  /\ writes \in 0..MaxWrites

\* An exported file has all that was asked for: no answer is missing, and none
\* is from another export.
ExportsAreComplete ==
  \A n \in File : Exported(file[n]) =>
    \E inc \in Includes :
      /\ DOMAIN file[n].parts = Range(inc)
      /\ DOMAIN file[n].from = Range(inc)
      /\ file[n].asked = Range(inc)
      /\ \A r \in Range(inc) : file[n].from[r].at >= file[n].since

\* Whatever file an export replaces, and whatever failed or was killed before
\* it, the new file is whole: all answers, each of this export, and no item is
\* from a graph that was not yet published (runSnapshotExport writes when it has
\* every answer).
FilesAreWhole == TypeOK /\ ExportsAreComplete

\* All answers of an export were given by one graph.
Calm(f) == \A r \in DOMAIN f.from : f.from[r].at = f.since

Names(items) == {items[i].id[1] : i \in DOMAIN items}

\* The list was longer than the page.
CutShort(f, l) == Cardinality(DOMAIN f.from[l].graph[l]) > Limit

\* An export that no publication disturbs is consistent: its sizes are those of
\* its lists up to the page, and every edge it shows points to an item it
\* shows, unless the list of these was longer than the page.
QuietExportIsConsistent ==
  \A n \in File : Exported(file[n]) =>
    LET f == file[n]
    IN  Calm(f) =>
          /\ \A l \in List : {l, "config"} \subseteq f.asked =>
               Len(f.parts[l]) = f.parts["config"][l] \/ (CutShort(f, l) /\ Len(f.parts[l]) = Limit)
          /\ \A l, m \in List :
               {l, m} \subseteq f.asked /\ l \in Stamped /\ ~CutShort(f, m) =>
                 Names(f.parts[l]) \subseteq Names(f.parts[m])

\* What a comparison of two exports says of a list is true of the two graphs:
\* an item is reported as new or gone though it was there before, or still is,
\* only if the other list was cut short; and when neither was, new, gone and
\* changed are exactly that.  An edge has changed whenever another graph was
\* published in between, since it says when it was last observed.
DiffIsTrueOfGraphs ==
  Exported(file[Old]) /\ Exported(file[New]) =>
    \A l \in List \cap file[Old].asked \cap file[New].asked :
      LET f == file[Old]
          g == file[New]
          a == f.from[l].graph[l]
          b == g.from[l].graph[l]
          names(keys) == {k[1] : k \in keys}
          added   == names(Added(ListIn(f, l), ListIn(g, l)))
          removed == names(Removed(ListIn(f, l), ListIn(g, l)))
          changed == names(Changed(ListIn(f, l), ListIn(g, l)))
      IN  /\ CutShort(f, l) \/ added \cap DOMAIN a = {}
          /\ CutShort(g, l) \/ removed \cap DOMAIN b = {}
          /\ ~CutShort(f, l) /\ ~CutShort(g, l) =>
               /\ added = DOMAIN b \ DOMAIN a
               /\ removed = DOMAIN a \ DOMAIN b
               /\ changed = {k \in DOMAIN a \cap DOMAIN b :
                              \/ a[k] # b[k]
                              \/ l \in Stamped /\ f.from[l].at # g.from[l].at}

\* Whatever two files hold, items without ids and ids that collide included,
\* no item is lost by the index: the new list has as many items as the
\* comparison finds new, changed and unchanged, and so has the old one.
DiffLosesNothing ==
  Readable(file[Old]) /\ Readable(file[New]) =>
    \A l \in List :
      LET a == ListIn(file[Old], l)
          b == ListIn(file[New], l)
          both == DOMAIN Index(a) \cap DOMAIN Index(b)
      IN  /\ Cardinality(Added(a, b)) + Cardinality(both) = Len(b)
          /\ Cardinality(Removed(a, b)) + Cardinality(both) = Len(a)
          /\ Changed(a, b) \subseteq both

\* Two exports whose lists are whole show the same items of l, and the same
\* times if it has any.
SameList(f, g, l) ==
  /\ f.from[l].graph[l] = g.from[l].graph[l]
  /\ l \in Stamped /\ DOMAIN f.from[l].graph[l] # {} => f.from[l].at = g.from[l].at

\* A pipeline may go by the exit status of a comparison with --fail-on-change.
\* Status 0 means that both files are snapshots, whatever crashed while it was
\* written, and that two exports agree on each list that was compared and not
\* cut off.  And it is not withheld: two exports no publication disturbed, of
\* the same graph, have it, if the request is in order (runSnapshotDiff).
ExitStatusTells ==
  \A q \in DiffRequests :
    LET f == file[Old]
        g == file[New]
    IN  /\ q.failOnChange /\ ExitStatus(f, g, q) = 0 =>
             /\ Readable(f) /\ Readable(g)
             /\ Exported(f) /\ Exported(g) =>
                  \A l \in q.include \cap f.asked \cap g.asked :
                    ~CutShort(f, l) /\ ~CutShort(g, l) => SameList(f, g, l)
        /\ /\ Exported(f) /\ Exported(g) /\ Calm(f) /\ Calm(g)
           /\ f.since = g.since /\ f.asked = g.asked
           /\ q.args /\ q.include # {} /\ q.format /\ q.output
           => ExitStatus(f, g, q) = 0

=============================================================================
