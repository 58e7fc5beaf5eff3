---------------------------- MODULE SnapshotDiff ----------------------------
(***************************************************************************)
(* The comparison of two snapshot files: cmd/kbeaconctl/snapshot_diff.go.  *)
(*                                                                         *)
(* A list of a snapshot is a sequence of items.  It is indexed by the      *)
(* items' ids: an item without one is known by its position, and an id     *)
(* that is taken gets a number, from 2 on.  The index of the old list is   *)
(* then compared with that of the new one.                                 *)
(*                                                                         *)
(* A key of the index is a sequence: <<name>> is an id, <<name, 2>> the    *)
(* same with "#2" behind it, which may be an id in its own right.          *)
(***************************************************************************)
EXTENDS Integers, Sequences, FiniteSets, Functions

CONSTANT NoId      \* the id of an item that has none

Key == Seq(Int)

ASSUME NoIdAssumption == NoId \notin Key

-----------------------------------------------------------------------------

\* The list's own name, as in secrets[0], where other keys have a name.
Unnamed == -1

\* Bug: every item without an id gets the same one.
ItemKeyAnonymous(items, i) == IF items[i].id = NoId THEN <<Unnamed>> ELSE items[i].id

\* snapshotItemID, and the position of an item it gives no id.
ItemKey(items, i) == IF items[i].id = NoId THEN <<Unnamed, i - 1>> ELSE items[i].id

\* Bug: only the first collision is resolved.
FreeKeyOnce(key, taken) == IF key \in taken THEN Append(key, 2) ELSE key

\* The key, or the first of key#2, key#3 ... that is not taken.
FreeKey(key, taken) ==
  IF key \notin taken THEN key
  ELSE LET free == {n \in 2..Cardinality(taken) + 2 : Append(key, n) \notin taken}
       IN  Append(key, CHOOSE n \in free : \A m \in free : n <= m)

Extended(index, key, val) ==
  [k \in DOMAIN index \cup {key} |-> IF k = key THEN val ELSE index[k]]

\* indexSnapshotItems.
Index(items) ==
  LET upTo[n \in 0..Len(items)] ==
        IF n = 0 THEN [k \in {} |-> NoId]
        ELSE Extended(upTo[n - 1], FreeKey(ItemKey(items, n), DOMAIN upTo[n - 1]), items[n].val)
  IN  upTo[Len(items)]

\* diffSnapshotResource: the keys of one list that are new, gone, and changed.
Added(old, new) == DOMAIN Index(new) \ DOMAIN Index(old)

Removed(old, new) == DOMAIN Index(old) \ DOMAIN Index(new)

\* Bug: an item that is in both lists is taken for unchanged.
ChangedNever(old, new) == {}

Changed(old, new) ==
  LET a == Index(old)
      b == Index(new)
  IN  {k \in DOMAIN a \cap DOMAIN b : a[k] # b[k]}

=============================================================================
