-------------------------- MODULE GraphReadsProofs --------------------------
(***************************************************************************)
(* For any keys, any query and any limits: what reading page by page       *)
(* misses and repeats while the graph is replaced.  The argument is about  *)
(* ranks: an addition can only raise the rank of an item, so an item the   *)
(* client has not reached stays ahead of it; a removal can only lower it,  *)
(* so an item the client has passed stays behind it.                       *)
(***************************************************************************)
EXTENDS GraphReads, FiniteSetTheorems, TLAPS

-----------------------------------------------------------------------------
(* Ranks.                                                                  *)

\* Ranks and totals of a list are numbers.
LEMMA RankType ==
  ASSUME NEW list \in SUBSET Key, NEW k \in Key
  PROVE  Rank(k, list) \in Nat /\ Total(list) \in Nat
<1>1. IsFiniteSet(list) /\ IsFiniteSet({j \in list : j < k})
  BY FS_Subset, GraphReadsAssumption DEF GraphReadsAssumption
<1> QED
  BY <1>1, FS_CardinalityType DEF Rank, Total

\* An item has at most as many items before it in a part of the list.
LEMMA RankMonotone ==
  ASSUME NEW list \in SUBSET Key, NEW part \in SUBSET list, NEW k \in Key
  PROVE  Rank(k, part) <= Rank(k, list)
<1>1. IsFiniteSet({j \in list : j < k})
  BY FS_Subset, GraphReadsAssumption DEF GraphReadsAssumption
<1>2. {j \in part : j < k} \subseteq {j \in list : j < k}
  OBVIOUS
<1> QED
  BY <1>1, <1>2, FS_Subset DEF Rank

\* The rank of an item of the list is below the total.
LEMMA RankBelowTotal ==
  ASSUME NEW list \in SUBSET Key, NEW k \in list
  PROVE  Rank(k, list) < Total(list)
<1> DEFINE before == {j \in list : j < k}
<1>1. IsFiniteSet(list) /\ IsFiniteSet(before)
  BY FS_Subset, GraphReadsAssumption DEF GraphReadsAssumption
<1>2. before \subseteq list /\ before # list
  <2>1. ~(k < k)
    BY GraphReadsAssumption DEF GraphReadsAssumption
  <2> QED
    BY <2>1
<1>3. Cardinality(before) < Cardinality(list)
  BY <1>1, <1>2, FS_Subset, FS_CardinalityType
<1> QED
  BY <1>3 DEF Rank, Total

-----------------------------------------------------------------------------
(* One page.                                                               *)

\* A valid limit is positive.
LEMMA LimitPositive ==
  ASSUME NEW raw \in RawLimit \cup {NoLimit}, ValidLimit(raw)
  PROVE  Limit(raw) \in Nat \ {0}
BY GraphReadsAssumption DEF GraphReadsAssumption, ValidLimit, Limit

\* A page ends within the list and not before it starts; the items before its
\* end that are not in it lie before the offset; and those in it do not.
LEMMA PageBounds ==
  ASSUME NEW list \in SUBSET Key, NEW off \in Nat, NEW limit \in Nat \ {0}
  PROVE  /\ End(list, off, limit) \in Nat
         /\ \A k \in list :
              /\ Rank(k, list) < off => Rank(k, list) < End(list, off, limit)
              /\ Rank(k, list) < off <=> k \notin Page(list, off, limit)
                                         /\ Rank(k, list) < End(list, off, limit)
         /\ ~HasNext(list, off, limit) =>
              \A k \in list : Rank(k, list) < End(list, off, limit)
<1>1. Total(list) \in Nat
  <2>1. IsFiniteSet(list)
    BY FS_Subset, GraphReadsAssumption DEF GraphReadsAssumption
  <2> QED
    BY <2>1, FS_CardinalityType DEF Total
<1>2. /\ Start(list, off) \in Nat
      /\ \/ Start(list, off) = off /\ off <= Total(list)
         \/ Start(list, off) = Total(list) /\ Total(list) <= off
  BY <1>1 DEF Start, Least
<1>3. /\ End(list, off, limit) \in Nat
      /\ Start(list, off) <= End(list, off, limit)
      /\ End(list, off, limit) <= Total(list)
  BY <1>1, <1>2 DEF End, Least
<1>4. ASSUME NEW k \in list
      PROVE  Rank(k, list) \in Nat /\ Rank(k, list) < Total(list)
  BY RankType, RankBelowTotal
<1>5. ASSUME NEW k \in list
      PROVE  /\ Rank(k, list) < off => Rank(k, list) < End(list, off, limit)
             /\ Rank(k, list) < off <=> k \notin Page(list, off, limit)
                                        /\ Rank(k, list) < End(list, off, limit)
  <2>1. Rank(k, list) < off <=> Rank(k, list) < Start(list, off)
    BY <1>1, <1>2, <1>4
  <2>2. k \in Page(list, off, limit)
          <=> Start(list, off) <= Rank(k, list) /\ Rank(k, list) < End(list, off, limit)
    BY DEF Page
  <2> QED
    BY <1>1, <1>2, <1>3, <1>4, <2>1, <2>2
<1>6. ASSUME ~HasNext(list, off, limit), NEW k \in list
      PROVE  Rank(k, list) < End(list, off, limit)
  BY <1>1, <1>3, <1>4, <1>6 DEF HasNext
<1> QED
  BY <1>3, <1>5, <1>6

-----------------------------------------------------------------------------
(* The state of the traversal.                                             *)

List == Filtered(graph)

\* Before the first page nothing was read and nothing is held against it.
Fresh == ~begun => offset = 0 /\ seen = {} /\ ~done /\ ~repeated /\ ~gained /\ ~lost

\* While nothing was lost, what the client has not seen of the first list is
\* still ahead of it.
NothingMissed ==
  begun /\ ~lost =>
    /\ first \subseteq List
    /\ \A k \in first : done \/ Rank(k, List) < offset => k \in seen

\* While nothing was gained, what the client has seen of the list is behind it.
NothingAhead ==
  begun /\ ~gained =>
    /\ ~repeated
    /\ \A k \in seen \cap List : Rank(k, List) < offset

Inv == TypeOK /\ Fresh /\ NothingMissed /\ NothingAhead

\* A query selects some of the keys.
LEMMA FilteredKeys ==
  ASSUME NEW g \in Graph
  PROVE  Filtered(g) \in SUBSET Key
BY DEF Filtered, Graph

\* The invariant is kept by a publication.
LEMMA PublishKeeps ==
  ASSUME Inv, NEW g \in Graph, Publish(g)
  PROVE  Inv'
<1> USE DEF Inv
<1>1. /\ graph' = g
      /\ UNCHANGED <<offset, begun, done, page, seen, repeated, first>>
  BY DEF Publish, client
<1>2. List \in SUBSET Key /\ List' \in SUBSET Key
  BY <1>1, FilteredKeys DEF List, TypeOK
<1>3. /\ gained' = (gained \/ (begun /\ ~(List' \subseteq List)))
      /\ lost' = (lost \/ (begun /\ ~(List \subseteq List')))
  BY <1>1 DEF Publish, List
<1>4. TypeOK'
  BY <1>1, <1>3 DEF TypeOK
<1>5. Fresh'
  BY <1>1, <1>3 DEF Fresh
<1>6. NothingMissed'
  <2> SUFFICES ASSUME begun', ~lost'
               PROVE  /\ first' \subseteq List'
                      /\ \A k \in first' :
                           done' \/ Rank(k, List') < offset' => k \in seen'
    BY DEF NothingMissed
  <2>1. begun /\ ~lost /\ List \subseteq List'
    BY <1>1, <1>3
  <2>2. first \subseteq List
    BY <2>1 DEF NothingMissed
  <2>3. ASSUME NEW k \in first, done \/ Rank(k, List') < offset
        PROVE  k \in seen
    <3>1. Rank(k, List) <= Rank(k, List')
      BY <1>2, <2>1, <2>2, RankMonotone
    <3>2. /\ Rank(k, List) \in Nat /\ Rank(k, List') \in Nat
          /\ offset \in Nat
      BY <1>2, <2>2, RankType DEF TypeOK
    <3>3. done \/ Rank(k, List) < offset
      BY <2>3, <3>1, <3>2
    <3> QED
      BY <2>1, <3>3 DEF NothingMissed
  <2> QED
    BY <1>1, <2>1, <2>2, <2>3
<1>7. NothingAhead'
  <2> SUFFICES ASSUME begun', ~gained'
               PROVE  /\ ~repeated'
                      /\ \A k \in seen' \cap List' : Rank(k, List') < offset'
    BY DEF NothingAhead
  <2>1. begun /\ ~gained /\ List' \subseteq List
    BY <1>1, <1>3
  <2>2. ASSUME NEW k \in seen \cap List'
        PROVE  Rank(k, List') < offset
    <3>1. Rank(k, List') <= Rank(k, List)
      BY <1>2, <2>1, RankMonotone
    <3>2. Rank(k, List) < offset
      BY <2>1 DEF NothingAhead
    <3>3. /\ Rank(k, List) \in Nat /\ Rank(k, List') \in Nat
          /\ offset \in Nat
      BY <1>2, <2>1, RankType DEF TypeOK
    <3> QED
      BY <3>1, <3>2, <3>3
  <2> QED
    BY <1>1, <2>1, <2>2 DEF NothingAhead
<1> QED
  BY <1>4, <1>5, <1>6, <1>7

\* The invariant is kept by a page.
LEMMA ReadPageKeeps ==
  ASSUME Inv, NEW raw \in RawLimit \cup {NoLimit}, ReadPage(raw)
  PROVE  Inv'
<1> USE DEF Inv
<1> DEFINE limit == Limit(raw)
<1> DEFINE reach == End(List, offset, limit)
<1>1. /\ page' = Page(List, offset, limit)
      /\ offset' = reach
      /\ done' = ~HasNext(List, offset, limit)
      /\ first' = IF begun THEN first ELSE List
      /\ begun' = TRUE
      /\ seen' = seen \cup page'
      /\ repeated' = (repeated \/ page' \cap seen # {})
      /\ UNCHANGED <<graph, gained, lost>>
  BY DEF ReadPage, List, NextOffset
<1>2. List \in SUBSET Key /\ List' = List
  BY <1>1, FilteredKeys DEF List, TypeOK
<1>3. limit \in Nat \ {0} /\ offset \in Nat
  BY LimitPositive DEF ReadPage, TypeOK
<1>4. /\ reach \in Nat
      /\ \A k \in List :
           /\ Rank(k, List) < offset => Rank(k, List) < reach
           /\ Rank(k, List) < offset <=> k \notin page' /\ Rank(k, List) < reach
      /\ done' => \A k \in List : Rank(k, List) < reach
  BY <1>1, <1>2, <1>3, PageBounds
<1>5. page' \subseteq List
  BY <1>1 DEF Page
<1>6. TypeOK'
  <2>1. done' \in BOOLEAN /\ repeated' \in BOOLEAN
    BY <1>1 DEF HasNext
  <2> QED
    BY <1>1, <1>2, <1>4, <1>5, <2>1 DEF TypeOK
<1>7. Fresh'
  BY <1>1 DEF Fresh
<1>8. NothingMissed'
  <2> SUFFICES ASSUME ~lost
               PROVE  /\ first' \subseteq List
                      /\ \A k \in first' :
                           done' \/ Rank(k, List) < reach => k \in seen'
    BY <1>1, <1>2 DEF NothingMissed
  <2>1. first' \subseteq List
    BY <1>1 DEF NothingMissed
  <2>2. ASSUME NEW k \in first', done' \/ Rank(k, List) < reach
        PROVE  k \in seen'
    <3>1. k \in List /\ Rank(k, List) < reach
      BY <1>4, <2>1, <2>2
    <3>2. CASE k \in page'
      BY <1>1, <3>2
    <3>3. CASE k \notin page'
      <4>1. Rank(k, List) < offset /\ Rank(k, List) \in Nat
        BY <1>2, <1>4, <3>1, <3>3, RankType
      <4>2. begun
        BY <1>3, <4>1 DEF Fresh
      <4>3. k \in seen
        BY <1>1, <2>2, <4>1, <4>2 DEF NothingMissed
      <4> QED
        BY <1>1, <4>3
    <3> QED
      BY <3>2, <3>3
  <2> QED
    BY <2>1, <2>2
<1>9. NothingAhead'
  <2> SUFFICES ASSUME ~gained
               PROVE  /\ ~repeated'
                      /\ \A k \in seen' \cap List : Rank(k, List) < reach
    BY <1>1, <1>2 DEF NothingAhead
  <2>1. \A k \in seen \cap List : Rank(k, List) < offset
    BY DEF NothingAhead, Fresh
  <2>2. ~repeated
    BY DEF NothingAhead, Fresh
  <2>3. page' \cap seen = {}
    BY <1>4, <1>5, <2>1
  <2>4. \A k \in page' : Rank(k, List) < reach
    BY <1>1 DEF Page
  <2> QED
    BY <1>1, <1>4, <2>1, <2>2, <2>3, <2>4
<1> QED
  BY <1>6, <1>7, <1>8, <1>9

LEMMA Invariant == Spec => []Inv
<1>1. ASSUME Init PROVE Inv
  <2>1. TypeOK
    BY <1>1 DEF Init, TypeOK
  <2>2. Fresh
    BY <1>1 DEF Init, Fresh
  <2>3. NothingMissed /\ NothingAhead
    BY <1>1 DEF Init, NothingMissed, NothingAhead
  <2> QED
    BY <2>1, <2>2, <2>3 DEF Inv
<1>2. Inv /\ [Next]_vars => Inv'
  <2> SUFFICES ASSUME Inv, [Next]_vars
               PROVE  Inv'
    OBVIOUS
  <2>1. CASE ReadSomePage
    BY <2>1, ReadPageKeeps DEF ReadSomePage
  <2>2. ASSUME NEW g \in Graph, Publish(g)
        PROVE  Inv'
    BY <2>2, PublishKeeps
  <2>3. CASE UNCHANGED vars
    BY <2>3 DEF vars, client, Inv, TypeOK, Fresh, NothingMissed, NothingAhead, List
  <2> QED
    BY <2>1, <2>2, <2>3 DEF Next
<1> QED
  BY <1>1, <1>2, PTL DEF Spec

-----------------------------------------------------------------------------
(* The theorems.                                                           *)

\* The types of the client's state and of the graph it reads.
THEOREM TypeCorrect == Spec => []TypeOK
<1>1. Inv => TypeOK
  BY DEF Inv
<1> QED
  BY <1>1, Invariant, PTL

\* A client that reads a growing list to its end has every item the list had
\* when it began, whatever limits it asked for.
THEOREM GrowingComplete == Spec => []GrowingListIsComplete
<1>1. Inv => GrowingListIsComplete
  BY DEF Inv, NothingMissed, Fresh, GrowingListIsComplete
<1> QED
  BY <1>1, Invariant, PTL

\* A client that reads a shrinking list has no item twice.
THEOREM ShrinkingUnrepeated == Spec => []ShrinkingListIsNotRepeated
<1>1. Inv => ShrinkingListIsNotRepeated
  BY DEF Inv, NothingAhead, Fresh, ShrinkingListIsNotRepeated
<1> QED
  BY <1>1, Invariant, PTL

=============================================================================
