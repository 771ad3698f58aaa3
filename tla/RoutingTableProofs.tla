------------------------- MODULE RoutingTableProofs -------------------------
(***************************************************************************)
(* Lemmas about the operators of module RoutingTable, for the tables of    *)
(* any node self: what every operation of routing.c keeps true of them.    *)
(***************************************************************************)
EXTENDS RoutingTable, TLAPS, WellFoundedInduction

USE DEF NO_NODE_ID, NO_NODE_INDEX

-----------------------------------------------------------------------------
(* Choosing least elements *)

\* A nonempty set of natural numbers has a least element; the searches of
\* routing.c for the first index and for the fewest hops rest on it.
LEMMA LeastElement ==
  ASSUME NEW T, T \subseteq Nat, T # {}
  PROVE  \E m \in T : \A k \in T : m <= k
<1> DEFINE Less == {pair \in Nat \X Nat : pair[1] < pair[2]}
<1>0. IsWellFoundedOn(Less, Nat)
  BY NatLessThanWellFounded DEF OpToRel
<1> HIDE DEF Less
<1>1. PICK m \in T : \A k \in T : ~(<<k, m>> \in Less)
  BY <1>0, WFMin
<1>2. ASSUME NEW k \in T PROVE m <= k
  <2>1. m \in Nat /\ k \in Nat
    OBVIOUS
  <2>2. ~(k < m)
    BY <1>1, <2>1 DEF Less
  <2> QED
    BY <2>1, <2>2
<1> QED
  BY <1>1, <1>2

\* FirstIndex returns an index of x if there is one (the loops of
\* get_recipient_index and get_neighbor_index).
LEMMA FirstIndexFound ==
  ASSUME NEW ids, DOMAIN ids \subseteq Nat, NEW x,
         \E i \in DOMAIN ids : ids[i] = x
  PROVE  FirstIndex(ids, x) \in DOMAIN ids /\ ids[FirstIndex(ids, x)] = x
<1> DEFINE T == {i \in DOMAIN ids : ids[i] = x}
<1>1. T \subseteq Nat /\ T # {}
  OBVIOUS
<1>2. \E m \in T : \A k \in T : m <= k
  BY <1>1, LeastElement
<1>3. \E i \in DOMAIN ids : ids[i] = x /\ \A j \in DOMAIN ids : ids[j] = x => i <= j
  BY <1>2
<1> QED
  BY <1>3 DEF FirstIndex

\* FirstIndex returns -1 exactly when x is stored nowhere.
LEMMA FirstIndexMissing ==
  ASSUME NEW ids, DOMAIN ids \subseteq Nat, NEW x
  PROVE  FirstIndex(ids, x) = NO_NODE_INDEX <=> \A i \in DOMAIN ids : ids[i] # x
<1>1. CASE \E i \in DOMAIN ids : ids[i] = x
  <2>1. FirstIndex(ids, x) \in Nat
    BY <1>1, FirstIndexFound
  <2> QED
    BY <1>1, <2>1
<1>2. CASE ~\E i \in DOMAIN ids : ids[i] = x
  BY <1>2 DEF FirstIndex
<1> QED
  BY <1>1, <1>2

-----------------------------------------------------------------------------
(* Choosing the column of a row *)

\* A column that may be used for a row: it offers a path with the fewest hops.
Best(neighbor_ids, row, j) ==
  /\ j \in Usable(neighbor_ids, row)
  /\ \A k \in Usable(neighbor_ids, row) : Len(row[j]) <= Len(row[k])

\* What is known of a column that offers a path.
LEMMA UsableFacts ==
  ASSUME NEW ids, NEW row \in [Neighbors -> Path], NEW j \in Usable(ids, row)
  PROVE  j \in Neighbors /\ j \in Nat /\ row[j] \in Seq(NodeID) /\ Len(row[j]) \in Nat
<1>1. j \in Neighbors /\ row[j] # INVALID_PATH
  BY DEF Usable
<1>2. row[j] \in Seq(NodeID)
  BY <1>1 DEF Path
<1> QED
  BY <1>1, <1>2, SizeAssumption DEF Neighbors

\* The scan of update_routing_given_new_path finds a column with the fewest hops.
LEMMA ScanFindsBest ==
  ASSUME NEW ids, NEW row \in [Neighbors -> Path], Usable(ids, row) # {}
  PROVE  Best(ids, row, ScanClosest(ids, row))
<1> DEFINE cols == Usable(ids, row)
<1> DEFINE lens == {Len(row[j]) : j \in cols}
<1>1. \A j \in cols : j \in Nat /\ Len(row[j]) \in Nat
  BY UsableFacts
<1>2. PICK h \in lens : \A l \in lens : h <= l
  <2>1. lens \subseteq Nat /\ lens # {}
    BY <1>1
  <2> QED
    BY <2>1, LeastElement
<1> DEFINE firsts == {j \in cols : Len(row[j]) = h}
<1>3. PICK m \in firsts : \A k \in firsts : m <= k
  <2>1. firsts \subseteq Nat /\ firsts # {}
    BY <1>1, <1>2
  <2> QED
    BY <2>1, LeastElement
<1>4. \A k \in cols : Len(row[m]) < Len(row[k]) \/ (Len(row[m]) = Len(row[k]) /\ m <= k)
  <2> SUFFICES ASSUME NEW k \in cols
               PROVE  Len(row[m]) < Len(row[k]) \/ (Len(row[m]) = Len(row[k]) /\ m <= k)
    OBVIOUS
  <2>1. Len(row[m]) = h /\ h \in Nat /\ Len(row[k]) \in Nat /\ h <= Len(row[k])
    BY <1>1, <1>2, <1>3
  <2>2. Len(row[k]) = h => m <= k
    BY <1>3
  <2> QED
    BY <2>1, <2>2
<1>5. m \in cols
  BY <1>3
<1> HIDE DEF cols
<1> DEFINE s == CHOOSE j \in cols :
         \A k \in cols : \/ Len(row[j]) < Len(row[k])
                         \/ Len(row[j]) = Len(row[k]) /\ j <= k
<1>6. ScanClosest(ids, row) = s
  BY <1>5 DEF ScanClosest, cols
<1>7. /\ s \in cols
      /\ \A k \in cols : Len(row[s]) < Len(row[k]) \/ (Len(row[s]) = Len(row[k]) /\ s <= k)
  BY <1>4, <1>5
<1> HIDE DEF s
<1>8. \A k \in cols : Len(row[s]) <= Len(row[k])
  BY <1>1, <1>7
<1> QED
  BY <1>6, <1>7, <1>8 DEF Best, cols

\* The column chosen for a row: -1 when no neighbor offers a path, otherwise one
\* with the fewest hops, whether or not the column used so far is kept.
LEMMA ClosestIsBest ==
  ASSUME NEW ids, NEW row \in [Neighbors -> Path], NEW old \in Neighbors \cup {NO_NODE_INDEX},
         old # NO_NODE_INDEX => ids[old] # NO_NODE_ID
  PROVE  /\ Usable(ids, row) = {} => ClosestNeighbor(ids, row, old) = NO_NODE_INDEX
         /\ Usable(ids, row) # {} => Best(ids, row, ClosestNeighbor(ids, row, old))
<1> DEFINE best == ScanClosest(ids, row)
<1>1. CASE Usable(ids, row) = {}
  <2>1. best = NO_NODE_INDEX
    BY <1>1 DEF ScanClosest
  <2> QED
    BY <1>1, <2>1 DEF ClosestNeighbor
<1>2. CASE Usable(ids, row) # {}
  <2>1. Best(ids, row, best)
    BY <1>2, ScanFindsBest
  <2>2. best # NO_NODE_INDEX
    BY <2>1, UsableFacts DEF Best
  <2>3. CASE old # NO_NODE_INDEX /\ row[old] # INVALID_PATH /\ Len(row[old]) = Len(row[best])
    <3>1. ClosestNeighbor(ids, row, old) = old
      BY <2>2, <2>3 DEF ClosestNeighbor
    <3>2. old \in Usable(ids, row)
      BY <2>3 DEF Usable
    <3> QED
      BY <1>2, <2>1, <2>3, <3>1, <3>2 DEF Best
  <2>4. CASE ~(old # NO_NODE_INDEX /\ row[old] # INVALID_PATH /\ Len(row[old]) = Len(row[best]))
    <3>1. ClosestNeighbor(ids, row, old) = best
      BY <2>4 DEF ClosestNeighbor
    <3> QED
      BY <1>2, <2>1, <3>1
  <2> QED
    BY <2>3, <2>4
<1> QED
  BY <1>1, <1>2
-----------------------------------------------------------------------------
(* Sound tables *)

\* No ID is stored at two indices.
Unique(ids) ==
  \A i, k \in DOMAIN ids : ids[i] # NO_NODE_ID /\ ids[i] = ids[k] => i = k

\* An allocated row is forwarded along a shortest path.
RowOK(t, i) ==
  t.recipient_ids[i] # NO_NODE_ID =>
    Best(t.neighbor_ids, t.routing_table[i], t.forwarding_table[i])

\* This node is in no stored path.
SelfFree(self, path) == \A k \in DOMAIN path : path[k] # self

RowSelfFree(self, t, i) ==
  t.recipient_ids[i] # NO_NODE_ID =>
    /\ t.recipient_ids[i] # self
    /\ \A j \in Neighbors : t.neighbor_ids[j] # NO_NODE_ID => SelfFree(self, t.routing_table[i][j])

\* What every table satisfies, also in the middle of an update.
Shape(self, t) ==
  /\ self \in NodeID
  /\ t \in Table
  /\ Unique(t.recipient_ids)
  /\ Unique(t.neighbor_ids)
  /\ \A j \in Neighbors : t.neighbor_ids[j] # self
  /\ \A i \in Recipients : RowSelfFree(self, t, i)

Sound(self, t) == Shape(self, t) /\ \A i \in Recipients : RowOK(t, i)

\* The fields of a table have the types the code's arrays have.
LEMMA TableFields ==
  ASSUME NEW t \in Table
  PROVE  /\ t.recipient_ids \in [Recipients -> NodeID \cup {NO_NODE_ID}]
         /\ t.neighbor_ids \in [Neighbors -> NodeID \cup {NO_NODE_ID}]
         /\ t.routing_table \in [Recipients -> [Neighbors -> Path]]
         /\ t.forwarding_table \in [Recipients -> Neighbors \cup {NO_NODE_INDEX}]
         /\ t = [recipient_ids |-> t.recipient_ids, neighbor_ids |-> t.neighbor_ids,
                 routing_table |-> t.routing_table, forwarding_table |-> t.forwarding_table]
BY DEF Table

\* INVALID_PATH is a path and not a sequence of node IDs.
LEMMA InvalidPathFacts ==
  /\ INVALID_PATH \in Path /\ ~(INVALID_PATH \in Seq(NodeID))
  /\ \A self \in NodeID : SelfFree(self, INVALID_PATH)
<1>1. INVALID_PATH[1] = -2 /\ DOMAIN INVALID_PATH = 1 .. 1
  BY DEF INVALID_PATH
<1>2. \A n \in NodeID : n # -2
  BY NodeIDAssumption
<1>3. ~(INVALID_PATH \in Seq(NodeID))
  <2> SUFFICES ASSUME INVALID_PATH \in Seq(NodeID) PROVE FALSE
    OBVIOUS
  <2>1. Len(INVALID_PATH) = 1
    BY DEF INVALID_PATH
  <2>2. INVALID_PATH[1] \in NodeID
    BY <2>1
  <2> QED
    BY <1>1, <1>2, <2>2
<1>4. \A self \in NodeID : SelfFree(self, INVALID_PATH)
  BY <1>1, <1>2 DEF SelfFree
<1> QED
  BY <1>3, <1>4 DEF Path

\* A column that offers nothing does not count, whether or not it is allocated.
LEMMA UsableWithout ==
  ASSUME NEW ids, NEW ids2, NEW row, NEW row2, NEW j,
         row2[j] = INVALID_PATH,
         ids[j] = NO_NODE_ID \/ row[j] = INVALID_PATH,
         \A k \in Neighbors : k # j => ids2[k] = ids[k] /\ row2[k] = row[k]
  PROVE  /\ Usable(ids2, row2) = Usable(ids, row)
         /\ \A k : Best(ids, row, k) => Best(ids2, row2, k)
<1>1. Usable(ids2, row2) = Usable(ids, row)
  BY DEF Usable
<1>2. \A k \in Usable(ids, row) : row2[k] = row[k]
  BY DEF Usable
<1> QED
  BY <1>1, <1>2 DEF Best
\* Storing an ID that is not stored yet keeps IDs unique.
LEMMA UniqueInsert ==
  ASSUME NEW ids, Unique(ids), NEW f, NEW x,
         \A k \in DOMAIN ids : ids[k] # x
  PROVE  Unique([ids EXCEPT ![f] = x])
<1> DEFINE new == [ids EXCEPT ![f] = x]
<1>1. DOMAIN new = DOMAIN ids
  OBVIOUS
<1>2. \A k \in DOMAIN ids : new[k] = IF k = f THEN x ELSE ids[k]
  OBVIOUS
<1> HIDE DEF new
<1>3. Unique(new)
  BY <1>1, <1>2 DEF Unique
<1> QED
  BY <1>3 DEF new

\* Freeing indices keeps IDs unique.
LEMMA UniqueErase ==
  ASSUME NEW ids, Unique(ids), NEW ids2, DOMAIN ids2 = DOMAIN ids,
         \A k \in DOMAIN ids : ids2[k] \in {ids[k], NO_NODE_ID}
  PROVE  Unique(ids2)
BY DEF Unique

-----------------------------------------------------------------------------
(* Allocating a column and a row *)

\* get_neighbor_index(.., true) on a sound table: the neighbor has a column, the
\* table stays sound, and nothing is visible to the rows there are.
LEMMA AddNeighborSound ==
  ASSUME NEW self, NEW t, Sound(self, t), NEW n \in NodeID \ {self}, HasRoom(t.neighbor_ids, n),
         NEW u, u = AddNeighbor(t, n)
  PROVE  /\ Sound(self, u)
         /\ get_neighbor_index(u, n) \in Neighbors
         /\ u.neighbor_ids[get_neighbor_index(u, n)] = n
         /\ \A j \in Neighbors : u.neighbor_ids[j] \in {t.neighbor_ids[j], n}
         /\ u.recipient_ids = t.recipient_ids
         /\ u.forwarding_table = t.forwarding_table
         /\ \A i \in Recipients : \A j \in Neighbors :
              t.neighbor_ids[j] # NO_NODE_ID => u.routing_table[i][j] = t.routing_table[i][j]
<1> DEFINE old == get_neighbor_index(t, n)
           free == FirstIndex(t.neighbor_ids, NO_NODE_ID)
<1>0. t \in Table /\ MAX_NEIGHBORS \in Nat /\ n \in NodeID /\ n # self /\ n # NO_NODE_ID
      /\ self \in NodeID
  BY SizeAssumption, NodeIDAssumption DEF Sound, Shape
<1>t. /\ t.recipient_ids \in [Recipients -> NodeID \cup {NO_NODE_ID}]
      /\ t.neighbor_ids \in [Neighbors -> NodeID \cup {NO_NODE_ID}]
      /\ t.routing_table \in [Recipients -> [Neighbors -> Path]]
      /\ t.forwarding_table \in [Recipients -> Neighbors \cup {NO_NODE_INDEX}]
      /\ DOMAIN t.neighbor_ids = Neighbors /\ Neighbors \subseteq Nat
  BY <1>0, TableFields DEF Neighbors
<1>1. CASE old # NO_NODE_INDEX
  <2>1. u = t
    BY <1>1 DEF AddNeighbor
  <2>2. \E i \in DOMAIN t.neighbor_ids : t.neighbor_ids[i] = n
    BY <1>1, <1>0, <1>t, FirstIndexMissing DEF get_neighbor_index
  <2>3. old \in Neighbors /\ t.neighbor_ids[old] = n
    BY <1>0, <1>t, <2>2, FirstIndexFound DEF get_neighbor_index
  <2> QED
    BY <2>1, <2>3
<1>2. CASE old = NO_NODE_INDEX
  <2>1. \A j \in Neighbors : t.neighbor_ids[j] # n
    BY <1>2, <1>0, <1>t, FirstIndexMissing DEF get_neighbor_index
  <2>2. \E j \in DOMAIN t.neighbor_ids : t.neighbor_ids[j] = NO_NODE_ID
    BY <2>1, <1>t DEF HasRoom
  <2>3. free \in Neighbors /\ t.neighbor_ids[free] = NO_NODE_ID
    BY <1>0, <1>t, <2>2, FirstIndexFound
  <2> HIDE DEF free
  <2>4. u = [t EXCEPT !.neighbor_ids[free] = n,
                      !.routing_table = [i \in Recipients |->
                           [t.routing_table[i] EXCEPT ![free] = INVALID_PATH]]]
    BY <1>2 DEF AddNeighbor, free
  <2>5. /\ u.recipient_ids = t.recipient_ids
        /\ u.forwarding_table = t.forwarding_table
        /\ u.neighbor_ids = [t.neighbor_ids EXCEPT ![free] = n]
        /\ u.routing_table = [i \in Recipients |->
                                [t.routing_table[i] EXCEPT ![free] = INVALID_PATH]]
        /\ u = [recipient_ids |-> u.recipient_ids, neighbor_ids |-> u.neighbor_ids,
                routing_table |-> u.routing_table, forwarding_table |-> u.forwarding_table]
    <3>1. t = [recipient_ids |-> t.recipient_ids, neighbor_ids |-> t.neighbor_ids,
               routing_table |-> t.routing_table, forwarding_table |-> t.forwarding_table]
      BY <1>0, TableFields
    <3> QED
      BY ONLY <2>4, <3>1
  <2> HIDE DEF old
  <2>6. u \in Table
    <3>1. u.neighbor_ids \in [Neighbors -> NodeID \cup {NO_NODE_ID}]
      BY <2>5, <1>0, <1>t
    <3>2. u.routing_table \in [Recipients -> [Neighbors -> Path]]
      <4>1. ASSUME NEW i \in Recipients
            PROVE  [t.routing_table[i] EXCEPT ![free] = INVALID_PATH] \in [Neighbors -> Path]
        BY <1>t, InvalidPathFacts
      <4> QED
        BY <2>5, <4>1
    <3> QED
      BY <2>5, <3>1, <3>2, <1>t DEF Table
  <2>7. Unique(u.neighbor_ids) /\ Unique(u.recipient_ids)
    <3>1. Unique(t.neighbor_ids) /\ Unique(t.recipient_ids)
      BY DEF Sound, Shape
    <3>2. Unique([t.neighbor_ids EXCEPT ![free] = n])
      BY <2>1, <3>1, <1>t, UniqueInsert
    <3> QED
      BY <2>5, <3>1, <3>2
  <2>8. \A j \in Neighbors : u.neighbor_ids[j] # self
    BY <2>5, <1>0, <1>t DEF Sound, Shape
  <2>9. \A i \in Recipients : \A j \in Neighbors :
           /\ j # free => u.routing_table[i][j] = t.routing_table[i][j]
           /\ j = free => u.routing_table[i][j] = INVALID_PATH
    BY <2>5, <1>t
  <2>10. \A i \in Recipients : RowSelfFree(self, u, i)
    BY <2>5, <2>9, <1>0, <1>t, InvalidPathFacts DEF RowSelfFree, Sound, Shape
  <2>11. \A i \in Recipients : RowOK(u, i)
    <3> SUFFICES ASSUME NEW i \in Recipients, t.recipient_ids[i] # NO_NODE_ID
                 PROVE  Best(u.neighbor_ids, u.routing_table[i], t.forwarding_table[i])
      BY <2>5 DEF RowOK
    <3>1. Best(t.neighbor_ids, t.routing_table[i], t.forwarding_table[i])
      BY DEF Sound, RowOK
    <3>2. \A k \in Neighbors : k # free => /\ u.neighbor_ids[k] = t.neighbor_ids[k]
                                           /\ u.routing_table[i][k] = t.routing_table[i][k]
      BY <2>5, <2>9, <1>t
    <3> QED
      <4>1. u.routing_table[i][free] = INVALID_PATH
        BY <2>3, <2>9
      <4> QED
        BY ONLY <2>3, <3>1, <3>2, <4>1, UsableWithout, SMTT(30)
  <2>12. u.neighbor_ids[free] = n /\ DOMAIN u.neighbor_ids = Neighbors
    BY <2>3, <2>5, <1>t
  <2>13. get_neighbor_index(u, n) \in Neighbors /\ u.neighbor_ids[get_neighbor_index(u, n)] = n
    BY <1>0, <1>t, <2>3, <2>12, FirstIndexFound DEF get_neighbor_index
  <2> QED
    BY <2>3, <2>5, <2>6, <2>7, <2>8, <2>9, <2>10, <2>11, <2>13 DEF Sound, Shape
<1> QED
  BY <1>1, <1>2

\* A table with a row for the recipient of an update: only that row may lack a
\* path, and the column it was forwarded to, if any, exists.
Ready(self, t, row) ==
  /\ Shape(self, t)
  /\ row \in Recipients
  /\ t.recipient_ids[row] # NO_NODE_ID
  /\ \A i \in Recipients \ {row} : RowOK(t, i)
  /\ t.forwarding_table[row] # NO_NODE_INDEX =>
       t.neighbor_ids[t.forwarding_table[row]] # NO_NODE_ID

\* get_recipient_index(.., true) on a sound table: the recipient has a row, new
\* or old, and the other rows and the columns are as before.
LEMMA AddRecipientReady ==
  ASSUME NEW self, NEW t, Sound(self, t), NEW r \in NodeID \ {self}, HasRoom(t.recipient_ids, r),
         NEW u, u = AddRecipient(t, r),
         NEW row, row = get_recipient_index(u, r)
  PROVE  /\ Ready(self, u, row)
         /\ u.recipient_ids[row] = r
         /\ u.neighbor_ids = t.neighbor_ids
         /\ \/ u = t
            \/ /\ get_recipient_index(t, r) = NO_NODE_INDEX
               /\ t.recipient_ids[row] = NO_NODE_ID
               /\ u.forwarding_table[row] = NO_NODE_INDEX
         /\ \A i \in Recipients \ {row} : /\ u.recipient_ids[i] = t.recipient_ids[i]
                                          /\ u.routing_table[i] = t.routing_table[i]
                                          /\ u.forwarding_table[i] = t.forwarding_table[i]
<1> DEFINE old == get_recipient_index(t, r)
           free == FirstIndex(t.recipient_ids, NO_NODE_ID)
           none == [j \in Neighbors |-> INVALID_PATH]
<1>0. t \in Table /\ MAX_RECIPIENTS \in Nat /\ r \in NodeID /\ r # self /\ r # NO_NODE_ID
      /\ self \in NodeID
  BY SizeAssumption, NodeIDAssumption DEF Sound, Shape
<1>t. /\ t.recipient_ids \in [Recipients -> NodeID \cup {NO_NODE_ID}]
      /\ t.neighbor_ids \in [Neighbors -> NodeID \cup {NO_NODE_ID}]
      /\ t.routing_table \in [Recipients -> [Neighbors -> Path]]
      /\ t.forwarding_table \in [Recipients -> Neighbors \cup {NO_NODE_INDEX}]
      /\ DOMAIN t.recipient_ids = Recipients /\ Recipients \subseteq Nat
  BY <1>0, TableFields DEF Recipients
<1>1. CASE old # NO_NODE_INDEX
  <2>1. u = t
    BY <1>1 DEF AddRecipient
  <2>2. \E i \in DOMAIN t.recipient_ids : t.recipient_ids[i] = r
    BY <1>1, <1>0, <1>t, FirstIndexMissing DEF get_recipient_index
  <2>3. row \in Recipients /\ t.recipient_ids[row] = r
    BY <1>0, <1>t, <2>1, <2>2, FirstIndexFound DEF get_recipient_index
  <2>4. t.neighbor_ids[t.forwarding_table[row]] # NO_NODE_ID
    BY <2>3, <1>0 DEF Sound, RowOK, Best, Usable
  <2> QED
    BY <1>0, <2>1, <2>3, <2>4 DEF Ready, Sound
<1>2. CASE old = NO_NODE_INDEX
  <2>1. \A i \in Recipients : t.recipient_ids[i] # r
    BY <1>2, <1>0, <1>t, FirstIndexMissing DEF get_recipient_index
  <2>2. \E i \in DOMAIN t.recipient_ids : t.recipient_ids[i] = NO_NODE_ID
    BY <2>1, <1>t DEF HasRoom
  <2>3. free \in Recipients /\ t.recipient_ids[free] = NO_NODE_ID
    BY <1>0, <1>t, <2>2, FirstIndexFound
  <2> HIDE DEF free
  <2>4. u = ReplaceRow(t, free, r, none, NO_NODE_INDEX)
    BY <1>2 DEF AddRecipient, free
  <2>n. none \in [Neighbors -> Path] /\ \A j \in Neighbors : none[j] = INVALID_PATH
    BY InvalidPathFacts
  <2> HIDE DEF old, none
  <2>5. /\ u.recipient_ids = [t.recipient_ids EXCEPT ![free] = r]
        /\ u.neighbor_ids = t.neighbor_ids
        /\ u.routing_table = [t.routing_table EXCEPT ![free] = none]
        /\ u.forwarding_table = [t.forwarding_table EXCEPT ![free] = NO_NODE_INDEX]
        /\ u = [recipient_ids |-> u.recipient_ids, neighbor_ids |-> u.neighbor_ids,
                routing_table |-> u.routing_table, forwarding_table |-> u.forwarding_table]
    BY <2>4 DEF ReplaceRow
  <2>6. u \in Table
    <3>1. u.recipient_ids \in [Recipients -> NodeID \cup {NO_NODE_ID}]
      BY <2>5, <1>0, <1>t, Zenon
    <3>2. u.routing_table \in [Recipients -> [Neighbors -> Path]]
      BY <2>5, <2>n, <1>t
    <3>3. u.forwarding_table \in [Recipients -> Neighbors \cup {NO_NODE_INDEX}]
      BY <2>5, <1>t
    <3> QED
      BY <2>5, <3>1, <3>2, <3>3, <1>t DEF Table
  <2>7. Unique(u.neighbor_ids) /\ Unique(u.recipient_ids)
    <3>1. Unique(t.neighbor_ids) /\ Unique(t.recipient_ids)
      BY DEF Sound, Shape
    <3>2. Unique([t.recipient_ids EXCEPT ![free] = r])
      BY <2>1, <3>1, <1>t, UniqueInsert
    <3> QED
      BY <2>5, <3>1, <3>2
  <2>8. row = free
    <3>1. DOMAIN u.recipient_ids = Recipients /\ free \in DOMAIN u.recipient_ids
      BY <2>3, <2>5, <1>t
    <3>2. u.recipient_ids[free] = r /\ \A k \in DOMAIN u.recipient_ids : u.recipient_ids[k] = r => k = free
      BY <2>1, <2>3, <2>5, <1>t
    <3>3. FirstIndex(u.recipient_ids, r) \in DOMAIN u.recipient_ids
          /\ u.recipient_ids[FirstIndex(u.recipient_ids, r)] = r
      BY <1>t, <3>1, <3>2, FirstIndexFound
    <3> QED
      BY <3>2, <3>3 DEF get_recipient_index
  <2>9. \A i \in Recipients \ {row} : /\ u.recipient_ids[i] = t.recipient_ids[i]
                                      /\ u.routing_table[i] = t.routing_table[i]
                                      /\ u.forwarding_table[i] = t.forwarding_table[i]
    BY <2>5, <2>8, <1>t
  <2>10. /\ u.recipient_ids[row] = r
         /\ u.routing_table[row] = none
         /\ u.forwarding_table[row] = NO_NODE_INDEX
    BY <2>3, <2>5, <2>8, <1>t
  <2>11. \A i \in Recipients : RowSelfFree(self, u, i)
    <3>1. \A i \in Recipients \ {row} : RowSelfFree(self, u, i)
      BY <2>5, <2>9 DEF RowSelfFree, Sound, Shape
    <3>2. RowSelfFree(self, u, row)
      BY <2>10, <2>n, <1>0, InvalidPathFacts DEF RowSelfFree
    <3> QED
      BY <3>1, <3>2
  <2>12. \A i \in Recipients \ {row} : RowOK(u, i)
    BY <2>5, <2>9 DEF RowOK, Sound
  <2>13. Shape(self, u)
    BY <2>5, <2>6, <2>7, <2>11 DEF Shape, Sound
  <2> QED
    BY <1>0, <1>2, <2>3, <2>5, <2>8, <2>9, <2>10, <2>12, <2>13 DEF Ready, old
<1> QED
  BY <1>1, <1>2

-----------------------------------------------------------------------------
(* Updating a row *)

\* The second half of update_routing_given_new_path: after the path is stored, the
\* best column chosen and the row freed if it has none, the table is sound and the
\* other rows are as before.
LEMMA SetPathSound ==
  ASSUME NEW self, NEW t, NEW row, Ready(self, t, row),
         NEW col \in Neighbors, NEW path \in Path, SelfFree(self, path),
         NEW u, u = SetPath(t, row, col, path)
  PROVE  /\ Sound(self, u)
         /\ u.neighbor_ids = t.neighbor_ids
         /\ \A i \in Recipients \ {row} : /\ u.recipient_ids[i] = t.recipient_ids[i]
                                          /\ u.routing_table[i] = t.routing_table[i]
                                          /\ u.forwarding_table[i] = t.forwarding_table[i]
         /\ u.recipient_ids[row] = IF u.forwarding_table[row] = NO_NODE_INDEX
                                   THEN NO_NODE_ID ELSE t.recipient_ids[row]
<1> DEFINE new == [t.routing_table[row] EXCEPT ![col] = path]
           best == ClosestNeighbor(t.neighbor_ids, new, t.forwarding_table[row])
           id == IF best = NO_NODE_INDEX THEN NO_NODE_ID ELSE t.recipient_ids[row]
<1>0. t \in Table /\ row \in Recipients
  BY DEF Ready, Shape
<1>t. /\ t.recipient_ids \in [Recipients -> NodeID \cup {NO_NODE_ID}]
      /\ t.neighbor_ids \in [Neighbors -> NodeID \cup {NO_NODE_ID}]
      /\ t.routing_table \in [Recipients -> [Neighbors -> Path]]
      /\ t.forwarding_table \in [Recipients -> Neighbors \cup {NO_NODE_INDEX}]
  BY <1>0, TableFields
<1>1. u = ReplaceRow(t, row, id, new, best)
  BY DEF SetPath
<1>2. new \in [Neighbors -> Path] /\ new[col] = path
      /\ \A j \in Neighbors : j # col => new[j] = t.routing_table[row][j]
  BY <1>0, <1>t
<1> HIDE DEF new
<1>3. /\ Usable(t.neighbor_ids, new) = {} => best = NO_NODE_INDEX
      /\ Usable(t.neighbor_ids, new) # {} => Best(t.neighbor_ids, new, best)
  BY <1>0, <1>t, <1>2, ClosestIsBest DEF Ready
<1>4. best \in Neighbors \cup {NO_NODE_INDEX}
      /\ (best # NO_NODE_INDEX => Best(t.neighbor_ids, new, best))
  BY <1>3 DEF Best, Usable
<1> HIDE DEF best
<1>5. id \in NodeID \cup {NO_NODE_ID} /\ id \in {t.recipient_ids[row], NO_NODE_ID}
      /\ (id # NO_NODE_ID => best # NO_NODE_INDEX)
  BY <1>0, <1>t
<1> HIDE DEF id
<1>6. /\ u.recipient_ids = [t.recipient_ids EXCEPT ![row] = id]
      /\ u.neighbor_ids = t.neighbor_ids
      /\ u.routing_table = [t.routing_table EXCEPT ![row] = new]
      /\ u.forwarding_table = [t.forwarding_table EXCEPT ![row] = best]
      /\ u = [recipient_ids |-> u.recipient_ids, neighbor_ids |-> u.neighbor_ids,
              routing_table |-> u.routing_table, forwarding_table |-> u.forwarding_table]
  BY <1>1 DEF ReplaceRow
<1>7. /\ u.recipient_ids \in [Recipients -> NodeID \cup {NO_NODE_ID}]
      /\ u.routing_table \in [Recipients -> [Neighbors -> Path]]
      /\ u.forwarding_table \in [Recipients -> Neighbors \cup {NO_NODE_INDEX}]
  <2>0. /\ u.recipient_ids = [t.recipient_ids EXCEPT ![row] = id]
        /\ u.routing_table = [t.routing_table EXCEPT ![row] = new]
        /\ id \in NodeID \cup {NO_NODE_ID} /\ new \in [Neighbors -> Path]
    BY <1>2, <1>5, <1>6
  <2>1. u.recipient_ids \in [Recipients -> NodeID \cup {NO_NODE_ID}]
    BY <2>0, <1>t
  <2>2. u.routing_table \in [Recipients -> [Neighbors -> Path]]
    BY <2>0, <1>t
  <2>3. u.forwarding_table \in [Recipients -> Neighbors \cup {NO_NODE_INDEX}]
    BY <1>4, <1>6, <1>t
  <2> QED
    BY <2>1, <2>2, <2>3
<1>8. u \in Table
  BY <1>6, <1>7, <1>t DEF Table
<1>9. \A i \in Recipients \ {row} : /\ u.recipient_ids[i] = t.recipient_ids[i]
                                    /\ u.routing_table[i] = t.routing_table[i]
                                    /\ u.forwarding_table[i] = t.forwarding_table[i]
  BY <1>6, <1>t
<1>10. u.recipient_ids[row] = id /\ u.routing_table[row] = new /\ u.forwarding_table[row] = best
  BY <1>0, <1>6, <1>t
<1>11. Unique(u.recipient_ids) /\ Unique(u.neighbor_ids)
  <2>1. Unique(t.recipient_ids) /\ Unique(t.neighbor_ids)
    BY DEF Ready, Shape
  <2>2. DOMAIN u.recipient_ids = DOMAIN t.recipient_ids
        /\ \A k \in DOMAIN t.recipient_ids : u.recipient_ids[k] \in {t.recipient_ids[k], NO_NODE_ID}
    BY <1>5, <1>9, <1>10, <1>7, <1>t
  <2> QED
    BY <1>6, <2>1, <2>2, UniqueErase
<1>12. \A i \in Recipients : RowSelfFree(self, u, i)
  <2>1. \A i \in Recipients \ {row} : RowSelfFree(self, u, i)
    BY <1>6, <1>9 DEF RowSelfFree, Ready, Shape
  <2>2. RowSelfFree(self, u, row)
    BY <1>0, <1>2, <1>5, <1>6, <1>10 DEF RowSelfFree, Ready, Shape
  <2> QED
    BY <2>1, <2>2
<1>13. \A i \in Recipients : RowOK(u, i)
  <2>1. \A i \in Recipients \ {row} : RowOK(u, i)
    BY <1>6, <1>9 DEF RowOK, Ready
  <2>2. RowOK(u, row)
    BY <1>4, <1>5, <1>6, <1>10 DEF RowOK
  <2> QED
    BY <2>1, <2>2
<1>14. Sound(self, u)
  BY <1>6, <1>8, <1>11, <1>12, <1>13 DEF Sound, Shape, Ready
<1> QED
  BY <1>6, <1>9, <1>10, <1>14 DEF id

\* update_routing_given_new_path as a whole.  Either the recipient had a row, whose
\* best path is still what it was when the new path is stored, or it had none.
LEMMA UpdateSound ==
  ASSUME NEW self, NEW t, Sound(self, t),
         NEW n \in NodeID \ {self}, NEW r \in NodeID \ {self},
         NEW path \in Path, HasRoom(t.neighbor_ids, n), HasRoom(t.recipient_ids, r),
         NEW p, p = Prepared(t, n, r),
         NEW row, row = get_recipient_index(p, r),
         NEW u, u = update_routing_given_new_path(self, t, n, r, path)
  PROVE  /\ Sound(self, u)
         /\ \A j \in Neighbors : u.neighbor_ids[j] \in {t.neighbor_ids[j], n}
         /\ row \in Recipients
         /\ u.recipient_ids[row] = IF u.forwarding_table[row] = NO_NODE_INDEX
                                   THEN NO_NODE_ID ELSE r
         /\ \/ /\ t.recipient_ids[row] = r
               /\ p.forwarding_table[row] = t.forwarding_table[row]
               /\ p.routing_table[row][t.forwarding_table[row]] =
                    t.routing_table[row][t.forwarding_table[row]]
            \/ /\ get_recipient_index(t, r) = NO_NODE_INDEX
               /\ t.recipient_ids[row] = NO_NODE_ID
               /\ p.forwarding_table[row] = NO_NODE_INDEX
         /\ \A i \in Recipients \ {row} :
              /\ u.recipient_ids[i] = t.recipient_ids[i]
              /\ u.forwarding_table[i] = t.forwarding_table[i]
              /\ t.recipient_ids[i] # NO_NODE_ID =>
                   u.routing_table[i][u.forwarding_table[i]] =
                     t.routing_table[i][t.forwarding_table[i]]
<1> DEFINE a == AddNeighbor(t, n)
           col == get_neighbor_index(p, n)
           stored == Sanitise(self, path)
<1>1. /\ Sound(self, a)
      /\ \A j \in Neighbors : a.neighbor_ids[j] \in {t.neighbor_ids[j], n}
      /\ get_neighbor_index(a, n) \in Neighbors
      /\ a.recipient_ids = t.recipient_ids
      /\ a.forwarding_table = t.forwarding_table
      /\ \A i \in Recipients : \A j \in Neighbors :
           t.neighbor_ids[j] # NO_NODE_ID => a.routing_table[i][j] = t.routing_table[i][j]
  BY AddNeighborSound
<1>2. p = AddRecipient(a, r)
  BY DEF Prepared
<1> HIDE DEF a
<1>3. /\ Ready(self, p, row)
      /\ p.recipient_ids[row] = r
      /\ p.neighbor_ids = a.neighbor_ids
      /\ \/ p = a
         \/ /\ get_recipient_index(a, r) = NO_NODE_INDEX
            /\ a.recipient_ids[row] = NO_NODE_ID
            /\ p.forwarding_table[row] = NO_NODE_INDEX
      /\ \A i \in Recipients \ {row} : /\ p.recipient_ids[i] = a.recipient_ids[i]
                                       /\ p.routing_table[i] = a.routing_table[i]
                                       /\ p.forwarding_table[i] = a.forwarding_table[i]
  <2>1. HasRoom(a.recipient_ids, r)
    BY <1>1
  <2> QED
    BY <1>1, <1>2, <2>1, AddRecipientReady
<1>4. col \in Neighbors
  BY <1>1, <1>3 DEF get_neighbor_index
<1>5. stored \in Path /\ SelfFree(self, stored)
  <2>1. self \in NodeID
    BY DEF Sound, Shape
  <2> QED
    BY <2>1, InvalidPathFacts DEF Sanitise, SelfFree
<1>6. u = SetPath(p, row, col, stored)
  BY DEF update_routing_given_new_path
<1> HIDE DEF col, stored
<1>7. /\ Sound(self, u)
      /\ u.neighbor_ids = p.neighbor_ids
      /\ \A i \in Recipients \ {row} : /\ u.recipient_ids[i] = p.recipient_ids[i]
                                       /\ u.routing_table[i] = p.routing_table[i]
                                       /\ u.forwarding_table[i] = p.forwarding_table[i]
      /\ u.recipient_ids[row] = IF u.forwarding_table[row] = NO_NODE_INDEX
                                THEN NO_NODE_ID ELSE p.recipient_ids[row]
  BY <1>3, <1>4, <1>5, <1>6, SetPathSound
<1>8. row \in Recipients
  BY <1>3 DEF Ready
<1>9. \A i \in Recipients : t.recipient_ids[i] # NO_NODE_ID =>
         a.routing_table[i][t.forwarding_table[i]] = t.routing_table[i][t.forwarding_table[i]]
  <2> SUFFICES ASSUME NEW i \in Recipients, t.recipient_ids[i] # NO_NODE_ID
               PROVE  a.routing_table[i][t.forwarding_table[i]] =
                        t.routing_table[i][t.forwarding_table[i]]
    OBVIOUS
  <2>1. t.forwarding_table[i] \in Usable(t.neighbor_ids, t.routing_table[i])
    BY DEF Sound, RowOK, Best
  <2> QED
    BY <1>1, <2>1 DEF Usable
<1>10. r # NO_NODE_ID
  BY NodeIDAssumption
<1>11. \A i \in Recipients \ {row} :
         /\ u.recipient_ids[i] = t.recipient_ids[i]
         /\ u.forwarding_table[i] = t.forwarding_table[i]
         /\ t.recipient_ids[i] # NO_NODE_ID =>
              u.routing_table[i][u.forwarding_table[i]] =
                t.routing_table[i][t.forwarding_table[i]]
  BY <1>1, <1>3, <1>7, <1>9
<1>12. CASE p = a
  BY <1>1, <1>3, <1>7, <1>8, <1>9, <1>10, <1>11, <1>12
<1>13. CASE p # a
  BY <1>1, <1>3, <1>7, <1>8, <1>11, <1>13 DEF get_recipient_index
<1> QED
  BY <1>12, <1>13

-----------------------------------------------------------------------------
(* Removing a neighbor *)

\* remove_routing_neighbor on a sound table: the table stays sound, and a row is
\* freed exactly when no column is left for it.
LEMMA RemoveSound ==
  ASSUME NEW self, NEW t, Sound(self, t), NEW n \in NodeID,
         get_neighbor_index(t, n) # NO_NODE_INDEX,
         NEW u, u = remove_routing_neighbor(t, n)
  PROVE  /\ Sound(self, u)
         /\ \A j \in Neighbors : /\ u.neighbor_ids[j] \in {t.neighbor_ids[j], NO_NODE_ID}
                                 /\ u.neighbor_ids[j] # n
         /\ \A i \in Recipients :
              u.recipient_ids[i] = IF /\ t.recipient_ids[i] # NO_NODE_ID
                                      /\ u.forwarding_table[i] = NO_NODE_INDEX
                                   THEN NO_NODE_ID ELSE t.recipient_ids[i]
<1> DEFINE j == get_neighbor_index(t, n)
           rows == [i \in Recipients |->
                      IF t.recipient_ids[i] # NO_NODE_ID
                      THEN [t.routing_table[i] EXCEPT ![j] = INVALID_PATH]
                      ELSE t.routing_table[i]]
           best == [i \in Recipients |->
                      IF t.recipient_ids[i] # NO_NODE_ID
                      THEN ClosestNeighbor(t.neighbor_ids, rows[i], t.forwarding_table[i])
                      ELSE t.forwarding_table[i]]
           recs == [i \in Recipients |-> IF best[i] = NO_NODE_INDEX THEN NO_NODE_ID
                                         ELSE t.recipient_ids[i]]
           cols == [t.neighbor_ids EXCEPT ![j] = NO_NODE_ID]
<1>0. t \in Table /\ MAX_NEIGHBORS \in Nat
  BY SizeAssumption DEF Sound, Shape
<1>t. /\ t.recipient_ids \in [Recipients -> NodeID \cup {NO_NODE_ID}]
      /\ t.neighbor_ids \in [Neighbors -> NodeID \cup {NO_NODE_ID}]
      /\ t.routing_table \in [Recipients -> [Neighbors -> Path]]
      /\ t.forwarding_table \in [Recipients -> Neighbors \cup {NO_NODE_INDEX}]
      /\ DOMAIN t.neighbor_ids = Neighbors /\ Neighbors \subseteq Nat
  BY <1>0, TableFields DEF Neighbors
<1>1. j \in Neighbors /\ t.neighbor_ids[j] = n
  <2>1. \E i \in DOMAIN t.neighbor_ids : t.neighbor_ids[i] = n
    BY <1>0, <1>t, FirstIndexMissing DEF get_neighbor_index
  <2> QED
    BY <1>0, <1>t, <2>1, FirstIndexFound DEF get_neighbor_index
<1>2. u = [recipient_ids |-> recs, neighbor_ids |-> cols,
           routing_table |-> rows, forwarding_table |-> best]
  BY DEF remove_routing_neighbor
<1> HIDE DEF j
<1>3. \A i \in Recipients :
        /\ t.recipient_ids[i] # NO_NODE_ID =>
             /\ rows[i] = [t.routing_table[i] EXCEPT ![j] = INVALID_PATH]
             /\ best[i] = ClosestNeighbor(t.neighbor_ids, rows[i], t.forwarding_table[i])
        /\ t.recipient_ids[i] = NO_NODE_ID =>
             rows[i] = t.routing_table[i] /\ best[i] = t.forwarding_table[i]
        /\ recs[i] = IF best[i] = NO_NODE_INDEX THEN NO_NODE_ID ELSE t.recipient_ids[i]
  OBVIOUS
<1>4. DOMAIN rows = Recipients /\ DOMAIN best = Recipients /\ DOMAIN recs = Recipients
  OBVIOUS
<1>f. rows = [i \in Recipients |-> rows[i]] /\ best = [i \in Recipients |-> best[i]]
      /\ recs = [i \in Recipients |-> recs[i]]
  OBVIOUS
<1>5. /\ cols \in [Neighbors -> NodeID \cup {NO_NODE_ID}] /\ cols[j] = NO_NODE_ID
      /\ \A k \in Neighbors : k # j => cols[k] = t.neighbor_ids[k]
  BY <1>1, <1>t
<1> HIDE DEF rows, best, recs, cols
<1>6. /\ u.recipient_ids = recs /\ u.neighbor_ids = cols
      /\ u.routing_table = rows /\ u.forwarding_table = best
  BY <1>2
<1>7. \A i \in Recipients :
        /\ rows[i] \in [Neighbors -> Path]
        /\ t.recipient_ids[i] # NO_NODE_ID =>
             /\ rows[i][j] = INVALID_PATH
             /\ \A k \in Neighbors : k # j => rows[i][k] = t.routing_table[i][k]
  <2> SUFFICES ASSUME NEW i \in Recipients
               PROVE  /\ rows[i] \in [Neighbors -> Path]
                      /\ t.recipient_ids[i] # NO_NODE_ID =>
                           /\ rows[i][j] = INVALID_PATH
                           /\ \A k \in Neighbors : k # j => rows[i][k] = t.routing_table[i][k]
    OBVIOUS
  <2>1. t.routing_table[i] \in [Neighbors -> Path]
    BY <1>t
  <2>2. CASE t.recipient_ids[i] = NO_NODE_ID
    BY <2>1, <2>2, <1>3
  <2>3. CASE t.recipient_ids[i] # NO_NODE_ID
    <3>1. rows[i] = [t.routing_table[i] EXCEPT ![j] = INVALID_PATH]
      BY <2>3, <1>3
    <3> QED
      BY <2>1, <3>1, <1>1, InvalidPathFacts
  <2> QED
    BY <2>2, <2>3
<1>8. ASSUME NEW i \in Recipients
      PROVE  /\ best[i] \in Neighbors \cup {NO_NODE_INDEX}
             /\ recs[i] # NO_NODE_ID => Best(cols, rows[i], best[i])
  <2>1. CASE t.recipient_ids[i] = NO_NODE_ID
    BY <2>1, <1>3, <1>t
  <2>2. CASE t.recipient_ids[i] # NO_NODE_ID
    <3>1. t.forwarding_table[i] \in Usable(t.neighbor_ids, t.routing_table[i])
      BY <2>2 DEF Sound, RowOK, Best
    <3>2. t.neighbor_ids[t.forwarding_table[i]] # NO_NODE_ID /\ t.forwarding_table[i] \in Neighbors
      BY <3>1 DEF Usable
    <3>3. /\ Usable(t.neighbor_ids, rows[i]) = {} => best[i] = NO_NODE_INDEX
          /\ Usable(t.neighbor_ids, rows[i]) # {} => Best(t.neighbor_ids, rows[i], best[i])
      <4>1. best[i] = ClosestNeighbor(t.neighbor_ids, rows[i], t.forwarding_table[i])
        BY <2>2, <1>3
      <4>2. rows[i] \in [Neighbors -> Path]
        BY <1>7
      <4> QED
        BY <3>2, <4>1, <4>2, ClosestIsBest
    <3>4. best[i] # NO_NODE_INDEX => Best(cols, rows[i], best[i])
      <4>1. rows[i][j] = INVALID_PATH
            /\ \A k \in Neighbors : k # j => cols[k] = t.neighbor_ids[k]
        BY <2>2, <1>5, <1>7
      <4>2. cols[j] = NO_NODE_ID
        BY <1>5
      <4>3. Usable(cols, rows[i]) = Usable(t.neighbor_ids, rows[i])
        BY <4>1, <4>2 DEF Usable
      <4> QED
        BY <3>3, <4>3 DEF Best
    <3> QED
      BY <2>2, <3>3, <3>4, <1>3 DEF Best, Usable
  <2> QED
    BY <2>1, <2>2
<1>9. u \in Table
  <2>1. \A i \in Recipients : recs[i] \in NodeID \cup {NO_NODE_ID}
    BY <1>3, <1>t
  <2>2. recs \in [Recipients -> NodeID \cup {NO_NODE_ID}]
    BY <1>f, <2>1
  <2>3. rows \in [Recipients -> [Neighbors -> Path]]
    BY <1>f, <1>7
  <2>4. best \in [Recipients -> Neighbors \cup {NO_NODE_INDEX}]
    BY <1>f, <1>8
  <2> QED
    BY <1>2, <1>5, <2>2, <2>3, <2>4 DEF Table
<1>10. Unique(recs) /\ Unique(cols)
  <2>1. Unique(t.recipient_ids) /\ Unique(t.neighbor_ids)
    BY DEF Sound, Shape
  <2>2. \A k \in Recipients : recs[k] \in {t.recipient_ids[k], NO_NODE_ID}
    BY <1>3
  <2>3. \A k \in Neighbors : cols[k] \in {t.neighbor_ids[k], NO_NODE_ID}
    BY <1>5
  <2>4. /\ DOMAIN recs = Recipients /\ DOMAIN t.recipient_ids = Recipients
        /\ DOMAIN cols = Neighbors /\ DOMAIN t.neighbor_ids = Neighbors
    BY <1>4, <1>5, <1>t
  <2>5. Unique(recs)
    BY <2>1, <2>2, <2>4, UniqueErase
  <2>6. Unique(cols)
    BY <2>1, <2>3, <2>4, UniqueErase
  <2> QED
    BY <2>5, <2>6
<1>11. \A k \in Neighbors : cols[k] # self
  BY <1>5, NodeIDAssumption DEF Sound, Shape
<1>12. \A i \in Recipients : RowSelfFree(self, u, i)
  <2> SUFFICES ASSUME NEW i \in Recipients, recs[i] # NO_NODE_ID
               PROVE  /\ recs[i] # self
                      /\ \A k \in Neighbors : cols[k] # NO_NODE_ID => SelfFree(self, rows[i][k])
    BY <1>6 DEF RowSelfFree
  <2>1. t.recipient_ids[i] # NO_NODE_ID /\ recs[i] = t.recipient_ids[i]
    BY <1>3
  <2>2. /\ t.recipient_ids[i] # self
        /\ \A k \in Neighbors : t.neighbor_ids[k] # NO_NODE_ID => SelfFree(self, t.routing_table[i][k])
    BY <2>1 DEF Sound, Shape, RowSelfFree
  <2> QED
    BY <2>1, <2>2, <1>5, <1>7
<1>13. \A i \in Recipients : RowOK(u, i)
  BY <1>6, <1>8 DEF RowOK
<1>14. Sound(self, u)
  BY <1>6, <1>9, <1>10, <1>11, <1>12, <1>13 DEF Sound, Shape
<1>15. \A k \in Neighbors : cols[k] \in {t.neighbor_ids[k], NO_NODE_ID} /\ cols[k] # n
  <2>1. Unique(t.neighbor_ids) /\ n # NO_NODE_ID
    BY NodeIDAssumption DEF Sound, Shape
  <2> QED
    BY <1>1, <1>5, <1>t, <2>1 DEF Unique
<1> QED
  BY <1>3, <1>6, <1>14, <1>15

-----------------------------------------------------------------------------
(* The shortest path of a recipient *)

\* What ShortestPath looks up: the best path of the recipient's row, or
\* INVALID_PATH without a row.
LEMMA ShortestPathFacts ==
  ASSUME NEW self, NEW t, Sound(self, t), NEW r \in NodeID
  PROVE  /\ ShortestPath(t, r) \in Path
         /\ \A i \in Recipients : t.recipient_ids[i] = r =>
              /\ get_recipient_index(t, r) = i
              /\ ShortestPath(t, r) = t.routing_table[i][t.forwarding_table[i]]
         /\ (\A i \in Recipients : t.recipient_ids[i] # r) =>
              ShortestPath(t, r) = INVALID_PATH
         /\ get_recipient_index(t, r) = NO_NODE_INDEX <=>
              (\A i \in Recipients : t.recipient_ids[i] # r)
<1>0. t \in Table /\ MAX_RECIPIENTS \in Nat /\ r # NO_NODE_ID /\ Unique(t.recipient_ids)
  BY SizeAssumption, NodeIDAssumption DEF Sound, Shape
<1>t. /\ t.recipient_ids \in [Recipients -> NodeID \cup {NO_NODE_ID}]
      /\ t.routing_table \in [Recipients -> [Neighbors -> Path]]
      /\ t.forwarding_table \in [Recipients -> Neighbors \cup {NO_NODE_INDEX}]
      /\ DOMAIN t.recipient_ids = Recipients /\ Recipients \subseteq Nat
  BY <1>0, TableFields DEF Recipients
<1>1. get_recipient_index(t, r) = NO_NODE_INDEX <=> (\A i \in Recipients : t.recipient_ids[i] # r)
  BY <1>0, <1>t, FirstIndexMissing DEF get_recipient_index
<1>2. ASSUME NEW i \in Recipients, t.recipient_ids[i] = r
      PROVE  /\ get_recipient_index(t, r) = i
             /\ ShortestPath(t, r) = t.routing_table[i][t.forwarding_table[i]]
             /\ ShortestPath(t, r) \in Path
  <2>1. \A k \in DOMAIN t.recipient_ids : t.recipient_ids[k] = r => k = i
    BY <1>0, <1>2, <1>t DEF Unique
  <2>2. get_recipient_index(t, r) = i
    <3>1. FirstIndex(t.recipient_ids, r) \in DOMAIN t.recipient_ids
          /\ t.recipient_ids[FirstIndex(t.recipient_ids, r)] = r
      BY <1>2, <1>t, FirstIndexFound
    <3> QED
      BY <2>1, <3>1 DEF get_recipient_index
  <2>3. i # NO_NODE_INDEX
    BY <1>0 DEF Recipients
  <2>4. t.forwarding_table[i] \in Neighbors
    BY <1>0, <1>2 DEF Sound, RowOK, Best, Usable
  <2> QED
    BY <2>2, <2>3, <2>4, <1>t DEF ShortestPath
<1>3. ASSUME \A i \in Recipients : t.recipient_ids[i] # r
      PROVE  ShortestPath(t, r) = INVALID_PATH
  BY <1>1, <1>3 DEF ShortestPath
<1> QED
  BY <1>1, <1>2, <1>3, InvalidPathFacts

\* The boolean update_routing_given_new_path returns misses no change: the only
\* path that may change is that of the recipient, and only if it is TRUE.
LEMMA UpdateShortest ==
  ASSUME NEW self, NEW t, Sound(self, t),
         NEW n \in NodeID \ {self}, NEW r \in NodeID \ {self},
         NEW path \in Path, HasRoom(t.neighbor_ids, n), HasRoom(t.recipient_ids, r),
         NEW p, p = Prepared(t, n, r),
         NEW row, row = get_recipient_index(p, r),
         NEW u, u = update_routing_given_new_path(self, t, n, r, path)
  PROVE  /\ \A q \in NodeID : q # r => ShortestPath(u, q) = ShortestPath(t, q)
         /\ ~ShortestPathChanged(p, u, row) => ShortestPath(u, r) = ShortestPath(t, r)
<1>4. /\ Sound(self, u)
      /\ row \in Recipients
      /\ u.recipient_ids[row] = IF u.forwarding_table[row] = NO_NODE_INDEX
                                THEN NO_NODE_ID ELSE r
      /\ \/ /\ t.recipient_ids[row] = r
            /\ p.forwarding_table[row] = t.forwarding_table[row]
            /\ p.routing_table[row][t.forwarding_table[row]] =
                 t.routing_table[row][t.forwarding_table[row]]
         \/ /\ get_recipient_index(t, r) = NO_NODE_INDEX
            /\ t.recipient_ids[row] = NO_NODE_ID
            /\ p.forwarding_table[row] = NO_NODE_INDEX
      /\ \A i \in Recipients \ {row} :
           /\ u.recipient_ids[i] = t.recipient_ids[i]
           /\ u.forwarding_table[i] = t.forwarding_table[i]
           /\ t.recipient_ids[i] # NO_NODE_ID =>
                u.routing_table[i][u.forwarding_table[i]] =
                  t.routing_table[i][t.forwarding_table[i]]
  BY UpdateSound
<1>5. \A q \in NodeID : q # NO_NODE_ID
  BY NodeIDAssumption
<1>1. ASSUME NEW q \in NodeID, q # r PROVE ShortestPath(u, q) = ShortestPath(t, q)
  <2>2. CASE \E i \in Recipients : t.recipient_ids[i] = q
    <3>1. PICK i \in Recipients : t.recipient_ids[i] = q
      BY <2>2
    <3>2. i # row
      BY <1>1, <1>4, <1>5, <3>1
    <3>3. u.recipient_ids[i] = q /\ u.routing_table[i][u.forwarding_table[i]] =
                                      t.routing_table[i][t.forwarding_table[i]]
      BY <1>4, <1>5, <3>1, <3>2
    <3>4. ShortestPath(t, q) = t.routing_table[i][t.forwarding_table[i]]
      BY <3>1, ShortestPathFacts
    <3>5. ShortestPath(u, q) = u.routing_table[i][u.forwarding_table[i]]
      BY <1>4, <3>3, ShortestPathFacts, SMTT(30)
    <3> QED
      BY <3>3, <3>4, <3>5
  <2>3. CASE \A i \in Recipients : t.recipient_ids[i] # q
    <3>1. \A i \in Recipients : u.recipient_ids[i] # q
      BY <1>1, <1>4, <1>5, <2>3
    <3>2. ShortestPath(t, q) = INVALID_PATH
      BY <2>3, ShortestPathFacts
    <3>3. ShortestPath(u, q) = INVALID_PATH
      BY <1>4, <3>1, ShortestPathFacts
    <3> QED
      BY <3>2, <3>3
  <2> QED
    BY <2>2, <2>3
<1>2. ASSUME ~ShortestPathChanged(p, u, row) PROVE ShortestPath(u, r) = ShortestPath(t, r)
  <2>2. /\ p.forwarding_table[row] = u.forwarding_table[row]
        /\ u.forwarding_table[row] # NO_NODE_INDEX =>
             p.routing_table[row][p.forwarding_table[row]] =
               u.routing_table[row][u.forwarding_table[row]]
    BY <1>2 DEF ShortestPathChanged
  <2>3. CASE get_recipient_index(t, r) = NO_NODE_INDEX /\ p.forwarding_table[row] = NO_NODE_INDEX
    <3>1. \A i \in Recipients : t.recipient_ids[i] # r
      BY <2>3, ShortestPathFacts
    <3>2. \A i \in Recipients : u.recipient_ids[i] # r
      BY <1>4, <1>5, <2>2, <2>3, <3>1
    <3>3. ShortestPath(t, r) = INVALID_PATH
      BY <3>1, ShortestPathFacts
    <3>4. ShortestPath(u, r) = INVALID_PATH
      BY <1>4, <3>2, ShortestPathFacts
    <3> QED
      BY <3>3, <3>4
  <2>4. CASE /\ t.recipient_ids[row] = r
             /\ p.forwarding_table[row] = t.forwarding_table[row]
             /\ p.routing_table[row][t.forwarding_table[row]] =
                  t.routing_table[row][t.forwarding_table[row]]
    <3>1. t.forwarding_table[row] \in Neighbors
      BY <1>4, <1>5, <2>4 DEF Sound, RowOK, Best, Usable
    <3>2. u.forwarding_table[row] # NO_NODE_INDEX
      BY <2>2, <2>4, <3>1 DEF Neighbors
    <3>3. u.recipient_ids[row] = r
      BY <1>4, <3>2
    <3>4. ShortestPath(t, r) = t.routing_table[row][t.forwarding_table[row]]
      BY <1>4, <2>4, ShortestPathFacts
    <3>5. ShortestPath(u, r) = u.routing_table[row][u.forwarding_table[row]]
      BY <1>4, <3>3, ShortestPathFacts
    <3> QED
      BY <2>2, <2>4, <3>2, <3>4, <3>5
  <2> QED
    BY <1>4, <2>3, <2>4
<1> QED
  BY <1>1, <1>2

\* The loss of a neighbor: a path that changes is that of a row that is announced.
LEMMA RemoveShortest ==
  ASSUME NEW self, NEW t, Sound(self, t), NEW n \in NodeID,
         get_neighbor_index(t, n) # NO_NODE_INDEX,
         NEW u, u = remove_routing_neighbor(t, n), NEW q \in NodeID
  PROVE  /\ (\A i \in Recipients : t.recipient_ids[i] # q) =>
              ShortestPath(u, q) = ShortestPath(t, q)
         /\ \A i \in Recipients : t.recipient_ids[i] = q /\ ~ShortestPathChanged(t, u, i) =>
              ShortestPath(u, q) = ShortestPath(t, q)
<1>3. /\ Sound(self, u)
      /\ \A i \in Recipients :
           u.recipient_ids[i] = IF /\ t.recipient_ids[i] # NO_NODE_ID
                                   /\ u.forwarding_table[i] = NO_NODE_INDEX
                                THEN NO_NODE_ID ELSE t.recipient_ids[i]
  BY RemoveSound
<1>4. q # NO_NODE_ID
  BY NodeIDAssumption
<1>1. ASSUME \A i \in Recipients : t.recipient_ids[i] # q
      PROVE  ShortestPath(u, q) = ShortestPath(t, q)
  <2>1. \A i \in Recipients : u.recipient_ids[i] # q
    BY <1>1, <1>3, <1>4
  <2>2. ShortestPath(t, q) = INVALID_PATH
    BY <1>1, ShortestPathFacts
  <2>3. ShortestPath(u, q) = INVALID_PATH
    BY <1>3, <2>1, ShortestPathFacts
  <2> QED
    BY <2>2, <2>3
<1>2. ASSUME NEW i \in Recipients, t.recipient_ids[i] = q, ~ShortestPathChanged(t, u, i)
      PROVE  ShortestPath(u, q) = ShortestPath(t, q)
  <2>1. /\ t.forwarding_table[i] = u.forwarding_table[i]
        /\ u.forwarding_table[i] # NO_NODE_INDEX =>
             t.routing_table[i][t.forwarding_table[i]] =
               u.routing_table[i][u.forwarding_table[i]]
    BY <1>2 DEF ShortestPathChanged
  <2>2. t.forwarding_table[i] \in Neighbors
    BY <1>2, <1>4 DEF Sound, RowOK, Best, Usable
  <2>3. u.forwarding_table[i] # NO_NODE_INDEX
    BY <2>1, <2>2, SizeAssumption DEF Neighbors
  <2>4. u.recipient_ids[i] = q
    BY <1>2, <1>3, <2>3
  <2>5. ShortestPath(u, q) = u.routing_table[i][u.forwarding_table[i]]
    BY <1>3, <2>4, ShortestPathFacts
  <2>6. ShortestPath(t, q) = t.routing_table[i][t.forwarding_table[i]]
    BY <1>2, ShortestPathFacts
  <2> QED
    BY <2>1, <2>3, <2>5, <2>6
<1> QED
  BY <1>1, <1>2

\* Empty tables are sound and there is no path to announce.
LEMMA EmptySound ==
  ASSUME NEW self \in NodeID, NEW t \in Table,
         \A i \in Recipients : t.recipient_ids[i] = NO_NODE_ID,
         \A j \in Neighbors : t.neighbor_ids[j] = NO_NODE_ID
  PROVE  /\ Sound(self, t)
         /\ \A r \in NodeID : ShortestPath(t, r) = INVALID_PATH
<1>1. /\ DOMAIN t.recipient_ids = Recipients
      /\ DOMAIN t.neighbor_ids = Neighbors
  BY TableFields
<1>2. Unique(t.recipient_ids) /\ Unique(t.neighbor_ids)
  BY <1>1 DEF Unique
<1>3. \A j \in Neighbors : t.neighbor_ids[j] # self
  BY NodeIDAssumption
<1>4. \A i \in Recipients : RowSelfFree(self, t, i) /\ RowOK(t, i)
  BY DEF RowSelfFree, RowOK
<1>5. Sound(self, t)
  BY <1>2, <1>3, <1>4 DEF Sound, Shape
<1>6. \A r \in NodeID : ShortestPath(t, r) = INVALID_PATH
  BY <1>5, ShortestPathFacts, NodeIDAssumption
<1> QED
  BY <1>5, <1>6
-----------------------------------------------------------------------------
(* What a table offers, without its indices *)

\* The path that neighbor n offers for recipient r.
Offer(t, n, r) ==
  LET i == get_recipient_index(t, r)
      j == get_neighbor_index(t, n)
  IN  IF i = NO_NODE_INDEX \/ j = NO_NODE_INDEX THEN INVALID_PATH ELSE t.routing_table[i][j]

\* The index of an ID in an array without repetitions.
LEMMA IndexOf ==
  ASSUME NEW ids, DOMAIN ids \subseteq Nat, Unique(ids), NEW x, x # NO_NODE_ID
  PROVE  /\ \A i \in DOMAIN ids : ids[i] = x => FirstIndex(ids, x) = i /\ i # NO_NODE_INDEX
         /\ (\A i \in DOMAIN ids : ids[i] # x) => FirstIndex(ids, x) = NO_NODE_INDEX
<1>1. ASSUME NEW i \in DOMAIN ids, ids[i] = x PROVE FirstIndex(ids, x) = i /\ i # NO_NODE_INDEX
  <2>1. FirstIndex(ids, x) \in DOMAIN ids /\ ids[FirstIndex(ids, x)] = x
    BY <1>1, FirstIndexFound
  <2> QED
    BY <1>1, <2>1 DEF Unique
<1> QED
  BY <1>1, FirstIndexMissing

\* The arrays of a sound table.
LEMMA SoundFields ==
  ASSUME NEW self, NEW t, Sound(self, t)
  PROVE  /\ t.recipient_ids \in [Recipients -> NodeID \cup {NO_NODE_ID}]
         /\ t.neighbor_ids \in [Neighbors -> NodeID \cup {NO_NODE_ID}]
         /\ t.routing_table \in [Recipients -> [Neighbors -> Path]]
         /\ t.forwarding_table \in [Recipients -> Neighbors \cup {NO_NODE_INDEX}]
         /\ DOMAIN t.recipient_ids = Recipients /\ DOMAIN t.neighbor_ids = Neighbors
         /\ Recipients \subseteq Nat /\ Neighbors \subseteq Nat
         /\ Unique(t.recipient_ids) /\ Unique(t.neighbor_ids)
<1>1. t \in Table /\ Unique(t.recipient_ids) /\ Unique(t.neighbor_ids)
  BY DEF Sound, Shape
<1>2. Recipients \subseteq Nat /\ Neighbors \subseteq Nat
  BY SizeAssumption DEF Recipients, Neighbors
<1> QED
  BY <1>1, <1>2, TableFields

\* What is read at the row and the column of two peers, and when one has none.
LEMMA OfferFacts ==
  ASSUME NEW self, NEW t, Sound(self, t), NEW n \in NodeID, NEW r \in NodeID
  PROVE  /\ \A i \in Recipients, j \in Neighbors :
              t.recipient_ids[i] = r /\ t.neighbor_ids[j] = n => Offer(t, n, r) = t.routing_table[i][j]
         /\ (\A i \in Recipients : t.recipient_ids[i] # r) => Offer(t, n, r) = INVALID_PATH
         /\ (\A j \in Neighbors : t.neighbor_ids[j] # n) => Offer(t, n, r) = INVALID_PATH
<1>1. /\ DOMAIN t.recipient_ids = Recipients /\ DOMAIN t.neighbor_ids = Neighbors
      /\ Recipients \subseteq Nat /\ Neighbors \subseteq Nat
      /\ Unique(t.recipient_ids) /\ Unique(t.neighbor_ids)
  BY SoundFields
<1>0. n # NO_NODE_ID /\ r # NO_NODE_ID
  BY NodeIDAssumption
<1>2. /\ \A i \in Recipients : t.recipient_ids[i] = r => get_recipient_index(t, r) = i /\ i # NO_NODE_INDEX
      /\ (\A i \in Recipients : t.recipient_ids[i] # r) => get_recipient_index(t, r) = NO_NODE_INDEX
  BY <1>0, <1>1, IndexOf DEF get_recipient_index
<1>3. /\ \A j \in Neighbors : t.neighbor_ids[j] = n => get_neighbor_index(t, n) = j /\ j # NO_NODE_INDEX
      /\ (\A j \in Neighbors : t.neighbor_ids[j] # n) => get_neighbor_index(t, n) = NO_NODE_INDEX
  BY <1>0, <1>1, IndexOf DEF get_neighbor_index
<1> QED
  BY <1>2, <1>3 DEF Offer

\* A column that is still best is kept.
LEMMA ClosestKeeps ==
  ASSUME NEW ids, NEW row \in [Neighbors -> Path], NEW old, Best(ids, row, old)
  PROVE  ClosestNeighbor(ids, row, old) = old
<1> DEFINE best == ScanClosest(ids, row)
<1>1. old \in Usable(ids, row)
  BY DEF Best
<1>2. Best(ids, row, best)
  BY <1>1, ScanFindsBest
<1>3. best \in Nat /\ Len(row[best]) \in Nat
  BY <1>2, UsableFacts DEF Best
<1>4. old \in Nat /\ Len(row[old]) \in Nat /\ row[old] # INVALID_PATH
  BY <1>1, UsableFacts DEF Usable
<1>5. Len(row[old]) <= Len(row[best]) /\ Len(row[best]) <= Len(row[old])
  BY <1>1, <1>2 DEF Best
<1>6. Len(row[old]) = Len(row[best])
  BY <1>3, <1>4, <1>5
<1>7. old # NO_NODE_INDEX /\ best # NO_NODE_INDEX
  BY <1>3, <1>4
<1> QED
  BY <1>4, <1>6, <1>7 DEF ClosestNeighbor

-----------------------------------------------------------------------------
(* The cells a ROUTE message changes *)

\* get_neighbor_index(.., true): the neighbor's column is the old one or a free
\* one without paths, and nothing else changes.
LEMMA AddNeighborCells ==
  ASSUME NEW self, NEW t, Sound(self, t), NEW n \in NodeID \ {self}, HasRoom(t.neighbor_ids, n),
         NEW a, a = AddNeighbor(t, n), NEW col, col = get_neighbor_index(a, n)
  PROVE  /\ col \in Neighbors
         /\ a.neighbor_ids[col] = n
         /\ t.neighbor_ids[col] \in {n, NO_NODE_ID}
         /\ \A j \in Neighbors : j # col =>
              /\ a.neighbor_ids[j] = t.neighbor_ids[j]
              /\ \A i \in Recipients : a.routing_table[i][j] = t.routing_table[i][j]
         /\ \A i \in Recipients :
              a.routing_table[i][col] = IF t.neighbor_ids[col] = n THEN t.routing_table[i][col]
                                        ELSE INVALID_PATH
<1> DEFINE old == get_neighbor_index(t, n)
           free == FirstIndex(t.neighbor_ids, NO_NODE_ID)
<1>t. /\ t.neighbor_ids \in [Neighbors -> NodeID \cup {NO_NODE_ID}]
      /\ t.routing_table \in [Recipients -> [Neighbors -> Path]]
      /\ DOMAIN t.neighbor_ids = Neighbors /\ Neighbors \subseteq Nat
      /\ t \in Table
  BY SoundFields DEF Sound, Shape
<1>0. n # NO_NODE_ID
  BY NodeIDAssumption
<1>1. CASE old # NO_NODE_INDEX
  <2>1. a = t
    BY <1>1 DEF AddNeighbor
  <2>2. \E i \in DOMAIN t.neighbor_ids : t.neighbor_ids[i] = n
    BY <1>1, <1>t, FirstIndexMissing DEF get_neighbor_index
  <2>3. col \in Neighbors /\ t.neighbor_ids[col] = n
    BY <1>t, <2>1, <2>2, FirstIndexFound DEF get_neighbor_index
  <2> QED
    BY <2>1, <2>3
<1>2. CASE old = NO_NODE_INDEX
  <2>1. \A j \in Neighbors : t.neighbor_ids[j] # n
    BY <1>2, <1>t, FirstIndexMissing DEF get_neighbor_index
  <2>2. \E j \in DOMAIN t.neighbor_ids : t.neighbor_ids[j] = NO_NODE_ID
    BY <2>1, <1>t DEF HasRoom
  <2>3. free \in Neighbors /\ t.neighbor_ids[free] = NO_NODE_ID
    BY <1>t, <2>2, FirstIndexFound
  <2> HIDE DEF free
  <2>4. a = [t EXCEPT !.neighbor_ids[free] = n,
                      !.routing_table = [i \in Recipients |->
                           [t.routing_table[i] EXCEPT ![free] = INVALID_PATH]]]
    BY <1>2 DEF AddNeighbor, free
  <2>5. /\ a.neighbor_ids = [t.neighbor_ids EXCEPT ![free] = n]
        /\ a.routing_table = [i \in Recipients |->
                                [t.routing_table[i] EXCEPT ![free] = INVALID_PATH]]
    BY <2>4, <1>t, TableFields
  <2> HIDE DEF old
  <2>6. /\ DOMAIN a.neighbor_ids = Neighbors /\ a.neighbor_ids[free] = n
        /\ \A j \in Neighbors : j # free => a.neighbor_ids[j] = t.neighbor_ids[j]
    BY <2>3, <2>5, <1>t
  <2>7. \A i \in Recipients : /\ a.routing_table[i][free] = INVALID_PATH
                              /\ \A j \in Neighbors : j # free =>
                                   a.routing_table[i][j] = t.routing_table[i][j]
    BY <2>3, <2>5, <1>t
  <2>8. col = free
    <3>1. col \in DOMAIN a.neighbor_ids /\ a.neighbor_ids[col] = n
      BY <1>t, <2>3, <2>6, FirstIndexFound DEF get_neighbor_index
    <3> QED
      BY <2>1, <2>6, <3>1
  <2> QED
    BY <1>0, <2>3, <2>6, <2>7, <2>8
<1> QED
  BY <1>1, <1>2

\* get_recipient_index(.., true): a new row has no paths.
LEMMA AddRecipientCells ==
  ASSUME NEW self, NEW t, Sound(self, t), NEW r \in NodeID \ {self}, HasRoom(t.recipient_ids, r),
         NEW u, u = AddRecipient(t, r), NEW row, row = get_recipient_index(u, r)
  PROVE  u # t => \A j \in Neighbors : u.routing_table[row][j] = INVALID_PATH
<1> DEFINE free == FirstIndex(t.recipient_ids, NO_NODE_ID)
           none == [j \in Neighbors |-> INVALID_PATH]
<1> SUFFICES ASSUME u # t PROVE \A j \in Neighbors : u.routing_table[row][j] = INVALID_PATH
  OBVIOUS
<1>t. /\ t.recipient_ids \in [Recipients -> NodeID \cup {NO_NODE_ID}]
      /\ t.routing_table \in [Recipients -> [Neighbors -> Path]]
      /\ DOMAIN t.recipient_ids = Recipients
  BY SoundFields
<1>1. u = ReplaceRow(t, free, r, none, NO_NODE_INDEX) /\ get_recipient_index(t, r) = NO_NODE_INDEX
  BY DEF AddRecipient
<1>2. /\ row \in Recipients
      /\ u.recipient_ids[row] = r /\ t.recipient_ids[row] = NO_NODE_ID
  <2>1. Ready(self, u, row) /\ u.recipient_ids[row] = r /\ t.recipient_ids[row] = NO_NODE_ID
    BY AddRecipientReady
  <2> QED
    BY <2>1 DEF Ready
<1>3. \A j \in Neighbors : none[j] = INVALID_PATH
  OBVIOUS
<1> HIDE DEF free, none
<1>4. /\ u.recipient_ids = [t.recipient_ids EXCEPT ![free] = r]
      /\ u.routing_table = [t.routing_table EXCEPT ![free] = none]
  BY <1>1 DEF ReplaceRow
<1>5. row = free
  BY <1>2, <1>4, <1>t, NodeIDAssumption
<1>6. u.routing_table[row] = none
  BY <1>2, <1>4, <1>5, <1>t
<1> QED
  BY <1>3, <1>6

\* The rest of update_routing_given_new_path: one cell is stored, the column used
\* so far is kept while it is best, and the row is freed only without paths.
LEMMA SetPathCells ==
  ASSUME NEW self, NEW t, NEW row, Ready(self, t, row),
         NEW col \in Neighbors, NEW path \in Path,
         NEW u, u = SetPath(t, row, col, path)
  PROVE  /\ u.routing_table[row][col] = path
         /\ \A j \in Neighbors : j # col => u.routing_table[row][j] = t.routing_table[row][j]
         /\ u.forwarding_table[row] = NO_NODE_INDEX =>
              Usable(u.neighbor_ids, u.routing_table[row]) = {}
         /\ Best(u.neighbor_ids, u.routing_table[row], t.forwarding_table[row]) =>
              u.forwarding_table[row] = t.forwarding_table[row]
<1> DEFINE new == [t.routing_table[row] EXCEPT ![col] = path]
           best == ClosestNeighbor(t.neighbor_ids, new, t.forwarding_table[row])
           id == IF best = NO_NODE_INDEX THEN NO_NODE_ID ELSE t.recipient_ids[row]
<1>0. t \in Table /\ row \in Recipients
  BY DEF Ready, Shape
<1>t. /\ t.routing_table \in [Recipients -> [Neighbors -> Path]]
      /\ t.forwarding_table \in [Recipients -> Neighbors \cup {NO_NODE_INDEX}]
  BY <1>0, TableFields
<1>1. u = ReplaceRow(t, row, id, new, best)
  BY DEF SetPath
<1>2. new \in [Neighbors -> Path] /\ new[col] = path
      /\ \A j \in Neighbors : j # col => new[j] = t.routing_table[row][j]
  BY <1>0, <1>t
<1> HIDE DEF new
<1>3. /\ Usable(t.neighbor_ids, new) = {} => best = NO_NODE_INDEX
      /\ Usable(t.neighbor_ids, new) # {} => Best(t.neighbor_ids, new, best)
  BY <1>0, <1>t, <1>2, ClosestIsBest DEF Ready
<1>4. best = NO_NODE_INDEX => Usable(t.neighbor_ids, new) = {}
  BY <1>2, <1>3, UsableFacts DEF Best
<1>5. Best(t.neighbor_ids, new, t.forwarding_table[row]) => best = t.forwarding_table[row]
  BY <1>2, ClosestKeeps
<1> HIDE DEF best, id
<1>6. u.neighbor_ids = t.neighbor_ids /\ u.routing_table[row] = new /\ u.forwarding_table[row] = best
  BY <1>0, <1>1, <1>t DEF ReplaceRow
<1> QED
  BY <1>2, <1>4, <1>5, <1>6

\* update_routing_given_new_path as a whole, cell by cell: row and col are those of
\* the recipient and of the neighbor, old or just allocated.
Updated(t, u, n, r, path, row, col) ==
  /\ row \in Recipients /\ col \in Neighbors
  /\ u.neighbor_ids[col] = n /\ t.neighbor_ids[col] \in {n, NO_NODE_ID}
  /\ \A j \in Neighbors : j # col => u.neighbor_ids[j] = t.neighbor_ids[j]
  /\ t.recipient_ids[row] \in {r, NO_NODE_ID}
  /\ t.recipient_ids[row] = NO_NODE_ID => \A i \in Recipients : t.recipient_ids[i] # r
  /\ u.recipient_ids[row] = IF u.forwarding_table[row] = NO_NODE_INDEX THEN NO_NODE_ID ELSE r
  /\ u.forwarding_table[row] = NO_NODE_INDEX => Usable(u.neighbor_ids, u.routing_table[row]) = {}
  /\ u.routing_table[row][col] = path
  /\ \A j \in Neighbors : j # col =>
       u.routing_table[row][j] = IF t.recipient_ids[row] = r THEN t.routing_table[row][j]
                                 ELSE INVALID_PATH
  /\ t.recipient_ids[row] = r /\ Best(u.neighbor_ids, u.routing_table[row], t.forwarding_table[row])
       => u.forwarding_table[row] = t.forwarding_table[row]
  /\ \A i \in Recipients : i # row =>
       /\ u.recipient_ids[i] = t.recipient_ids[i]
       /\ u.forwarding_table[i] = t.forwarding_table[i]
       /\ \A j \in Neighbors : j # col => u.routing_table[i][j] = t.routing_table[i][j]
       /\ u.routing_table[i][col] = IF t.neighbor_ids[col] = n THEN t.routing_table[i][col]
                                    ELSE INVALID_PATH

LEMMA UpdateCells ==
  ASSUME NEW self, NEW t, Sound(self, t), NEW n \in NodeID \ {self}, NEW r \in NodeID \ {self}, NEW path \in Path,
         HasRoom(t.neighbor_ids, n), HasRoom(t.recipient_ids, r),
         NEW u, u = update_routing_given_new_path(self, t, n, r, path)
  PROVE  Sound(self, u) /\ \E row, col : Updated(t, u, n, r, Sanitise(self, path), row, col)
<1> DEFINE a == AddNeighbor(t, n)
           p == Prepared(t, n, r)
           row == get_recipient_index(p, r)
           col == get_neighbor_index(p, n)
           acol == get_neighbor_index(a, n)
           stored == Sanitise(self, path)
<1>0. r # NO_NODE_ID /\ t.recipient_ids \in [Recipients -> NodeID \cup {NO_NODE_ID}]
  BY NodeIDAssumption, SoundFields
<1>1. /\ Sound(self, a)
      /\ a.recipient_ids = t.recipient_ids
      /\ a.forwarding_table = t.forwarding_table
  BY AddNeighborSound
<1>2. /\ acol \in Neighbors
      /\ a.neighbor_ids[acol] = n
      /\ t.neighbor_ids[acol] \in {n, NO_NODE_ID}
      /\ \A j \in Neighbors : j # acol =>
           /\ a.neighbor_ids[j] = t.neighbor_ids[j]
           /\ \A i \in Recipients : a.routing_table[i][j] = t.routing_table[i][j]
      /\ \A i \in Recipients :
           a.routing_table[i][acol] = IF t.neighbor_ids[acol] = n THEN t.routing_table[i][acol]
                                      ELSE INVALID_PATH
  BY AddNeighborCells
<1>3. p = AddRecipient(a, r) /\ u = SetPath(p, row, col, stored)
  BY DEF Prepared, update_routing_given_new_path
<1>4. HasRoom(a.recipient_ids, r)
  BY <1>1
<1>5. stored \in Path /\ SelfFree(self, stored)
  BY InvalidPathFacts DEF Sanitise, SelfFree, Sound, Shape
<1> HIDE DEF a, p, stored
<1>6. /\ Ready(self, p, row)
      /\ p.recipient_ids[row] = r
      /\ p.neighbor_ids = a.neighbor_ids
      /\ \/ p = a
         \/ /\ get_recipient_index(a, r) = NO_NODE_INDEX
            /\ a.recipient_ids[row] = NO_NODE_ID
            /\ p.forwarding_table[row] = NO_NODE_INDEX
      /\ \A i \in Recipients \ {row} : /\ p.recipient_ids[i] = a.recipient_ids[i]
                                       /\ p.routing_table[i] = a.routing_table[i]
                                       /\ p.forwarding_table[i] = a.forwarding_table[i]
  BY <1>1, <1>3, <1>4, AddRecipientReady
<1>7. p # a => \A j \in Neighbors : p.routing_table[row][j] = INVALID_PATH
  BY <1>1, <1>3, <1>4, AddRecipientCells
<1>8. col = acol /\ row \in Recipients
  BY <1>6 DEF get_neighbor_index, Ready
<1> HIDE DEF row, col, acol
<1>9. /\ Sound(self, u)
      /\ u.neighbor_ids = p.neighbor_ids
      /\ \A i \in Recipients \ {row} : /\ u.recipient_ids[i] = p.recipient_ids[i]
                                       /\ u.routing_table[i] = p.routing_table[i]
                                       /\ u.forwarding_table[i] = p.forwarding_table[i]
      /\ u.recipient_ids[row] = IF u.forwarding_table[row] = NO_NODE_INDEX
                                THEN NO_NODE_ID ELSE p.recipient_ids[row]
  BY <1>2, <1>3, <1>5, <1>6, <1>8, SetPathSound
<1>10. /\ u.routing_table[row][col] = stored
       /\ \A j \in Neighbors : j # col => u.routing_table[row][j] = p.routing_table[row][j]
       /\ u.forwarding_table[row] = NO_NODE_INDEX =>
            Usable(u.neighbor_ids, u.routing_table[row]) = {}
       /\ Best(u.neighbor_ids, u.routing_table[row], p.forwarding_table[row]) =>
            u.forwarding_table[row] = p.forwarding_table[row]
  BY <1>2, <1>3, <1>5, <1>6, <1>8, SetPathCells
<1>11. /\ p = a => t.recipient_ids[row] = r
       /\ p # a => /\ t.recipient_ids[row] = NO_NODE_ID
                   /\ \A i \in Recipients : t.recipient_ids[i] # r
  <2>1. get_recipient_index(a, r) = NO_NODE_INDEX => \A i \in Recipients : a.recipient_ids[i] # r
    BY <1>1, ShortestPathFacts
  <2> QED
    BY <1>1, <1>6, <2>1
<1>12. \A i \in Recipients : i # row =>
         /\ u.recipient_ids[i] = t.recipient_ids[i]
         /\ u.forwarding_table[i] = t.forwarding_table[i]
         /\ \A j \in Neighbors : j # col => u.routing_table[i][j] = t.routing_table[i][j]
         /\ u.routing_table[i][col] = IF t.neighbor_ids[col] = n THEN t.routing_table[i][col]
                                      ELSE INVALID_PATH
  <2> SUFFICES ASSUME NEW i \in Recipients, i # row
               PROVE  /\ u.recipient_ids[i] = t.recipient_ids[i]
                      /\ u.forwarding_table[i] = t.forwarding_table[i]
                      /\ u.routing_table[i] = a.routing_table[i]
    BY <1>2, <1>8
  <2> QED
    BY <1>1, <1>6, <1>9
<1>13. \A j \in Neighbors : j # col =>
         u.routing_table[row][j] = IF t.recipient_ids[row] = r THEN t.routing_table[row][j]
                                   ELSE INVALID_PATH
  BY <1>0, <1>2, <1>7, <1>8, <1>10, <1>11
<1>14. t.recipient_ids[row] = r /\ Best(u.neighbor_ids, u.routing_table[row], t.forwarding_table[row])
         => u.forwarding_table[row] = t.forwarding_table[row]
  <2>1. t.recipient_ids[row] = r => p.forwarding_table[row] = t.forwarding_table[row]
    BY <1>0, <1>1, <1>11
  <2> QED
    BY <1>10, <2>1
<1>15. /\ u.neighbor_ids[col] = n /\ t.neighbor_ids[col] \in {n, NO_NODE_ID}
       /\ \A j \in Neighbors : j # col => u.neighbor_ids[j] = t.neighbor_ids[j]
  BY <1>2, <1>6, <1>8, <1>9
<1>16. u.recipient_ids[row] = IF u.forwarding_table[row] = NO_NODE_INDEX THEN NO_NODE_ID ELSE r
  BY <1>6, <1>9
<1>17. Updated(t, u, n, r, stored, row, col)
  <2>1. col \in Neighbors /\ t.recipient_ids[row] \in {r, NO_NODE_ID}
    BY <1>2, <1>8, <1>11
  <2>2. t.recipient_ids[row] = NO_NODE_ID => \A i \in Recipients : t.recipient_ids[i] # r
    BY <1>0, <1>11
  <2> QED
    BY <1>8, <1>10, <1>12, <1>13, <1>14, <1>15, <1>16, <2>1, <2>2 DEF Updated
<1> QED
  BY <1>9, <1>17 DEF stored

\* Without indices, one offer changes.
LEMMA UpdateOffers ==
  ASSUME NEW self, NEW t, Sound(self, t), NEW u, Sound(self, u),
         NEW n \in NodeID, NEW r \in NodeID, NEW path,
         NEW row, NEW col, Updated(t, u, n, r, path, row, col)
  PROVE  /\ Offer(u, n, r) = path
         /\ \A m, q \in NodeID : m # n \/ q # r => Offer(u, m, q) = Offer(t, m, q)
<1>0. /\ row \in Recipients /\ col \in Neighbors
      /\ u.neighbor_ids[col] = n /\ t.neighbor_ids[col] \in {n, NO_NODE_ID}
      /\ \A j \in Neighbors : j # col => u.neighbor_ids[j] = t.neighbor_ids[j]
      /\ t.recipient_ids[row] \in {r, NO_NODE_ID}
      /\ t.recipient_ids[row] = NO_NODE_ID => \A i \in Recipients : t.recipient_ids[i] # r
      /\ u.recipient_ids[row] = IF u.forwarding_table[row] = NO_NODE_INDEX THEN NO_NODE_ID ELSE r
  BY DEF Updated
<1>1. /\ u.forwarding_table[row] = NO_NODE_INDEX =>
           \A j \in Neighbors : u.neighbor_ids[j] # NO_NODE_ID => u.routing_table[row][j] = INVALID_PATH
      /\ u.routing_table[row][col] = path
      /\ \A j \in Neighbors : j # col =>
           u.routing_table[row][j] = IF t.recipient_ids[row] = r THEN t.routing_table[row][j]
                                     ELSE INVALID_PATH
  BY DEF Updated, Usable
<1>2. \A i \in Recipients : i # row =>
        /\ u.recipient_ids[i] = t.recipient_ids[i]
        /\ u.forwarding_table[i] = t.forwarding_table[i]
        /\ \A j \in Neighbors : j # col => u.routing_table[i][j] = t.routing_table[i][j]
        /\ u.routing_table[i][col] = IF t.neighbor_ids[col] = n THEN t.routing_table[i][col]
                                     ELSE INVALID_PATH
  BY DEF Updated
<1>3. /\ Unique(t.recipient_ids) /\ Unique(u.recipient_ids)
      /\ Unique(t.neighbor_ids) /\ Unique(u.neighbor_ids)
      /\ DOMAIN t.recipient_ids = Recipients /\ DOMAIN u.recipient_ids = Recipients
      /\ DOMAIN t.neighbor_ids = Neighbors /\ DOMAIN u.neighbor_ids = Neighbors
  BY SoundFields
<1>4. \A m \in NodeID : m # NO_NODE_ID
  BY NodeIDAssumption
\* A neighbor has the same column before and after, or it is n and has a new one.
<1>5. \A j \in Neighbors, m \in NodeID : t.neighbor_ids[j] = m => u.neighbor_ids[j] = m
  BY <1>0, <1>4
<1>6. \A j \in Neighbors, m \in NodeID : u.neighbor_ids[j] = m /\ m # n => t.neighbor_ids[j] = m /\ j # col
  BY <1>0
<1>7. t.neighbor_ids[col] # n => \A j \in Neighbors : t.neighbor_ids[j] # n
  BY <1>0, <1>3, <1>4 DEF Unique
<1>8. \A i \in Recipients : t.recipient_ids[i] = r => i = row
  BY <1>0, <1>3, <1>4 DEF Unique
<1>9. \A i \in Recipients : u.recipient_ids[i] = r => i = row
  BY <1>2, <1>8
<1>10. \A i \in Recipients, q \in NodeID : q # r => (t.recipient_ids[i] = q <=> u.recipient_ids[i] = q)
  BY <1>0, <1>2, <1>4
<1>11. Offer(u, n, r) = path
  <2>1. CASE u.recipient_ids[row] = r
    BY <1>0, <1>1, <2>1, OfferFacts
  <2>2. CASE u.recipient_ids[row] # r
    BY <1>0, <1>1, <1>4, <1>9, <2>2, OfferFacts
  <2> QED
    BY <2>1, <2>2
<1>12. ASSUME NEW m \in NodeID, NEW q \in NodeID, q # r
       PROVE  Offer(u, m, q) = Offer(t, m, q)
  <2>1. CASE \A i \in Recipients : t.recipient_ids[i] # q
    <3>1. \A i \in Recipients : u.recipient_ids[i] # q
      BY <1>10, <1>12, <2>1
    <3> QED
      BY <2>1, <3>1, OfferFacts
  <2>2. CASE \E i \in Recipients : t.recipient_ids[i] = q
    <3>1. PICK i \in Recipients : t.recipient_ids[i] = q
      BY <2>2
    <3>2. u.recipient_ids[i] = q /\ i # row
      BY <1>0, <1>4, <1>10, <1>12, <3>1
    <3>3. CASE \E j \in Neighbors : t.neighbor_ids[j] = m
      <4>1. PICK j \in Neighbors : t.neighbor_ids[j] = m
        BY <3>3
      <4>2. u.neighbor_ids[j] = m
        BY <1>5, <4>1
      <4>3. j = col => t.neighbor_ids[col] = n
        BY <1>0, <1>4, <4>1
      <4>4. u.routing_table[i][j] = t.routing_table[i][j]
        BY <1>2, <3>2, <4>3
      <4> QED
        BY <3>1, <3>2, <4>1, <4>2, <4>4, OfferFacts
    <3>4. CASE \A j \in Neighbors : t.neighbor_ids[j] # m
      <4>1. Offer(t, m, q) = INVALID_PATH
        BY <3>4, OfferFacts
      <4>2. CASE m = n
        BY <1>0, <1>2, <3>2, <3>4, <4>1, <4>2, OfferFacts
      <4>3. CASE m # n
        <5>1. \A j \in Neighbors : u.neighbor_ids[j] # m
          BY <1>6, <3>4, <4>3
        <5> QED
          BY <4>1, <5>1, OfferFacts
      <4> QED
        BY <4>2, <4>3
    <3> QED
      BY <3>3, <3>4
  <2> QED
    BY <2>1, <2>2
<1>13. ASSUME NEW m \in NodeID, m # n
       PROVE  Offer(u, m, r) = Offer(t, m, r)
  <2>1. CASE \A j \in Neighbors : u.neighbor_ids[j] # m
    <3>1. \A j \in Neighbors : t.neighbor_ids[j] # m
      BY <1>5, <2>1
    <3> QED
      BY <2>1, <3>1, OfferFacts
  <2>2. CASE \E j \in Neighbors : u.neighbor_ids[j] = m
    <3>1. PICK j \in Neighbors : u.neighbor_ids[j] = m
      BY <2>2
    <3>2. t.neighbor_ids[j] = m /\ j # col
      BY <1>6, <1>13, <3>1
    <3>3. Offer(t, m, r) = u.routing_table[row][j]
      <4>1. CASE t.recipient_ids[row] = r
        BY <1>0, <1>1, <3>2, <4>1, OfferFacts
      <4>2. CASE t.recipient_ids[row] # r
        <5>1. Offer(t, m, r) = INVALID_PATH
          BY <1>8, <4>2, OfferFacts
        <5> QED
          BY <1>1, <3>2, <4>2, <5>1
      <4> QED
        BY <4>1, <4>2
    <3>4. Offer(u, m, r) = u.routing_table[row][j]
      <4>1. CASE u.recipient_ids[row] = r
        BY <1>0, <3>1, <4>1, OfferFacts
      <4>2. CASE u.recipient_ids[row] # r
        <5>1. Offer(u, m, r) = INVALID_PATH
          BY <1>9, <4>2, OfferFacts
        <5> QED
          BY <1>0, <1>1, <1>4, <3>1, <4>2, <5>1
      <4> QED
        BY <4>1, <4>2
    <3> QED
      BY <3>3, <3>4
  <2> QED
    BY <2>1, <2>2
<1> QED
  BY <1>11, <1>12, <1>13

-----------------------------------------------------------------------------
(* The cells a closed connection changes *)

\* remove_routing_neighbor cell by cell: col is the neighbor's column.
Removed(t, u, n, col) ==
  /\ col \in Neighbors
  /\ t.neighbor_ids[col] = n /\ u.neighbor_ids[col] = NO_NODE_ID
  /\ \A k \in Neighbors : k # col => u.neighbor_ids[k] = t.neighbor_ids[k]
  /\ \A i \in Recipients : t.recipient_ids[i] = NO_NODE_ID => u.recipient_ids[i] = NO_NODE_ID
  /\ \A i \in Recipients : t.recipient_ids[i] # NO_NODE_ID =>
       /\ \A k \in Neighbors : k # col => u.routing_table[i][k] = t.routing_table[i][k]
       /\ u.recipient_ids[i] = IF u.forwarding_table[i] = NO_NODE_INDEX THEN NO_NODE_ID
                               ELSE t.recipient_ids[i]
       /\ u.forwarding_table[i] = NO_NODE_INDEX => Usable(u.neighbor_ids, u.routing_table[i]) = {}
       /\ Best(u.neighbor_ids, u.routing_table[i], t.forwarding_table[i])
            => u.forwarding_table[i] = t.forwarding_table[i]

LEMMA RemoveCells ==
  ASSUME NEW self, NEW t, Sound(self, t), NEW n \in NodeID, get_neighbor_index(t, n) # NO_NODE_INDEX,
         NEW u, u = remove_routing_neighbor(t, n)
  PROVE  Sound(self, u) /\ \E col : Removed(t, u, n, col)
<1> DEFINE j == get_neighbor_index(t, n)
           rows == [i \in Recipients |->
                      IF t.recipient_ids[i] # NO_NODE_ID
                      THEN [t.routing_table[i] EXCEPT ![j] = INVALID_PATH]
                      ELSE t.routing_table[i]]
           best == [i \in Recipients |->
                      IF t.recipient_ids[i] # NO_NODE_ID
                      THEN ClosestNeighbor(t.neighbor_ids, rows[i], t.forwarding_table[i])
                      ELSE t.forwarding_table[i]]
           recs == [i \in Recipients |-> IF best[i] = NO_NODE_INDEX THEN NO_NODE_ID
                                         ELSE t.recipient_ids[i]]
           cols == [t.neighbor_ids EXCEPT ![j] = NO_NODE_ID]
<1>t. /\ t.neighbor_ids \in [Neighbors -> NodeID \cup {NO_NODE_ID}]
      /\ t.routing_table \in [Recipients -> [Neighbors -> Path]]
      /\ DOMAIN t.neighbor_ids = Neighbors /\ Neighbors \subseteq Nat
  BY SoundFields
<1>1. j \in Neighbors /\ t.neighbor_ids[j] = n
  <2>1. \E i \in DOMAIN t.neighbor_ids : t.neighbor_ids[i] = n
    BY <1>t, FirstIndexMissing DEF get_neighbor_index
  <2> QED
    BY <1>t, <2>1, FirstIndexFound DEF get_neighbor_index
<1>2. u = [recipient_ids |-> recs, neighbor_ids |-> cols,
           routing_table |-> rows, forwarding_table |-> best]
  BY DEF remove_routing_neighbor
<1>s. Sound(self, u)
  BY RemoveSound
<1> HIDE DEF j
<1>3. \A i \in Recipients :
        /\ t.recipient_ids[i] # NO_NODE_ID =>
             /\ rows[i] = [t.routing_table[i] EXCEPT ![j] = INVALID_PATH]
             /\ best[i] = ClosestNeighbor(t.neighbor_ids, rows[i], t.forwarding_table[i])
        /\ recs[i] = IF best[i] = NO_NODE_INDEX THEN NO_NODE_ID ELSE t.recipient_ids[i]
  OBVIOUS
<1>4. /\ cols[j] = NO_NODE_ID
      /\ \A k \in Neighbors : k # j => cols[k] = t.neighbor_ids[k]
  BY <1>1, <1>t
<1> HIDE DEF rows, best, recs, cols
<1>5. /\ u.recipient_ids = recs /\ u.neighbor_ids = cols
      /\ u.routing_table = rows /\ u.forwarding_table = best
  BY <1>2
<1>6. ASSUME NEW i \in Recipients, t.recipient_ids[i] # NO_NODE_ID
      PROVE  /\ \A k \in Neighbors : k # j => rows[i][k] = t.routing_table[i][k]
             /\ best[i] = NO_NODE_INDEX => Usable(cols, rows[i]) = {}
             /\ Best(cols, rows[i], t.forwarding_table[i]) => best[i] = t.forwarding_table[i]
  <2>1. t.routing_table[i] \in [Neighbors -> Path]
    BY <1>t
  <2>2. /\ rows[i] \in [Neighbors -> Path] /\ rows[i][j] = INVALID_PATH
        /\ \A k \in Neighbors : k # j => rows[i][k] = t.routing_table[i][k]
    BY <1>1, <1>3, <1>6, <2>1, InvalidPathFacts
  <2>3. Usable(cols, rows[i]) = Usable(t.neighbor_ids, rows[i])
    BY <1>4, <2>2 DEF Usable
  <2>4. t.forwarding_table[i] \in Neighbors /\ t.neighbor_ids[t.forwarding_table[i]] # NO_NODE_ID
    BY <1>6 DEF Sound, RowOK, Best, Usable
  <2>c. best[i] = ClosestNeighbor(t.neighbor_ids, rows[i], t.forwarding_table[i])
    BY <1>3, <1>6
  <2>5. Usable(t.neighbor_ids, rows[i]) # {} => Best(t.neighbor_ids, rows[i], best[i])
    BY <2>2, <2>4, <2>c, ClosestIsBest
  <2>6. best[i] = NO_NODE_INDEX => Usable(cols, rows[i]) = {}
    BY <2>2, <2>3, <2>5, UsableFacts DEF Best
  <2>7. Best(cols, rows[i], t.forwarding_table[i]) => best[i] = t.forwarding_table[i]
    <3> SUFFICES ASSUME Best(cols, rows[i], t.forwarding_table[i]) PROVE best[i] = t.forwarding_table[i]
      OBVIOUS
    <3>1. Best(t.neighbor_ids, rows[i], t.forwarding_table[i])
      BY <2>3 DEF Best
    <3> QED
      BY <2>2, <2>c, <3>1, ClosestKeeps
  <2> QED
    BY <2>2, <2>6, <2>7
<1>7. Removed(t, u, n, j)
  BY <1>1, <1>3, <1>4, <1>5, <1>6 DEF Removed
<1> QED
  BY <1>s, <1>7

\* Without indices, the offers of the neighbor are gone and the others as before.
LEMMA RemoveOffers ==
  ASSUME NEW self, NEW t, Sound(self, t), NEW u, Sound(self, u), NEW n \in NodeID,
         NEW col, Removed(t, u, n, col)
  PROVE  /\ \A q \in NodeID : Offer(u, n, q) = INVALID_PATH
         /\ \A m, q \in NodeID : m # n => Offer(u, m, q) = Offer(t, m, q)
<1>0. /\ col \in Neighbors
      /\ t.neighbor_ids[col] = n /\ u.neighbor_ids[col] = NO_NODE_ID
      /\ \A k \in Neighbors : k # col => u.neighbor_ids[k] = t.neighbor_ids[k]
  BY DEF Removed
<1>1. \A i \in Recipients : u.recipient_ids[i] # NO_NODE_ID => u.recipient_ids[i] = t.recipient_ids[i]
  BY DEF Removed
<1>2. \A i \in Recipients : t.recipient_ids[i] # NO_NODE_ID =>
        /\ \A k \in Neighbors : k # col => u.routing_table[i][k] = t.routing_table[i][k]
        /\ u.recipient_ids[i] \in {NO_NODE_ID, t.recipient_ids[i]}
        /\ u.recipient_ids[i] = NO_NODE_ID => \A k \in Neighbors :
             u.neighbor_ids[k] # NO_NODE_ID => u.routing_table[i][k] = INVALID_PATH
  BY DEF Removed, Usable
<1>3. /\ Unique(t.recipient_ids) /\ Unique(t.neighbor_ids)
      /\ DOMAIN t.recipient_ids = Recipients /\ DOMAIN t.neighbor_ids = Neighbors
  BY SoundFields
<1>4. \A m \in NodeID : m # NO_NODE_ID
  BY NodeIDAssumption
<1>5. \A j \in Neighbors : u.neighbor_ids[j] # n
  BY <1>0, <1>3, <1>4 DEF Unique
<1>6. ASSUME NEW m \in NodeID, NEW q \in NodeID, m # n
      PROVE  Offer(u, m, q) = Offer(t, m, q)
  <2>1. CASE \A i \in Recipients : t.recipient_ids[i] # q
    <3>1. \A i \in Recipients : u.recipient_ids[i] # q
      BY <1>1, <1>4, <2>1
    <3> QED
      BY <2>1, <3>1, OfferFacts
  <2>2. CASE \A j \in Neighbors : t.neighbor_ids[j] # m
    <3>1. \A j \in Neighbors : u.neighbor_ids[j] # m
      BY <1>0, <1>4, <2>2
    <3> QED
      BY <2>2, <3>1, OfferFacts
  <2>3. CASE /\ \E i \in Recipients : t.recipient_ids[i] = q
             /\ \E j \in Neighbors : t.neighbor_ids[j] = m
    <3>1. PICK i \in Recipients : t.recipient_ids[i] = q
      BY <2>3
    <3>2. PICK j \in Neighbors : t.neighbor_ids[j] = m
      BY <2>3
    <3>3. j # col /\ u.neighbor_ids[j] = m
      BY <1>0, <1>6, <3>2
    <3>4. u.routing_table[i][j] = t.routing_table[i][j]
      BY <1>2, <1>4, <3>1, <3>3
    <3>5. Offer(t, m, q) = t.routing_table[i][j]
      BY <3>1, <3>2, OfferFacts
    <3>6. CASE u.recipient_ids[i] = q
      BY <3>3, <3>4, <3>5, <3>6, OfferFacts
    <3>7. CASE u.recipient_ids[i] # q
      <4>1. u.recipient_ids[i] = NO_NODE_ID /\ u.routing_table[i][j] = INVALID_PATH
        BY <1>2, <1>4, <3>1, <3>3, <3>7
      <4>2. \A k \in Recipients : u.recipient_ids[k] # q
        BY <1>1, <1>3, <1>4, <3>1, <3>7 DEF Unique
      <4>3. Offer(u, m, q) = INVALID_PATH
        BY <4>2, OfferFacts
      <4> QED
        BY <3>4, <3>5, <4>1, <4>3
    <3> QED
      BY <3>6, <3>7
  <2> QED
    BY <2>1, <2>2, <2>3
<1>7. \A q \in NodeID : Offer(u, n, q) = INVALID_PATH
  BY <1>5, OfferFacts
<1> QED
  BY <1>6, <1>7
=============================================================================
