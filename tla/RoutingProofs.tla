--------------------------- MODULE RoutingProofs ----------------------------
(***************************************************************************)
(* Proofs about module Routing, for every set of node IDs, every size of   *)
(* the tables and every set of paths the neighbors may send.               *)
(***************************************************************************)
EXTENDS Routing, RoutingTableProofs

USE DEF NO_NODE_ID, NO_NODE_INDEX

-----------------------------------------------------------------------------
(* The invariant *)

\* Inductive invariant: the tables are sound and the announcements up to date.
Inv == TypeOK /\ Sound(self_id, table) /\ AnnouncementsUpToDate

\* A sound table has the three properties of the tables.
LEMMA SoundImplies ==
  Sound(self_id, table) => NoDuplicateIndex /\ ForwardsAlongShortest /\ NoPathThroughSelf
<1> SUFFICES ASSUME Sound(self_id, table)
             PROVE  NoDuplicateIndex /\ ForwardsAlongShortest /\ NoPathThroughSelf
  OBVIOUS
<1>0. /\ table.recipient_ids \in [Recipients -> NodeID \cup {NO_NODE_ID}]
      /\ table.neighbor_ids \in [Neighbors -> NodeID \cup {NO_NODE_ID}]
  BY TableFields DEF Sound, Shape
<1>1. NoDuplicateIndex
  BY <1>0 DEF NoDuplicateIndex, AllocatedRows, AllocatedCols, Sound, Shape, Unique
<1>2. ForwardsAlongShortest
  BY DEF ForwardsAlongShortest, AllocatedRows, Sound, RowOK, Best
<1>3. NoPathThroughSelf
  BY DEF NoPathThroughSelf, AllocatedRows, AllocatedCols, Sound, Shape, RowSelfFree, SelfFree
<1> QED
  BY <1>1, <1>2, <1>3

\* The tables start sound.
LEMMA InitInv == Init => Inv
<1> SUFFICES ASSUME Init PROVE Inv
  OBVIOUS
<1>1. <<>> \in Path
  BY DEF Path
<1>2. table \in Table
  BY <1>1, SizeAssumption DEF Init, Table, Recipients, Neighbors
<1>3. Sound(self_id, table) /\ \A r \in NodeID : ShortestPath(table, r) = INVALID_PATH
  BY <1>2, EmptySound, RoutesAssumption DEF Init
<1>4. TypeOK
  BY <1>2, InvalidPathFacts DEF Init, TypeOK
<1> QED
  BY <1>3, <1>4 DEF Inv, AnnouncementsUpToDate, Peers, Init

\* A ROUTE message keeps the invariant: the only row that changes is the one whose
\* change of shortest path is announced.
LEMMA ReceiveRouteInv ==
  ASSUME Inv, NEW n \in NodeID, NEW r \in NodeID,
         NEW path \in Routes \cup {<<>>, INVALID_PATH}, ReceiveRoute(n, r, path)
  PROVE  Inv'
<1> DEFINE p == Prepared(table, n, r)
           row == get_recipient_index(p, r)
           u == update_routing_given_new_path(self_id, table, n, r, path)
<1>1. n \in Peers /\ r \in Peers /\ path \in Path
  <2>1. Acceptable(n, r, path)
    BY DEF ReceiveRoute
  <2>2. n \in Peers /\ r \in Peers
    BY <2>1 DEF Acceptable, Peers
  <2>3. <<>> \in Seq(NodeID)
    OBVIOUS
  <2>4. path \in Path
    BY <2>3, RoutesAssumption DEF Path
  <2> QED
    BY <2>2, <2>4
<1>2. /\ table' = u /\ exited' = exited
      /\ told' = IF ShortestPathChanged(p, u, row)
                 THEN [told EXCEPT ![r] = ShortestPath(u, r)] ELSE told
      /\ HasRoom(table.neighbor_ids, n) /\ HasRoom(table.recipient_ids, r)
  BY DEF ReceiveRoute
<1> HIDE DEF p, row, u
<1>3. Sound(self_id, table) /\ told \in [NodeID -> Path] /\ exited \in BOOLEAN
      /\ \A q \in Peers : told[q] = ShortestPath(table, q)
  BY DEF Inv, TypeOK, AnnouncementsUpToDate
<1>4. Sound(self_id, u)
  BY <1>1, <1>2, <1>3, UpdateSound DEF p, row, u, Peers
<1>6. ShortestPath(u, r) \in Path
  BY <1>4, ShortestPathFacts
<1>7. u \in Table /\ told' \in [NodeID -> Path]
  BY <1>2, <1>3, <1>4, <1>6 DEF Sound, Shape
<1>8. ASSUME NEW q \in Peers PROVE told'[q] = ShortestPath(u, q)
  <2>1. /\ q # r => ShortestPath(u, q) = ShortestPath(table, q)
        /\ ~ShortestPathChanged(p, u, row) => ShortestPath(u, r) = ShortestPath(table, r)
    BY <1>1, <1>2, <1>3, UpdateShortest DEF p, row, u, Peers
  <2> QED
    BY <1>1, <1>2, <1>3, <2>1
<1>9. TypeOK'
  BY <1>2, <1>3, <1>7 DEF TypeOK
<1>10. AnnouncementsUpToDate'
  BY <1>2, <1>8 DEF AnnouncementsUpToDate
<1>11. Sound(self_id, table)'
  <2>1. Sound(self_id, table')
    BY <1>2, <1>4
  <2> QED
    BY <2>1 DEF Sound, Shape, RowSelfFree, RowOK, Best, Usable
<1> QED
  BY <1>9, <1>10, <1>11 DEF Inv

\* Removing a neighbor keeps the invariant: every row whose shortest path changes
\* is announced, the withdrawn ones included.
LEMMA RemoveNeighborInv ==
  ASSUME Inv, NEW n \in NodeID, RemoveNeighbor(n)
  PROVE  Inv'
<1> DEFINE u == remove_routing_neighbor(table, n)
<1>1. /\ table' = u /\ exited' = exited
      /\ get_neighbor_index(table, n) # NO_NODE_INDEX
      /\ told' = [r \in NodeID |->
                    IF /\ get_recipient_index(table, r) # NO_NODE_INDEX
                       /\ ShortestPathChanged(table, u, get_recipient_index(table, r))
                    THEN ShortestPath(u, r) ELSE told[r]]
  BY DEF RemoveNeighbor
<1> HIDE DEF u
<1>2. Sound(self_id, table) /\ told \in [NodeID -> Path] /\ exited \in BOOLEAN
      /\ \A q \in Peers : told[q] = ShortestPath(table, q)
  BY DEF Inv, TypeOK, AnnouncementsUpToDate
<1>3. Sound(self_id, u)
  BY <1>1, <1>2, RemoveSound DEF u
<1>4. \A r \in NodeID : ShortestPath(u, r) \in Path
  BY <1>3, ShortestPathFacts
<1>5. told' \in [NodeID -> Path]
  BY <1>1, <1>2, <1>4
<1>6. ASSUME NEW q \in Peers PROVE told'[q] = ShortestPath(u, q)
  <2>0. q \in NodeID /\ told'[q] =
          IF /\ get_recipient_index(table, q) # NO_NODE_INDEX
             /\ ShortestPathChanged(table, u, get_recipient_index(table, q))
          THEN ShortestPath(u, q) ELSE ShortestPath(table, q)
    BY <1>1, <1>2 DEF Peers
  <2>1. CASE \A i \in Recipients : table.recipient_ids[i] # q
    <3>1. ShortestPath(u, q) = ShortestPath(table, q)
      BY <1>1, <1>2, <2>0, <2>1, RemoveShortest DEF u
    <3> QED
      BY <1>2, <2>0, <2>1, <3>1, ShortestPathFacts
  <2>2. CASE \E i \in Recipients : table.recipient_ids[i] = q
    <3>1. PICK i \in Recipients : table.recipient_ids[i] = q
      BY <2>2
    <3>2. get_recipient_index(table, q) = i /\ i # NO_NODE_INDEX
      BY <1>2, <2>0, <3>1, ShortestPathFacts, SizeAssumption DEF Recipients
    <3>3. ~ShortestPathChanged(table, u, i) => ShortestPath(u, q) = ShortestPath(table, q)
      BY <1>1, <1>2, <2>0, <3>1, RemoveShortest DEF u
    <3> QED
      BY <2>0, <3>2, <3>3
  <2> QED
    BY <2>1, <2>2
<1>7. TypeOK'
  BY <1>1, <1>2, <1>3, <1>5 DEF TypeOK, Sound, Shape
<1>8. AnnouncementsUpToDate'
  BY <1>1, <1>6 DEF AnnouncementsUpToDate
<1>9. Sound(self_id, table)'
  <2>1. Sound(self_id, table')
    BY <1>1, <1>3
  <2> QED
    BY <2>1 DEF Sound, Shape, RowSelfFree, RowOK, Best, Usable
<1> QED
  BY <1>7, <1>8, <1>9 DEF Inv

\* Starting over in a new ring keeps the invariant.
LEMMA InitRoutingInv ==
  ASSUME Inv, InitRouting
  PROVE  Inv'
<1> DEFINE u == init_routing(table)
<1>0. /\ table' = u /\ exited' = exited
      /\ told' = [r \in NodeID |-> INVALID_PATH]
      /\ table \in Table /\ exited \in BOOLEAN
  BY DEF Inv, TypeOK, InitRouting
<1>t. /\ table.routing_table \in [Recipients -> [Neighbors -> Path]]
      /\ table.forwarding_table \in [Recipients -> Neighbors \cup {NO_NODE_INDEX}]
      /\ table = [recipient_ids |-> table.recipient_ids, neighbor_ids |-> table.neighbor_ids,
                  routing_table |-> table.routing_table,
                  forwarding_table |-> table.forwarding_table]
  BY <1>0, TableFields
<1> DEFINE rows == [i \in Recipients |-> NO_NODE_ID]
           cols == [j \in Neighbors |-> NO_NODE_ID]
<1>r. /\ rows \in [Recipients -> NodeID \cup {NO_NODE_ID}]
      /\ cols \in [Neighbors -> NodeID \cup {NO_NODE_ID}]
      /\ \A i \in Recipients : rows[i] = NO_NODE_ID
      /\ \A j \in Neighbors : cols[j] = NO_NODE_ID
  OBVIOUS
<1>u. u = [table EXCEPT !.recipient_ids = rows, !.neighbor_ids = cols]
  BY DEF init_routing
<1> HIDE DEF u, rows, cols
<1>1. /\ u.recipient_ids = rows /\ u.neighbor_ids = cols
      /\ u.routing_table = table.routing_table
      /\ u.forwarding_table = table.forwarding_table
      /\ u = [recipient_ids |-> u.recipient_ids, neighbor_ids |-> u.neighbor_ids,
              routing_table |-> u.routing_table, forwarding_table |-> u.forwarding_table]
  BY <1>u, <1>t
<1>2. u \in Table /\ (\A i \in Recipients : u.recipient_ids[i] = NO_NODE_ID)
      /\ \A j \in Neighbors : u.neighbor_ids[j] = NO_NODE_ID
  BY <1>1, <1>r, <1>t DEF Table
<1>3. Sound(self_id, u) /\ \A r \in NodeID : ShortestPath(u, r) = INVALID_PATH
  BY <1>2, EmptySound, RoutesAssumption
<1>4. TypeOK'
  BY <1>0, <1>2, InvalidPathFacts DEF TypeOK
<1>5. AnnouncementsUpToDate'
  BY <1>0, <1>3 DEF AnnouncementsUpToDate, Peers
<1>6. Sound(self_id, table)'
  <2>1. Sound(self_id, table')
    BY <1>0, <1>3
  <2> QED
    BY <2>1 DEF Sound, Shape, RowSelfFree, RowOK, Best, Usable
<1> QED
  BY <1>4, <1>5, <1>6 DEF Inv

\* Steps that leave the tables and the announcements alone keep the invariant.
LEMMA UnchangedInv ==
  ASSUME Inv, UNCHANGED <<table, told>>, exited' \in BOOLEAN
  PROVE  Inv'
<1>1. Sound(self_id, table)'
  BY DEF Inv, Sound, Shape, RowSelfFree, RowOK, Best, Usable
<1>2. TypeOK'
  BY DEF Inv, TypeOK
<1>3. AnnouncementsUpToDate'
  BY DEF Inv, AnnouncementsUpToDate
<1> QED
  BY <1>1, <1>2, <1>3 DEF Inv

\* The invariant holds in every reachable state.
THEOREM Invariant == Spec => []Inv
<1>1. Init => Inv
  BY InitInv
<1>2. Inv /\ [Next]_vars => Inv'
  <2> SUFFICES ASSUME Inv, [Next]_vars PROVE Inv'
    OBVIOUS
  <2>1. ASSUME NEW n \in NodeID, NEW r \in NodeID,
               NEW path \in Routes \cup {<<>>, INVALID_PATH}, ReceiveRoute(n, r, path)
        PROVE  Inv'
    BY <2>1, ReceiveRouteInv
  <2>2. ASSUME NEW n \in NodeID, NEW r \in NodeID,
               NEW path \in Routes \cup {<<>>, INVALID_PATH}, RunOutOfSpace(n, r, path)
        PROVE  Inv'
    BY <2>2, UnchangedInv DEF RunOutOfSpace
  <2>3. ASSUME NEW n \in NodeID, RemoveNeighbor(n) PROVE Inv'
    BY <2>3, RemoveNeighborInv
  <2>4. CASE InitRouting
    BY <2>4, InitRoutingInv
  <2>5. CASE UNCHANGED vars
    BY <2>5, UnchangedInv DEF vars, Inv, TypeOK
  <2> QED
    BY <2>1, <2>2, <2>3, <2>4, <2>5 DEF Next
<1> QED
  BY <1>1, <1>2, PTL DEF Spec

\* The arrays always hold values of their types: a free index, an ID, a path or the
\* sentinel, whatever messages, closed connections and joins arrive.
THEOREM TypeCorrect == Spec => []TypeOK
<1>1. Inv => TypeOK
  BY DEF Inv
<1> QED
  BY <1>1, Invariant, PTL

\* get_recipient_index and get_neighbor_index never give one ID two indices.
THEOREM IndicesUnique == Spec => []NoDuplicateIndex
<1>1. Inv => NoDuplicateIndex
  BY SoundImplies DEF Inv
<1> QED
  BY <1>1, Invariant, PTL

\* forward_message always finds a neighbor that offers a path with the fewest hops.
THEOREM ForwardingShortest == Spec => []ForwardsAlongShortest
<1>1. Inv => ForwardsAlongShortest
  BY SoundImplies DEF Inv
<1> QED
  BY <1>1, Invariant, PTL

\* No stored path leads back through this node.
THEOREM LoopFree == Spec => []NoPathThroughSelf
<1>1. Inv => NoPathThroughSelf
  BY SoundImplies DEF Inv
<1> QED
  BY <1>1, Invariant, PTL

\* What the neighbors were last told about each recipient is its shortest path.
THEOREM AnnouncementsCorrect == Spec => []AnnouncementsUpToDate
<1>1. Inv => AnnouncementsUpToDate
  BY DEF Inv
<1> QED
  BY <1>1, Invariant, PTL

=============================================================================
