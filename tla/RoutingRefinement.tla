-------------------------- MODULE RoutingRefinement -------------------------
(***************************************************************************)
(* Proof that the tables of routing.c (module Routing), with their indices *)
(* that are freed and given to other nodes, implement the index-free       *)
(* specification RoutingBase.                                              *)
(***************************************************************************)
EXTENDS RoutingProofs

USE DEF NO_NODE_ID, NO_NODE_INDEX

-----------------------------------------------------------------------------
(* What a table means without its indices *)

NextHop(t, r) ==
  LET i == get_recipient_index(t, r) IN
  IF i = NO_NODE_INDEX THEN NO_NODE_ID ELSE t.neighbor_ids[t.forwarding_table[i]]

\* The abstract state of a table.
Offers(t) == [n \in Peers |-> [r \in Peers |-> Offer(t, n, r)]]
Hops(t)   == [r \in Peers |-> NextHop(t, r)]

LEMMA Mapping == Heard = Offers(table) /\ Via = Hops(table)
  BY DEF Heard, Via, Offers, Hops, Offer, NextHop

\* A peer is a node, and no sentinel.
LEMMA PeerFacts == ASSUME NEW n \in Peers PROVE n \in NodeID /\ n # NO_NODE_ID /\ n \in Nat
  BY NodeIDAssumption DEF Peers

\* The neighbor used for a row, and when there is none.
LEMMA HopFacts ==
  ASSUME NEW t, Sound(self_id, t), NEW r \in Peers
  PROVE  /\ \A i \in Recipients :
              t.recipient_ids[i] = r =>
                /\ NextHop(t, r) = t.neighbor_ids[t.forwarding_table[i]]
                /\ t.forwarding_table[i] \in Neighbors
                /\ NextHop(t, r) \in Peers
                /\ Best(t.neighbor_ids, t.routing_table[i], t.forwarding_table[i])
         /\ (\A i \in Recipients : t.recipient_ids[i] # r) => NextHop(t, r) = NO_NODE_ID
<1>1. /\ DOMAIN t.recipient_ids = Recipients /\ Recipients \subseteq Nat /\ Unique(t.recipient_ids)
      /\ t.neighbor_ids \in [Neighbors -> NodeID \cup {NO_NODE_ID}]
  BY SoundFields
<1>2. /\ \A i \in Recipients : t.recipient_ids[i] = r => get_recipient_index(t, r) = i /\ i # NO_NODE_INDEX
      /\ (\A i \in Recipients : t.recipient_ids[i] # r) => get_recipient_index(t, r) = NO_NODE_INDEX
  BY <1>1, PeerFacts, IndexOf DEF get_recipient_index
<1>3. ASSUME NEW i \in Recipients, t.recipient_ids[i] = r
      PROVE  /\ NextHop(t, r) = t.neighbor_ids[t.forwarding_table[i]]
             /\ t.forwarding_table[i] \in Neighbors
             /\ NextHop(t, r) \in Peers
             /\ Best(t.neighbor_ids, t.routing_table[i], t.forwarding_table[i])
  <2>1. NextHop(t, r) = t.neighbor_ids[t.forwarding_table[i]]
    BY <1>2, <1>3 DEF NextHop
  <2>2. Best(t.neighbor_ids, t.routing_table[i], t.forwarding_table[i])
    BY <1>3, PeerFacts DEF Sound, RowOK
  <2>3. t.forwarding_table[i] \in Neighbors /\ t.neighbor_ids[t.forwarding_table[i]] # NO_NODE_ID
    BY <2>2 DEF Best, Usable
  <2>4. t.neighbor_ids[t.forwarding_table[i]] # self_id
    BY <2>3 DEF Sound, Shape
  <2> QED
    BY <1>1, <2>1, <2>2, <2>3, <2>4 DEF Peers
<1>4. (\A i \in Recipients : t.recipient_ids[i] # r) => NextHop(t, r) = NO_NODE_ID
  BY <1>2 DEF NextHop
<1> QED
  BY <1>3, <1>4

\* The shortest offers for a recipient are those of the best columns of its row.
LEMMA ShortestFacts ==
  ASSUME NEW t, Sound(self_id, t), NEW r \in Peers
  PROVE  /\ \A i \in Recipients : t.recipient_ids[i] = r =>
              \A n \in Peers : n \in Base!ShortestVia(Offers(t), r) <=>
                \E j \in Neighbors : t.neighbor_ids[j] = n /\ Best(t.neighbor_ids, t.routing_table[i], j)
         /\ (\A i \in Recipients : t.recipient_ids[i] # r) => Base!ShortestVia(Offers(t), r) = {}
<1> DEFINE h == Offers(t)
<1>0. \A n \in Peers : h[n][r] = Offer(t, n, r)
  BY DEF Offers
<1> HIDE DEF h
<1>1. \A n \in Peers : n \in Base!ShortestVia(h, r) <=>
         /\ Offer(t, n, r) # INVALID_PATH
         /\ \A m \in Peers : Offer(t, m, r) # INVALID_PATH => Len(Offer(t, n, r)) <= Len(Offer(t, m, r))
  BY <1>0 DEF Base!ShortestVia
<1>2. Base!ShortestVia(h, r) \subseteq Peers
  BY DEF Base!ShortestVia
<1>3. ASSUME NEW i \in Recipients, t.recipient_ids[i] = r, NEW n \in Peers
      PROVE  n \in Base!ShortestVia(h, r) <=>
               \E j \in Neighbors : t.neighbor_ids[j] = n /\ Best(t.neighbor_ids, t.routing_table[i], j)
  <2> DEFINE nb == t.neighbor_ids
             row == t.routing_table[i]
  <2>0. nb \in [Neighbors -> NodeID \cup {NO_NODE_ID}] /\ \A j \in Neighbors : nb[j] # self_id
    BY SoundFields DEF Sound, Shape
  <2>1. \A j \in Neighbors, m \in Peers : nb[j] = m => Offer(t, m, r) = row[j]
    BY <1>3, OfferFacts DEF Peers
  <2>2. \A m \in Peers : Offer(t, m, r) # INVALID_PATH => \E j \in Neighbors : nb[j] = m
    BY OfferFacts DEF Peers
  <2>3. \A j \in Usable(nb, row) : j \in Neighbors /\ nb[j] \in Peers /\ row[j] # INVALID_PATH
    BY <2>0 DEF Usable, Peers
  <2> HIDE DEF nb, row
  <2>4. ASSUME n \in Base!ShortestVia(h, r)
        PROVE  \E j \in Neighbors : nb[j] = n /\ Best(nb, row, j)
    <3>1. PICK j \in Neighbors : nb[j] = n
      BY <1>1, <2>2, <2>4
    <3>2. j \in Usable(nb, row)
      BY <1>1, <2>1, <2>4, <3>1, PeerFacts DEF Usable
    <3>3. ASSUME NEW k \in Usable(nb, row) PROVE Len(row[j]) <= Len(row[k])
      BY <1>1, <2>1, <2>3, <2>4, <3>1, <3>3
    <3> QED
      BY <3>1, <3>2, <3>3 DEF Best
  <2>5. ASSUME NEW j \in Neighbors, nb[j] = n, Best(nb, row, j)
        PROVE  n \in Base!ShortestVia(h, r)
    <3>1. Offer(t, n, r) = row[j] /\ row[j] # INVALID_PATH
      BY <2>1, <2>5 DEF Best, Usable
    <3>2. ASSUME NEW m \in Peers, Offer(t, m, r) # INVALID_PATH
          PROVE  Len(row[j]) <= Len(Offer(t, m, r))
      <4>1. PICK k \in Neighbors : nb[k] = m
        BY <2>2, <3>2
      <4>2. Offer(t, m, r) = row[k] /\ k \in Usable(nb, row)
        BY <2>1, <3>2, <4>1, PeerFacts DEF Usable
      <4> QED
        BY <2>5, <4>2 DEF Best
    <3> QED
      BY <1>1, <3>1, <3>2
  <2> QED
    BY <2>4, <2>5 DEF nb, row
<1>4. ASSUME \A i \in Recipients : t.recipient_ids[i] # r PROVE Base!ShortestVia(h, r) = {}
  <2>1. \A n \in Peers : Offer(t, n, r) = INVALID_PATH
    BY <1>4, OfferFacts DEF Peers
  <2> QED
    BY <1>1, <1>2, <2>1
<1> QED
  BY <1>3, <1>4 DEF h

-----------------------------------------------------------------------------
(* The neighbor a step may choose *)

\* Every column that exists in a exists in b, for the same neighbor.
Extends(b, a) == \A j \in Neighbors : a[j] # NO_NODE_ID => b[j] = a[j]

\* After a step that only adds or only removes columns, and that keeps the column
\* of a row while it is best, the neighbor used is one RoutingBase allows.
LEMMA HopChoice ==
  ASSUME NEW t, Sound(self_id, t), NEW u, Sound(self_id, u), NEW r \in Peers,
         Extends(u.neighbor_ids, t.neighbor_ids) \/ Extends(t.neighbor_ids, u.neighbor_ids),
         \A i, k \in Recipients : t.recipient_ids[i] = r /\ u.recipient_ids[k] = r => i = k,
         \A i \in Recipients :
           /\ t.recipient_ids[i] = r /\ u.recipient_ids[i] = r
           /\ Best(u.neighbor_ids, u.routing_table[i], t.forwarding_table[i])
           => u.forwarding_table[i] = t.forwarding_table[i]
  PROVE  NextHop(u, r) \in Base!Choices(Offers(u), r, NextHop(t, r))
<1> DEFINE S == Base!ShortestVia(Offers(u), r)
<1>1. Base!Choices(Offers(u), r, NextHop(t, r)) =
        IF S = {} THEN {NO_NODE_ID}
        ELSE IF NextHop(t, r) \in S THEN {NextHop(t, r)} ELSE S
  BY DEF Base!Choices
<1>2. CASE \A i \in Recipients : u.recipient_ids[i] # r
  <2>1. S = {}
    BY <1>2, ShortestFacts
  <2>2. NextHop(u, r) = NO_NODE_ID
    BY <1>2, HopFacts
  <2> QED
    BY <1>1, <2>1, <2>2
<1>3. CASE \E i \in Recipients : u.recipient_ids[i] = r
  <2>1. PICK i \in Recipients : u.recipient_ids[i] = r
    BY <1>3
  <2>2. /\ NextHop(u, r) = u.neighbor_ids[u.forwarding_table[i]]
        /\ u.forwarding_table[i] \in Neighbors
        /\ NextHop(u, r) \in Peers
        /\ Best(u.neighbor_ids, u.routing_table[i], u.forwarding_table[i])
    BY <2>1, HopFacts
  <2>3. \A n \in Peers : n \in S <=>
          \E j \in Neighbors : u.neighbor_ids[j] = n /\ Best(u.neighbor_ids, u.routing_table[i], j)
    BY <2>1, ShortestFacts
  <2>4. NextHop(u, r) \in S
    BY <2>2, <2>3
  <2>5. ASSUME NextHop(t, r) \in S PROVE NextHop(u, r) = NextHop(t, r)
    <3>1. NextHop(t, r) \in Peers /\ NextHop(t, r) # NO_NODE_ID
      BY <2>5, PeerFacts DEF Base!ShortestVia
    <3>2. PICK k \in Recipients : t.recipient_ids[k] = r
      BY <3>1, HopFacts
    <3>3. k = i
      BY <2>1, <3>2
    <3>4. NextHop(t, r) = t.neighbor_ids[t.forwarding_table[i]] /\ t.forwarding_table[i] \in Neighbors
      BY <3>2, <3>3, HopFacts
    <3>5. PICK j \in Neighbors : /\ u.neighbor_ids[j] = NextHop(t, r)
                                 /\ Best(u.neighbor_ids, u.routing_table[i], j)
      BY <2>3, <2>5, <3>1
    <3>6. /\ Unique(t.neighbor_ids) /\ Unique(u.neighbor_ids)
          /\ DOMAIN t.neighbor_ids = Neighbors /\ DOMAIN u.neighbor_ids = Neighbors
      BY SoundFields
    <3>7. j = t.forwarding_table[i]
      BY <3>1, <3>4, <3>5, <3>6 DEF Extends, Unique
    <3>8. u.forwarding_table[i] = t.forwarding_table[i]
      BY <2>1, <3>2, <3>3, <3>5, <3>7
    <3> QED
      BY <2>2, <3>5, <3>7, <3>8
  <2> QED
    BY <1>1, <2>4, <2>5
<1> QED
  BY <1>2, <1>3

\* Seen without indices, one offer changes and only the recipient's neighbor is
\* chosen again.
LEMMA UpdateMeaning ==
  ASSUME NEW t, Sound(self_id, t), NEW u, Sound(self_id, u), NEW n \in Peers, NEW r \in Peers, NEW path,
         NEW row, NEW col, Updated(t, u, n, r, path, row, col)
  PROVE  /\ Offer(u, n, r) = path
         /\ \A m, q \in Peers : m # n \/ q # r => Offer(u, m, q) = Offer(t, m, q)
         /\ \A q \in Peers : q # r => NextHop(u, q) = NextHop(t, q)
         /\ NextHop(u, r) \in Base!Choices(Offers(u), r, NextHop(t, r))
<1>0. /\ row \in Recipients /\ col \in Neighbors
      /\ u.neighbor_ids[col] = n /\ t.neighbor_ids[col] \in {n, NO_NODE_ID}
      /\ \A j \in Neighbors : j # col => u.neighbor_ids[j] = t.neighbor_ids[j]
      /\ t.recipient_ids[row] \in {r, NO_NODE_ID}
      /\ t.recipient_ids[row] = NO_NODE_ID => \A i \in Recipients : t.recipient_ids[i] # r
      /\ u.recipient_ids[row] = IF u.forwarding_table[row] = NO_NODE_INDEX THEN NO_NODE_ID ELSE r
  BY DEF Updated
<1>2. \A i \in Recipients : i # row =>
        /\ u.recipient_ids[i] = t.recipient_ids[i]
        /\ u.forwarding_table[i] = t.forwarding_table[i]
        /\ \A j \in Neighbors : j # col => u.routing_table[i][j] = t.routing_table[i][j]
        /\ u.routing_table[i][col] = IF t.neighbor_ids[col] = n THEN t.routing_table[i][col]
                                     ELSE INVALID_PATH
  BY DEF Updated
<1>3. /\ Unique(t.recipient_ids) /\ Unique(u.recipient_ids)
      /\ Unique(t.neighbor_ids) /\ Unique(u.neighbor_ids)
      /\ DOMAIN t.recipient_ids = Recipients /\ DOMAIN u.recipient_ids = Recipients
      /\ DOMAIN t.neighbor_ids = Neighbors /\ DOMAIN u.neighbor_ids = Neighbors
  BY SoundFields
<1>4. \A m \in Peers : m # NO_NODE_ID
  BY PeerFacts
\* A neighbor has the same column before and after, or it is n and has a new one.
<1>5. \A j \in Neighbors, m \in Peers : t.neighbor_ids[j] = m => u.neighbor_ids[j] = m
  BY <1>0, <1>4
<1>8. \A i \in Recipients : t.recipient_ids[i] = r => i = row
  BY <1>0, <1>3, <1>4 DEF Unique
<1>9. \A i \in Recipients : u.recipient_ids[i] = r => i = row
  BY <1>2, <1>8
<1>10. \A i \in Recipients, q \in Peers : q # r => (t.recipient_ids[i] = q <=> u.recipient_ids[i] = q)
  BY <1>0, <1>2, <1>4
<1>11. /\ Offer(u, n, r) = path
       /\ \A m, q \in NodeID : m # n \/ q # r => Offer(u, m, q) = Offer(t, m, q)
  BY PeerFacts, UpdateOffers
<1>14. ASSUME NEW q \in Peers, q # r PROVE NextHop(u, q) = NextHop(t, q)
  <2>1. CASE \A i \in Recipients : t.recipient_ids[i] # q
    <3>1. \A i \in Recipients : u.recipient_ids[i] # q
      BY <1>10, <1>14, <2>1
    <3> QED
      BY <2>1, <3>1, HopFacts
  <2>2. CASE \E i \in Recipients : t.recipient_ids[i] = q
    <3>1. PICK i \in Recipients : t.recipient_ids[i] = q
      BY <2>2
    <3>2. u.recipient_ids[i] = q /\ i # row
      BY <1>0, <1>4, <1>10, <1>14, <3>1
    <3>3. /\ NextHop(t, q) = t.neighbor_ids[t.forwarding_table[i]]
          /\ t.forwarding_table[i] \in Neighbors /\ NextHop(t, q) \in Peers
      BY <3>1, HopFacts
    <3>4. NextHop(u, q) = u.neighbor_ids[t.forwarding_table[i]]
      BY <1>2, <3>2, HopFacts
    <3> QED
      BY <1>5, <3>3, <3>4
  <2> QED
    BY <2>1, <2>2
<1>15. NextHop(u, r) \in Base!Choices(Offers(u), r, NextHop(t, r))
  <2>1. Extends(u.neighbor_ids, t.neighbor_ids)
    BY <1>0 DEF Extends
  <2>2. \A i, k \in Recipients : t.recipient_ids[i] = r /\ u.recipient_ids[k] = r => i = k
    BY <1>8, <1>9
  <2>3. \A i \in Recipients :
          /\ t.recipient_ids[i] = r /\ u.recipient_ids[i] = r
          /\ Best(u.neighbor_ids, u.routing_table[i], t.forwarding_table[i])
          => u.forwarding_table[i] = t.forwarding_table[i]
    BY <1>8 DEF Updated
  <2> QED
    BY <2>1, <2>2, <2>3, HopChoice
<1> QED
  BY <1>11, <1>14, <1>15, PeerFacts

\* Seen without indices, the neighbor's offers are gone, the others are as before,
\* and every neighbor used is one RoutingBase allows.
LEMMA RemoveMeaning ==
  ASSUME NEW t, Sound(self_id, t), NEW u, Sound(self_id, u), NEW n \in Peers, NEW col, Removed(t, u, n, col)
  PROVE  /\ \A q \in Peers : Offer(u, n, q) = INVALID_PATH
         /\ \A m, q \in Peers : m # n => Offer(u, m, q) = Offer(t, m, q)
         /\ \A q \in Peers : /\ NextHop(u, q) \in Peers \cup {NO_NODE_ID}
                             /\ NextHop(u, q) \in Base!Choices(Offers(u), q, NextHop(t, q))
<1>0. /\ col \in Neighbors
      /\ t.neighbor_ids[col] = n /\ u.neighbor_ids[col] = NO_NODE_ID
      /\ \A k \in Neighbors : k # col => u.neighbor_ids[k] = t.neighbor_ids[k]
  BY DEF Removed
<1>1. \A i \in Recipients : u.recipient_ids[i] # NO_NODE_ID => u.recipient_ids[i] = t.recipient_ids[i]
  BY DEF Removed
<1>3. /\ Unique(t.recipient_ids) /\ Unique(t.neighbor_ids)
      /\ DOMAIN t.recipient_ids = Recipients /\ DOMAIN t.neighbor_ids = Neighbors
  BY SoundFields
<1>4. \A m \in Peers : m # NO_NODE_ID
  BY PeerFacts
<1>6. /\ \A q \in NodeID : Offer(u, n, q) = INVALID_PATH
      /\ \A k, q \in NodeID : k # n => Offer(u, k, q) = Offer(t, k, q)
  BY PeerFacts, RemoveOffers
<1>7. ASSUME NEW q \in Peers
      PROVE  /\ NextHop(u, q) \in Peers \cup {NO_NODE_ID}
             /\ NextHop(u, q) \in Base!Choices(Offers(u), q, NextHop(t, q))
  <2>2. NextHop(u, q) \in Peers \cup {NO_NODE_ID}
    BY HopFacts
  <2>3. Extends(t.neighbor_ids, u.neighbor_ids)
    BY <1>0 DEF Extends
  <2>4. \A i, k \in Recipients : t.recipient_ids[i] = q /\ u.recipient_ids[k] = q => i = k
    BY <1>1, <1>3, <1>4 DEF Unique
  <2>5. \A i \in Recipients :
          /\ t.recipient_ids[i] = q /\ u.recipient_ids[i] = q
          /\ Best(u.neighbor_ids, u.routing_table[i], t.forwarding_table[i])
          => u.forwarding_table[i] = t.forwarding_table[i]
    BY <1>4 DEF Removed
  <2>6. NextHop(u, q) \in Base!Choices(Offers(u), q, NextHop(t, q))
    BY <2>3, <2>4, <2>5, HopChoice
  <2> QED
    BY <2>2, <2>6
<1> QED
  BY <1>6, <1>7, PeerFacts

-----------------------------------------------------------------------------
(* The refinement *)

\* The mapping in the next state.
LEMMA MappingNext == Heard' = Offers(table') /\ Via' = Hops(table')
  BY DEF Heard, Via, Offers, Hops, Offer, NextHop, get_recipient_index, get_neighbor_index, FirstIndex

\* Without rows and columns there are no offers and no next hops.
LEMMA EmptyMeaning ==
  ASSUME NEW t, Sound(self_id, t), \A i \in Recipients : t.recipient_ids[i] = NO_NODE_ID
  PROVE  /\ Offers(t) = [n \in Peers |-> [r \in Peers |-> INVALID_PATH]]
         /\ Hops(t) = [r \in Peers |-> NO_NODE_ID]
<1>1. \A n, r \in Peers : Offer(t, n, r) = INVALID_PATH
  BY PeerFacts, OfferFacts
<1>2. \A r \in Peers : NextHop(t, r) = NO_NODE_ID
  BY PeerFacts, HopFacts
<1> QED
  BY <1>1, <1>2 DEF Offers, Hops

\* A ROUTE message is one offer learnt.
LEMMA LearnStep ==
  ASSUME Inv, NEW n \in NodeID, NEW r \in NodeID,
         NEW path \in Routes \cup {<<>>, INVALID_PATH}, ReceiveRoute(n, r, path)
  PROVE  n \in Peers /\ r \in Peers /\ Base!Learn(n, r)
<1> DEFINE u == update_routing_given_new_path(self_id, table, n, r, path)
           stored == Sanitise(self_id, path)
<1>1. n \in Peers /\ r \in Peers /\ path \in Path /\ Sound(self_id, table)
  <2>1. Acceptable(n, r, path)
    BY DEF ReceiveRoute
  <2>2. n \in Peers /\ r \in Peers
    BY <2>1 DEF Acceptable, Peers
  <2>3. <<>> \in Seq(NodeID)
    OBVIOUS
  <2>4. path \in Path
    BY <2>3, RoutesAssumption DEF Path
  <2> QED
    BY <2>2, <2>4 DEF Inv
<1>2. /\ table' = u
      /\ HasRoom(table.neighbor_ids, n) /\ HasRoom(table.recipient_ids, r)
  BY DEF ReceiveRoute
<1>3. stored \in Routes \cup {<<>>, INVALID_PATH}
  BY DEF Sanitise
<1>4. Sound(self_id, u) /\ \E row, col : Updated(table, u, n, r, stored, row, col)
  BY <1>1, <1>2, UpdateCells DEF Peers
<1> HIDE DEF u, stored
<1>5. PICK row, col : Updated(table, u, n, r, stored, row, col)
  BY <1>4
<1>6. /\ Offer(u, n, r) = stored
      /\ \A m, q \in Peers : m # n \/ q # r => Offer(u, m, q) = Offer(table, m, q)
      /\ \A q \in Peers : q # r => NextHop(u, q) = NextHop(table, q)
      /\ NextHop(u, r) \in Base!Choices(Offers(u), r, NextHop(table, r))
  BY <1>1, <1>4, <1>5, UpdateMeaning
<1>7. Heard = Offers(table) /\ Via = Hops(table) /\ Heard' = Offers(u) /\ Via' = Hops(u)
  BY <1>2, Mapping, MappingNext
<1>8. Heard'[n][r] \in (Routes \cup {<<>>}) \cup {INVALID_PATH}
  <2>1. Heard'[n][r] = Offer(u, n, r)
    BY <1>1, <1>7 DEF Offers
  <2> QED
    BY <1>3, <1>6, <2>1
<1>9. Heard' = [Heard EXCEPT ![n][r] = Heard'[n][r]]
  <2> DEFINE x == Heard'[n][r]
             old == [m \in Peers |-> [q \in Peers |-> Offer(table, m, q)]]
             new == [m \in Peers |-> [q \in Peers |-> Offer(u, m, q)]]
  <2>1. Heard = old /\ Heard' = new /\ x = Offer(u, n, r)
    BY <1>1, <1>7 DEF Offers
  <2>2. new = [old EXCEPT ![n][r] = Offer(u, n, r)]
    <3>1. ASSUME NEW m \in Peers PROVE new[m] = [old EXCEPT ![n][r] = Offer(u, n, r)][m]
      BY <1>1, <1>6
    <3> QED
      BY <3>1
  <2> QED
    BY <2>1, <2>2
<1>10. \E v \in Base!Choices(Heard', r, Via[r]) : Via' = [Via EXCEPT ![r] = v]
  <2>1. Via[r] = NextHop(table, r)
    BY <1>1, <1>7 DEF Hops
  <2>2. NextHop(u, r) \in Base!Choices(Heard', r, Via[r])
    BY <1>6, <1>7, <2>1
  <2>3. Via' = [Via EXCEPT ![r] = NextHop(u, r)]
    BY <1>1, <1>6, <1>7 DEF Hops
  <2> QED
    BY <2>2, <2>3
<1> QED
  BY <1>1, <1>8, <1>9, <1>10 DEF Base!Learn

\* A closed connection is a neighbor forgotten.
LEMMA ForgetStep ==
  ASSUME Inv, NEW n \in NodeID, RemoveNeighbor(n)
  PROVE  n \in Peers /\ Base!Forget(n)
<1> DEFINE u == remove_routing_neighbor(table, n)
<1>1. Sound(self_id, table) /\ table' = u /\ get_neighbor_index(table, n) # NO_NODE_INDEX
  BY DEF Inv, RemoveNeighbor
<1>2. Sound(self_id, u) /\ \E col : Removed(table, u, n, col)
  BY <1>1, RemoveCells
<1> HIDE DEF u
<1>3. PICK col : Removed(table, u, n, col)
  BY <1>2
<1>4. n \in Peers
  BY <1>1, <1>3 DEF Removed, Sound, Shape, Peers
<1>5. /\ \A q \in Peers : Offer(u, n, q) = INVALID_PATH
      /\ \A m, q \in Peers : m # n => Offer(u, m, q) = Offer(table, m, q)
      /\ \A q \in Peers : /\ NextHop(u, q) \in Peers \cup {NO_NODE_ID}
                          /\ NextHop(u, q) \in Base!Choices(Offers(u), q, NextHop(table, q))
  BY <1>1, <1>2, <1>3, <1>4, RemoveMeaning
<1>6. Heard = Offers(table) /\ Via = Hops(table) /\ Heard' = Offers(u) /\ Via' = Hops(u)
  BY <1>1, Mapping, MappingNext
<1>7. Heard' = [Heard EXCEPT ![n] = [q \in Peers |-> INVALID_PATH]]
  BY <1>4, <1>5, <1>6 DEF Offers
<1>8. Via' \in [Peers -> Peers \cup {NO_NODE_ID}]
  BY <1>5, <1>6 DEF Hops
<1>9. \A q \in Peers : Via'[q] \in Base!Choices(Heard', q, Via[q])
  BY <1>5, <1>6 DEF Hops
<1> QED
  BY <1>4, <1>7, <1>8, <1>9 DEF Base!Forget

\* The tables implement RoutingBase: whatever indices routing.c frees and reuses,
\* a node remembers exactly the last offer of each neighbor for each recipient,
\* and changes the neighbor it forwards to only for a shorter offer.
THEOREM Refinement == Spec => RefinesBase
<1>1. Init => Base!Init
  <2> SUFFICES ASSUME Init PROVE Base!Init
    OBVIOUS
  <2>1. Sound(self_id, table) /\ \A i \in Recipients : table.recipient_ids[i] = NO_NODE_ID
    BY InitInv DEF Inv, Init
  <2> QED
    BY <2>1, EmptyMeaning, Mapping DEF Base!Init
<1>2. Inv /\ Inv' /\ [Next]_vars => [Base!Next]_(Base!vars)
  <2> SUFFICES ASSUME Inv, Inv', [Next]_vars PROVE [Base!Next]_(Base!vars)
    OBVIOUS
  <2>1. ASSUME NEW n \in NodeID, NEW r \in NodeID,
               NEW path \in Routes \cup {<<>>, INVALID_PATH}, ReceiveRoute(n, r, path)
        PROVE  Base!Next
    BY <2>1, LearnStep DEF Base!Next
  <2>2. ASSUME NEW n \in NodeID, RemoveNeighbor(n) PROVE Base!Next
    BY <2>2, ForgetStep DEF Base!Next
  <2>3. ASSUME InitRouting PROVE Base!Next
    <3>1. \A i \in Recipients : table'.recipient_ids[i] = NO_NODE_ID
      BY <2>3 DEF InitRouting, init_routing, Inv, TypeOK, Table
    <3>2. Sound(self_id, table')
      BY DEF Inv, Sound, Shape, RowSelfFree, RowOK, Best, Usable
    <3>3. Base!Reset
      BY <3>1, <3>2, EmptyMeaning, MappingNext DEF Base!Reset
    <3> QED
      BY <3>3 DEF Base!Next
  <2>4. ASSUME table' = table PROVE UNCHANGED Base!vars
    BY <2>4, Mapping, MappingNext DEF Base!vars
  <2> QED
    BY <2>1, <2>2, <2>3, <2>4 DEF Next, vars, RunOutOfSpace
<1> QED
  BY <1>1, <1>2, Invariant, PTL DEF Spec, RefinesBase, Base!Spec
=============================================================================
