------------------------------ MODULE Routing -------------------------------
(***************************************************************************)
(* The routing component of one node (routing.c) driven by the ROUTE       *)
(* messages, closed connections and joins of ring.c.                       *)
(*                                                                         *)
(* told[r] is the last thing this node announced about recipient r to the  *)
(* connections it has: the observable output of announce_new_path.         *)
(***************************************************************************)
EXTENDS RoutingTable

CONSTANTS
  self_id,  \* self.id
  Routes    \* the non-empty paths neighbors may send (every one, in the proofs)

ASSUME RoutesAssumption == self_id \in NodeID /\ Routes \subseteq Seq(NodeID)

VARIABLES
  table,   \* recipient_ids, neighbor_ids, routing_table, forwarding_table
  told,    \* told[r]: the path last announced for r, INVALID_PATH if withdrawn
  exited   \* TRUE once error() ended the process

vars == <<table, told, exited>>

TypeOK == /\ table \in Table
          /\ told \in [NodeID -> Path]
          /\ exited \in BOOLEAN

\* init_routing() leaves the paths and the forwarding indices of the static
\* arrays alone; before the first join these are zero (a path of no hops).
Init == /\ table = [recipient_ids    |-> [i \in Recipients |-> NO_NODE_ID],
                    neighbor_ids     |-> [j \in Neighbors |-> NO_NODE_ID],
                    routing_table    |-> [i \in Recipients |-> [j \in Neighbors |-> <<>>]],
                    forwarding_table |-> [i \in Recipients |-> 0]]
        /\ told = [r \in NodeID |-> INVALID_PATH]
        /\ exited = FALSE

\* The paths a neighbor's path_to_string() writes: with hops, its own ID first.
Sent(neighbor_id, path) ==
  path \notin {<<>>, INVALID_PATH} => path[1] = neighbor_id

\* The checks on a ROUTE message before it reaches the tables: the neighbor is
\* not us, and a path has no hops exactly when the neighbor is the recipient.  A
\* message about ourselves is ignored.
Acceptable(neighbor_id, recipient_id, path) ==
  /\ neighbor_id # self_id /\ recipient_id # self_id
  /\ \/ path = INVALID_PATH
     \/ path # INVALID_PATH /\ (path = <<>> <=> neighbor_id = recipient_id)

\* update_routing_and_announce_given_new_path() for a ROUTE message.
ReceiveRoute(neighbor_id, recipient_id, path) ==
  LET new == update_routing_given_new_path(self_id, table, neighbor_id, recipient_id, path)
      prepared == Prepared(table, neighbor_id, recipient_id)
      row == get_recipient_index(prepared, recipient_id)
  IN  /\ ~exited
      /\ Sent(neighbor_id, path) /\ Acceptable(neighbor_id, recipient_id, path)
      /\ HasRoom(table.neighbor_ids, neighbor_id)
      /\ HasRoom(table.recipient_ids, recipient_id)
      /\ table' = new
      /\ told' = IF ShortestPathChanged(prepared, new, row)
                 THEN [told EXCEPT ![recipient_id] = ShortestPath(new, recipient_id)]
                 ELSE told
      /\ UNCHANGED exited

\* The same when the ID arrays are full: error() ends the process.
RunOutOfSpace(neighbor_id, recipient_id, path) ==
  /\ ~exited
  /\ Sent(neighbor_id, path) /\ Acceptable(neighbor_id, recipient_id, path)
  /\ ~HasRoom(table.neighbor_ids, neighbor_id) \/ ~HasRoom(table.recipient_ids, recipient_id)
  /\ exited' = TRUE
  /\ UNCHANGED <<table, told>>

\* The last connection with a neighbor is closed.
RemoveNeighbor(neighbor_id) ==
  LET new == remove_routing_neighbor(table, neighbor_id) IN
  /\ ~exited
  /\ get_neighbor_index(table, neighbor_id) # NO_NODE_INDEX
  /\ table' = new
  /\ told' = [r \in NodeID |->
                LET i == get_recipient_index(table, r) IN
                IF i # NO_NODE_INDEX /\ ShortestPathChanged(table, new, i)
                THEN ShortestPath(new, r) ELSE told[r]]
  /\ UNCHANGED exited

\* join_ring() and the join into an empty ring: every connection is closed, so
\* nobody has been told anything.
InitRouting ==
  /\ ~exited
  /\ table' = init_routing(table)
  /\ told' = [r \in NodeID |-> INVALID_PATH]
  /\ UNCHANGED exited

Next ==
  \/ \E n, r \in NodeID, path \in Routes \cup {<<>>, INVALID_PATH} :
       ReceiveRoute(n, r, path) \/ RunOutOfSpace(n, r, path)
  \/ \E n \in NodeID : RemoveNeighbor(n)
  \/ InitRouting

Spec == Init /\ [][Next]_vars

-----------------------------------------------------------------------------
(* Properties *)

Peers == NodeID \ {self_id}
AllocatedRows == {i \in Recipients : table.recipient_ids[i] # NO_NODE_ID}
AllocatedCols == {j \in Neighbors : table.neighbor_ids[j] # NO_NODE_ID}

\* No node ID is given two rows or two columns, however often indices are
\* freed and reused (get_recipient_index, get_neighbor_index).
NoDuplicateIndex ==
  /\ \A i, k \in AllocatedRows : table.recipient_ids[i] = table.recipient_ids[k] => i = k
  /\ \A j, k \in AllocatedCols : table.neighbor_ids[j] = table.neighbor_ids[k] => j = k

\* A row exists only while messages to its recipient can be forwarded: its
\* forwarding index names a neighbor that exists, and no existing neighbor
\* offers fewer hops (forward_message and announce_new_path index the tables
\* with forwarding_table[recipient] without any check).
ForwardsAlongShortest ==
  \A i \in AllocatedRows :
    LET row == table.routing_table[i]
        f   == table.forwarding_table[i]
    IN  /\ f \in Usable(table.neighbor_ids, row)
        /\ \A j \in Usable(table.neighbor_ids, row) : Len(row[f]) <= Len(row[j])

\* Our own ID is in no path stored for a recipient and has no row or column of its
\* own, so routes never lead back here (update_routing_given_new_path).
NoPathThroughSelf ==
  /\ \A i \in AllocatedRows : table.recipient_ids[i] # self_id
  /\ \A j \in AllocatedCols : table.neighbor_ids[j] # self_id
  /\ \A i \in AllocatedRows, j \in AllocatedCols :
       \A k \in DOMAIN table.routing_table[i][j] : table.routing_table[i][j][k] # self_id

\* The neighbors know our current shortest paths: update_routing_given_new_path
\* returns true whenever what was last announced is out of date.
AnnouncementsUpToDate ==
  \A r \in Peers : told[r] = ShortestPath(table, r)

\* Index reuse is invisible: the tables implement the index-free RoutingBase.
Heard == [n \in Peers |-> [r \in Peers |->
            LET i == get_recipient_index(table, r)
                j == get_neighbor_index(table, n)
            IN  IF i = NO_NODE_INDEX \/ j = NO_NODE_INDEX THEN INVALID_PATH
                ELSE table.routing_table[i][j]]]
Via == [r \in Peers |->
          LET i == get_recipient_index(table, r) IN
          IF i = NO_NODE_INDEX THEN NO_NODE_ID
          ELSE table.neighbor_ids[table.forwarding_table[i]]]

Base == INSTANCE RoutingBase WITH Ids <- Peers, NoId <- NO_NODE_ID,
                                  Paths <- Routes \cup {<<>>}, NoPath <- INVALID_PATH,
                                  heard <- Heard, via <- Via
RefinesBase == Base!Spec
=============================================================================
