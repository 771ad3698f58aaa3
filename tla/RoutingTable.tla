---------------------------- MODULE RoutingTable ----------------------------
(***************************************************************************)
(* The routing and forwarding tables of one node (routing.c), as pure      *)
(* operators on a table record                                             *)
(*                                                                         *)
(*   recipient_ids[i]       which node row i is about, or NO_NODE_ID       *)
(*   neighbor_ids[j]        which node column j is about, or NO_NODE_ID    *)
(*   routing_table[i][j]    path to recipient i as told by neighbor j      *)
(*   forwarding_table[i]    column of the best path of row i, or -1        *)
(*                                                                         *)
(* A path is the sequence of the intermediate nodes, the neighbor first:   *)
(* its length is the struct's hop_count and its elements are nodes[0 ..    *)
(* hop_count-1].  The sentinel hop_count -2 is the one-element sequence    *)
(* INVALID_PATH, which is not a sequence of node IDs.                      *)
(***************************************************************************)
EXTENDS Integers, Sequences

CONSTANTS
  NodeID,          \* the node identifiers in use (a subset of 0 .. 99)
  MAX_RECIPIENTS,  \* number of rows
  MAX_NEIGHBORS    \* number of columns

ASSUME NodeIDAssumption == NodeID \subseteq Nat
ASSUME SizeAssumption ==
  MAX_RECIPIENTS \in Nat \ {0} /\ MAX_NEIGHBORS \in Nat \ {0}

NO_NODE_ID    == -1
NO_NODE_INDEX == -1
INVALID_PATH  == <<-2>>

Recipients == 0 .. MAX_RECIPIENTS - 1
Neighbors  == 0 .. MAX_NEIGHBORS - 1
Path       == Seq(NodeID) \cup {INVALID_PATH}

Table == [recipient_ids    : [Recipients -> NodeID \cup {NO_NODE_ID}],
          neighbor_ids     : [Neighbors -> NodeID \cup {NO_NODE_ID}],
          routing_table    : [Recipients -> [Neighbors -> Path]],
          forwarding_table : [Recipients -> Neighbors \cup {NO_NODE_INDEX}]]

-----------------------------------------------------------------------------
(* Index allocation *)

\* The lowest index at which x is stored, -1 if it is stored nowhere.
FirstIndex(ids, x) ==
  IF \E i \in DOMAIN ids : ids[i] = x
  THEN CHOOSE i \in DOMAIN ids :
         ids[i] = x /\ \A j \in DOMAIN ids : ids[j] = x => i <= j
  ELSE NO_NODE_INDEX

get_recipient_index(t, recipient_id) == FirstIndex(t.recipient_ids, recipient_id)
get_neighbor_index(t, neighbor_id)   == FirstIndex(t.neighbor_ids, neighbor_id)

\* Whether an index for x exists or can be allocated; otherwise the process exits.
HasRoom(ids, x) == \E i \in DOMAIN ids : ids[i] \in {x, NO_NODE_ID}

\* Assignment to everything row i has.
ReplaceRow(t, i, id, paths, column) ==
  [recipient_ids    |-> [t.recipient_ids EXCEPT ![i] = id],
   neighbor_ids     |-> t.neighbor_ids,
   routing_table    |-> [t.routing_table EXCEPT ![i] = paths],
   forwarding_table |-> [t.forwarding_table EXCEPT ![i] = column]]

\* get_recipient_index(.., true): a new row starts with no path at all.
AddRecipient(t, recipient_id) ==
  LET free == FirstIndex(t.recipient_ids, NO_NODE_ID) IN
  IF get_recipient_index(t, recipient_id) # NO_NODE_INDEX THEN t
  ELSE ReplaceRow(t, free, recipient_id, [j \in Neighbors |-> INVALID_PATH], NO_NODE_INDEX)

\* Faulty variant: an existing index is not looked for.
AddNeighborAgain(t, neighbor_id) ==
  LET free == FirstIndex(t.neighbor_ids, NO_NODE_ID) IN
  IF free = NO_NODE_INDEX THEN t ELSE [t EXCEPT !.neighbor_ids[free] = neighbor_id]

\* get_neighbor_index(.., true): a new column starts with no path in any row.
AddNeighbor(t, neighbor_id) ==
  LET free == FirstIndex(t.neighbor_ids, NO_NODE_ID) IN
  IF get_neighbor_index(t, neighbor_id) # NO_NODE_INDEX THEN t
  ELSE [t EXCEPT !.neighbor_ids[free] = neighbor_id,
                 !.routing_table = [i \in Recipients |->
                                      [@[i] EXCEPT ![free] = INVALID_PATH]]]

-----------------------------------------------------------------------------
(* Choosing the path to forward along *)

\* The columns that offer a path in a row.
Usable(neighbor_ids, row) ==
  {j \in Neighbors : neighbor_ids[j] # NO_NODE_ID /\ row[j] # INVALID_PATH}

\* The scan keeps the first of the columns with the fewest hops.
ScanClosest(neighbor_ids, row) ==
  LET cols == Usable(neighbor_ids, row) IN
  IF cols = {} THEN NO_NODE_INDEX
  ELSE CHOOSE j \in cols :
         \A k \in cols : \/ Len(row[j]) < Len(row[k])
                         \/ Len(row[j]) = Len(row[k]) /\ j <= k

\* Faulty variants: a tie is resolved by the order of the columns; the column
\* already used is kept while it offers a path.
FirstNeighbor(neighbor_ids, row, old) == ScanClosest(neighbor_ids, row)
KeepOldNeighbor(neighbor_ids, row, old) ==
  IF old # NO_NODE_INDEX /\ row[old] # INVALID_PATH THEN old
  ELSE ScanClosest(neighbor_ids, row)

\* A tie is resolved in favour of the column already used.
ClosestNeighbor(neighbor_ids, row, old) ==
  LET best == ScanClosest(neighbor_ids, row) IN
  IF /\ old # NO_NODE_INDEX /\ best # NO_NODE_INDEX
     /\ row[old] # INVALID_PATH /\ Len(row[old]) = Len(row[best])
  THEN old ELSE best

\* Stores a path, chooses the new best column and frees a row left without paths.
SetPath(t, i, j, path) ==
  LET row  == [t.routing_table[i] EXCEPT ![j] = path]
      best == ClosestNeighbor(t.neighbor_ids, row, t.forwarding_table[i])
  IN  ReplaceRow(t, i, IF best = NO_NODE_INDEX THEN NO_NODE_ID ELSE t.recipient_ids[i],
                 row, best)

\* Faulty variant: loops are not noticed.
SanitiseNothing(self, path) == path

\* A path through this node is no path.
Sanitise(self, path) ==
  IF \E k \in DOMAIN path : path[k] = self THEN INVALID_PATH ELSE path

\* The table in which the row and the column of an update exist.
Prepared(t, neighbor_id, recipient_id) ==
  AddRecipient(AddNeighbor(t, neighbor_id), recipient_id)

update_routing_given_new_path(self, t, neighbor_id, recipient_id, path_in) ==
  LET p == Prepared(t, neighbor_id, recipient_id) IN
  SetPath(p, get_recipient_index(p, recipient_id),
             get_neighbor_index(p, neighbor_id), Sanitise(self, path_in))

\* Faulty variant: only a change of neighbor counts.
NeighborChanged(t, u, i) == t.forwarding_table[i] # u.forwarding_table[i]

\* The value update_routing_given_new_path returns for row i: t is the table
\* once the row exists, u the table after the update.
ShortestPathChanged(t, u, i) ==
  LET old == t.forwarding_table[i]
      new == u.forwarding_table[i]
  IN  \/ old # new
      \/ new # NO_NODE_INDEX /\ t.routing_table[i][old] # u.routing_table[i][new]

\* The path announce_new_path and send_shortest_paths put in a ROUTE message.
ShortestPath(t, recipient_id) ==
  LET i == get_recipient_index(t, recipient_id) IN
  IF i = NO_NODE_INDEX THEN INVALID_PATH
  ELSE t.routing_table[i][t.forwarding_table[i]]

-----------------------------------------------------------------------------
(* Whole-table operations *)

\* The loop updates every allocated row with "no path"; rows do not influence
\* each other, so the rows are updated together.  The column is freed at the end.
remove_routing_neighbor(t, neighbor_id) ==
  LET j    == get_neighbor_index(t, neighbor_id)
      rows == [i \in Recipients |->
                 IF t.recipient_ids[i] # NO_NODE_ID
                 THEN [t.routing_table[i] EXCEPT ![j] = INVALID_PATH]
                 ELSE t.routing_table[i]]
      best == [i \in Recipients |->
                 IF t.recipient_ids[i] # NO_NODE_ID
                 THEN ClosestNeighbor(t.neighbor_ids, rows[i], t.forwarding_table[i])
                 ELSE t.forwarding_table[i]]
  IN  IF j = NO_NODE_INDEX THEN t
      ELSE [recipient_ids    |-> [i \in Recipients |->
                                    IF best[i] = NO_NODE_INDEX THEN NO_NODE_ID
                                    ELSE t.recipient_ids[i]],
            neighbor_ids     |-> [t.neighbor_ids EXCEPT ![j] = NO_NODE_ID],
            routing_table    |-> rows,
            forwarding_table |-> best]

\* Faulty variant: the sentinel of paths instead of the one of IDs.
InitRoutingMinusTwo(t) ==
  [t EXCEPT !.recipient_ids = [i \in Recipients |-> -2],
            !.neighbor_ids  = [j \in Neighbors |-> -2]]

\* Only the ID arrays are reset; paths and forwarding indices keep old values.
init_routing(t) ==
  [t EXCEPT !.recipient_ids = [i \in Recipients |-> NO_NODE_ID],
            !.neighbor_ids  = [j \in Neighbors |-> NO_NODE_ID]]
=============================================================================
