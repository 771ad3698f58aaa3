-------------------------------- MODULE Ring --------------------------------
(***************************************************************************)
(* The ring maintenance protocol: ring.c, the user commands and the accept *)
(* loop of main.c, over the connection tables of connections.c.            *)
(*                                                                         *)
(* Every process runs one select() loop without threads, so a handler is   *)
(* one step.  Processes interleave freely, and so do the streams of the    *)
(* connections of one process.                                             *)
(*                                                                         *)
(* Of the routing tables (module RoutingTable) this module keeps the set   *)
(* of allocated columns, neighbor_ids; a ROUTE message stands for the dump *)
(* of send_shortest_paths().  The node server (external) is the set of     *)
(* registered nodes, asked and told without loss.                          *)
(***************************************************************************)
EXTENDS Connections

CONSTANTS
  MAX_NODE_ID,  \* largest node ID
  TypedIds,     \* TypedIds[p]: the IDs the user of process p may type as its own
  Budget,       \* bound: how many commands the users give, of each kind and in total
  Pace,         \* how the users take turns, see MayAct
  MAX_UNREAD    \* bound: unread lines at which a reconnecting neighbor waits

NodeID == 0 .. MAX_NODE_ID
Commands == {"join", "refused_join", "leave", "direct_join", "chord", "exit", "start"}
Bounds == Commands \cup {"total"}

ASSUME RingAssumption ==
  /\ MAX_NODE_ID \in Nat
  /\ TypedIds \in [Addr -> SUBSET NodeID]
  /\ Budget \in [Bounds -> Nat]
  /\ Pace \in {"free", "calm", "chords"}
  /\ MAX_UNREAD \in Nat \ {0}

VARIABLES
  node,      \* node[p]: the global variables of process p
  net,       \* connection tables and TCP connections
  registry,  \* the nodes registered with the node server
  budget     \* commands the users may still give

vars == <<node, net, registry, budget>>

Node == [id : NodeID, addr : Addr \cup {NO_ADDR}]

\* The pointers new_node_conn, pred_conn, succ_conn and outbound_chord_conn.
NoRoles == [new_node |-> NULL, pred |-> NULL, succ |-> NULL, chord |-> NULL]

\* A process that has just started: static storage is zero, so until
\* init_routing() runs (routing_ready) every routing index belongs to node 0.
FreshNode ==
  [process |-> "running", connection_state |-> "DISCONNECTED", input_state |-> "COMMAND",
   self |-> 0, succ |-> [id |-> 0, addr |-> NO_ADDR], second_succ |-> [id |-> 0, addr |-> NO_ADDR],
   awaiting_succ |-> FALSE, awaiting_pred |-> FALSE, conn |-> NoRoles,
   timer |-> FALSE, ring |-> FALSE, node_arr |-> {},
   neighbor_ids |-> {0}, routing_ready |-> FALSE]

Message(type, id, addr) == [type |-> type, id |-> id, addr |-> addr]
SuccMsg(d)         == Message("SUCC", d.id, d.addr)
EntryMsg(id, addr) == Message("ENTRY", id, addr)
PredMsg(id)        == Message("PRED", id, NO_ADDR)
ChordMsg(id)       == Message("CHORD", id, NO_ADDR)
RouteMsg(id)       == Message("ROUTE", id, NO_ADDR)

Init == /\ node = [p \in Addr |-> FreshNode]
        /\ net = NoConnections
        /\ registry = {}
        /\ budget = Budget

-----------------------------------------------------------------------------
(* Pieces of handlers.  n is the state of process p and w the network at the *)
(* point of the handler that is reached.                                     *)

Myself(p, n) == [id |-> n.self, addr |-> p]
Listening(addr) == node[addr].process = "running"

\* Faulty variant: the pointers keep naming the closed slots.
UnassignForgotten(n, S) == n

\* close_connection() clears the pointers to the closed slots.
Unassign(n, S) == [n EXCEPT !.conn = [r \in DOMAIN @ |-> IF @[r] \in S THEN NULL ELSE @[r]]]

\* Faulty variant: other connections to the same node are overlooked.
PruneAlways(n, conns, id) == [n EXCEPT !.neighbor_ids = @ \ {id}]

\* remove_neighbor_connection(): the column goes when no connection is left.
Prune(n, conns, id) ==
  IF id # NO_NODE_ID /\ find_connection_by_node_id(conns, id) = NULL
  THEN [n EXCEPT !.neighbor_ids = @ \ {id}] ELSE n

\* is_inbound_chord() or the outbound chord: a connection closed as degenerate
\* when its far end becomes a ring neighbor.
IsChord(n, i) == i # NULL /\ i \notin {n.conn.new_node, n.conn.pred, n.conn.succ}

\* init_routing()
InitRouting(n) == [n EXCEPT !.neighbor_ids = {}, !.routing_ready = TRUE]

Become(p, n, w) == node' = [node EXCEPT ![p] = n] /\ net' = w

\* error() or a dereference of a null pointer: the process ends.
Die(p, why, w) ==
  /\ Become(p, [FreshNode EXCEPT !.process = why], Terminate(w, p))
  /\ UNCHANGED registry

\* Faulty variant: UNREG is not sent.
LeaveSilently(p, n, w) ==
  /\ Become(p, [Unassign(n, Slots) EXCEPT !.connection_state = "DISCONNECTED"],
            Close(w, p, Slots))
  /\ UNCHANGED registry

\* Leaves the ring or aborts a join; the timer is left as it is.
leave_ring(p, n, w) ==
  /\ Become(p, [Unassign(n, Slots) EXCEPT !.connection_state = "DISCONNECTED"],
            Close(w, p, Slots))
  /\ registry' = IF n.connection_state = "CONNECTED" /\ n.ring
                 THEN {d \in registry : d.id # n.self} ELSE registry

\* Faulty variant: no timer.
ArmNothing(n) == n

\* set_timeout(1000, pred_timeout)
ArmTimer(n) == [n EXCEPT !.timer = TRUE]

\* Faulty variant: the predecessor is not told.
TellNobody(p, n, w, d) == w

\* The predecessor is told who its second successor is.
TellPred(p, n, w, d) == Write(w, p, n.conn.pred, <<SuccMsg(d)>>)

\* on_join_end()
EndJoin(p, n, w) ==
  /\ Become(p, [n EXCEPT !.connection_state = "CONNECTED"], w)
  /\ registry' = IF n.ring THEN registry \cup {Myself(p, n)} ELSE registry

\* join_ring() towards n.succ
join_ring(p, n, w) ==
  LET i  == FreeSlot(w.conns[p])
      up == Listening(n.succ.addr)
      m  == [InitRouting(n) EXCEPT !.connection_state = "CONNECTING",
               !.awaiting_succ = TRUE, !.awaiting_pred = TRUE,
               !.conn = [NoRoles EXCEPT !.succ = IF up THEN i ELSE NULL]]
      v  == Connect(w, p, i, n.succ, up)
  IN  \/ /\ up
         /\ Become(p, ArmTimer(m),
                   Write(v, p, i, <<EntryMsg(n.self, p), RouteMsg(n.self)>>))
         /\ UNCHANGED registry
      \/ ~up /\ leave_ring(p, m, v)

\* Faulty variant: PRED is not sent.
AttachSilently(p, n, w) ==
  LET i  == FreeSlot(w.conns[p])
      up == Listening(n.succ.addr)
  IN  [up |-> up, n |-> [n EXCEPT !.conn.succ = IF up THEN i ELSE NULL],
       w |-> Connect(w, p, i, n.succ, up)]

\* Connects to the new successor n.succ and introduces itself as predecessor.
AttachToSucc(p, n, w) ==
  LET i  == FreeSlot(w.conns[p])
      up == Listening(n.succ.addr)
      v  == Connect(w, p, i, n.succ, up)
  IN  [up |-> up, n |-> [n EXCEPT !.conn.succ = IF up THEN i ELSE NULL],
       w |-> IF up THEN Write(v, p, i, <<PredMsg(n.self), RouteMsg(n.self)>>) ELSE v]

-----------------------------------------------------------------------------
(* The pace of the users *)

\* Nothing is waiting to be read.
Quiet == \A p \in Addr : /\ net.backlog[p] = <<>>
                         /\ \A i \in Slots : net.conns[p][i].inbox = <<>>

\* Process p is not in the middle of a command.
Idle(p) == node[p].input_state = "COMMAND" /\ node[p].connection_state # "CONNECTING"
ChoosesChord(p) == node[p].input_state = "CHORD_NODE_SELECTION"

\* Every command given so far has taken effect.
Settled == Quiet /\ \A p \in Addr : node[p].connection_state # "CONNECTING"

\* "free": commands and timeouts come at any time.  "calm": the intended use,
\* users act one after the other, each when the previous command has taken
\* effect, and the network is faster than the timer.
MayAct(p) ==
  \/ Pace = "free"
  \/ Quiet /\ \A q \in Addr \ {p} : Idle(q)

\* "chords": calm, but several prompts for a chord may be open and are answered
\* at any time.
MayAskChord(p) ==
  \/ MayAct(p)
  \/ Pace = "chords" /\ Quiet /\ \A q \in Addr : Idle(q) \/ ChoosesChord(q)
MayAnswerChord(p) == Pace = "chords" \/ MayAct(p)

-----------------------------------------------------------------------------
(* User commands (main.c, handle_user_input) *)

Spend(kind) ==
  /\ budget[kind] > 0 /\ budget["total"] > 0
  /\ budget' = [budget EXCEPT ![kind] = @ - 1, !["total"] = @ - 1]

Command(p, kind) ==
  /\ node[p].process = "running" /\ node[p].input_state = "COMMAND"
  /\ Spend(kind)
  /\ IF kind = "chord" THEN MayAskChord(p) ELSE MayAct(p)

\* The arguments of join overwrite ring_id_str and self.id before any check.
JoinArguments(p, id) == [node[p] EXCEPT !.self = id, !.ring = TRUE]

\* join, already connected: refused with a message, with the ID changed.
JoinRefused(p, id) ==
  /\ Command(p, "refused_join")
  /\ node[p].connection_state # "DISCONNECTED"
  /\ Become(p, JoinArguments(p, id), net)
  /\ UNCHANGED registry

\* join, empty node list: the only node of the ring.
JoinAlone(p, id) ==
  LET n == JoinArguments(p, id) IN
  /\ Command(p, "join")
  /\ n.connection_state = "DISCONNECTED" /\ registry = {}
  /\ EndJoin(p, [InitRouting(n) EXCEPT !.succ = Myself(p, n), !.second_succ = Myself(p, n)], net)

\* Faulty variant: the search runs to its end.
UnusedPastEnd(used) == MAX_NODE_ID + 1

\* The search for an ID that is not in the node list.
LowestUnused(used) == CHOOSE id \in NodeID \ used : \A k \in NodeID \ used : id <= k

\* join, other nodes: an ID in use is replaced by the lowest unused one and the
\* user is asked for the successor.
JoinAsk(p, id) ==
  LET n     == JoinArguments(p, id)
      used  == {d.id : d \in registry}
  IN  /\ Command(p, "join")
      /\ n.connection_state = "DISCONNECTED" /\ registry # {}
      /\ NodeID \ used # {}
      /\ Become(p, [n EXCEPT !.self = IF n.self \in used THEN LowestUnused(used) ELSE @,
                             !.node_arr = registry,
                             !.connection_state = "AWAITING_USER_SELECTION",
                             !.input_state = "JOIN_NODE_SELECTION"], net)
      /\ UNCHANGED registry

\* The user picks the successor from the list.
JoinSelect(p, d) ==
  LET n == node[p] IN
  /\ n.process = "running" /\ n.input_state = "JOIN_NODE_SELECTION"
  /\ MayAct(p)
  /\ d \in n.node_arr
  /\ join_ring(p, [n EXCEPT !.succ = d, !.input_state = "COMMAND", !.node_arr = {}], net)
  /\ UNCHANGED budget

\* dj with another node; nothing checks the connection state.
DirectJoin(p, id, d) ==
  /\ Command(p, "direct_join")
  /\ d.id # id
  /\ join_ring(p, [node[p] EXCEPT !.self = id, !.succ = d, !.ring = FALSE], net)

\* dj with the own ID: a new ring, without init_routing().
DirectJoinAlone(p, id) ==
  LET me == [id |-> id, addr |-> p] IN
  /\ Command(p, "direct_join")
  /\ Become(p, [node[p] EXCEPT !.self = id, !.succ = me, !.second_succ = me,
                  !.ring = FALSE, !.connection_state = "CONNECTED",
                  !.awaiting_pred = FALSE, !.awaiting_succ = FALSE], net)
  /\ UNCHANGED registry

Leave(p) ==
  /\ Command(p, "leave")
  /\ node[p].connection_state # "DISCONNECTED"
  /\ leave_ring(p, node[p], net)

\* chord: the nodes of the ring we are not connected to are offered.
ChordAsk(p) ==
  LET n == node[p]
      offered == {d \in registry : /\ d.id # n.self
                                   /\ find_connection_by_node_id(net.conns[p], d.id) = NULL}
  IN  /\ Command(p, "chord")
      /\ n.connection_state = "CONNECTED" /\ n.conn.chord = NULL /\ n.ring
      /\ offered # {}
      /\ Become(p, [n EXCEPT !.node_arr = offered, !.input_state = "CHORD_NODE_SELECTION"], net)
      /\ UNCHANGED registry

\* The user picks the far end of the chord; only the ID is checked again.
ChordSelect(p, d) ==
  LET n  == node[p]
      i  == FreeSlot(net.conns[p])
      up == Listening(d.addr)
      v  == Connect(net, p, i, d, up)
  IN  /\ n.process = "running" /\ n.input_state = "CHORD_NODE_SELECTION"
      /\ MayAnswerChord(p)
      /\ d \in n.node_arr
      /\ d.id # n.self /\ find_connection_by_node_id(net.conns[p], d.id) = NULL
      /\ Become(p, [n EXCEPT !.input_state = "COMMAND", !.node_arr = {},
                             !.conn.chord = IF up THEN i ELSE NULL],
                IF up THEN Write(v, p, i, <<ChordMsg(n.self), RouteMsg(n.self)>>) ELSE v)
      /\ UNCHANGED <<registry, budget>>

\* Any other answer to a selection prompt cancels it.
SelectionCancelled(p) ==
  LET n == node[p] IN
  /\ n.process = "running" /\ n.input_state # "COMMAND"
  /\ MayAct(p)
  /\ Become(p, [n EXCEPT !.input_state = "COMMAND", !.node_arr = {},
                  !.connection_state = IF n.input_state = "JOIN_NODE_SELECTION"
                                       THEN "DISCONNECTED" ELSE @], net)
  /\ UNCHANGED <<registry, budget>>

RemoveChord(p) ==
  LET n == node[p]
      i == n.conn.chord
      v == Close(net, p, {i})
  IN  /\ n.process = "running" /\ n.input_state = "COMMAND"
      /\ n.connection_state = "CONNECTED" /\ i # NULL
      /\ MayAct(p)
      /\ Become(p, Prune(Unassign(n, {i}), v.conns[p], net.conns[p][i].node_id), v)
      /\ UNCHANGED <<registry, budget>>

\* exit, or a crash of the host: no UNREG is sent.
Exit(p) ==
  /\ Command(p, "exit")
  /\ Die(p, "exited", net)

\* The program is started again on the same address.
Start(p) ==
  /\ node[p].process # "running" /\ Spend("start") /\ MayAct(p)
  /\ Become(p, FreshNode, net)
  /\ UNCHANGED registry

-----------------------------------------------------------------------------
(* Connections to the public socket (main.c, select loop) *)

Pending(p) == node[p].process = "running" /\ net.backlog[p] # <<>>
InRing(n) == n.connection_state \in {"CONNECTING", "CONNECTED"}

AcceptNode(p) ==
  LET i == FreeSlot(net.conns[p]) IN
  /\ Pending(p) /\ InRing(node[p]) /\ node[p].conn.new_node = NULL
  /\ Become(p, [node[p] EXCEPT !.conn.new_node = i], Accept(net, p, i))
  /\ UNCHANGED <<registry, budget>>

\* Not in a ring, or busy with another node that has not introduced itself.
RefuseNode(p) ==
  /\ Pending(p)
  /\ ~InRing(node[p]) \/ node[p].conn.new_node # NULL
  /\ Become(p, node[p], Refuse(net, p))
  /\ UNCHANGED <<registry, budget>>

-----------------------------------------------------------------------------
(* A line or the end of input of a connection (handle_message and           *)
(* handle_broken_socket).  The pointers are compared in this order.         *)

RoleOf(n, i) == CASE i = n.conn.new_node -> "new_node"
                  [] i # n.conn.new_node /\ i = n.conn.pred -> "pred"
                  [] i \notin {n.conn.new_node, n.conn.pred} /\ i = n.conn.succ -> "succ"
                  [] OTHER -> "chord"

Reading(p, i, roles, types) ==
  /\ node[p].process = "running"
  /\ net.conns[p][i].open /\ net.conns[p][i].inbox # <<>>
  /\ RoleOf(node[p], i) \in roles
  /\ Head(net.conns[p][i].inbox).type \in types
  /\ UNCHANGED budget

Line(p, i) == Head(net.conns[p][i].inbox)
Rest(p, i) == Consume(net, p, i)
Sender(m) == [id |-> m.id, addr |-> m.addr]

\* p closes connection i without touching the routing tables.
Drop(p, n, w, i) ==
  Become(p, Unassign(n, {i}), Close(w, p, {i})) /\ UNCHANGED registry

\* Faulty variant: the connection is not closed.
DropNeighborOnly(p, n, w, i) ==
  Become(p, Prune(Unassign(n, {i}), w.conns[p], w.conns[p][i].node_id), w) /\ UNCHANGED registry

\* p closes connection i and forgets the neighbor if it was the last one to it.
DropNeighbor(p, n, w, i) ==
  LET v == Close(w, p, {i}) IN
  /\ Become(p, Prune(Unassign(n, {i}), v.conns[p], w.conns[p][i].node_id), v)
  /\ UNCHANGED registry

\* The message is printed as malformed or ignored.
Ignore(p, i) == Become(p, node[p], Rest(p, i)) /\ UNCHANGED registry

\* ENTRY from a new node while this node is alone in the ring: they connect to
\* each other.
EntryAlone(p, i) ==
  LET n == node[p]
      m == Line(p, i)
      a == AttachToSucc(p, [n EXCEPT !.succ = Sender(m), !.second_succ = Myself(p, n)],
                        Write(SetNodeId(Rest(p, i), p, i, m.id), p, i, <<SuccMsg(m)>>))
  IN  IF m.id = n.self THEN Drop(p, n, Rest(p, i), i)
      ELSE IF ~a.up THEN leave_ring(p, a.n, a.w)
      ELSE IF n.conn.pred # NULL THEN Die(p, "assertion failed: pred_conn", a.w)
      ELSE /\ Become(p, [a.n EXCEPT !.conn.pred = i, !.conn.new_node = NULL], a.w)
           /\ UNCHANGED registry

\* ENTRY from a new node otherwise: it is introduced to the predecessor, whose
\* connection is closed, and takes its place.
EntryBetween(p, i) ==
  LET n == node[p]
      m == Line(p, i)
      w == Write(SetNodeId(Rest(p, i), p, i, m.id), p, i, <<SuccMsg(n.succ)>>)
      v == Write(Write(w, p, n.conn.pred, <<EntryMsg(m.id, m.addr)>>), p, i, <<RouteMsg(n.self)>>)
      pred_id == w.conns[p][n.conn.pred].node_id
      u == Close(v, p, {n.conn.pred})
  IN  IF n.conn.pred = NULL THEN Die(p, "null pred_conn", w)
      ELSE /\ Become(p, [Prune(n, u.conns[p], pred_id) EXCEPT !.conn.pred = i,
                                                              !.conn.new_node = NULL], u)
           /\ UNCHANGED registry

NewNodeEntry(p, i) ==
  LET n == node[p] IN
  /\ Reading(p, i, {"new_node"}, {"ENTRY"})
  /\ IF n.connection_state # "CONNECTED" THEN Drop(p, n, Rest(p, i), i)
     ELSE IF n.succ.id = n.self THEN EntryAlone(p, i)
     ELSE EntryBetween(p, i)

\* Faulty variant: the chord is kept.
KeepDegenerate(p, n, w, id) == [n |-> n, w |-> w]

\* Closes the chord with node id that its new role makes superfluous.
CloseDegenerate(p, n, w, id) ==
  LET c == find_connection_by_node_id(w.conns[p], id)
      v == Close(w, p, {c})
  IN  IF IsChord(n, c) THEN [n |-> Prune(Unassign(n, {c}), v.conns[p], id), w |-> v]
      ELSE [n |-> n, w |-> w]

\* Faulty variants: the connection stays the new node's; the timer is not cancelled.
TakeAsPredToo(n, i) == [n EXCEPT !.conn.pred = i, !.timer = FALSE, !.awaiting_pred = FALSE]
TakeWithTimer(n, i) == [n EXCEPT !.conn.pred = i, !.conn.new_node = NULL, !.awaiting_pred = FALSE]

\* The new node's connection becomes the predecessor's, and the wait for it ends.
TakeAsPred(n, i) ==
  [n EXCEPT !.conn.pred = i, !.conn.new_node = NULL, !.timer = FALSE, !.awaiting_pred = FALSE]

\* PRED: the old predecessor connection, if any, is closed and its neighbor is
\* not removed from the routing tables.  (A process outside a ring has no new node.)
NewNodePred(p, i) ==
  LET n == node[p]
      m == Line(p, i)
      old == {n.conn.pred} \ {NULL}
      d == CloseDegenerate(p, Unassign(n, old), Close(Rest(p, i), p, old), m.id)
      k == TakeAsPred(d.n, i)
      v == Write(SetNodeId(d.w, p, i, m.id), p, i, <<SuccMsg(n.succ), RouteMsg(n.self)>>)
  IN  /\ Reading(p, i, {"new_node"}, {"PRED"})
      /\ IF n.connection_state = "DISCONNECTED" THEN Drop(p, n, Rest(p, i), i)
         ELSE IF n.connection_state = "CONNECTING" /\ ~n.awaiting_succ THEN EndJoin(p, k, v)
         ELSE Become(p, k, v) /\ UNCHANGED registry

\* Faulty variant: an accepted chord keeps the role of the new node.
ChordStaysNew(p, i) ==
  LET m == Line(p, i) IN
  /\ Reading(p, i, {"new_node"}, {"CHORD"})
  /\ IF find_connection_by_node_id(net.conns[p], m.id) # NULL THEN Ignore(p, i)
     ELSE /\ Become(p, node[p], Write(SetNodeId(Rest(p, i), p, i, m.id), p, i,
                                      <<RouteMsg(node[p].self)>>))
          /\ UNCHANGED registry

\* CHORD: a second connection to a node is rejected, which leaves new_node_conn
\* as it is.
NewNodeChord(p, i) ==
  LET n == node[p]
      m == Line(p, i)
  IN  /\ Reading(p, i, {"new_node"}, {"CHORD"})
      /\ IF find_connection_by_node_id(net.conns[p], m.id) # NULL THEN Ignore(p, i)
         ELSE /\ Become(p, [n EXCEPT !.conn.new_node = NULL],
                        Write(SetNodeId(Rest(p, i), p, i, m.id), p, i, <<RouteMsg(n.self)>>))
              /\ UNCHANGED registry

NewNodeRoute(p, i) == Reading(p, i, {"new_node"}, {"ROUTE"}) /\ Ignore(p, i)

NewNodeBroken(p, i) ==
  Reading(p, i, {"new_node"}, {"EOF"}) /\ DropNeighbor(p, node[p], Rest(p, i), i)

\* SUCC, ENTRY, PRED and CHORD on a connection that is not from a new node nor
\* to the successor: ENTRY from the predecessor aborts a join, a chord that has
\* not introduced itself ends the process, the rest is malformed.
Misplaced(p, i) ==
  LET n == node[p]
      role == RoleOf(n, i)
  IN  /\ Reading(p, i, {"pred", "chord"}, {"ENTRY", "SUCC", "PRED", "CHORD"})
      /\ IF role = "pred" /\ Line(p, i).type = "ENTRY" /\ n.connection_state = "CONNECTING"
         THEN leave_ring(p, n, Rest(p, i))
         ELSE IF role = "chord" /\ net.conns[p][i].node_id = NO_NODE_ID
         THEN Die(p, "assertion failed: node_id", Rest(p, i))
         ELSE Ignore(p, i)

\* handle_broken_pred_socket()
PredBroken(p, i) ==
  LET n == node[p] IN
  /\ Reading(p, i, {"pred"}, {"EOF"})
  /\ IF n.connection_state # "CONNECTED"
     THEN leave_ring(p, [n EXCEPT !.neighbor_ids = @ \ {net.conns[p][i].node_id}], Rest(p, i))
     ELSE IF n.self = n.second_succ.id THEN DropNeighbor(p, n, Rest(p, i), i)
     ELSE DropNeighbor(p, ArmTimer(n), Rest(p, i), i)

\* SUCC: who the second successor is.
SuccSucc(p, i) ==
  LET n == node[p]
      m == Line(p, i)
      k == [n EXCEPT !.second_succ = Sender(m), !.awaiting_succ = FALSE]
  IN  /\ Reading(p, i, {"succ"}, {"SUCC"})
      /\ IF m.id = n.succ.id THEN Ignore(p, i)
         ELSE IF n.connection_state = "CONNECTING" /\ ~n.awaiting_pred
         THEN EndJoin(p, k, Rest(p, i))
         ELSE Become(p, k, Rest(p, i)) /\ UNCHANGED registry

\* ENTRY: a node joins between us and our successor and becomes our successor.
SuccEntry(p, i) ==
  LET n == node[p]
      m == Line(p, i)
      w == Rest(p, i)
      v == Close(TellPred(p, n, w, m), p, {i})
      k == Prune(Unassign(n, {i}), v.conns[p], n.succ.id)
      a == AttachToSucc(p, [k EXCEPT !.second_succ = n.succ, !.succ = Sender(m)], v)
  IN  /\ Reading(p, i, {"succ"}, {"ENTRY"})
      /\ IF \/ m.id \in {n.self, n.second_succ.id}
            \/ find_connection_by_node_id(w.conns[p], m.id) # NULL
         THEN leave_ring(p, n, w)
         ELSE IF n.conn.pred = NULL THEN Die(p, "null pred_conn", w)
         ELSE IF a.up THEN Become(p, a.n, a.w) /\ UNCHANGED registry
         ELSE leave_ring(p, a.n, a.w)

\* The reader at the far end of connection i is not too far behind: TCP's flow
\* control, needed to bound the loop of SuccBroken.
Writable(p, i) ==
  LET to == net.conns[p][i].peer IN
  i # NULL /\ to.slot # NULL => Len(net.conns[to.addr][to.slot].inbox) < MAX_UNREAD

\* handle_broken_succ_socket(): the second successor becomes the successor.  If
\* it is not in the ring it refuses, which breaks the connection again.
SuccBroken(p, i) ==
  LET n == node[p]
      w == Rest(p, i)
      succ_id == w.conns[p][i].node_id
      k == [n EXCEPT !.awaiting_succ = TRUE, !.succ = n.second_succ]
      d == CloseDegenerate(p, k, TellPred(p, n, w, k.succ), k.succ.id)
      a == AttachToSucc(p, d.n, d.w)
      Left(x, v) == leave_ring(p, [x EXCEPT !.neighbor_ids = @ \ {succ_id}], v)
  IN  /\ Reading(p, i, {"succ"}, {"EOF"})
      /\ Writable(p, n.conn.pred)
      /\ IF n.connection_state # "CONNECTED" THEN Left(n, w)
         ELSE IF k.succ.id = n.self THEN DropNeighbor(p, k, w, i)
         ELSE IF n.conn.pred = NULL THEN Left(k, w)
         ELSE IF a.up THEN DropNeighbor(p, a.n, a.w, i)
         ELSE Left(a.n, a.w)

\* The end of a chord; one that has not introduced itself ends the process.
ChordBroken(p, i) ==
  /\ Reading(p, i, {"chord"}, {"EOF"})
  /\ IF net.conns[p][i].node_id = NO_NODE_ID
     THEN Die(p, "assertion failed: node_id", Rest(p, i))
     ELSE DropNeighbor(p, node[p], Rest(p, i), i)

\* ROUTE from a neighbor: its column is allocated, unless the sender does not
\* have the ID it gave or has ours; without a free column the process exits.
Route(p, i) ==
  LET n == node[p]
      id == net.conns[p][i].node_id
  IN  /\ Reading(p, i, {"pred", "succ", "chord"}, {"ROUTE"})
      /\ IF id = NO_NODE_ID /\ RoleOf(n, i) = "chord"
         THEN Die(p, "assertion failed: node_id", Rest(p, i))
         ELSE IF Line(p, i).id # id \/ id \in n.neighbor_ids \cup {n.self} THEN Ignore(p, i)
         ELSE IF ~n.routing_ready THEN Die(p, "no space in the routing tables", Rest(p, i))
         ELSE Become(p, [n EXCEPT !.neighbor_ids = @ \cup {id}], Rest(p, i)) /\ UNCHANGED registry

-----------------------------------------------------------------------------
(* The timer and the specification *)

\* pred_timeout()
Timeout(p) ==
  /\ node[p].process = "running" /\ node[p].timer
  /\ MayAct(p)
  /\ leave_ring(p, [node[p] EXCEPT !.timer = FALSE], net)
  /\ UNCHANGED budget

User(p) ==
  \/ \E id \in TypedIds[p] :
       \/ JoinRefused(p, id) \/ JoinAlone(p, id) \/ JoinAsk(p, id) \/ DirectJoinAlone(p, id)
       \/ \E q \in Addr \ {p} : \E far \in TypedIds[q] :
            DirectJoin(p, id, [id |-> far, addr |-> q])
  \/ \E d \in node[p].node_arr : JoinSelect(p, d) \/ ChordSelect(p, d)
  \/ Leave(p) \/ ChordAsk(p) \/ SelectionCancelled(p) \/ RemoveChord(p)
  \/ Exit(p) \/ Start(p)

HandleInput(p, i) ==
  \/ NewNodeEntry(p, i) \/ NewNodePred(p, i) \/ NewNodeChord(p, i)
  \/ NewNodeRoute(p, i) \/ NewNodeBroken(p, i)
  \/ Misplaced(p, i) \/ PredBroken(p, i)
  \/ SuccSucc(p, i) \/ SuccEntry(p, i) \/ SuccBroken(p, i)
  \/ ChordBroken(p, i) \/ Route(p, i)

HandleConnection(p) == AcceptNode(p) \/ RefuseNode(p)

System(p) == HandleConnection(p) \/ \E i \in Slots : HandleInput(p, i)

Next == \E p \in Addr : User(p) \/ System(p) \/ Timeout(p)

Spec == Init /\ [][Next]_vars

\* System(p) is enabled.
HasInput(p) ==
  /\ node[p].process = "running"
  /\ \/ net.backlog[p] # <<>>
     \/ \E i \in Slots :
          /\ net.conns[p][i].inbox # <<>>
          /\ RoleOf(node[p], i) = "succ" /\ Line(p, i) = EOF => Writable(p, node[p].conn.pred)

\* The weak fairness of the select loop and of the timer, WF_vars(System(p)) and
\* WF_vars(Timeout(p)), with ENABLED written out for TLC.
Serves(p)   == []<>~HasInput(p) \/ []<><<System(p)>>_vars
TimesOut(p) == []<>~node[p].timer \/ []<><<Timeout(p)>>_vars

FairSpec == Spec /\ \A p \in Addr : Serves(p) /\ TimesOut(p)

\* At a calm pace it is enough that the processes do not all stop.
NotAllStop == Spec /\ ([]<>Quiet \/ []<><<\E p \in Addr : System(p)>>_vars)

-----------------------------------------------------------------------------
(* Properties *)

Members == {p \in Addr : node[p].connection_state = "CONNECTED"}

\* Type correctness of the global variables of main.c and ring.c.
TypeOK ==
  /\ \A p \in Addr :
       LET n == node[p] IN
       /\ n.self \in NodeID /\ n.succ \in Node /\ n.second_succ \in Node
       /\ n.connection_state \in {"DISCONNECTED", "AWAITING_USER_SELECTION", "CONNECTING", "CONNECTED"}
       /\ n.input_state \in {"COMMAND", "JOIN_NODE_SELECTION", "CHORD_NODE_SELECTION"}
       /\ n.conn \in [DOMAIN NoRoles -> Slots \cup {NULL}]
       /\ n.node_arr \subseteq Node /\ n.neighbor_ids \subseteq NodeID
       /\ {n.awaiting_succ, n.awaiting_pred, n.timer, n.ring, n.routing_ready} \subseteq BOOLEAN
  /\ registry \subseteq Node

(* When users act one at a time *)

\* The processes at most k successors away from p.
Around[k \in Nat, p \in Addr] == IF k = 0 THEN {p} ELSE {p} \cup Around[k - 1, node[p].succ.addr]

\* Once a command has taken effect the connected nodes form one ring: each knows
\* its successor and its second successor, its successor connection is its
\* successor's predecessor connection, and the successors lead to every member
\* (the handlers of ENTRY, SUCC and PRED and of broken connections in ring.c).
RingClosed ==
  Settled =>
    \A p \in Members :
      LET n == node[p]
          q == n.succ.addr
      IN  /\ q \in Members /\ node[q].self = n.succ.id
          /\ n.second_succ = node[q].succ
          /\ q # p => /\ n.conn.succ # NULL
                      /\ net.conns[p][n.conn.succ].peer = End(q, node[q].conn.pred)
                      /\ net.conns[q][node[q].conn.pred].node_id = n.self
          /\ Members \subseteq Around[MAX_NODE_ID + 1, p]

\* No process fails an assertion, dereferences a null pointer or runs out of space.
NoFault == \A p \in Addr : node[p].process \in {"running", "exited"}

\* The node server lists exactly the connected nodes, and the ones that exited
\* without leaving (on_join_end and leave_ring).
RegistrySound ==
  Settled =>
    /\ \A p \in Members : Myself(p, node[p]) \in registry
    /\ \A d \in registry :
         \/ d.addr \in Members /\ node[d.addr].self = d.id
         \/ node[d.addr].process = "exited"

\* Every command takes effect: no exchange of messages goes on for ever and no
\* join is left waiting, without the help of the timer.
EventuallySettles == []<>Settled

\* Every neighbor has a column in the routing tables, also after one of two
\* parallel connections to it was closed (remove_neighbor_connection); only a
\* connection one end of which still is a new node's does not count.
NeighborsKnown ==
  Settled => \A p \in Members, i \in Slots :
    LET c == net.conns[p][i] IN
    /\ c.open /\ i # node[p].conn.new_node
    /\ \A q \in Addr : c.peer # End(q, node[q].conn.new_node)
    => c.node_id \in node[p].neighbor_ids

\* A chord does not survive its far end becoming the predecessor or successor
\* ("Closing degenerate chord with our new predecessor", ring.c).
NoDegenerateChord ==
  Settled => \A p \in Members, i \in Slots, r \in {"pred", "succ"} :
    net.conns[p][i].open /\ IsChord(node[p], i) /\ node[p].conn[r] # NULL =>
      net.conns[p][i].node_id # net.conns[p][node[p].conn[r]].node_id

\* A connection that was accepted gets its role: no process keeps new_node_conn,
\* which makes it refuse every other node (main.c, accept).
NewNodeIntroduced == Settled => \A p \in Addr : node[p].conn.new_node = NULL

\* No timer outlives what it was set for: one that runs when nothing is under way
\* would make a member leave a ring that is closed (pred_timeout).
NoTimerLeft == Settled => \A p \in Addr : ~node[p].timer

(* Whatever the interleaving *)

\* The role pointers name different open connections, and exactly the new node's
\* connection is unidentified, so that a chord always is (the assertions of
\* handle_message and handle_broken_socket).
RolesSound ==
  \A p \in Addr :
    LET c == node[p].conn
        conns == net.conns[p]
    IN  /\ \A r \in DOMAIN c : c[r] # NULL => conns[c[r]].open
        /\ \A r, s \in DOMAIN c : c[r] # NULL /\ c[r] = c[s] => r = s
        /\ \A i \in Slots : conns[i].open => (conns[i].node_id = NO_NODE_ID <=> i = c.new_node)

\* The two ends of a connection agree on what it is for: the successor connection
\* of one node is the predecessor or the new connection of the other, and an
\* outbound chord is an inbound chord or new.
LinkRolesAgree ==
  \A p \in Addr, i \in Slots :
    LET q == net.conns[p][i].peer.addr
        j == net.conns[p][i].peer.slot
    IN  net.conns[p][i].open /\ j # NULL =>
          /\ i = node[p].conn.succ => j \in {node[q].conn.new_node, node[q].conn.pred}
          /\ i = node[p].conn.pred => j = node[q].conn.succ
          /\ i = node[p].conn.chord => RoleOf(node[q], j) \in {"new_node", "chord"}

\* There always is a free slot, so add_connection() never ends the process.
SlotsSuffice == \A p \in Addr : FreeSlot(net.conns[p]) # NULL

\* A join ends: the node is in the ring, gave up, or the process ended.
JoinTerminates ==
  \A p \in Addr : node[p].connection_state = "CONNECTING" ~> node[p].connection_state # "CONNECTING"

(* What an assertion of the code says, and the code does not keep *)

\* "Assertion failed: (pred_conn == NULL) when alone and accepting an entry
\* request." (ring.c, handle_message_from_new_node)
AloneWithoutPred == \A p \in Addr : node[p].process # "assertion failed: pred_conn"
=============================================================================
