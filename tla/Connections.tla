---------------------------- MODULE Connections -----------------------------
(***************************************************************************)
(* The connection tables of all processes (connections.c) and the TCP      *)
(* connections between them.                                               *)
(*                                                                         *)
(*   net.conns[p][i]   slot i of the array connections of process p; the   *)
(*                     inbox is what the kernel holds for its socket       *)
(*   net.backlog[p]    connections to p's public socket not yet accepted   *)
(*                                                                         *)
(* TCP (external) is reliable and ordered: what one end writes before it   *)
(* closes reaches the inbox of the other end, followed by an EOF marker.   *)
(* What is written after the other end closed is lost.  Streams of         *)
(* different connections are not ordered with respect to each other.       *)
(***************************************************************************)
EXTENDS Integers, Sequences

CONSTANTS
  Addr,            \* the processes, named by the address they listen on
  MAX_CONNECTIONS  \* number of slots

ASSUME ConnectionsAssumption ==
  Addr \subseteq Nat \ {0} /\ MAX_CONNECTIONS \in Nat \ {0}

Slots      == 1 .. MAX_CONNECTIONS
NULL       == 0   \* no connection
NO_ADDR    == 0
NO_NODE_ID == -1

\* The far end of a connection: a slot of a process, slot NULL while the
\* connection waits in that process's backlog, NO_PEER once the far end closed.
NO_PEER == [addr |-> NO_ADDR, slot |-> NULL]
End(p, i) == [addr |-> p, slot |-> i]

EOF == [type |-> "EOF", id |-> NO_NODE_ID, addr |-> NO_ADDR]

\* A slot with socket -1.
CLOSED == [open |-> FALSE, node_id |-> NO_NODE_ID, peer |-> NO_PEER, inbox |-> <<>>]

\* init_connections_array() in every process.
NoConnections == [conns   |-> [p \in Addr |-> [i \in Slots |-> CLOSED]],
                  backlog |-> [p \in Addr |-> <<>>]]

-----------------------------------------------------------------------------
(* Searching the array *)

Lowest(S) == IF S = {} THEN NULL ELSE CHOOSE i \in S : \A j \in S : i <= j

\* The slot add_connection() uses; NULL when it would call error().
FreeSlot(conns) == Lowest({i \in Slots : ~conns[i].open})

find_connection_by_node_id(conns, id) ==
  Lowest({i \in Slots : conns[i].open /\ conns[i].node_id = id})

-----------------------------------------------------------------------------
(* The network after a system call of process p *)

\* The connections that wait to be accepted, after from has written ms.
Queue(waiting, from, ms) ==
  [k \in DOMAIN waiting |-> IF waiting[k].from = from
                            THEN [from |-> from, data |-> waiting[k].data \o ms]
                            ELSE waiting[k]]

\* p writes the messages ms on connection i.
Write(net, p, i, ms) ==
  LET to == net.conns[p][i].peer IN
  IF to = NO_PEER THEN net
  ELSE IF to.slot # NULL
  THEN [net EXCEPT !.conns[to.addr][to.slot].inbox = @ \o ms]
  ELSE [net EXCEPT !.backlog[to.addr] = Queue(@, End(p, i), ms)]

\* p reads one line of connection i.
Consume(net, p, i) == [net EXCEPT !.conns[p][i].inbox = Tail(@)]

\* close_connection() on every open slot of S: unread input is dropped and the
\* far ends see the end of their input.
Close(net, p, S) ==
  LET Hit(end) == end.addr = p /\ end.slot \in S IN
  [conns |-> [q \in Addr |-> [j \in Slots |->
      LET c == net.conns[q][j] IN
      IF Hit(End(q, j)) THEN CLOSED
      ELSE IF Hit(c.peer) THEN [c EXCEPT !.inbox = Append(@, EOF), !.peer = NO_PEER]
      ELSE c]],
   backlog |-> [q \in Addr |-> [k \in DOMAIN net.backlog[q] |->
      LET b == net.backlog[q][k] IN
      IF Hit(b.from) THEN [from |-> NO_PEER, data |-> Append(b.data, EOF)] ELSE b]]]

\* connect_to_node(): slot i of p is taken for a connection to dest.  If dest
\* does not listen the slot stays taken by a socket that only yields an error.
Connect(net, p, i, dest, listening) ==
  IF listening
  THEN [conns   |-> [net.conns EXCEPT ![p][i] =
                       [open |-> TRUE, node_id |-> dest.id,
                        peer |-> End(dest.addr, NULL), inbox |-> <<>>]],
        backlog |-> [net.backlog EXCEPT ![dest.addr] =
                       Append(@, [from |-> End(p, i), data |-> <<>>])]]
  ELSE [net EXCEPT !.conns[p][i] = [open |-> TRUE, node_id |-> dest.id,
                                    peer |-> NO_PEER, inbox |-> <<EOF>>]]

\* accept() and add_connection(): the oldest waiting connection gets slot i.
Accept(net, p, i) ==
  LET b == Head(net.backlog[p])
      known == [net.conns EXCEPT ![p][i] = [open |-> TRUE, node_id |-> NO_NODE_ID,
                                            peer |-> b.from, inbox |-> b.data]]
  IN  [conns   |-> IF b.from = NO_PEER THEN known
                   ELSE [known EXCEPT ![b.from.addr][b.from.slot].peer = End(p, i)],
       backlog |-> [net.backlog EXCEPT ![p] = Tail(@)]]

\* accept() followed at once by close().
Refuse(net, p) ==
  LET b == Head(net.backlog[p]) IN
  [conns   |-> IF b.from = NO_PEER THEN net.conns
               ELSE [net.conns EXCEPT ![b.from.addr][b.from.slot].peer = NO_PEER,
                                      ![b.from.addr][b.from.slot].inbox = Append(@, EOF)],
   backlog |-> [net.backlog EXCEPT ![p] = Tail(@)]]

\* The process p ends: the kernel closes its sockets, the public one included.
Terminate(net, p) ==
  LET w == Close(net, p, Slots) IN
  [conns   |-> [q \in Addr |-> [j \in Slots |->
                  IF w.conns[q][j].peer = End(p, NULL)
                  THEN [w.conns[q][j] EXCEPT !.inbox = Append(@, EOF), !.peer = NO_PEER]
                  ELSE w.conns[q][j]]],
   backlog |-> [w.backlog EXCEPT ![p] = <<>>]]

SetNodeId(net, p, i, id) == [net EXCEPT !.conns[p][i].node_id = id]
=============================================================================
