----------------------------- MODULE PathVector -----------------------------
(***************************************************************************)
(* The exchange of routing tables between nodes and the forwarding of chat *)
(* messages: routing.c in every node, and the parts of ring.c and main.c   *)
(* that drive it.  The tables and their operations are those of module     *)
(* RoutingTable.                                                           *)
(*                                                                         *)
(* Why connections are opened and closed is in module Ring; here any       *)
(* connection of a fixed set of links may be, each opened by the node at   *)
(* its side 1, several between the same nodes too.  HELLO stands for the   *)
(* ENTRY or PRED that introduces the initiator, CHORD for itself.  A       *)
(* handler that closes one connection and then opens or greets on another  *)
(* (ENTRY between two nodes or from the successor, a chord that becomes    *)
(* superfluous) is two steps here, between which others may come.  A node  *)
(* keeps its ID while it is in a ring.  TCP (external) is as in module     *)
(* Connections.                                                            *)
(***************************************************************************)
EXTENDS RoutingTable, FiniteSets

CONSTANTS
  Links,    \* possible connections
  Ends,     \* Ends[l]: the nodes at the two sides of link l
  Budgets   \* bounds: how often connections are opened, closed and taken over, nodes
            \* leave or start anew, chat messages are sent and writes fail; calm:
            \* connections are opened and messages sent when all is quiet

Sides == {1, 2}

ASSUME PathVectorAssumption ==
  /\ Ends \in [Links -> NodeID \X NodeID]
  /\ \A l \in Links : Ends[l][1] # Ends[l][2]
  /\ Budgets \subseteq [open : Nat, close : Nat, take : Nat, leave : Nat, chat : Nat,
                       fail : Nat, calm : BOOLEAN]

\* MAX_RECIPIENTS and MAX_NEIGHBORS are MAX_NODES - 1, and a ring has up to MAX_NODES
\* nodes (routing.h): error() for want of a row or a column is in module Routing.
ASSUME RoomAssumption ==
  /\ IsFiniteSet(NodeID)
  /\ Cardinality(NodeID) - 1 <= MAX_RECIPIENTS
  /\ Cardinality(NodeID) - 1 <= MAX_NEIGHBORS

VARIABLES
  table,    \* table[p]: the routing tables of node p
  members,  \* the nodes in a ring (CONNECTING or CONNECTED)
  crashed,  \* the nodes whose process ended by a null pointer
  end,      \* end[l][s]: how the node at side s of link l sees the connection
  inbox,    \* inbox[l][s]: the lines for the node at side s
  budget,   \* what may still happen
  owed,     \* the recipient of a chat message that has to arrive, or NO_NODE_ID
  kept,     \* kept[p]: the neighbors whose column p keeps without a connection
  mishaps   \* history: which of Mishaps have happened

vars == <<table, members, crashed, end, inbox, budget, owed, kept, mishaps>>

\* What the tables need not recover from: a column outlives its connection, a chord is
\* rejected by one end only, a connection is opened or closed across the lines of a
\* parallel one, a write fails in the middle of an announcement, the tables are cleared
\* under open connections.
Mishaps == {"column kept", "chord rejected", "overlap", "write failed", "tables cleared"}

\* An end is closed, waits to be accepted, is accepted and unidentified, or known
\* under the ID of its far node: "closed", "backlog", "new", "known".

Other(s) == 3 - s
At(l, s)  == Ends[l][s]
Far(l, s) == Ends[l][Other(s)]

EmptyTable == [recipient_ids    |-> [i \in Recipients |-> NO_NODE_ID],
               neighbor_ids     |-> [j \in Neighbors |-> NO_NODE_ID],
               routing_table    |-> [i \in Recipients |-> [j \in Neighbors |-> <<>>]],
               forwarding_table |-> [i \in Recipients |-> 0]]

Init == /\ table = [p \in NodeID |-> EmptyTable]
        /\ members = NodeID /\ crashed = {}
        /\ end = [l \in Links |-> [s \in Sides |-> "closed"]]
        /\ inbox = [l \in Links |-> [s \in Sides |-> <<>>]]
        /\ budget \in Budgets
        /\ owed = NO_NODE_ID
        /\ kept = [p \in NodeID |-> {}] /\ mishaps = {}

Message(type, recipient, path) == [type |-> type, recipient |-> recipient, path |-> path]
HELLO == Message("HELLO", NO_NODE_ID, <<>>)
CHORD == Message("CHORD", NO_NODE_ID, <<>>)
EOF   == Message("EOF", NO_NODE_ID, <<>>)
Chat(recipient) == Message("CHAT", recipient, <<>>)

\* ROUTE about r from p, as the receiver parses it: the sender comes first, and
\* the recipient at the end of the path string is not part of the path.
Route(p, r, path) ==
  Message("ROUTE", r, IF path = INVALID_PATH THEN INVALID_PATH ELSE <<p>> \o path)

-----------------------------------------------------------------------------
(* Connections *)

\* The open connections of p: the ones in its array.
OpenEnds(e, p)  == {x \in Links \X Sides : At(x[1], x[2]) = p /\ e[x[1]][x[2]] \in {"new", "known"}}
KnownEnds(e, p, n) ==
  {x \in OpenEnds(e, p) : e[x[1]][x[2]] = "known" /\ Far(x[1], x[2]) = n}

\* The inboxes b after the lines ms are written on every connection of xs; what is
\* written to a far end that closed is lost.
Write(e, b, xs, ms) ==
  [l \in Links |-> [s \in Sides |->
     IF <<l, Other(s)>> \in xs /\ e[l][s] # "closed" THEN b[l][s] \o ms ELSE b[l][s]]]

\* close() of the connections xs: unread lines are dropped, the far ends see EOF.
CloseEnds(e, xs) ==
  [l \in Links |-> [s \in Sides |-> IF <<l, s>> \in xs THEN "closed" ELSE e[l][s]]]
AfterClose(e, b, xs) ==
  [l \in Links |-> [s \in Sides |->
     IF <<l, s>> \in xs THEN <<>>
     ELSE IF <<l, Other(s)>> \in xs /\ e[l][s] # "closed" THEN Append(b[l][s], EOF)
     ELSE b[l][s]]]

-----------------------------------------------------------------------------
(* Announcements *)

\* The elements of S, a set of row numbers, as a loop over the rows meets them.
InOrder(S) == CHOOSE f \in [1 .. Cardinality(S) -> S] :
                \A i, k \in 1 .. Cardinality(S) : i < k => f[i] < f[k]

\* send_shortest_paths(): the way to itself, then every allocated row in order.
send_shortest_paths(p, t) ==
  LET rows == InOrder({i \in Recipients : t.recipient_ids[i] # NO_NODE_ID})
  IN  <<Message("ROUTE", p, <<>>)>> \o
      [k \in DOMAIN rows |-> Route(p, t.recipient_ids[rows[k]],
                                   ShortestPath(t, t.recipient_ids[rows[k]]))]

\* Faulty variant: nothing is announced when a neighbor is lost.
AnnounceNothing(p, t, u) == <<>>

\* remove_routing_neighbor() announces the rows that changed, in their order.
LossAnnouncements(p, t, u) ==
  LET rows == InOrder({i \in Recipients : t.recipient_ids[i] # NO_NODE_ID
                                             /\ ShortestPathChanged(t, u, i)})
  IN  [k \in DOMAIN rows |-> Route(p, t.recipient_ids[rows[k]],
                                   ShortestPath(u, t.recipient_ids[rows[k]]))]

\* Faulty variants: the tables are not touched; a second connection to the node
\* is overlooked.
KeepColumn(p, n, e) == FALSE
RemoveColumnAlways(p, n, e) == TRUE

\* remove_neighbor_connection(): whether no connection to n is left.
LastConnection(p, n, e) == KnownEnds(e, p, n) = {}

\* p, with tables t, closes its end x or finds it closed: handle_broken_socket() and
\* remove_neighbor_connection().  The neighbors that are left are told.
LoseEnd(p, t, x, e, b) ==
  LET n == Far(x[1], x[2])
      f == CloseEnds(e, {x})
      c == AfterClose(e, b, {x})
      u == remove_routing_neighbor(t, n)
  IN  IF e[x[1]][x[2]] = "known" /\ LastConnection(p, n, f)
      THEN [table |-> u, end |-> f,
            inbox |-> Write(f, c, OpenEnds(f, p), LossAnnouncements(p, t, u))]
      ELSE [table |-> t, end |-> f, inbox |-> c]

\* A column that is removed is not kept any more.
Become(p, r) == /\ table' = [table EXCEPT ![p] = r.table]
                /\ end' = r.end /\ inbox' = r.inbox
                /\ kept' = [kept EXCEPT ![p] =
                     {n \in @ : get_neighbor_index(r.table, n) # NO_NODE_INDEX}]

-----------------------------------------------------------------------------
(* The topology changes *)

Spend(kind) == budget[kind] > 0 /\ budget' = [budget EXCEPT ![kind] = @ - 1]

Quiet == \A l \in Links, s \in Sides : inbox[l][s] = <<>> /\ end[l][s] # "backlog"

Suffer(kind, when) == mishaps' = mishaps \cup (IF when THEN {kind} ELSE {})

\* The other links between the nodes of l.
Parallel(l) == {k \in Links \ {l} : {Ends[k][1], Ends[k][2]} = {Ends[l][1], Ends[l][2]}}
Live(l)     == \A s \in Sides : end[l][s] # "closed"
Dying(l)    == (end[l][1] = "closed") # (end[l][2] = "closed")
Unread(l)   == \E s \in Sides : \E k \in DOMAIN inbox[l][s] : inbox[l][s][k].type = "ROUTE"

\* l is closed over a parallel connection: before that one is accepted, or with lines
\* about routes unread.  l is opened over one of which a single end is closed.
ClosedOver(l) == \E k \in Parallel(l) : Live(k) /\ (end[k][2] = "backlog" \/ Unread(l))
OpenedOver(l) == \E k \in Parallel(l) : Dying(k)

\* connect_to_node(), the introduction and send_shortest_paths(), by p on the link l,
\* after the ends are e and the inboxes b.
Connect(p, l, hello, e, b) ==
  /\ end' = [e EXCEPT ![l] = <<"known", "backlog">>]
  /\ inbox' = [b EXCEPT ![l][2] = <<hello>> \o send_shortest_paths(p, table[p])]

\* A chord is only opened to a node without a connection (the prompt of main.c).
Open(l) ==
  LET p == At(l, 1) IN
  /\ Spend("open") /\ (budget.calm => Quiet)
  /\ p \in members /\ end[l] = [s \in Sides |-> "closed"]
  /\ \E hello \in {HELLO, CHORD} :
       /\ hello = CHORD => KnownEnds(end, p, Far(l, 1)) = {}
       /\ Connect(p, l, hello, end, inbox)
  /\ owed' = NO_NODE_ID /\ Suffer("overlap", OpenedOver(l))
  /\ UNCHANGED <<table, members, crashed, kept>>

\* The node at side s closes the connection and keeps running: a neighbor that is
\* replaced, a chord that is removed or no longer needed, an ENTRY during a join.
CloseLink(l, s) ==
  /\ Spend("close")
  /\ end[l][s] \in {"new", "known"}
  /\ Become(At(l, s), LoseEnd(At(l, s), table[At(l, s)], <<l, s>>, end, inbox))
  /\ owed' = NO_NODE_ID /\ Suffer("overlap", ClosedOver(l))
  /\ UNCHANGED <<members, crashed>>

\* leave_ring(): every connection is closed; the tables are left as they are.
Leave(p) ==
  LET xs == OpenEnds(end, p) IN
  /\ Spend("leave")
  /\ p \in members
  /\ members' = members \ {p}
  /\ end' = CloseEnds(end, xs) /\ inbox' = AfterClose(end, inbox, xs)
  /\ owed' = NO_NODE_ID
  /\ UNCHANGED <<table, crashed, kept, mishaps>>

\* The next join calls init_routing().  The round of the main loop in which the
\* node left has refused the connections that were waiting.
Outside(p) == p \notin members \cup crashed
              /\ \A l \in Links : At(l, 2) = p => end[l][2] # "backlog"
Rejoin(p) ==
  /\ Outside(p)
  /\ members' = members \cup {p}
  /\ table' = [table EXCEPT ![p] = init_routing(@)] /\ kept' = [kept EXCEPT ![p] = {}]
  /\ owed' = NO_NODE_ID
  /\ UNCHANGED <<crashed, end, inbox, budget, mishaps>>

\* The direct join command with its own ID starts a ring with the tables of the last.
StartRing(p) ==
  LET columns == {table[p].neighbor_ids[j] : j \in Neighbors} \ {NO_NODE_ID} IN
  /\ Outside(p)
  /\ members' = members \cup {p} /\ kept' = [kept EXCEPT ![p] = columns]
  /\ owed' = NO_NODE_ID /\ Suffer("column kept", columns # {})
  /\ UNCHANGED <<table, crashed, end, inbox, budget>>

\* The direct join command in a ring: init_routing() with the connections open.
JoinAgain(p) ==
  /\ Spend("leave")
  /\ p \in members
  /\ table' = [table EXCEPT ![p] = init_routing(@)] /\ kept' = [kept EXCEPT ![p] = {}]
  /\ owed' = NO_NODE_ID /\ Suffer("tables cleared", TRUE)
  /\ UNCHANGED <<members, crashed, end, inbox>>

\* The main loop accepts a connection, or closes it at once: outside a ring, and while
\* another one is not identified (new_node_conn).
Busy(l) == \E x \in OpenEnds(end, At(l, 2)) : end[x[1]][x[2]] = "new"
Accept(l) ==
  /\ end[l][2] = "backlog"
  /\ IF At(l, 2) \in members /\ ~Busy(l)
     THEN end' = [end EXCEPT ![l][2] = "new"] /\ inbox' = inbox /\ mishaps' = mishaps
     ELSE /\ end' = CloseEnds(end, {<<l, 2>>})
          /\ inbox' = AfterClose(end, inbox, {<<l, 2>>})
          /\ Suffer("overlap", At(l, 2) \in members /\ ClosedOver(l))
  /\ UNCHANGED <<table, members, crashed, budget, owed, kept>>

-----------------------------------------------------------------------------
(* Lines and ends of input *)

Receives(l, s, type) ==
  /\ end[l][s] \in {"new", "known"} /\ inbox[l][s] # <<>>
  /\ Head(inbox[l][s]).type = type
  /\ UNCHANGED <<members, crashed>>
Line(l, s) == Head(inbox[l][s])
Rest(l, s) == [inbox EXCEPT ![l][s] = Tail(@)]

\* The new node at the far end introduces itself; it is known in e after a HELLO, and
\* after a CHORD if there is no connection with it yet.
Introduces(l, s, type) == end[l][s] = "new" /\ Receives(l, s, type)
Admits(l, s) == \/ Introduces(l, s, "HELLO")
                \/ Introduces(l, s, "CHORD") /\ KnownEnds(end, At(l, s), Far(l, s)) = {}
Known(e, l, s) == [e EXCEPT ![l][s] = "known"]
Dump(l, s, b)  == Write(end, b, {<<l, s>>}, send_shortest_paths(At(l, s), table[At(l, s)]))

\* It is sent the table.
Greet(l, s) ==
  /\ Admits(l, s)
  /\ end' = Known(end, l, s) /\ inbox' = Dump(l, s, Rest(l, s))
  /\ UNCHANGED <<table, budget, owed, kept, mishaps>>

\* ENTRY to a node that is alone: the table is not sent on this connection but on the
\* one that the node opens to its new successor, the same node.
GreetAlone(l, s, k) ==
  /\ Spend("open")
  /\ Introduces(l, s, "HELLO")
  /\ k \in Parallel(l) /\ At(k, 1) = At(l, s) /\ end[k] = [c \in Sides |-> "closed"]
  /\ Connect(At(l, s), k, HELLO, Known(end, l, s), Rest(l, s))
  /\ owed' = NO_NODE_ID /\ Suffer("overlap", OpenedOver(k))
  /\ UNCHANGED <<table, kept>>

\* PRED to a node that has a predecessor: the connection x with the old one is closed,
\* its column stays.
TakeOver(l, s, x) ==
  LET p   == At(l, s)
      old == Far(x[1], x[2])
      e   == Known(CloseEnds(end, {x}), l, s)
      b   == AfterClose(end, Rest(l, s), {x})
      gone == KnownEnds(e, p, old) = {} /\ get_neighbor_index(table[p], old) # NO_NODE_INDEX
  IN  /\ Spend("take")
      /\ Introduces(l, s, "HELLO")
      /\ x \in OpenEnds(end, p) \ {<<l, s>>} /\ end[x[1]][x[2]] = "known"
      /\ end' = e /\ inbox' = Dump(l, s, b)
      /\ kept' = [kept EXCEPT ![p] = @ \cup IF gone THEN {old} ELSE {}]
      /\ mishaps' = mishaps \cup (IF gone THEN {"column kept"} ELSE {})
                            \cup (IF ClosedOver(x[1]) THEN {"overlap"} ELSE {})
      /\ owed' = NO_NODE_ID
      /\ UNCHANGED table

\* CHORD of a node that has a connection: it stays open and unidentified.
Reject(l, s) ==
  /\ Introduces(l, s, "CHORD") /\ KnownEnds(end, At(l, s), Far(l, s)) # {}
  /\ inbox' = Rest(l, s) /\ Suffer("chord rejected", TRUE)
  /\ UNCHANGED <<table, end, budget, owed, kept>>

\* On a connection that is not identified other lines are malformed.
IgnoreLine(l, s) ==
  /\ end[l][s] = "new" /\ (Receives(l, s, "ROUTE") \/ Receives(l, s, "CHAT"))
  /\ inbox' = Rest(l, s)
  /\ UNCHANGED <<table, end, budget, owed, kept, mishaps>>

\* What a ROUTE message changes: nothing if it is about this node.
Learned(l, s) ==
  LET p == At(l, s)
      m == Line(l, s)
      t == Prepared(table[p], Far(l, s), m.recipient)
      u == update_routing_given_new_path(p, table[p], Far(l, s), m.recipient, m.path)
  IN  IF m.recipient = p THEN [table |-> table[p], changed |-> FALSE, route |-> m]
      ELSE [table |-> u, route |-> Route(p, m.recipient, ShortestPath(u, m.recipient)),
            changed |-> ShortestPathChanged(t, u, get_recipient_index(t, m.recipient))]

\* The tables are updated, and every connection is told if the shortest path changed.
LearnRoute(l, s) ==
  LET new == Learned(l, s)
      xs  == IF new.changed THEN OpenEnds(end, At(l, s)) ELSE {}
  IN  /\ end[l][s] = "known" /\ Receives(l, s, "ROUTE")
      /\ Become(At(l, s), [table |-> new.table, end |-> end,
                           inbox |-> Write(end, Rest(l, s), xs, <<new.route>>)])
      /\ UNCHANGED <<budget, owed, mishaps>>

\* The same when the write to x fails because its far end closed: conn_printf() calls
\* handle_broken_socket() in the middle of the loop, which then goes on with the same
\* line for the connections in later slots (the slots may be in any order).
LearnRouteWriteFails(l, s, x) ==
  LET p   == At(l, s)
      new == Learned(l, s)
  IN  /\ Spend("fail") /\ Suffer("write failed", TRUE)
      /\ x \in OpenEnds(end, p) /\ end[x[1]][Other(x[2])] = "closed"
      /\ end[l][s] = "known" /\ Receives(l, s, "ROUTE") /\ new.changed
      /\ \E later \in SUBSET (OpenEnds(end, p) \ {x}) :
           LET sooner == OpenEnds(end, p) \ (later \cup {x})
               lost   == LoseEnd(p, new.table, x, end,
                                 Write(end, Rest(l, s), sooner, <<new.route>>))
           IN  Become(p, [lost EXCEPT !.inbox = Write(lost.end, @, later, <<new.route>>)])
      /\ UNCHANGED owed

\* The far end closed the connection: handle_broken_socket().
EndOfLink(l, s) ==
  /\ Receives(l, s, "EOF")
  /\ Become(At(l, s), LoseEnd(At(l, s), table[At(l, s)], <<l, s>>, end, Rest(l, s)))
  /\ UNCHANGED <<budget, owed, mishaps>>

\* The neighbor of p that messages to r are forwarded to.
NextHop(t, r) == t.neighbor_ids[t.forwarding_table[get_recipient_index(t, r)]]

\* forward_message(): without a row the message is dropped, otherwise it is
\* written to a connection with the neighbor.  Without one the process ends at
\* the null pointer and the kernel closes its connections.
Forward(p, r, b) ==
  LET known == KnownEnds(end, p, NextHop(table[p], r))
      xs == OpenEnds(end, p)
  IN  IF get_recipient_index(table[p], r) = NO_NODE_INDEX
      THEN inbox' = b /\ UNCHANGED <<members, crashed, end>>
      ELSE IF known # {}
      THEN /\ \E x \in known : inbox' = Write(end, b, {x}, <<Chat(r)>>)
           /\ UNCHANGED <<members, crashed, end>>
      ELSE /\ members' = members \ {p} /\ crashed' = crashed \cup {p}
           /\ end' = CloseEnds(end, xs) /\ inbox' = AfterClose(end, b, xs)

HasRow(p, r) == get_recipient_index(table[p], r) # NO_NODE_INDEX

\* The message command; it does not look at connection_state.
SendChat(p, r) ==
  /\ Spend("chat") /\ (budget.calm => Quiet)
  /\ p # r /\ p \notin crashed
  /\ Forward(p, r, inbox)
  /\ owed' = IF Quiet /\ HasRow(p, r) /\ p \in members /\ mishaps = {} THEN r ELSE owed
  /\ UNCHANGED <<table, kept, mishaps>>

ChatArrives(l, s) ==
  LET m == Line(l, s) IN
  /\ end[l][s] = "known" /\ Receives(l, s, "CHAT") /\ m.recipient = At(l, s)
  /\ inbox' = Rest(l, s) /\ owed' = NO_NODE_ID
  /\ UNCHANGED <<table, end, budget, kept, mishaps>>

ChatPassesOn(l, s) ==
  LET m == Line(l, s) IN
  /\ end[l][s] = "known" /\ inbox[l][s] # <<>>
  /\ m.type = "CHAT" /\ m.recipient # At(l, s)
  /\ Forward(At(l, s), m.recipient, Rest(l, s))
  /\ UNCHANGED <<table, budget, owed, kept, mishaps>>

Handle(l, s) == \/ Greet(l, s) \/ Reject(l, s) \/ IgnoreLine(l, s)
                \/ LearnRoute(l, s) \/ EndOfLink(l, s)
                \/ ChatArrives(l, s) \/ ChatPassesOn(l, s)

Next == \/ \E l \in Links : Open(l) \/ Accept(l)
        \/ \E l \in Links, s \in Sides :
             \/ CloseLink(l, s) \/ Handle(l, s)
             \/ \E k \in Links : GreetAlone(l, s, k)
             \/ \E x \in Links \X Sides : TakeOver(l, s, x) \/ LearnRouteWriteFails(l, s, x)
        \/ \E p \in NodeID : \/ Leave(p) \/ Rejoin(p) \/ StartRing(p) \/ JoinAgain(p)
                            \/ \E r \in NodeID : SendChat(p, r)

Spec == Init /\ [][Next]_vars

\* select() reports every readable descriptor, and a round serves all of them: the nodes
\* do not all stop while a line or a connection waits.  That is all that is assumed; the
\* steps that handle no input are bounded, so in the end it is input that is handled.
Waiting == \E l \in Links, s \in Sides :
  end[l][s] = "backlog" \/ (end[l][s] # "closed" /\ inbox[l][s] # <<>>)
FairSpec == Spec /\ (<>[]Waiting => []<><<TRUE>>_vars)

-----------------------------------------------------------------------------
(* Properties *)

Joined(p, q) == \E l \in Links, s \in Sides : /\ At(l, s) = p /\ Far(l, s) = q
                                              /\ end[l][s] = "known" /\ end[l][Other(s)] = "known"

\* From p to r along existing connections, through the nodes mid.
Way(p, mid, r) ==
  LET way == <<p>> \o mid \o <<r>>
  IN  \A k \in 1 .. Len(way) - 1 : Joined(way[k], way[k + 1])

\* When nothing is under way the tables are right: every node has a row exactly for
\* the nodes it is connected to, directly or not, and its path is a way along existing
\* connections with the fewest hops (the announcements of routing.c).  Each of the
\* mishaps may spoil this, as the failing write of AnnouncedIsShortest does.
Converged ==
  Quiet /\ mishaps = {} => \A p \in members : \A r \in NodeID \ {p} :
    LET path == ShortestPath(table[p], r)
    IN  /\ HasRow(p, r) => Way(p, path, r)
        /\ \A n \in 0 .. Cardinality(NodeID) : \A mid \in [1 .. n -> NodeID] :
             Way(p, mid, r) => HasRow(p, r) /\ Len(path) <= n

\* A member forwards to a neighbor it has a connection with, in whatever order
\* connections are lost, except over the column of a predecessor that a PRED took the
\* place of, or of an earlier ring: forward_message would use a null pointer.
Forwardable ==
  \A p \in members, r \in NodeID : HasRow(p, r) =>
    KnownEnds(end, p, NextHop(table[p], r)) # {} \/ NextHop(table[p], r) \in kept[p]

\* A chat message that is sent when nothing is under way, to a node for which there is
\* a row, arrives unless the connections change on its way (or a mishap came before).
ChatDelivered == Quiet => owed = NO_NODE_ID

\* The exchange of messages ends: no path is announced back and forth, and no chat
\* message circulates for ever while the tables of its hops disagree.
EventuallyQuiet == []<>Quiet

\* "Announcing new shortest path: [..]" (routing.c, announce_new_path): what a
\* neighbor was last told about a recipient is the shortest path to it.
AnnouncedIsShortest ==
  Quiet => \A p, q \in members : Joined(p, q) =>
    \A r \in NodeID \ {p, q} :
      LET i == get_recipient_index(table[q], r)
          j == get_neighbor_index(table[q], p)
          told == Sanitise(q, Route(p, r, ShortestPath(table[p], r)).path)
      IN  IF i = NO_NODE_INDEX \/ j = NO_NODE_INDEX THEN told = INVALID_PATH
          ELSE told = table[q].routing_table[i][j]
=============================================================================
