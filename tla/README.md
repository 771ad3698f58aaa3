# A TLA+ model of the ring-with-chords overlay

The program is one executable, run once per node. The nodes keep a ring of TCP
connections with optional chords, find each other through a node server (UDP),
and route chat messages with a path vector protocol. This directory models the
ring protocol, the routing tables and their exchange, the node server client and
the main loop with its timer and line reader, checks them with TLC, and proves with
TLAPS what the routing tables and their exchange, the roles of the ring's connections,
the node server's list, the line reader and the timer promise.

## 1. Inventory

| Component | State | Operations | Talks to |
|---|---|---|---|
| Routing tables, `routing.c` | `recipient_ids`, `neighbor_ids`, `routing_table`, `forwarding_table` | `init_routing`, `update_routing_given_new_path`, `announce_new_path`, `send_shortest_paths`, `remove_routing_neighbor`, `forward_message` | called by `ring.c`; writes ROUTE and CHAT to every connection |
| Connection table, `connections.c` | array `connections` (socket, node ID, line buffer), `select_inputs` | `add_connection`, `close_connection`, two searches, `conn_printf` | `close_connection` clears the role pointers of `ring.c`; a failing `conn_printf` calls `handle_broken_socket` |
| Ring protocol, `ring.c` | `self`, `succ`, `second_succ`, the pointers `new_node_conn`, `pred_conn`, `succ_conn`, `outbound_chord_conn`, `awaiting_succ`, `awaiting_pred`, `ring_id_str` | handlers of ENTRY, SUCC, PRED, CHORD, ROUTE, CHAT and of broken connections for each role; `join_ring`, `leave_ring`, `on_join_end`, `create_outbound_chord`, `pred_timeout` | other nodes over TCP, timer, node server client |
| User commands, `main.c` | `input_state`, `connection_state` | join, dj, leave, chord, remove chord, exit, answers to the two prompts, show, message | ring protocol, node server client |
| Select loop and timer, `main.c` | `timeout_handler`, `timeout_instant` | accept, one round of `select()`, `set_timeout`, `cancel_timeout` | everything |
| Node server client, `node-server.c` | `node_arr`, `node_count` | REG, UNREG, NODES with substitution of an ID in use | the node server over UDP |
| Line reader, `read-lines.c` | a buffer per descriptor | `read_lines` | hands lines to `main.c` and `ring.c` |
| Utilities, scripts | none | logging, `error()` | |

What is hard here. A process has no threads, so a handler is atomic; but a join
or a departure takes messages on three or four TCP connections of as many
processes, and nothing orders the streams of different connections. A node that
leaves closes all its connections at once, and its neighbors notice in any
order, with other joins in between. The role of a connection is a pointer into a
table whose slots are reused. Only a one second timer gets a join unstuck. In
the routing tables rows and columns are allocated on demand and reused, old
contents are left in place, and `forwarding_table` is used as an index without a
check. Nodes learn of a lost connection at different times and meanwhile offer each
other paths that are gone. The node server is asked over UDP, and the answer is
whatever datagram comes first. A `read()` may end anywhere in a line.

What makes it correct. *Ring*: after a command has taken effect the members form
one cycle with correct second successors; the role pointers name different open
connections; both ends of a connection agree on its role; joins end; no
assertion fails and the slots suffice. *Routing*: no ID has two indices, every
row is forwarded to an existing neighbor with a shortest path, no path leads
through the node itself, the neighbors have been told the current paths.
*Several tables together*: the announcements end, the paths are then shortest ways
along existing connections, and chat messages arrive. *Node server client*: the
list has exactly the members, and no process waits for an answer for ever. *Main
loop*: every descriptor is served. *Timer*: it goes off, not too early, and the loop
does not spin. *Line reader*: the handler gets the bytes of a stream in order, each
once, and the buffer never stays full.

## 2. Modules

| Module | Stands for |
|---|---|
| `RoutingTable` | the functions of `routing.c` as pure operators on a table record |
| `Routing` | the routing component of one node as a state machine: the ROUTE messages, closed connections and joins that reach it |
| `RoutingBase` | abstract specification: what the tables promise, without indices |
| `RoutingTableProofs` | lemmas about the operators of `RoutingTable`, for any node |
| `RoutingProofs` | theorems about `Routing` |
| `RoutingRefinement` | proof that `Routing` implements `RoutingBase` |
| `Connections` | connection tables of all processes and the TCP connections between them |
| `Ring` | `ring.c`, the user commands, accept and the timer of `main.c`, REG/UNREG/NODES |
| `RingProofs` | theorems about `Ring` and `Connections` |
| `PathVector` | the routing tables of several nodes, the announcements between them and the forwarding of chat messages |
| `PathVectorProofs` | theorem about `PathVector`: the tables and the connections fit together |
| `NodeServer` | `node-server.c` and its callers over UDP |
| `NodeServerProofs` | theorem about `NodeServer` |
| `ReadLines` | `read_lines()` as an operator |
| `Timer` | the arithmetic of `set_timeout()` and of the time handed to `select()` |
| `EventLoop` | the main loop: rounds, timer, reading, accepting |
| `EventLoopProofs` | theorems about `EventLoop`, `ReadLines` and `Timer` |
| `MC...` | values of the constants for TLC |

`Routing` extends `RoutingTable` and instantiates `RoutingBase` under a
refinement mapping; `PathVector` composes the operators of `RoutingTable`, one table
per node; `Ring` extends `Connections`; `EventLoop` extends `ReadLines` and
`Timer`. Definitions named "Faulty
variant" are not part of the specifications: each is a plausible mistake in the
definition after it, used to see that the properties notice it.

### Routing

A path is the sequence of its intermediate nodes; `hop_count == -2` is
`INVALID_PATH`. `get_recipient_index(.., true)` and its neighbor counterpart are
`AddRecipient` and `AddNeighbor`; the search for the closest neighbor with its
preference for the current one is `ClosestNeighbor`; the returned boolean is
`ShortestPathChanged`. The loop of `remove_routing_neighbor` touches each row on
its own and is written as one function. `told[r]` records what was last announced,
which is what the return value is for.

`Sent` says what the program at the far end writes: a path with hops starts with
the sender (`path_to_string` puts it there). It is an assumption about the peers,
not a check of the code; `Acceptable` has the checks of the code.

`RoutingBase` keeps for each pair of neighbor and recipient the last offer, and
for each recipient a neighbor with a shortest offer, which it does not give up
while it is still among the shortest. `Heard` and `Via` map the tables to it.

### Ring

`node[p]` has the global variables of process `p`, `net` the connection tables and
what the kernels hold: for each slot the unread lines, ended by an `EOF` marker
when the far end closed, and for each process the connections not yet accepted.
`HandleInput(p, i)` takes one line of one connection; the action is chosen by the
role of the connection (`RoleOf`, in the order of the comparisons in
`handle_message`) and the type of the line. One handler is one step, including the
connections it closes, the connection it opens and the lines it writes. A failed
assertion, a null pointer that is dereferenced and a full table end the process
(`Die`).

Abstractions:

- ROUTE stands for the dump `send_shortest_paths()` writes on a new connection;
  announcements of later changes, which go to existing neighbors only, and CHAT
  are in `PathVector`. Of the routing tables only the set of columns is kept.
- Lines arrive whole and are handled one per step (`EventLoop` has the parts). In
  the code one `read()` may hand over several lines before the other descriptors
  are served.
- What is written to a connection the far end has closed is lost. In the code
  such a write may also fail at once and call `handle_broken_socket` from within
  the handler. Closing a connection with unread input ends the far end's input
  after what was written; a TCP reset could also discard some of that.
- `connect()` fails exactly when no process runs at the address. As in
  `connect_to_node`, the slot stays taken until its broken socket is read.
- The node server is a set that is asked and told without loss (`NodeServer` has
  the datagrams).
- A neighbor that reconnects again and again (`SuccBroken`) waits while its
  predecessor has `MAX_UNREAD` unread lines: TCP's flow control, which keeps the
  streams finite.
- A join, refused or not, types an ID of `TypedIds[p]`, each time anew (`main.c:88`).
- IDs never run out: `JoinAsk` needs a free one.
- chord is given in a ring joined through the node server only.
- Exit stands for the command, for the end of standard input and for a crash.

### PathVector

Each node has a real table. Why connections come and go is the business of `Ring`;
here any link of a fixed set may be opened by the node at its first side and closed by
either, several between the same nodes too, and a node may leave and rejoin. An end of a
connection is closed, in the backlog, accepted but unidentified, or known; announcements
go to the accepted ones (`OpenEnds`), lookups by node ID find the known ones. `HELLO`
stands for the ENTRY or PRED with which the initiator introduces itself, followed by its
dump, and `CHORD` for itself.

| Action | Code |
|---|---|
| `Open`, `Accept` | `connect_to_node` and the introduction; `accept`, or the refusal outside a ring and while another new node is unidentified |
| `Greet` | ENTRY, PRED and CHORD that are identified and sent the table |
| `GreetAlone` | ENTRY to a node alone, which connects to its new successor and dumps the table there (`ring.c:399-427`): a ring of two has two connections |
| `TakeOver` | PRED to a node that has a predecessor: the old connection is closed, its column stays (`ring.c:456-459`) |
| `Reject` | CHORD of a node that has a connection already: it stays open and unidentified (`ring.c:488-490`) |
| `CloseLink` | every close by a running node that goes through `remove_neighbor_connection`, at any moment |
| `EndOfLink` | `handle_broken_socket` for the far end's close |
| `LearnRoute`, `LearnRouteWriteFails` | ROUTE and its announcement loop, of which one write may fail |
| `Leave`, `Rejoin`, `StartRing`, `JoinAgain` | `leave_ring`; a join with `init_routing`; `dj` to oneself, which keeps the old tables (`main.c:118`); `dj` in a ring, which clears them under open connections (`ring.c:94`) |
| `SendChat`, `ChatArrives`, `ChatPassesOn` | `forward_message` with its missing return: without a connection the process ends |

`LoseEnd` is `handle_broken_socket` with `remove_neighbor_connection`: the column goes
when no known connection to that node is left, and the rows that changed are announced
to the others. In `LearnRouteWriteFails` `LoseEnd` happens in the middle of the loop, with
its own announcements, and the loop then goes on with its line. The order of slots is
left open.

The tables do not recover from everything the code does, and the model says from what.
`kept[p]` has the neighbors whose column `p` keeps without a connection. `mishaps` is
history; each of its members is a thing the code does that can leave wrong tables behind:

| Mishap | When |
|---|---|
| `column kept` | `TakeOver` of the last connection to a node, or `StartRing` with columns of the last ring |
| `chord rejected` | one end of the chord uses it, the other never identifies it |
| `overlap` | a connection is closed (`ring.c:329`, `ring.c:442`, a refusal) while a parallel one is not accepted or has unread ROUTE lines, or is opened while only one end of a parallel one is closed: the two streams are read in either order |
| `write failed` | an older announcement is written after newer ones (`connections.c:84`) |
| `tables cleared` | `dj` while connected: what the neighbors said is forgotten |

`Converged` and `ChatDelivered` speak of behaviours without mishaps, `Forwardable` and
`EventuallyQuiet` of all.

A handler that closes one connection and opens or greets on another is two steps here. A
node keeps its ID while it is in a ring. A node that left rejoins only after the
connections in its backlog were refused. Writes outside the announcement loop do not
fail.

### NodeServer

`node[p]` keeps the variables the requests depend on; `action` says what a pending
`request_node_list()` is for, and the process does nothing else until a datagram is
there or the second is over (`NoAnswer`, possible at any time as the server may take
any time). Requests and answers of one process stay in order, as on one path through
the network; each may be lost. The ring appears as the end of a join, the loss of the
ring, and the timer. The server itself is external: it keeps a set of entries and
removes by ID.

A join types an ID of `TypedIds[p]`. `JoinRefused` overwrites the ID of a process that is
not disconnected, as the join command does before it looks at the state, and notes that
in `renamed`. `held`
remembers the IDs a process was a member under. Both are history and say where
`RegistryAccurate` promises nothing: the entry of a renamed process is removed under
the wrong ID, and an entry whose ID another process has or had is removed by that
process's UNREG. The second happens when a list is out of date (section 4).

### ReadLines, Timer, EventLoop

Bytes are numbered in the order of their stream, so that what the handler was given
can be compared with what was sent; which of them are line ends is decided when they
arrive. `read_lines` returns the lines handed over, the new buffer and the result, with
the loop of the code over the first `len` bytes.

In `Timer` the ratios between seconds, milliseconds, microseconds and nanoseconds are
constants, 1000 in the code. Division is C's, and the carry of `set_timeout` is made
once and above a full second, so that a delay of one second becomes almost two
unless it is set at the very start of a second.

`EventLoop` follows the round: time left, `select()`, timer, standard input, public
socket, connections in the order of their slots. A handler may set or cancel the timer;
the timer's own handler closes all connections. `Refuse` stands for the three early ends
of a round at the public socket. `since`, `from` and `handed` are history.

## 3. Runs

Deadlock is not checked: users need not give commands and may use up `Budget`, and
a system without input then rightly rests.

| Run | Specification | Shows |
|---|---|---|
| `routing` | `Routing!Spec`, node 0 and three peers, 2 rows, 2 columns, paths of at most 2 hops | type correctness, `NoDuplicateIndex`, `ForwardsAlongShortest`, `NoPathThroughSelf`, `AnnouncementsUpToDate`, and that the tables implement `RoutingBase` |
| `ring_calm` | `NotAllStop`, pace calm, 3 processes, 4 joins, 2 leaves, 1 exit | `RingClosed`, `NoFault`, `RegistrySound`, `NewNodeIntroduced`, `NoTimerLeft`, `EventuallySettles` |
| `ring_chords` | `Spec`, pace chords, 4 processes, 4 joins and two more commands (a leave, chords) | `NeighborsKnown`, `NoDegenerateChord`, `RolesSound`, `LinkRolesAgree` |
| `ring_concurrent` | `FairSpec`, pace free, 3 processes, 3 joins, 1 leave, two users asking for the same ID | type correctness, `RolesSound`, `LinkRolesAgree`, `SlotsSuffice`, `JoinTerminates` |
| `ring_direct` | `FairSpec`, pace free, 3 processes, three commands out of 3 direct joins, 1 refused join, 1 exit, 1 start, IDs typed afresh | `JoinTerminates` |
| `path_vector` | `FairSpec`, 3 nodes, 4 links (a triangle and a parallel link), seven budgets | `Converged`, `Forwardable`, `ChatDelivered`, `EventuallyQuiet` |
| `event_loop` | `FairSpec`, 1 slot, buffers of 3 bytes, two scenarios | `LinesInOrder`, `BufferHasRoom`, `WaitValid`, `NotEarly`, `NoIdleRound`, `TimerFires`, `InputServed` |
| `node_server` | `FairSpec`, 2 processes, 4 commands, 1 lost datagram | `RegistryAccurate`, `RequestReturns` |

Bounds. Two rows and columns for three peers are the smallest tables that run out
and are reused by another peer. Three processes are the smallest ring in which
successor, second successor and predecessor differ, and in which two nodes can
join at the same place; a chord needs a fourth. `Budget` bounds the commands, not
the messages. The slots follow the formula of `connections.h`, two more than there
are nodes (18 for the 16 nodes of the code): five and six here. `SlotsSuffice` is checked
for joins, a leave and timeouts, and there justifies that the handlers take a `FreeSlot`
without a test. It does not hold in general: each `dj` while connected keeps the slots of
forgotten connections, and a chord whose `connect()` failed keeps one until it is read. It
would take more commands than a run has to fill the table.

Three nodes in a triangle are the smallest network with an alternative path, and in
which a withdrawn path can come back through a third node; the fourth link is a second
connection between two of them. With the first three budgets of `path_vector` three
connections are opened and a message is sent, each when all is quiet; at any time, the
message under way or not, one connection is closed by either end, or one is taken over, or
a node leaves and comes back. With the other four two connections are opened while
everything is under way, and a connection is closed and a write fails, or one is taken
over, or a node leaves and comes back, or one is closed and one taken over. Every action
and every mishap occurs. `Forwardable` is also proved, for any nodes, links and budgets
(section 5); the other three are checked within these budgets only.
Two rows and columns are what three nodes need,
as 15 are for the 16 nodes of the code.

In `event_loop` a second has 8 nanoseconds, so that every carry, borrow and rounding
occurs, and the clock runs long enough for a timer set in the first second to go off
at the latest possible instant. A stream of 5 bytes goes round a buffer of 3, overflows
it, and leaves each possible remainder; the single slot is used by two connections one
after the other. Four commands in `node_server` let a process join, leave and join again,
with answers of the first join outstanding, while the other joins or asks for a chord.
The users ask for the two lowest IDs, so that the substitute for an ID in use is one
that the other user may want.

`Pace` says how users take turns; it restricts commands and timeouts and no
message. *calm* is the intended use: one user acts at a time, after the last
command has taken effect, and the timer is slower than the network. *chords* is
calm, except that several prompts for a chord may be open and are answered at any
time. *free* has no restriction: commands, messages and timeouts interleave.

`RingClosed` and the other properties of `ring_calm` are about the pace calm
because they do not hold otherwise: section 4 shows joins and departures that
overlap and end in failed assertions. Which of the others hold when joins, a leave and
timeouts interleave is in `ring_concurrent`.

`RegistrySound` (`ring_calm`) is about users who do not give join twice: a refused join has
already changed the ID of the member, which is then not listed under it and sends its
UNREG for another one. `node_server` and `ring_direct` have refused joins.
`Converged` and `ChatDelivered` are not required after a mishap (section 2),
`RegistryAccurate` not once a REG or UNREG was lost, which nothing in the code repairs.
Of a process whose ID a refused join changed it says nothing, and of a member whose ID
another process has or had it does not say that it is listed.

Fairness. `Serves(p)`: a process with input goes on taking input; `select()`
returns while a descriptor is readable, and every round serves all readable ones.
`TimesOut(p)`: a timer that stays armed fires, because the loop's `select()` has
the remaining time as its timeout. Both are weak fairness, with ENABLED written
out (`HasInput`, `timer`), as TLC would otherwise enumerate the handlers in every
state. Nothing is assumed of users, nor that a particular connection is served
before another one. `NotAllStop` only assumes that the processes do not all stop
while there is input; the timer is not needed there. `PathVector` only assumes that
the nodes do not all stop while a line or a connection waits (`Waiting`): what else they may
do in the meantime is bounded by the budget, so that they serve in the end. `EventLoop` has weak fairness of the process (`Loop`) and of the clock.
`NodeServer` has weak fairness of `Returns(p)` for each process: the `select()` of
`request_node_list()` has a timeout of one second. Nothing is assumed of the server
or of the network there.

## 4. Where the code departs from its own comments

Each of these runs checks one statement made by a comment, a message or an
assertion of the code, and TLC finds a behaviour that breaks it.

| Run | What happens |
|---|---|
| `alone_without_pred` | In a ring of two the node that stays reads the end of its successor connection, then an ENTRY, before the end of its predecessor connection: `pred_conn == NULL` fails (`ring.c:423`). |
| `every_line_handled` | `read_lines` looks for line ends in as many bytes as it has just read, from the start of the buffer. When a line comes in two parts its end is not seen: the complete line waits for more bytes, or is dropped with the connection (`read-lines.c:17`). |
| `list_awaited` | join, leave, join: the answer to the first REG or UNREG is taken for the list. The join ends without a word and the process stays in `AWAITING_NODE_LIST`, in which a join is refused (`node-server.c:107`). |
| `announced_is_shortest` | A node announces a path; one write fails, its neighbor is removed and newer paths are announced from within; then the older line goes to the remaining slots. A neighbor keeps a path through the removed node, for good, and messages along it are dropped (`connections.c:84`). The run has no parallel connections, no takeover and one failing write. |

Departures without a run of their own; the models show them outside the conditions
under which the passing properties hold:

- PRED takes the place of a predecessor whose connection the node closes without giving its
  column back, and whose end of input it therefore never reads (`ring.c:456-459`,
  `TakeOver`). The column stays, its paths are offered to others, and a message along them
  meets the null pointer of `forward_message` (`routing.c:270-276`): the exception `kept` of
  `Forwardable`.
- A user picks a successor from a list; that node has left meanwhile and is back under
  another ID. The connection carries the ID of the list (`ring.c:46`), and the ROUTE lines
  that come over it are refused as another node's (`ring.c:183`). The same follows a refused
  join (`main.c:88`).
- `dj` is accepted while connected and forgets the role pointers of open connections;
  the next line of an unidentified one fails the assertion `node_id != -1`
  (`ring.c:604`). `RolesSound` therefore is not part of `ring_direct`.
- ENTRY is handled while `pred_conn` is null, after the predecessor left and before
  the next one introduced itself (`ring.c:325`, `ring.c:435`).
- `dj` to oneself does not call `init_routing()`; the first neighbor finds all indices
  taken by node 0 (`main.c:118`).
- Two nodes that create a chord to each other at once both reject it, keep
  `new_node_conn` and refuse every later connection (`ring.c:488`):
  `NewNodeIntroduced` therefore is not part of `ring_chords`. Each keeps a column for a
  connection over which the other stores nothing.
- A join and a leave at once leave `second_succ` out of date, and a member may wait for a
  predecessor without a timer (`ring.c:576`).
- A second successor that has left too refuses every connection, and the node connects to
  it again and again until its other connections tell it more (`ring.c:523`).
- `leave_ring` does not cancel the timer, which later makes the node leave another
  ring (`ring.c:80`): `NoTimerLeft` therefore is not part of `ring_concurrent`.
- A refused join has already changed the ID of the node, and its UNREG names another
  one (`main.c:88`): `RegistrySound` therefore is checked without one.
- A list that arrives late is taken for the answer to a later request
  (`node-server.c:107`). The search for an unused ID then uses old entries
  (`node-server.c:126`), two members may get one ID, and the UNREG of either removes
  both from the list.
- A connection that is closed or opened across the lines of a parallel one (the mishap
  `overlap`): in a ring of two an ENTRY closes one of the two connections while ROUTE lines
  are under way (`ring.c:329`, `ring.c:442`), or a node leaves and comes back before its
  neighbor has read the end of their old connection. Older lines are then read after newer
  ones and stored in the same column, and the end of the older connection does not remove
  them, as a connection is left (`ring.c:164`): the neighbor keeps paths that nobody offers.
- `dj` while connected clears the tables but not the connections (`ring.c:94`): what the
  neighbors said before is not said again.
- `message` after `leave` finds rows and no connection, and uses a null pointer
  (`routing.c:276`): `Forwardable` is about members.

## 5. Proofs

All proofs about the tables rest on `RoutingTableProofs`: 31 lemmas about the operators of
`RoutingTable` alone, with the node as a parameter, so that they serve the component of
one node and the exchange between many.

### RoutingProofs

`RoutingProofs` proves, for every set of node IDs, every table size and every set
of paths, and from the assumptions `NodeIDAssumption` (IDs are natural numbers),
`SizeAssumption` (at least one row and column) and `RoutesAssumption` (paths are
sequences of IDs, the node has an ID) only:

| Theorem | Statement |
|---|---|
| `TypeCorrect` | `Spec => []TypeOK` |
| `IndicesUnique` | `Spec => []NoDuplicateIndex` |
| `ForwardingShortest` | `Spec => []ForwardsAlongShortest` |
| `LoopFree` | `Spec => []NoPathThroughSelf` |
| `AnnouncementsCorrect` | `Spec => []AnnouncementsUpToDate` |

They follow from one inductive invariant,
`Inv == TypeOK /\ Sound(self_id, table) /\ AnnouncementsUpToDate`. `Sound` collects what
must hold together: IDs are unique in both arrays; the forwarding index of each
allocated row is usable and shortest; no stored path of an allocated row and
column contains this node; this node has no row or column. None of the properties
is inductive alone: whether the choice of a column is right depends on the
forwarding index being valid before, because it is used to break ties, and whether
the announcement is right depends on rows being found under one index only.

The argument follows `update_routing_given_new_path`. Adding a column keeps
`Sound` (`AddNeighborSound`). Adding a row breaks it: the new row has no path and
forwarding index -1 until the path is stored. `Ready` says that the row of the
update is the only exception (`AddRecipientReady`); storing the path and choosing
the column restores `Sound`, and frees the row if no path is left
(`SetPathSound`). `ScanFindsBest` and `ClosestIsBest` show that the column chosen
has the fewest hops. `ShortestPathFacts` relates the returned boolean to the
change of the path announced for each recipient.

### RoutingRefinement

`Refinement` is `Spec => RefinesBase`, from the same assumptions: under the mapping
`Heard`, `Via` every step of `Routing` is a step of `RoutingBase` or a stutter. The
proof uses `Inv` of `RoutingProofs` in the state before and after the step. It
describes what each operation does to the table without its indices: `Offers(t)` is
the path each neighbor offers for each recipient, `Hops(t)` the neighbor each
recipient is forwarded to. `UpdateMeaning` (from `UpdateOffers` of `RoutingTableProofs`) says that an update changes one offer,
although it may allocate a column and a row, clear a column that another neighbor left
behind, and free the row; `RemoveMeaning` that the loss of a neighbor withdraws its
offers and no other; `HopChoice` that the hop is kept while it is among the shortest.
`LearnStep` and `ForgetStep` put these together.

### PathVectorProofs

`ForwardableAlways` is `Spec => []Forwardable`, for any links, budgets and tables, parallel
and rejected connections, failing writes and restarts included, from `PathVectorAssumption`
and `RoomAssumption` (the tables have a row and a column for every other node, as
`routing.h` gives them). `Forwardable` has an exception: `kept[p]`, the column of a
predecessor that was replaced (`ring.c:456-459`) or of an earlier ring (`main.c:118`). So
the theorem says that these two are the only ways to the null pointer of
`forward_message` for a member.
`Inv` says that every table is `Sound` for its node, that each column of a member belongs
to a node it has an identified connection with or is one of `kept` (`Covered`), and that
the first line on a connection that was not identified yet is its introduction
(`Introduced`). Without the last, a ROUTE read before it would add a column for a connection
that no lookup finds. That a row and a column are free when one is needed is shown by
counting: the IDs in an array are different and none is the node's own (`Room`,
`TableRoom`). The lines of a dump go through the rows in order; `InOrderRows` shows that
each row is visited.

### NodeServerProofs

`RegistryCorrect` is `Spec => []RegistryAccurate`, for any number of processes, IDs
and commands, any IDs typed at each join and any loss, from `NodeServerAssumption` only.
`RegistryAccurate` speaks of states in which no request is under way, so it is not
inductive. The invariant `Inv == Types /\ Modes /\ Holding /\ Ledger` says at every
moment what the list *will* be: a REG under way is that of a member or an UNREG follows
it (`Covered`); an entry is that of a member or an UNREG for it is under way
(`Accounted`); the entry of a member stands, or its REG is under way with no UNREG
behind it, or another process shares the ID (`Stands`, `Coming`, `Shared`). `Modes` is
needed for the ways out of the ring: a process that waits for a list to join is not a
member, so that its timeout owes the server nothing. `Holding` says that an UNREG only
names IDs its sender held, so that it cannot touch others. The proof has one lemma per
kind of step: a member enters (`Enters`), leaves (`Exits`), is renamed (`Renames`), the
server serves a request (`Takes`), a datagram is lost (`LosesRequest`), and what changes
none of that (`Keeps`).

### EventLoopProofs

For any set of slots, buffer size, delay and scenarios, and any ratios of the units of
time, from `EventLoopAssumption` and `TimerAssumption`:

| Theorem | Statement |
|---|---|
| `ReaderCorrect` | `Spec => []LinesInOrder` |
| `RoomCorrect` | `Spec => []BufferHasRoom` |
| `WaitCorrect` | `Spec => []WaitValid` |
| `TimerNotEarly` | `Spec => NotEarly` |
| `NeverSpins` | `Spec => NoIdleRound` |

`Inv == Types /\ StdinOpen /\ LinesInOrder /\ BufferHasRoom /\ TimerSound /\ WaitSound`.
`ReadLinesFacts` says what one `read_lines()` does: what it hands over and what it keeps
together are the buffer and the new bytes, unless the buffer was full and is dropped,
and the rest leaves room. `TimerSound` and `WaitSound` carry the values computed in
`set_timeout()` and before `select()` to the step that uses them. The lemmas on the
arithmetic are about the whole range, not the small clock of the run: `InstantFacts`
(an instant that is computed with a single carry, and may be left with a full second of
nanoseconds, is never early), `SelectTimeoutFacts` (the difference has no negative part,
and once it has passed the clock is past the instant, because of the microsecond that
is added).

### RingProofs

For any set of processes, IDs, slots, budgets and every pace, from `RingAssumption` and
`ConnectionsAssumption`:

| Theorem | Statement |
|---|---|
| `TypeCorrect` | `Spec => []TypeOK` |
| `RolesCorrect` | `Spec /\ [][NoJoinOverNewNode]_vars => [](RolesSound /\ ChordsIdentified)` |
| `RolesCorrectWithoutDirectJoins` | `Spec => [](RolesSound /\ ChordsIdentified)` when `Budget["direct_join"] = 0` |

`RolesSound` says that the four role pointers name different open connections and that
exactly the connection of `new_node_conn` has no ID; `ChordsIdentified` that the
assertions on the ID of a chord (`ring.c:604`) never end a process. The hypothesis
`NoJoinOverNewNode` (a direct join is not given while an accepted node has not introduced
itself) is needed: `join_ring` clears all pointers, and the unidentified connection is
then taken for a chord. That is a departure listed in section 4. Nothing is assumed of
the other commands, the order of messages, or the timers.

The inductive invariant is `Types /\ RolesInv`. `RolesInv` adds `Outsider` to the two
parts of `RolesSound`: a process outside a ring has no new node, and one that asks its
user for a successor, or has ended, is outside. Without it `join_ring` would clear the
pointer in the answer to the prompt too.

A handler makes up to five system calls, and the pointers are unsound between them. The
proof therefore goes through a handler call by call: `Reached(p, n, w)` says that `p` has
arrived, from a state of the invariant, at variables `n` and network `w` with the
pointers and the table in agreement. One lemma per call keeps it (`ReachedConnect`,
`ReachedClose`, `ReachedIdentify`, `ReachedWrite`, ...), on top of lemmas that say which
slots of which process the call changes (`ConnectNet`, `CloseNet`, ...) and what this
means for the pointers (`LinkedOpen`, ...). The lemmas `End...` treat the common ends of
handlers, among them `leave_ring`. One lemma per action (`...Step`) combines them, and
`EveryStep` all actions.

### Left to TLC

- Every liveness property, and `RequestReturns` with its ENABLED: outside what the prover
  can do.
- The other invariants of `Ring`. `RingClosed`, `NoFault`, `RegistrySound`,
  `NewNodeIntroduced` and `NoTimerLeft` hold at the pace calm only, that is, when each
  command finds a quiet ring: an inductive invariant would have to describe every
  intermediate state of every exchange of messages. `LinkRolesAgree` and
  `SlotsSuffice` do not hold for all values of the constants: with a refused join or a
  direct join while connected in the budget, or with fewer slots than the formula of
  `connections.h` gives, TLC finds counterexamples. `NeighborsKnown` and
  `NoDegenerateChord` are about the pace chords.
- `Converged` and `ChatDelivered` of `PathVector`, within the budgets of the run. Their
  invariant has to say what every neighbor will have been told once the lines under way on
  several parallel connections are read in any order.

## 6. Not modelled

- Failing writes in the handlers of `ring.c`, and TCP resets.
- In `PathVector`: a node that changes its ID while it is in a ring, and the handlers that
  close one connection and open another as a single step.
- The lines of one `read()` that follow a line whose handler closed the connection,
  and descriptor numbers that are reused within a round.
- More nodes than the tables and `node_arr` have places, and a ring that uses all IDs.
- Parsing and formatting, the show commands, verbosity, utilities, scripts.

## 7. Hazards without a property

`PROJECT.json` lists the hazards with their lines; notes there say where a property covers
a hazard only in part. Without a property are:

- what happens only outside the conditions of the properties, and is listed in section 4:
  ENTRY without a predecessor, the old tables of a ring started with `dj`, the refused
  join, the ID of an old list, the two mutual chords, the outdated `second_succ`, the second successor that has
  left too, the timer that is not cancelled;
- the tables without room, where the process ends as it should;
- lost REG and UNREG datagrams, and the end of the IDs;
- what is not modelled: the TCP reset, the lines after a closing handler, reused
  descriptors.

## 8. Plan

Done: all modules of section 2; the runs of sections 3 and 4; the proofs of section 5.
Open: proofs of `LinkRolesAgree` of `Ring`, under hypotheses on the commands as for
`RolesCorrect`, and of `Converged` of `PathVector`.
