----------------------------- MODULE NodeServer -----------------------------
(***************************************************************************)
(* The client side of the node server (node-server.c, and its callers in   *)
(* main.c and ring.c) over UDP.  request_node_list() blocks the process    *)
(* until the first datagram, whatever it is, or for one second; every      *)
(* other answer is read by the main loop, which ignores it.                *)
(*                                                                         *)
(* The server (external) keeps the list of one ring and answers each       *)
(* request.  Requests and answers of one process stay in order; they may   *)
(* be delayed beyond any timeout, and lost.  What happens in the ring      *)
(* itself (module Ring) is reduced to the end of a join and the loss of    *)
(* the ring.                                                               *)
(***************************************************************************)
EXTENDS Integers, Sequences

CONSTANTS
  Client,       \* the processes
  MAX_NODE_ID,  \* largest node ID
  TypedIds,     \* TypedIds[p]: the IDs the user of p may ask for
  MAX_COMMANDS, \* bound: commands the users give
  MAX_LOST      \* bound: datagrams lost

NodeID == 0 .. MAX_NODE_ID

ASSUME NodeServerAssumption ==
  /\ MAX_NODE_ID \in Nat
  /\ TypedIds \in [Client -> SUBSET NodeID]
  /\ MAX_COMMANDS \in Nat /\ MAX_LOST \in Nat

VARIABLES
  node,      \* node[p]: the global variables of p and whether it is blocked; renamed:
             \* a refused join gave it another ID; held: the IDs it was a member under
  registry,  \* the nodes the server lists
  requests,  \* requests[p]: datagrams from p to the server
  answers,   \* answers[p]: datagrams in the socket of p
  lost,      \* the types of the datagrams lost so far
  commands   \* commands the users may still give

vars == <<node, registry, requests, answers, lost, commands>>

Init ==
  /\ node = [p \in Client |-> [connection_state |-> "DISCONNECTED", input_state |-> "COMMAND",
                               self |-> 0, action |-> "none", node_arr |-> {},
                               chord |-> FALSE, timer |-> FALSE,
                               renamed |-> FALSE, held |-> {}]]
  /\ registry = {}
  /\ requests = [p \in Client |-> <<>>] /\ answers = [p \in Client |-> <<>>]
  /\ lost = <<>> /\ commands = MAX_COMMANDS

Entry(p, id) == [id |-> id, client |-> p]
Datagram(type, id, list) == [type |-> type, id |-> id, list |-> list]
Reg(n)   == Datagram("REG", n.self, {})
Unreg(n) == Datagram("UNREG", n.self, {})
Nodes    == Datagram("NODES", 0, {})

\* p goes on as n after sending ms.
Send(p, n, ms) == /\ node' = [node EXCEPT ![p] = n]
                  /\ requests' = [requests EXCEPT ![p] = @ \o ms]

\* p is in the main loop; action is what a pending request_node_list() is for.
Running(p) == node[p].action = "none"
Quietly(p, n) == Send(p, n, <<>>)

-----------------------------------------------------------------------------
(* The ring, as far as the node server is concerned (ring.c) *)

\* Faulty variant: the state is reset before it is looked at.
LeaveUnlisted(p, n) ==
  Quietly(p, [n EXCEPT !.connection_state = "DISCONNECTED", !.chord = FALSE, !.action = "none"])

\* leave_ring(): UNREG is sent by a member only; the timer is left as it is.
leave_ring(p, n) ==
  Send(p, [n EXCEPT !.connection_state = "DISCONNECTED", !.chord = FALSE, !.action = "none"],
       IF n.connection_state = "CONNECTED" THEN <<Unreg(n)>> ELSE <<>>)

\* on_join_end()
on_join_end(p, n) ==
  Send(p, [n EXCEPT !.connection_state = "CONNECTED", !.action = "none", !.held = @ \cup {n.self}],
       <<Reg(n)>>)

\* The join of p succeeds: PRED and SUCC arrived, the timer is cancelled.
JoinEnds(p) ==
  /\ Running(p) /\ node[p].connection_state = "CONNECTING"
  /\ on_join_end(p, [node[p] EXCEPT !.timer = FALSE])
  /\ UNCHANGED <<registry, answers, lost, commands>>

\* A join is aborted or a member is told to leave by what its neighbors do.
RingLost(p) ==
  /\ Running(p) /\ node[p].connection_state \in {"CONNECTING", "CONNECTED"}
  /\ leave_ring(p, node[p])
  /\ UNCHANGED <<registry, answers, lost, commands>>

\* A member loses its predecessor, which sets the timer, or gets a new one.
PredChanges(p) ==
  /\ Running(p) /\ node[p].connection_state = "CONNECTED"
  /\ Quietly(p, [node[p] EXCEPT !.timer = ~@])
  /\ UNCHANGED <<registry, answers, lost, commands>>

\* pred_timeout(), also of a timer an aborted join left running.
PredTimeout(p) ==
  /\ Running(p) /\ node[p].timer
  /\ leave_ring(p, [node[p] EXCEPT !.timer = FALSE])
  /\ UNCHANGED <<registry, answers, lost, commands>>

-----------------------------------------------------------------------------
(* User commands (main.c) and request_node_list() *)

Command(p) ==
  /\ Running(p) /\ node[p].input_state = "COMMAND"
  /\ commands > 0 /\ commands' = commands - 1
  /\ UNCHANGED <<registry, answers, lost>>

Join(p) ==
  /\ Command(p) /\ node[p].connection_state = "DISCONNECTED"
  /\ \E id \in TypedIds[p] :
       Send(p, [node[p] EXCEPT !.self = id, !.action = "JOIN_ACTION",
                               !.connection_state = "AWAITING_NODE_LIST"], <<Nodes>>)

\* The arguments are stored before the state is looked at: the refused join of a
\* process that is in a ring, or on its way, gives it another ID.
JoinRefused(p) ==
  /\ Command(p) /\ node[p].connection_state # "DISCONNECTED"
  /\ \E id \in NodeID \ {node[p].self} :
       Quietly(p, [node[p] EXCEPT !.self = id, !.renamed = TRUE, !.held = @ \cup {id}])

Leave(p) ==
  /\ Command(p) /\ node[p].connection_state # "DISCONNECTED"
  /\ leave_ring(p, node[p])

ChordAsk(p) ==
  /\ Command(p) /\ node[p].connection_state = "CONNECTED" /\ ~node[p].chord
  /\ Send(p, [node[p] EXCEPT !.action = "CHORD_ACTION"], <<Nodes>>)

\* The blocked process takes the first datagram of its socket.
Receives(p) ==
  /\ ~Running(p) /\ answers[p] # <<>>
  /\ answers' = [answers EXCEPT ![p] = Tail(@)]
  /\ UNCHANGED <<registry, lost, commands>>

Listed(p) == Head(answers[p]).list
Ids(list) == {d.id : d \in list}

\* The search for an ID that is not in the list ends past the last one if there
\* is none, and the join goes on with that.
LowestUnused(used) ==
  CHOOSE id \in 0 .. MAX_NODE_ID + 1 :
    id \notin used \ {MAX_NODE_ID + 1} /\ \A k \in 0 .. id - 1 : k \in used

\* An empty list: the only node of the ring.
OnlyNode(p) ==
  /\ Receives(p) /\ node[p].action = "JOIN_ACTION"
  /\ Head(answers[p]).type = "NODESLIST" /\ Listed(p) = {}
  /\ on_join_end(p, node[p])

\* The user is asked for the successor; an ID in use is replaced.
OfferSuccessors(p) ==
  LET n == node[p] IN
  /\ Receives(p) /\ n.action = "JOIN_ACTION"
  /\ Head(answers[p]).type = "NODESLIST" /\ Listed(p) # {}
  /\ Quietly(p, [n EXCEPT !.self = IF @ \in Ids(Listed(p)) THEN LowestUnused(Ids(Listed(p))) ELSE @,
                          !.action = "none", !.node_arr = Listed(p),
                          !.connection_state = "AWAITING_USER_SELECTION",
                          !.input_state = "JOIN_NODE_SELECTION"])

\* The nodes a chord can be made to, those this node is not connected to (any, here);
\* without any the command ends.
OfferChords(p) ==
  /\ Receives(p) /\ node[p].action = "CHORD_ACTION"
  /\ Head(answers[p]).type = "NODESLIST"
  /\ \E offered \in SUBSET {d \in Listed(p) : d.id # node[p].self} :
       Quietly(p, [node[p] EXCEPT !.action = "none", !.node_arr = offered,
                     !.input_state = IF offered = {} THEN @ ELSE "CHORD_NODE_SELECTION"])

\* The datagram is not a node list: request_node_list() returns, and nothing else.
WrongAnswer(p) ==
  /\ Receives(p) /\ Head(answers[p]).type # "NODESLIST"
  /\ Quietly(p, [node[p] EXCEPT !.action = "none"])

\* Faulty variant: recvfrom() is called without select().
WaitOn(p) == FALSE /\ UNCHANGED vars

\* No datagram within a second: leave_ring(), for a chord too.
NoAnswer(p) ==
  /\ ~Running(p) /\ answers[p] = <<>>
  /\ leave_ring(p, node[p])
  /\ UNCHANGED <<registry, answers, lost, commands>>

\* The answers to the prompts: a successor, the far end of a chord, or none.  If
\* the successor cannot be reached join_ring() leaves at once, without a timer.
SelectSuccessor(p) ==
  LET n == [node[p] EXCEPT !.connection_state = "CONNECTING", !.input_state = "COMMAND",
                           !.node_arr = {}, !.chord = FALSE]
  IN  /\ Running(p) /\ node[p].input_state = "JOIN_NODE_SELECTION"
      /\ Quietly(p, [n EXCEPT !.timer = TRUE]) \/ leave_ring(p, n)
      /\ UNCHANGED <<registry, answers, lost, commands>>
SelectChord(p) ==
  /\ Running(p) /\ node[p].input_state = "CHORD_NODE_SELECTION"
  /\ \E connected \in BOOLEAN :
       Quietly(p, [node[p] EXCEPT !.chord = connected, !.input_state = "COMMAND", !.node_arr = {}])
  /\ UNCHANGED <<registry, answers, lost, commands>>
Cancel(p) ==
  LET n == node[p] IN
  /\ Running(p) /\ n.input_state # "COMMAND"
  /\ Quietly(p, [n EXCEPT !.input_state = "COMMAND", !.node_arr = {},
                          !.connection_state = IF n.input_state = "JOIN_NODE_SELECTION"
                                               THEN "DISCONNECTED" ELSE @])
  /\ UNCHANGED <<registry, answers, lost, commands>>

\* The main loop reads an answer: OKREG, OKUNREG and late lists change nothing.
MainReceives(p) ==
  /\ Running(p) /\ answers[p] # <<>>
  /\ answers' = [answers EXCEPT ![p] = Tail(@)]
  /\ UNCHANGED <<node, registry, requests, lost, commands>>

-----------------------------------------------------------------------------
(* The server and the network (external) *)

ServerHandles(p) ==
  LET m == Head(requests[p])
      left == {d \in registry : d.id # m.id}
  IN  CASE m.type = "REG"   -> [registry |-> registry \cup {Entry(p, m.id)},
                                answer |-> Datagram("OKREG", 0, {})]
        [] m.type = "UNREG" -> [registry |-> left, answer |-> Datagram("OKUNREG", 0, {})]
        [] m.type = "NODES" -> [registry |-> registry,
                                answer |-> Datagram("NODESLIST", 0, registry)]

Serve(p) ==
  /\ requests[p] # <<>>
  /\ registry' = ServerHandles(p).registry
  /\ requests' = [requests EXCEPT ![p] = Tail(@)]
  /\ answers' = [answers EXCEPT ![p] = Append(@, ServerHandles(p).answer)]
  /\ UNCHANGED <<node, lost, commands>>

LoseRequest(p) ==
  /\ requests[p] # <<>> /\ Len(lost) < MAX_LOST
  /\ lost' = Append(lost, Head(requests[p]).type)
  /\ requests' = [requests EXCEPT ![p] = Tail(@)]
  /\ UNCHANGED <<node, registry, answers, commands>>

LoseAnswer(p) ==
  /\ answers[p] # <<>> /\ Len(lost) < MAX_LOST
  /\ lost' = Append(lost, Head(answers[p]).type)
  /\ answers' = [answers EXCEPT ![p] = Tail(@)]
  /\ UNCHANGED <<node, registry, requests, commands>>

-----------------------------------------------------------------------------
Returns(p) == \/ OnlyNode(p) \/ OfferSuccessors(p) \/ OfferChords(p)
              \/ WrongAnswer(p) \/ NoAnswer(p)

Next == \E p \in Client :
  \/ Join(p) \/ JoinRefused(p) \/ Leave(p) \/ ChordAsk(p) \/ Returns(p)
  \/ SelectSuccessor(p) \/ SelectChord(p) \/ Cancel(p)
  \/ JoinEnds(p) \/ RingLost(p) \/ PredChanges(p) \/ PredTimeout(p) \/ MainReceives(p)
  \/ Serve(p) \/ LoseRequest(p) \/ LoseAnswer(p)

Spec == Init /\ [][Next]_vars

\* select() in request_node_list() returns on a datagram or after its timeout.
FairSpec == Spec /\ \A p \in Client : WF_vars(Returns(p))

-----------------------------------------------------------------------------
(* Properties *)

Members == {p \in Client : node[p].connection_state = "CONNECTED"}
Drained  == \A p \in Client : requests[p] = <<>>
Lossless == \A k \in DOMAIN lost : lost[k] \notin {"REG", "UNREG"}

\* However late the answers are and whatever they are taken for, once the server
\* has got every REG and UNREG it lists the members, each under its own ID, and no
\* one else: no way out of the ring (leave, a timeout of the list for a join or a
\* chord, the timer) forgets the UNREG, and none sends one for a node that never
\* registered (leave_ring and on_join_end).  A node whose ID was changed by a refused
\* join is excepted, as is a member that shares its ID with another one, now or
\* before: the UNREG of either removes both.
RegistryAccurate ==
  Drained /\ Lossless =>
    /\ \A d \in registry :
         node[d.client].renamed \/ (d.client \in Members /\ d.id = node[d.client].self)
    /\ \A p \in Members : \/ Entry(p, node[p].self) \in registry
                          \/ node[p].renamed
                          \/ \E q \in Client \ {p} : node[p].self \in node[q].held

\* request_node_list() returns, also when the server is silent.
RequestReturns == \A p \in Client : ~Running(p) ~> Running(p)

\* "Asked the node server for the node list, awaiting response" (ring.h): a process
\* in AWAITING_NODE_LIST is waiting for the list.
ListAwaited ==
  \A p \in Client : node[p].connection_state = "AWAITING_NODE_LIST" => ~Running(p)
=============================================================================
