----------------------------- MODULE RingProofs -----------------------------
(***************************************************************************)
(* Proofs about module Ring, for every set of processes, IDs and budgets   *)
(* and at every pace: the global variables keep their types, and the       *)
(* pointers new_node_conn, pred_conn, succ_conn and outbound_chord_conn    *)
(* name different open connections, of which exactly the new node's is     *)
(* unidentified.                                                           *)
(***************************************************************************)
EXTENDS Ring, TLAPS, WellFoundedInduction

USE DEF NULL, NO_ADDR, NO_NODE_ID

-----------------------------------------------------------------------------
(* Types *)

RoleNames == {"new_node", "pred", "succ", "chord"}

\* The global variables of a process.
State ==
  [process : {"running", "exited", "assertion failed: pred_conn", "null pred_conn",
              "assertion failed: node_id", "no space in the routing tables"},
   connection_state : {"DISCONNECTED", "AWAITING_USER_SELECTION", "CONNECTING", "CONNECTED"},
   input_state : {"COMMAND", "JOIN_NODE_SELECTION", "CHORD_NODE_SELECTION"},
   self : NodeID, succ : Node, second_succ : Node,
   awaiting_succ : BOOLEAN, awaiting_pred : BOOLEAN,
   conn : [RoleNames -> Slots \cup {NULL}],
   timer : BOOLEAN, ring : BOOLEAN, node_arr : SUBSET Node,
   neighbor_ids : SUBSET NodeID, routing_ready : BOOLEAN]

\* The lines that are sent: only the end of input carries no ID.
Sendable == [type : {"SUCC", "ENTRY", "PRED", "CHORD", "ROUTE"}, id : NodeID,
             addr : Addr \cup {NO_ADDR}]
Lines == Sendable \cup {EOF}

FarEnd  == [addr : Addr \cup {NO_ADDR}, slot : Slots \cup {NULL}]
Slot    == [open : BOOLEAN, node_id : NodeID \cup {NO_NODE_ID}, peer : FarEnd, inbox : Seq(Lines)]
Waiter  == [from : FarEnd, data : Seq(Lines)]
Network == [conns : [Addr -> [Slots -> Slot]], backlog : [Addr -> Seq(Waiter)]]

Types == /\ node \in [Addr -> State]
         /\ net \in Network
         /\ registry \subseteq Node

-----------------------------------------------------------------------------
(* The roles of the connections of a process with variables n and slots cs *)

\* The pointers name different open connections.
Pointers(n, cs) ==
  /\ \A r \in RoleNames : n.conn[r] # NULL => cs[n.conn[r]].open
  /\ \A r, s \in RoleNames : n.conn[r] # NULL /\ n.conn[r] = n.conn[s] => r = s

\* Exactly the new node's connection is unidentified.
Identified(n, cs) ==
  \A i \in Slots : cs[i].open => (cs[i].node_id = NO_NODE_ID <=> i = n.conn.new_node)

\* Outside a ring nobody is let in, and a process that asks for a successor or
\* that ended is outside.
Outsider(n) ==
  /\ InRing(n) \/ n.conn.new_node = NULL
  /\ n.input_state = "JOIN_NODE_SELECTION" => ~InRing(n)
  /\ n.process # "running" => ~InRing(n)

\* The assertion that a chord is identified never ended the process.
Roles(n, cs) == /\ Pointers(n, cs) /\ Identified(n, cs) /\ Outsider(n)
                /\ n.process # "assertion failed: node_id"

\* Inductive invariant.
RolesInv == \A p \in Addr : Roles(node[p], net.conns[p])

\* dj is not given while a node that was accepted has not introduced itself: join_ring
\* would clear new_node_conn and leave that connection without a role.
NoJoinOverNewNode ==
  \A p \in Addr, id \in NodeID, d \in Node : DirectJoin(p, id, d) => node[p].conn.new_node = NULL

-----------------------------------------------------------------------------
(* Searching the array of connections *)

LEMMA LeastElement ==
  ASSUME NEW T, T \subseteq Nat, T # {}
  PROVE  \E m \in T : \A k \in T : m <= k
<1> DEFINE Less == {pair \in Nat \X Nat : pair[1] < pair[2]}
<1>0. IsWellFoundedOn(Less, Nat)
  BY NatLessThanWellFounded DEF OpToRel
<1> HIDE DEF Less
<1>1. PICK m \in T : \A k \in T : ~(<<k, m>> \in Less)
  BY <1>0, WFMin
<1>2. ASSUME NEW k \in T PROVE m <= k
  <2>1. m \in Nat /\ k \in Nat
    OBVIOUS
  <2>2. ~(k < m)
    BY <1>1, <2>1 DEF Less
  <2> QED
    BY <2>1, <2>2
<1> QED
  BY <1>1, <1>2

\* The lowest of a set of slots is in it; of none it is NULL.
LEMMA LowestFacts ==
  ASSUME NEW S \in SUBSET Slots
  PROVE  (S # {} => Lowest(S) \in S) /\ (S = {} => Lowest(S) = NULL)
<1>1. S \subseteq Nat
  BY DEF Slots
<1>2. ASSUME S # {} PROVE Lowest(S) \in S
  <2>1. \E m \in S : \A k \in S : m <= k
    BY <1>1, <1>2, LeastElement
  <2> QED
    BY <1>2, <2>1 DEF Lowest
<1> QED
  BY <1>2 DEF Lowest

\* The slot of a new connection is a closed one, or NULL.
LEMMA FreeSlotFacts ==
  ASSUME NEW cs \in [Slots -> Slot]
  PROVE  /\ FreeSlot(cs) \in Slots \cup {NULL}
         /\ FreeSlot(cs) # NULL => FreeSlot(cs) \in Slots /\ ~cs[FreeSlot(cs)].open
<1> DEFINE S == {i \in Slots : ~cs[i].open}
<1>1. (S # {} => Lowest(S) \in S) /\ (S = {} => Lowest(S) = NULL)
  BY LowestFacts
<1> QED
  BY <1>1 DEF FreeSlot

\* The connection that is found is open and has the ID.
LEMMA FoundFacts ==
  ASSUME NEW cs \in [Slots -> Slot], NEW id
  PROVE  LET c == find_connection_by_node_id(cs, id) IN
         /\ c \in Slots \cup {NULL}
         /\ c # NULL => c \in Slots /\ cs[c].open /\ cs[c].node_id = id
<1> DEFINE S == {i \in Slots : cs[i].open /\ cs[i].node_id = id}
<1>1. (S # {} => Lowest(S) \in S) /\ (S = {} => Lowest(S) = NULL)
  BY LowestFacts
<1> QED
  BY <1>1 DEF find_connection_by_node_id

-----------------------------------------------------------------------------
(* System calls.  Of a slot only whether it is open and its ID matter here. *)

SameSlot(v, w, q, j) ==
  v.conns[q][j].open = w.conns[q][j].open /\ v.conns[q][j].node_id = w.conns[q][j].node_id

\* v and w have the same slots, but for those of p in S.
SameBut(v, w, p, S) ==
  \A q \in Addr, j \in Slots : ~(q = p /\ j \in S) => SameSlot(v, w, q, j)

\* The parts of a network.
LEMMA NetworkParts ==
  ASSUME NEW w \in Network
  PROVE  /\ w.conns \in [Addr -> [Slots -> Slot]]
         /\ w.backlog \in [Addr -> Seq(Waiter)]
         /\ w = [conns |-> w.conns, backlog |-> w.backlog]
  BY DEF Network

\* Assignment to a slot, or to none if there is no such slot.
LEMMA PutSlot ==
  ASSUME NEW f \in [Addr -> [Slots -> Slot]], NEW a, NEW s, NEW x, NEW g, g = [f EXCEPT ![a][s] = x],
         a \in Addr /\ s \in Slots => x \in Slot
  PROVE  /\ g \in [Addr -> [Slots -> Slot]]
         /\ \A q \in Addr, j \in Slots : g[q][j] = IF q = a /\ j = s THEN x ELSE f[q][j]
<1>1. \A q \in Addr, j \in Slots : g[q][j] = IF q = a /\ j = s THEN x ELSE f[q][j]
  OBVIOUS
<1>2. g = [q \in Addr |-> g[q]] /\ \A q \in Addr : g[q] = [j \in Slots |-> g[q][j]]
  OBVIOUS
<1>3. \A q \in Addr, j \in Slots : g[q][j] \in Slot
  BY <1>1
<1>4. g \in [Addr -> [Slots -> Slot]]
  BY <1>2, <1>3
<1> QED
  BY <1>1, <1>4

\* New inbox, far end or ID of a slot.
LEMMA SlotFields ==
  ASSUME NEW c \in Slot
  PROVE  /\ c.open \in BOOLEAN /\ c.node_id \in NodeID \cup {NO_NODE_ID}
         /\ c.peer \in FarEnd /\ c.inbox \in Seq(Lines)
         /\ \A x \in Seq(Lines) : /\ [c EXCEPT !.inbox = x] \in Slot
                                  /\ [c EXCEPT !.inbox = x].open = c.open
                                  /\ [c EXCEPT !.inbox = x].node_id = c.node_id
         /\ \A e \in FarEnd : /\ [c EXCEPT !.peer = e] \in Slot
                              /\ [c EXCEPT !.peer = e].open = c.open
                              /\ [c EXCEPT !.peer = e].node_id = c.node_id
         /\ \A id \in NodeID \cup {NO_NODE_ID} : /\ [c EXCEPT !.node_id = id] \in Slot
                                                 /\ [c EXCEPT !.node_id = id].open = c.open
                                                 /\ [c EXCEPT !.node_id = id].node_id = id
  BY DEF Slot

\* The end of input can be appended to every inbox.
LEMMA EOFFacts == EOF \in Lines /\ \A x \in Seq(Lines) : Append(x, EOF) \in Seq(Lines)
  BY DEF Lines

\* The three cases of a write: the far end closed, accepted the connection, or has
\* not accepted it yet.
Target(w, p, i)     == w.conns[p][i].peer
Inbox(w, to, ms)    == w.conns[to.addr][to.slot].inbox \o ms
Delivered(w, to, x) == [w EXCEPT !.conns[to.addr][to.slot].inbox = x]
Queued(w, to, C)    == [w EXCEPT !.backlog[to.addr] = C]

LEMMA WriteCases ==
  ASSUME NEW w, NEW p, NEW i, NEW ms
  PROVE  Write(w, p, i, ms) =
           IF Target(w, p, i) = NO_PEER THEN w
           ELSE IF Target(w, p, i).slot # NULL
           THEN Delivered(w, Target(w, p, i), Inbox(w, Target(w, p, i), ms))
           ELSE Queued(w, Target(w, p, i), Queue(w.backlog[Target(w, p, i).addr], End(p, i), ms))
  BY Zenon DEF Write, Target, Inbox, Delivered, Queued

\* A message that is written or read changes no slot.
LEMMA WriteNet ==
  ASSUME NEW w \in Network, NEW p \in Addr, NEW i, NEW ms \in Seq(Lines),
         NEW v, v = Write(w, p, i, ms)
  PROVE  v \in Network /\ SameBut(v, w, p, {})
<1> DEFINE to == Target(w, p, i)
           x == Inbox(w, to, ms)
           C == Queue(w.backlog[to.addr], End(p, i), ms)
<1>4. v = IF to = NO_PEER THEN w ELSE IF to.slot # NULL THEN Delivered(w, to, x) ELSE Queued(w, to, C)
  BY WriteCases, Zenon
<1> HIDE DEF to, x, C
<1>0. /\ w.conns \in [Addr -> [Slots -> Slot]]
      /\ w.backlog \in [Addr -> Seq(Waiter)]
      /\ w = [conns |-> w.conns, backlog |-> w.backlog]
  BY NetworkParts
<1>1. CASE to = NO_PEER
  <2>1. v = w
    BY <1>4, <1>1, Zenon
  <2> QED
    BY <2>1, Zenon DEF SameBut, SameSlot
<1>2. CASE to # NO_PEER /\ to.slot # NULL
  <2> DEFINE c == w.conns[to.addr][to.slot]
             d == [c EXCEPT !.inbox = x]
  <2>1. v = [w EXCEPT !.conns[to.addr][to.slot].inbox = x]
    BY <1>4, <1>2, Zenon DEF Delivered
  <2>2. to.addr \in Addr /\ to.slot \in Slots =>
          d \in Slot /\ d.open = c.open /\ d.node_id = c.node_id
    <3> SUFFICES ASSUME to.addr \in Addr /\ to.slot \in Slots
                 PROVE  d \in Slot /\ d.open = c.open /\ d.node_id = c.node_id
      OBVIOUS
    <3>1. c \in Slot
      BY <1>0
    <3>2. x \in Seq(Lines)
      BY <3>1, SlotFields DEF x, Inbox
    <3> HIDE DEF c
    <3> QED
      BY <3>1, <3>2, SlotFields
  <2>3. v = [w EXCEPT !.conns[to.addr][to.slot] = d]
    BY <2>1
  <2> HIDE DEF d
  <2>4. v.conns = [w.conns EXCEPT ![to.addr][to.slot] = d] /\ v.backlog = w.backlog
        /\ v = [conns |-> v.conns, backlog |-> v.backlog]
    BY <1>0, <2>3
  <2>5. /\ v.conns \in [Addr -> [Slots -> Slot]]
        /\ \A q \in Addr, j \in Slots :
             v.conns[q][j] = IF q = to.addr /\ j = to.slot THEN d ELSE w.conns[q][j]
    <3> DEFINE f == w.conns
               g == v.conns
               a == to.addr
               b == to.slot
    <3>1. f \in [Addr -> [Slots -> Slot]] /\ g = [f EXCEPT ![a][b] = d]
          /\ (a \in Addr /\ b \in Slots => d \in Slot)
      BY <1>0, <2>2, <2>4
    <3> HIDE DEF f, g, a, b
    <3>2. /\ g \in [Addr -> [Slots -> Slot]]
          /\ \A q \in Addr, j \in Slots : g[q][j] = IF q = a /\ j = b THEN d ELSE f[q][j]
      <4>1. \A q \in Addr, j \in Slots : g[q][j] = IF q = a /\ j = b THEN d ELSE f[q][j]
        BY <3>1
      <4>2. g = [q \in Addr |-> g[q]] /\ \A q \in Addr : g[q] = [j \in Slots |-> g[q][j]]
        BY <3>1
      <4>3. \A q \in Addr, j \in Slots : g[q][j] \in Slot
        BY <3>1, <4>1
      <4>4. g \in [Addr -> [Slots -> Slot]]
        BY <4>2, <4>3
      <4> QED
        BY <4>1, <4>4
    <3> QED
      BY <3>2 DEF f, g, a, b
  <2>6. \A q \in Addr, j \in Slots : SameSlot(v, w, q, j)
    BY <2>2, <2>5 DEF SameSlot
  <2>7. v \in Network
    <3>1. v.backlog \in [Addr -> Seq(Waiter)]
      BY <1>0, <2>4, Zenon
    <3> QED
      BY ONLY <2>4, <2>5, <3>1 DEF Network
  <2> QED
    BY <2>6, <2>7, Zenon DEF SameBut
<1>3. CASE to # NO_PEER /\ to.slot = NULL
  <2> DEFINE B == w.backlog[to.addr]
  <2>1. v = [w EXCEPT !.backlog[to.addr] = C]
    BY <1>4, <1>3, Zenon DEF Queued
  <2>2. v.conns = w.conns /\ v.backlog = [w.backlog EXCEPT ![to.addr] = C]
        /\ v = [conns |-> v.conns, backlog |-> v.backlog]
    BY <1>0, <2>1, Zenon
  <2>3. to.addr \in Addr => C \in Seq(Waiter)
    <3> SUFFICES ASSUME to.addr \in Addr PROVE C \in Seq(Waiter)
      BY Zenon
    <3>1. B \in Seq(Waiter)
      BY <1>0
    <3>0. C = [k \in DOMAIN B |-> IF B[k].from = End(p, i)
                                  THEN [from |-> End(p, i), data |-> B[k].data \o ms]
                                  ELSE B[k]]
      BY Zenon DEF C, Queue
    <3> HIDE DEF B
    <3>2. ASSUME NEW k \in DOMAIN B PROVE C[k] \in Waiter
      <4>1. B[k] \in Waiter
        BY <3>1, <3>2
      <4>2. B[k].data \o ms \in Seq(Lines)
        BY <4>1 DEF Waiter
      <4> QED
        BY <3>0, <4>1, <4>2 DEF Waiter
    <3>3. DOMAIN C = DOMAIN B /\ C = [k \in DOMAIN B |-> C[k]]
      BY ONLY <3>0
    <3>4. \E n \in Nat : DOMAIN B = 1 .. n
      BY <3>1
    <3> QED
      BY ONLY <3>2, <3>3, <3>4
  <2>4. v.backlog \in [Addr -> Seq(Waiter)]
    BY <1>0, <2>2, <2>3
  <2>5. v \in Network
    BY <1>0, <2>2, <2>4 DEF Network
  <2> QED
    BY <2>2, <2>5 DEF SameBut, SameSlot
<1> QED
  BY <1>1, <1>2, <1>3

LEMMA ConsumeNet ==
  ASSUME NEW w \in Network, NEW p \in Addr, NEW i \in Slots, w.conns[p][i].inbox # <<>>,
         NEW v, v = Consume(w, p, i)
  PROVE  v \in Network /\ SameBut(v, w, p, {})
<1> DEFINE c == w.conns[p][i]
           x == Tail(c.inbox)
           d == [c EXCEPT !.inbox = x]
<1>0. /\ w.conns \in [Addr -> [Slots -> Slot]]
      /\ w.backlog \in [Addr -> Seq(Waiter)]
      /\ w = [conns |-> w.conns, backlog |-> w.backlog]
  BY NetworkParts
<1>1. v = [w EXCEPT !.conns[p][i].inbox = x]
  BY DEF Consume
<1>2. c \in Slot
  BY <1>0
<1>3. x \in Seq(Lines)
  BY <1>2, SlotFields
<1> HIDE DEF x
<1>4. d \in Slot /\ d.open = c.open /\ d.node_id = c.node_id
  BY <1>2, <1>3, SlotFields
<1>5. v = [w EXCEPT !.conns[p][i] = d]
  BY <1>1
<1> HIDE DEF d
<1>6. v.conns = [w.conns EXCEPT ![p][i] = d] /\ v.backlog = w.backlog
      /\ v = [conns |-> v.conns, backlog |-> v.backlog]
  BY <1>0, <1>5
<1>7. /\ v.conns \in [Addr -> [Slots -> Slot]]
      /\ \A q \in Addr, j \in Slots : v.conns[q][j] = IF q = p /\ j = i THEN d ELSE w.conns[q][j]
  BY <1>0, <1>4, <1>6, PutSlot
<1>8. \A q \in Addr, j \in Slots : SameSlot(v, w, q, j)
  BY <1>4, <1>7 DEF SameSlot
<1> QED
  BY <1>0, <1>6, <1>7, <1>8 DEF Network, SameBut

LEMMA SetNodeIdNet ==
  ASSUME NEW w \in Network, NEW p \in Addr, NEW i \in Slots, NEW id \in NodeID,
         NEW v, v = SetNodeId(w, p, i, id)
  PROVE  /\ v \in Network /\ SameBut(v, w, p, {i})
         /\ v.conns[p][i].node_id = id /\ v.conns[p][i].open = w.conns[p][i].open
<1> DEFINE c == w.conns[p][i]
           d == [c EXCEPT !.node_id = id]
<1>0. /\ w.conns \in [Addr -> [Slots -> Slot]]
      /\ w.backlog \in [Addr -> Seq(Waiter)]
      /\ w = [conns |-> w.conns, backlog |-> w.backlog]
  BY NetworkParts
<1>1. v = [w EXCEPT !.conns[p][i] = d]
  BY DEF SetNodeId
<1>2. c \in Slot
  BY <1>0
<1>3. d \in Slot /\ d.open = c.open /\ d.node_id = id
  BY <1>2, SlotFields
<1> HIDE DEF d
<1>4. v.conns = [w.conns EXCEPT ![p][i] = d] /\ v.backlog = w.backlog
      /\ v = [conns |-> v.conns, backlog |-> v.backlog]
  BY <1>0, <1>1
<1>5. /\ v.conns \in [Addr -> [Slots -> Slot]]
      /\ \A q \in Addr, j \in Slots : v.conns[q][j] = IF q = p /\ j = i THEN d ELSE w.conns[q][j]
  BY <1>0, <1>3, <1>4, PutSlot
<1>6. \A q \in Addr, j \in Slots : ~(q = p /\ j = i) => SameSlot(v, w, q, j)
  BY <1>5 DEF SameSlot
<1> QED
  BY <1>0, <1>3, <1>4, <1>5, <1>6 DEF Network, SameBut

\* close_connection(): the slots in S are closed and nothing else changes.
LEMMA CloseNet ==
  ASSUME NEW w \in Network, NEW p \in Addr, NEW S, NEW v, v = Close(w, p, S)
  PROVE  /\ v \in Network /\ SameBut(v, w, p, S)
         /\ \A j \in Slots : j \in S => ~v.conns[p][j].open
<1> DEFINE Hit(end) == end.addr = p /\ end.slot \in S
           g == [q \in Addr |-> [j \in Slots |->
                   IF Hit(End(q, j)) THEN CLOSED
                   ELSE IF Hit(w.conns[q][j].peer)
                   THEN [w.conns[q][j] EXCEPT !.inbox = Append(@, EOF), !.peer = NO_PEER]
                   ELSE w.conns[q][j]]]
           Seen(b) == IF Hit(b.from) THEN [from |-> NO_PEER, data |-> Append(b.data, EOF)] ELSE b
           h == [q \in Addr |-> [k \in DOMAIN w.backlog[q] |-> Seen(w.backlog[q][k])]]
<1>0. /\ w.conns \in [Addr -> [Slots -> Slot]]
      /\ w.backlog \in [Addr -> Seq(Waiter)]
  BY NetworkParts
<1>1. v = [conns |-> g, backlog |-> h]
  BY DEF Close
<1>2. NO_PEER \in FarEnd /\ CLOSED \in Slot /\ CLOSED.open = FALSE
  BY DEF NO_PEER, FarEnd, CLOSED, Slot
<1>3. ASSUME NEW q \in Addr, NEW j \in Slots
      PROVE  /\ g[q][j] \in Slot
             /\ q = p /\ j \in S => g[q][j].open = FALSE
             /\ ~(q = p /\ j \in S) => /\ g[q][j].open = w.conns[q][j].open
                                       /\ g[q][j].node_id = w.conns[q][j].node_id
  <2> DEFINE c == w.conns[q][j]
             d == [c EXCEPT !.inbox = Append(@, EOF), !.peer = NO_PEER]
  <2>1. g[q][j] = IF q = p /\ j \in S THEN CLOSED ELSE IF Hit(c.peer) THEN d ELSE c
    BY DEF End
  <2>2. c \in Slot
    BY <1>0
  <2>3. c.inbox \in Seq(Lines)
    BY <2>2, SlotFields
  <2>4. Append(c.inbox, EOF) \in Seq(Lines)
    BY <2>3, EOFFacts
  <2>5. d \in Slot /\ d.open = c.open /\ d.node_id = c.node_id
    BY <1>2, <2>2, <2>4 DEF Slot
  <2> QED
    BY <1>2, <2>1, <2>2, <2>5
<1>4. ASSUME NEW q \in Addr PROVE h[q] \in Seq(Waiter)
  <2> DEFINE B == w.backlog[q]
  <2>1. B \in Seq(Waiter)
    BY <1>0
  <2>2. ASSUME NEW k \in DOMAIN B PROVE Seen(B[k]) \in Waiter
    <3>1. B[k] \in Waiter
      BY <2>1, <2>2
    <3>2. Append(B[k].data, EOF) \in Seq(Lines)
      BY <3>1, EOFFacts DEF Waiter
    <3> QED
      BY <1>2, <3>1, <3>2 DEF Waiter
  <2>3. h[q] = [k \in DOMAIN B |-> Seen(B[k])]
    OBVIOUS
  <2> HIDE DEF B, Seen
  <2> QED
    BY <2>1, <2>2, <2>3
<1>5. g \in [Addr -> [Slots -> Slot]]
  BY <1>3, Zenon
<1>6. h \in [Addr -> Seq(Waiter)]
  BY <1>4
<1> HIDE DEF g, h
<1>7. v.conns = g /\ v \in Network
  BY <1>1, <1>5, <1>6 DEF Network
<1> QED
  BY <1>3, <1>7 DEF SameBut, SameSlot

\* connect_to_node(): the slot is open under the ID of the destination.
LEMMA ConnectNet ==
  ASSUME NEW w \in Network, NEW p \in Addr, NEW i \in Slots \cup {NULL}, NEW d \in Node, NEW up,
         NEW v, v = Connect(w, p, i, d, up)
  PROVE  /\ v \in Network /\ SameBut(v, w, p, {i})
         /\ i \in Slots => v.conns[p][i].open /\ v.conns[p][i].node_id = d.id
<1> DEFINE f == w.conns
           x == IF up THEN [open |-> TRUE, node_id |-> d.id, peer |-> End(d.addr, NULL), inbox |-> <<>>]
                ELSE [open |-> TRUE, node_id |-> d.id, peer |-> NO_PEER, inbox |-> <<EOF>>]
           g == [f EXCEPT ![p][i] = x]
           y == [from |-> End(p, i), data |-> <<>>]
           h == IF up THEN [w.backlog EXCEPT ![d.addr] = Append(@, y)] ELSE w.backlog
<1>0. /\ f \in [Addr -> [Slots -> Slot]]
      /\ w.backlog \in [Addr -> Seq(Waiter)]
      /\ w = [conns |-> w.conns, backlog |-> w.backlog]
  BY NetworkParts
<1>1. v.conns = g /\ v.backlog = h /\ v = [conns |-> v.conns, backlog |-> v.backlog]
  BY <1>0 DEF Connect
<1>2. x \in Slot /\ x.open /\ x.node_id = d.id
  <2>1. d.id \in NodeID /\ d.addr \in Addr \cup {NO_ADDR}
    BY DEF Node
  <2>2. End(d.addr, NULL) \in FarEnd /\ NO_PEER \in FarEnd
    BY <2>1 DEF End, FarEnd, NO_PEER
  <2>3. <<>> \in Seq(Lines) /\ <<EOF>> \in Seq(Lines)
    BY EOFFacts
  <2> QED
    BY <2>1, <2>2, <2>3 DEF Slot
<1>3. y \in Waiter
  BY DEF Waiter, End, FarEnd
<1> HIDE DEF x, y
<1>4. h \in [Addr -> Seq(Waiter)]
  <2>1. \A q \in Addr : w.backlog[q] \in Seq(Waiter) /\ Append(w.backlog[q], y) \in Seq(Waiter)
    BY <1>0, <1>3
  <2> QED
    BY <1>0, <2>1
<1> HIDE DEF f, h
<1>5. /\ g \in [Addr -> [Slots -> Slot]]
      /\ \A q \in Addr, j \in Slots : g[q][j] = IF q = p /\ j = i THEN x ELSE f[q][j]
  <2>1. \A q \in Addr, j \in Slots : g[q][j] = IF q = p /\ j = i THEN x ELSE f[q][j]
    BY <1>0
  <2>2. g = [q \in Addr |-> g[q]] /\ \A q \in Addr : g[q] = [j \in Slots |-> g[q][j]]
    BY <1>0
  <2> HIDE DEF g
  <2>3. \A q \in Addr, j \in Slots : g[q][j] \in Slot
    BY <1>0, <1>2, <2>1
  <2>4. g \in [Addr -> [Slots -> Slot]]
    BY <2>2, <2>3
  <2> QED
    BY <2>1, <2>4
<1> HIDE DEF g
<1>6. v \in Network
  BY <1>1, <1>4, <1>5 DEF Network
<1>7. \A q \in Addr, j \in Slots : v.conns[q][j] = IF q = p /\ j = i THEN x ELSE w.conns[q][j]
  BY <1>1, <1>5 DEF f
<1> QED
  BY <1>2, <1>6, <1>7 DEF SameBut, SameSlot

\* accept() and add_connection(): the slot is open and unidentified.
LEMMA AcceptNet ==
  ASSUME NEW w \in Network, NEW p \in Addr, w.backlog[p] # <<>>, NEW i \in Slots \cup {NULL},
         NEW v, v = Accept(w, p, i)
  PROVE  /\ v \in Network /\ SameBut(v, w, p, {i})
         /\ i \in Slots => v.conns[p][i].open /\ v.conns[p][i].node_id = NO_NODE_ID
<1> DEFINE f == w.conns
           b == Head(w.backlog[p])
           x == [open |-> TRUE, node_id |-> NO_NODE_ID, peer |-> b.from, inbox |-> b.data]
           g == [f EXCEPT ![p][i] = x]
           e == b.from
           k == IF e = NO_PEER THEN g ELSE [g EXCEPT ![e.addr][e.slot].peer = End(p, i)]
           h == [w.backlog EXCEPT ![p] = Tail(@)]
<1>0. /\ f \in [Addr -> [Slots -> Slot]]
      /\ w.backlog \in [Addr -> Seq(Waiter)]
  BY NetworkParts
<1>1. v = [conns |-> k, backlog |-> h]
  BY Zenon DEF Accept
<1>2. b \in Waiter /\ h \in [Addr -> Seq(Waiter)]
  <2>1. w.backlog[p] \in Seq(Waiter)
    BY <1>0
  <2>2. b \in Waiter /\ Tail(w.backlog[p]) \in Seq(Waiter)
    BY <2>1
  <2> QED
    BY <1>0, <2>2
<1>3. x \in Slot /\ x.open /\ x.node_id = NO_NODE_ID
  <2>1. b.from \in FarEnd /\ b.data \in Seq(Lines)
    BY <1>2 DEF Waiter
  <2> QED
    BY <2>1 DEF Slot
<1>4. End(p, i) \in FarEnd
  BY DEF End, FarEnd
<1>g. g = [f EXCEPT ![p][i] = x]
  OBVIOUS
<1> HIDE DEF x, f, g, h, b, k
<1>5. /\ g \in [Addr -> [Slots -> Slot]]
      /\ \A q \in Addr, j \in Slots : g[q][j] = IF q = p /\ j = i THEN x ELSE f[q][j]
  <2>1. \A q \in Addr, j \in Slots : g[q][j] = IF q = p /\ j = i THEN x ELSE f[q][j]
    BY <1>0, <1>g
  <2>2. g = [q \in Addr |-> g[q]] /\ \A q \in Addr : g[q] = [j \in Slots |-> g[q][j]]
    BY <1>0, <1>g
  <2>3. \A q \in Addr, j \in Slots : g[q][j] \in Slot
    BY <1>0, <1>3, <2>1
  <2>4. g \in [Addr -> [Slots -> Slot]]
    BY <2>2, <2>3
  <2> QED
    BY <2>1, <2>4
<1> USE DEF k
<1>6. /\ k \in [Addr -> [Slots -> Slot]]
      /\ \A q \in Addr, j \in Slots : k[q][j].open = g[q][j].open /\ k[q][j].node_id = g[q][j].node_id
  <2>1. CASE e = NO_PEER
    BY <1>5, <2>1
  <2>2. CASE e # NO_PEER
    <3> DEFINE z == End(p, i)
               a == e.addr
               s == e.slot
    <3>1. k = [g EXCEPT ![a][s].peer = z]
      BY <2>2
    <3> HIDE DEF z, k, a, s
    <3>2. \A q \in Addr, j \in Slots :
            k[q][j] = IF q = a /\ j = s THEN [g[q][j] EXCEPT !.peer = z] ELSE g[q][j]
      BY <1>5, <3>1
    <3>3. k = [q \in Addr |-> k[q]] /\ \A q \in Addr : k[q] = [j \in Slots |-> k[q][j]]
      BY <1>5, <3>1
    <3>4. ASSUME NEW q \in Addr, NEW j \in Slots
          PROVE  /\ k[q][j] \in Slot
                 /\ k[q][j].open = g[q][j].open /\ k[q][j].node_id = g[q][j].node_id
      <4> DEFINE c == g[q][j]
      <4>1. c \in Slot /\ z \in FarEnd
        BY <1>4, <1>5 DEF z
      <4>2. k[q][j] = IF q = a /\ j = s THEN [c EXCEPT !.peer = z] ELSE c
        BY <3>2
      <4> HIDE DEF c
      <4>3. k[q][j] \in Slot /\ k[q][j].open = c.open /\ k[q][j].node_id = c.node_id
        BY <4>1, <4>2, SlotFields
      <4> QED
        BY <4>3 DEF c
    <3> QED
      BY <3>3, <3>4
  <2> QED
    BY <2>1, <2>2
<1> HIDE DEF k
<1>7. v \in Network /\ v.conns = k
  BY <1>1, <1>2, <1>6 DEF Network
<1> QED
  BY <1>3, <1>5, <1>6, <1>7 DEF SameBut, SameSlot, f

\* accept() and close(): no slot changes.
LEMMA RefuseNet ==
  ASSUME NEW w \in Network, NEW p \in Addr, w.backlog[p] # <<>>, NEW v, v = Refuse(w, p)
  PROVE  v \in Network /\ SameBut(v, w, p, {})
<1> DEFINE f == w.conns
           b == Head(w.backlog[p])
           e == b.from
           k == IF e = NO_PEER THEN f
                ELSE [f EXCEPT ![e.addr][e.slot].peer = NO_PEER,
                               ![e.addr][e.slot].inbox = Append(@, EOF)]
           h == [w.backlog EXCEPT ![p] = Tail(@)]
<1>0. /\ f \in [Addr -> [Slots -> Slot]]
      /\ w.backlog \in [Addr -> Seq(Waiter)]
  BY NetworkParts
<1>1. v = [conns |-> k, backlog |-> h]
  BY Zenon DEF Refuse
<1>2. h \in [Addr -> Seq(Waiter)]
  <2>1. w.backlog[p] \in Seq(Waiter)
    BY <1>0
  <2>2. Tail(w.backlog[p]) \in Seq(Waiter)
    BY <2>1
  <2> QED
    BY <1>0, <2>2
<1> HIDE DEF f, h, b
<1>3. /\ k \in [Addr -> [Slots -> Slot]]
      /\ \A q \in Addr, j \in Slots : k[q][j].open = f[q][j].open /\ k[q][j].node_id = f[q][j].node_id
  <2>1. CASE e = NO_PEER
    BY <1>0, <2>1
  <2>2. CASE e # NO_PEER
    <3> DEFINE a == e.addr
               s == e.slot
    <3>1. k = [f EXCEPT ![a][s].peer = NO_PEER, ![a][s].inbox = Append(@, EOF)]
      BY <2>2
    <3> HIDE DEF k, a, s
    <3>2. \A q \in Addr, j \in Slots :
            k[q][j] = IF q = a /\ j = s
                      THEN [f[q][j] EXCEPT !.peer = NO_PEER, !.inbox = Append(@, EOF)] ELSE f[q][j]
      BY <1>0, <3>1
    <3>3. k = [q \in Addr |-> k[q]] /\ \A q \in Addr : k[q] = [j \in Slots |-> k[q][j]]
      BY <1>0, <3>1
    <3>4. ASSUME NEW q \in Addr, NEW j \in Slots
          PROVE  /\ k[q][j] \in Slot
                 /\ k[q][j].open = f[q][j].open /\ k[q][j].node_id = f[q][j].node_id
      <4> DEFINE c == f[q][j]
      <4>1. c \in Slot /\ NO_PEER \in FarEnd
        BY <1>0 DEF NO_PEER, FarEnd
      <4>2. c.inbox \in Seq(Lines)
        BY <4>1, SlotFields
      <4>3. Append(c.inbox, EOF) \in Seq(Lines)
        BY <4>2, EOFFacts
      <4>4. k[q][j] = IF q = a /\ j = s
                      THEN [c EXCEPT !.peer = NO_PEER, !.inbox = Append(@, EOF)] ELSE c
        BY <3>2
      <4> HIDE DEF c
      <4>5. k[q][j] \in Slot /\ k[q][j].open = c.open /\ k[q][j].node_id = c.node_id
        BY <4>1, <4>3, <4>4 DEF Slot
      <4> QED
        BY <4>5 DEF c
    <3> QED
      BY <3>3, <3>4
  <2> QED
    BY <2>1, <2>2, Zenon
<1> HIDE DEF k
<1>4. v \in Network /\ v.conns = k
  BY <1>1, <1>2, <1>3 DEF Network
<1> QED
  BY <1>3, <1>4 DEF SameBut, SameSlot, f

\* The end of a process: its slots are closed.
LEMMA TerminateNet ==
  ASSUME NEW w \in Network, NEW p \in Addr, NEW v, v = Terminate(w, p)
  PROVE  /\ v \in Network /\ SameBut(v, w, p, Slots)
         /\ \A j \in Slots : ~v.conns[p][j].open
<1> DEFINE u == Close(w, p, Slots)
           k == [q \in Addr |-> [j \in Slots |->
                   IF u.conns[q][j].peer = End(p, NULL)
                   THEN [u.conns[q][j] EXCEPT !.inbox = Append(@, EOF), !.peer = NO_PEER]
                   ELSE u.conns[q][j]]]
           h == [u.backlog EXCEPT ![p] = <<>>]
<1>1. v = [conns |-> k, backlog |-> h]
  BY DEF Terminate
<1>2. /\ u \in Network /\ SameBut(u, w, p, Slots)
      /\ \A j \in Slots : ~u.conns[p][j].open
  BY CloseNet
<1> HIDE DEF u
<1>3. u.conns \in [Addr -> [Slots -> Slot]] /\ u.backlog \in [Addr -> Seq(Waiter)]
  BY <1>2, NetworkParts
<1>4. h \in [Addr -> Seq(Waiter)]
  BY <1>3
<1>5. ASSUME NEW q \in Addr, NEW j \in Slots
      PROVE  /\ k[q][j] \in Slot
             /\ k[q][j].open = u.conns[q][j].open /\ k[q][j].node_id = u.conns[q][j].node_id
  <2> DEFINE c == u.conns[q][j]
  <2>1. c \in Slot /\ NO_PEER \in FarEnd
    BY <1>3 DEF NO_PEER, FarEnd
  <2>2. c.inbox \in Seq(Lines)
    BY <2>1, SlotFields
  <2>3. Append(c.inbox, EOF) \in Seq(Lines)
    BY <2>2, EOFFacts
  <2>4. k[q][j] = IF c.peer = End(p, NULL)
                  THEN [c EXCEPT !.inbox = Append(@, EOF), !.peer = NO_PEER] ELSE c
    OBVIOUS
  <2> HIDE DEF c, k
  <2>5. k[q][j] \in Slot /\ k[q][j].open = c.open /\ k[q][j].node_id = c.node_id
    BY <2>1, <2>3, <2>4 DEF Slot
  <2> QED
    BY <2>5 DEF c
<1>6. k \in [Addr -> [Slots -> Slot]]
  BY <1>5
<1> HIDE DEF k, h
<1>7. v \in Network /\ v.conns = k
  BY <1>1, <1>4, <1>6 DEF Network
<1> QED
  BY <1>2, <1>5, <1>7 DEF SameBut, SameSlot

-----------------------------------------------------------------------------
(* Roles when connections are opened, closed and identified *)

Linked(n, cs) == Pointers(n, cs) /\ Identified(n, cs)

\* cs and ds are the same slots, but for those in S.
Alike(ds, cs, S) ==
  \A j \in Slots : j \notin S => ds[j].open = cs[j].open /\ ds[j].node_id = cs[j].node_id

\* Connections S are closed and the pointers to them cleared.
LEMMA LinkedClose ==
  ASSUME NEW n \in State, NEW m \in State, NEW cs, NEW ds, NEW S, Linked(n, cs),
         \A r \in RoleNames : m.conn[r] = IF n.conn[r] \in S THEN NULL ELSE n.conn[r],
         Alike(ds, cs, S), \A j \in Slots : j \in S => ~ds[j].open
  PROVE  Linked(m, ds)
<1>1. /\ n.conn \in [RoleNames -> Slots \cup {NULL}]
      /\ m.conn \in [RoleNames -> Slots \cup {NULL}]
  BY DEF State
<1>2. Pointers(m, ds)
  BY <1>1 DEF Linked, Pointers, Alike
<1>3. m.conn.new_node = IF n.conn.new_node \in S THEN NULL ELSE n.conn.new_node
  BY DEF RoleNames
<1>4. Identified(m, ds)
  BY <1>3 DEF Linked, Identified, Alike, Slots
<1> QED
  BY <1>2, <1>4 DEF Linked

\* A closed slot i, or none, is opened under a known ID and takes role r, or none.
LEMMA LinkedOpen ==
  ASSUME NEW n \in State, NEW m \in State, NEW cs, NEW ds, NEW r \in {"pred", "succ", "chord"},
         NEW i \in Slots \cup {NULL}, Linked(n, cs),
         m.conn[r] = i \/ m.conn[r] = NULL,
         \A s \in RoleNames : s # r => m.conn[s] = n.conn[s],
         NEW S, S = {i}, Alike(ds, cs, S),
         i # NULL => ~cs[i].open /\ ds[i].open /\ ds[i].node_id # NO_NODE_ID
  PROVE  Linked(m, ds)
<1>1. /\ n.conn \in [RoleNames -> Slots \cup {NULL}]
      /\ m.conn \in [RoleNames -> Slots \cup {NULL}]
  BY DEF State
<1>2. \A s \in RoleNames : n.conn[s] # NULL => n.conn[s] # i
  BY <1>1 DEF Linked, Pointers
<1>3. Pointers(m, ds)
  <2>1. \A s \in RoleNames : m.conn[s] # NULL => ds[m.conn[s]].open
    BY <1>1, <1>2 DEF Linked, Pointers, Alike, RoleNames
  <2>2. \A s, u \in RoleNames : m.conn[s] # NULL /\ m.conn[s] = m.conn[u] => s = u
    BY <1>1, <1>2 DEF Linked, Pointers, RoleNames
  <2> QED
    BY <2>1, <2>2 DEF Pointers
<1>4. m.conn.new_node = n.conn.new_node /\ (i # NULL => i # n.conn.new_node)
  BY <1>1, <1>2 DEF RoleNames
<1>5. Identified(m, ds)
  BY <1>4 DEF Linked, Identified, Alike, Slots
<1> QED
  BY <1>3, <1>5 DEF Linked

\* The new node's connection i is identified.  It becomes the predecessor's, in
\* place of one that may have been closed (S), or gets no role.
LEMMA LinkedIdentify ==
  ASSUME NEW n \in State, NEW m \in State, NEW cs, NEW ds, NEW S \in SUBSET {n.conn.pred},
         NEW i \in Slots, Linked(n, cs), n.conn.new_node = i,
         m.conn.new_node = NULL, m.conn.pred = i \/ (m.conn.pred = n.conn.pred /\ S = {}),
         m.conn.succ = n.conn.succ, m.conn.chord = n.conn.chord,
         Alike(ds, cs, S \cup {i}), \A j \in Slots : j \in S => ~ds[j].open,
         ds[i].open = cs[i].open, ds[i].node_id # NO_NODE_ID
  PROVE  Linked(m, ds)
<1>0. i # NULL
  BY DEF Slots
<1>1. /\ n.conn \in [RoleNames -> Slots \cup {NULL}]
      /\ m.conn \in [RoleNames -> Slots \cup {NULL}]
  BY DEF State
<1>2. cs[i].open /\ n.conn.pred # i /\ n.conn.succ # i /\ n.conn.chord # i
  BY <1>0, <1>1 DEF Linked, Pointers, RoleNames
<1>3. \A s \in {"succ", "chord"} : n.conn[s] # NULL => n.conn[s] # n.conn.pred
  BY <1>1 DEF Linked, Pointers, RoleNames
<1>4. Pointers(m, ds)
  <2>1. ASSUME NEW s \in RoleNames, m.conn[s] # NULL PROVE ds[m.conn[s]].open
    <3>1. CASE m.conn[s] = i
      BY <1>2, <3>1
    <3>2. CASE m.conn[s] # i
      <4>1. m.conn[s] = n.conn[s] /\ m.conn[s] \in Slots /\ cs[m.conn[s]].open
        BY <1>1, <2>1, <3>2 DEF Linked, Pointers, RoleNames
      <4>2. m.conn[s] \notin S
        BY <1>3, <2>1, <3>2, <4>1 DEF RoleNames
      <4> QED
        BY <3>2, <4>1, <4>2 DEF Alike
    <3> QED
      BY <3>1, <3>2
  <2>2. \A s, u \in RoleNames : m.conn[s] # NULL /\ m.conn[s] = m.conn[u] => s = u
    BY <1>0, <1>1, <1>2 DEF Linked, Pointers, RoleNames
  <2> QED
    BY <2>1, <2>2 DEF Pointers
<1>5. Identified(m, ds)
  BY <1>0, <1>1 DEF Linked, Identified, Alike, Slots
<1> QED
  BY <1>4, <1>5 DEF Linked

\* A closed slot i, or none, is opened for a new node.
LEMMA LinkedAccept ==
  ASSUME NEW n \in State, NEW m \in State, NEW cs, NEW ds,
         NEW i \in Slots \cup {NULL}, Linked(n, cs), n.conn.new_node = NULL,
         m.conn.new_node = i, \A s \in RoleNames : s # "new_node" => m.conn[s] = n.conn[s],
         NEW S, S = {i}, Alike(ds, cs, S),
         i # NULL => ~cs[i].open /\ ds[i].open /\ ds[i].node_id = NO_NODE_ID
  PROVE  Linked(m, ds)
<1>1. /\ n.conn \in [RoleNames -> Slots \cup {NULL}]
      /\ m.conn \in [RoleNames -> Slots \cup {NULL}]
  BY DEF State
<1>2. \A s \in RoleNames : n.conn[s] # NULL => n.conn[s] # i
  BY <1>1 DEF Linked, Pointers
<1>3. Pointers(m, ds)
  <2>1. \A s \in RoleNames : m.conn[s] # NULL => ds[m.conn[s]].open
    BY <1>1, <1>2 DEF Linked, Pointers, Alike, RoleNames
  <2>2. \A s, u \in RoleNames : m.conn[s] # NULL /\ m.conn[s] = m.conn[u] => s = u
    BY <1>1, <1>2 DEF Linked, Pointers, RoleNames
  <2> QED
    BY <2>1, <2>2 DEF Pointers
<1>4. Identified(m, ds)
  BY DEF Linked, Identified, Alike, Slots
<1> QED
  BY <1>3, <1>4 DEF Linked

\* The pointers are cleared while no new node is being let in.
LEMMA LinkedForget ==
  ASSUME NEW n \in State, NEW m \in State, NEW cs, Linked(n, cs),
         n.conn.new_node = NULL, \A r \in RoleNames : m.conn[r] = NULL
  PROVE  Linked(m, cs)
<1>1. m.conn.new_node = NULL
  BY DEF RoleNames
<1> QED
  BY <1>1 DEF Linked, Pointers, Identified

\* Neither the pointers nor the slots change.
LEMMA LinkedSame ==
  ASSUME NEW n \in State, NEW m \in State, NEW cs, NEW ds, Linked(n, cs),
         m.conn = n.conn, Alike(ds, cs, {})
  PROVE  Linked(m, ds)
<1>1. n.conn \in [RoleNames -> Slots \cup {NULL}]
  BY DEF State
<1> QED
  BY <1>1 DEF Linked, Pointers, Identified, Alike

\* A process that has no connection.
LEMMA LinkedNone ==
  ASSUME NEW m \in State, NEW ds, \A r \in RoleNames : m.conn[r] = NULL,
         \A j \in Slots : ~ds[j].open
  PROVE  Linked(m, ds)
  BY DEF Linked, Pointers, Identified

-----------------------------------------------------------------------------
(* The variables of a process *)

\* m is n but for what does not matter here.
Similar(m, n) ==
  /\ m.process = n.process /\ m.connection_state = n.connection_state
  /\ m.input_state = n.input_state

LEMMA UnassignState ==
  ASSUME NEW n \in State, NEW S, NEW m, m = Unassign(n, S)
  PROVE  /\ m \in State /\ Similar(m, n)
         /\ \A r \in RoleNames : m.conn[r] = IF n.conn[r] \in S THEN NULL ELSE n.conn[r]
         /\ m.succ = n.succ
<1> DEFINE c == [r \in DOMAIN n.conn |-> IF n.conn[r] \in S THEN NULL ELSE n.conn[r]]
<1>1. n.conn \in [RoleNames -> Slots \cup {NULL}]
  BY DEF State
<1>2. m = [n EXCEPT !.conn = c]
  BY DEF Unassign
<1>3. /\ c \in [RoleNames -> Slots \cup {NULL}]
      /\ \A r \in RoleNames : c[r] = IF n.conn[r] \in S THEN NULL ELSE n.conn[r]
  BY <1>1
<1> HIDE DEF c
<1>4. m \in State /\ m.conn = c /\ Similar(m, n) /\ m.succ = n.succ
  BY <1>2, <1>3 DEF State, Similar
<1> QED
  BY <1>3, <1>4

LEMMA PruneState ==
  ASSUME NEW n \in State, NEW cs, NEW id, NEW m, m = Prune(n, cs, id)
  PROVE  m \in State /\ Similar(m, n) /\ m.conn = n.conn /\ m.succ = n.succ
  BY DEF Prune, State, Similar

\* A process that has just started.
LEMMA FreshFacts ==
  /\ FreshNode \in State
  /\ NoRoles \in [RoleNames -> Slots \cup {NULL}] /\ \A r \in RoleNames : NoRoles[r] = NULL
<1>1. NoRoles.new_node = NULL /\ NoRoles.pred = NULL /\ NoRoles.succ = NULL /\ NoRoles.chord = NULL
  BY DEF NoRoles
<1>2. NoRoles = [r \in {"new_node", "pred", "succ", "chord"} |-> NULL]
  BY <1>1 DEF NoRoles
<1>3. NoRoles \in [RoleNames -> Slots \cup {NULL}] /\ \A r \in RoleNames : NoRoles[r] = NULL
  BY <1>2 DEF RoleNames
<1>4. 0 \in NodeID /\ [id |-> 0, addr |-> NO_ADDR] \in Node
  BY RingAssumption DEF NodeID, Node
<1> HIDE DEF NO_ADDR
<1>5. FreshNode \in State
  BY <1>3, <1>4 DEF FreshNode, State
<1> QED
  BY <1>3, <1>5

\* Only InRing, the prompt and the process decide whether a process is an outsider.
LEMMA OutsiderSame ==
  ASSUME NEW n \in State, NEW m \in State, Similar(m, n), Outsider(n),
         m.conn.new_node \in {n.conn.new_node, NULL}
  PROVE  Outsider(m)
  BY DEF Outsider, Similar, InRing

-----------------------------------------------------------------------------
(* The points of a handler of process p *)

\* The handler has come to variables n and network w, and if the roles were
\* right when it began they are now.
Reached(p, n, w) ==
  /\ n \in State /\ w \in Network /\ SameBut(w, net, p, Slots) /\ Similar(n, node[p])
  /\ Roles(node[p], net.conns[p]) =>
       Linked(n, w.conns[p]) /\ n.conn.new_node \in {node[p].conn.new_node, NULL}

\* What every step of p does.
GoodStep(p) ==
  /\ registry' \subseteq Node
  /\ \E m \in State, v \in Network :
       /\ Become(p, m, v) /\ SameBut(v, net, p, Slots)
       /\ Roles(node[p], net.conns[p]) /\ NoJoinOverNewNode => Roles(m, v.conns[p])

\* Changes to the slots of one process, one after the other.
LEMMA SameTrans ==
  ASSUME NEW u, NEW v, NEW w, NEW p \in Addr, NEW S, NEW T, SameBut(v, w, p, S), SameBut(w, u, p, T)
  PROVE  SameBut(v, u, p, Slots)
  BY DEF SameBut, SameSlot

LEMMA SameAlike ==
  ASSUME NEW v, NEW w, NEW p \in Addr, NEW S, SameBut(v, w, p, S)
  PROVE  Alike(v.conns[p], w.conns[p], S)
  BY DEF SameBut, SameSlot, Alike

LEMMA SameRefl ==
  ASSUME NEW w, NEW p \in Addr, NEW S
  PROVE  SameBut(w, w, p, S)
  BY DEF SameBut, SameSlot

\* The beginning of a handler.
LEMMA ReachedStart ==
  ASSUME Types, NEW p \in Addr
  PROVE  Reached(p, node[p], net)
<1>1. node[p] \in State /\ net \in Network
  BY DEF Types
<1>2. SameBut(net, net, p, Slots)
  BY SameRefl
<1> QED
  BY <1>1, <1>2 DEF Reached, Similar, Roles, Linked

\* A system call that changes no slot, and assignments to other variables.
LEMMA ReachedSame ==
  ASSUME NEW p \in Addr, NEW n, NEW w, Reached(p, n, w),
         NEW m \in State, Similar(m, n), m.conn = n.conn,
         NEW v \in Network, SameBut(v, w, p, {})
  PROVE  Reached(p, m, v)
<1>1. SameBut(v, net, p, Slots)
  BY SameTrans DEF Reached
<1>2. Alike(v.conns[p], w.conns[p], {})
  BY SameAlike
<1>3. ASSUME Linked(n, w.conns[p]) PROVE Linked(m, v.conns[p])
  <2> DEFINE cs == w.conns[p]
             ds == v.conns[p]
  <2>1. n \in State /\ Linked(n, cs) /\ Alike(ds, cs, {})
    BY <1>2, <1>3 DEF Reached
  <2> HIDE DEF cs, ds
  <2>2. Linked(m, ds)
    BY <2>1, LinkedSame
  <2> QED
    BY <2>2 DEF ds
<1> QED
  BY <1>1, <1>3 DEF Reached, Similar

LEMMA ReachedWrite ==
  ASSUME NEW p \in Addr, NEW n, NEW w, Reached(p, n, w), NEW i, NEW ms \in Seq(Lines)
  PROVE  Reached(p, n, Write(w, p, i, ms))
<1> DEFINE v == Write(w, p, i, ms)
<1>1. n \in State /\ w \in Network /\ Similar(n, n)
  BY DEF Reached, Similar
<1>2. v \in Network /\ SameBut(v, w, p, {})
  BY <1>1, WriteNet
<1> HIDE DEF v
<1>3. Reached(p, n, v)
  BY <1>1, <1>2, ReachedSame
<1> QED
  BY <1>3 DEF v

LEMMA ReachedVariables ==
  ASSUME NEW p \in Addr, NEW n, NEW w, Reached(p, n, w),
         NEW m \in State, Similar(m, n), m.conn = n.conn
  PROVE  Reached(p, m, w)
<1>1. w \in Network /\ SameBut(w, w, p, {})
  BY SameRefl DEF Reached
<1> QED
  BY <1>1, ReachedSame

\* close_connection() of the slots S, which clears the pointers to them.
LEMMA ReachedClose ==
  ASSUME NEW p \in Addr, NEW n, NEW w, Reached(p, n, w), NEW S
  PROVE  /\ Reached(p, Unassign(n, S), Close(w, p, S))
         /\ Unassign(n, S).succ = n.succ
         /\ \A r \in RoleNames : Unassign(n, S).conn[r] = IF n.conn[r] \in S THEN NULL ELSE n.conn[r]
<1> DEFINE m == Unassign(n, S)
           v == Close(w, p, S)
           cs == w.conns[p]
           ds == v.conns[p]
<1>1. n \in State /\ w \in Network
  BY DEF Reached
<1>2. /\ m \in State /\ Similar(m, n)
      /\ \A r \in RoleNames : m.conn[r] = IF n.conn[r] \in S THEN NULL ELSE n.conn[r]
      /\ m.succ = n.succ
  BY <1>1, UnassignState
<1>3. /\ v \in Network /\ SameBut(v, w, p, S)
      /\ \A j \in Slots : j \in S => ~v.conns[p][j].open
  BY <1>1, CloseNet
<1> HIDE DEF m, v
<1>4. SameBut(v, net, p, Slots)
  BY <1>3, SameTrans DEF Reached
<1>5. Alike(ds, cs, S)
  BY <1>3, SameAlike
<1>6. ASSUME Linked(n, cs) PROVE Linked(m, ds)
  <2>1. \A j \in Slots : j \in S => ~ds[j].open
    BY <1>3
  <2> HIDE DEF cs, ds
  <2> QED
    BY <1>1, <1>2, <1>5, <1>6, <2>1, LinkedClose
<1>7. m.conn.new_node \in {n.conn.new_node, NULL}
  BY <1>2 DEF RoleNames
<1>8. Reached(p, m, v)
  BY <1>2, <1>3, <1>4, <1>6, <1>7 DEF Reached, Similar
<1> QED
  BY <1>2, <1>8 DEF m, v

\* The messages of the protocol.
LEMMA MessageFacts ==
  ASSUME NEW id \in NodeID, NEW addr \in Addr \cup {NO_ADDR}
  PROVE  /\ EntryMsg(id, addr) \in Lines /\ PredMsg(id) \in Lines
         /\ ChordMsg(id) \in Lines /\ RouteMsg(id) \in Lines
         /\ Message("SUCC", id, addr) \in Lines
  BY DEF EntryMsg, PredMsg, ChordMsg, RouteMsg, Message, Lines, Sendable

LEMMA SuccFacts ==
  ASSUME NEW d \in Node
  PROVE  d.id \in NodeID /\ d.addr \in Addr \cup {NO_ADDR} /\ SuccMsg(d) \in Lines
<1>1. d.id \in NodeID /\ d.addr \in Addr \cup {NO_ADDR}
  BY DEF Node
<1> QED
  BY <1>1, MessageFacts DEF SuccMsg

LEMMA LineSeqs ==
  \A x, y \in Lines : <<x>> \in Seq(Lines) /\ <<x, y>> \in Seq(Lines)
  OBVIOUS

\* remove_neighbor_connection()
LEMMA ReachedPrune ==
  ASSUME NEW p \in Addr, NEW n, NEW w, Reached(p, n, w), NEW cs, NEW id
  PROVE  Reached(p, Prune(n, cs, id), w) /\ Prune(n, cs, id).conn = n.conn
<1>1. n \in State
  BY DEF Reached
<1>2. /\ Prune(n, cs, id) \in State /\ Similar(Prune(n, cs, id), n)
      /\ Prune(n, cs, id).conn = n.conn
  BY <1>1, PruneState
<1> QED
  BY <1>2, ReachedVariables

\* connect_to_node() on a free slot, and the role r for it.
LEMMA ReachedConnect ==
  ASSUME NEW p \in Addr, NEW n, NEW w, Reached(p, n, w), NEW d \in Node, NEW up,
         NEW r \in {"pred", "succ", "chord"}, NEW m \in State, Similar(m, n),
         NEW i, i = FreeSlot(w.conns[p]), m.conn[r] = i \/ m.conn[r] = NULL,
         \A s \in RoleNames : s # r => m.conn[s] = n.conn[s]
  PROVE  Reached(p, m, Connect(w, p, i, d, up))
<1> DEFINE v == Connect(w, p, i, d, up)
           cs == w.conns[p]
           ds == v.conns[p]
<1>1. n \in State /\ w \in Network
  BY DEF Reached
<1>2. cs \in [Slots -> Slot]
  BY <1>1, NetworkParts
<1>3. i \in Slots \cup {NULL} /\ (i # NULL => i \in Slots /\ ~cs[i].open)
  BY <1>2, FreeSlotFacts
<1>4. /\ v \in Network /\ SameBut(v, w, p, {i})
      /\ i \in Slots => v.conns[p][i].open /\ v.conns[p][i].node_id = d.id
  BY <1>1, <1>3, ConnectNet
<1>5. i # NULL => ds[i].open /\ ds[i].node_id # NO_NODE_ID
  BY <1>3, <1>4 DEF Node, NodeID
<1> HIDE DEF v
<1>6. SameBut(v, net, p, Slots)
  BY <1>4, SameTrans DEF Reached
<1>7. Alike(ds, cs, {i})
  BY <1>4, SameAlike
<1>8. ASSUME Linked(n, cs) PROVE Linked(m, ds)
  <2>1. i # NULL => ~cs[i].open /\ ds[i].open /\ ds[i].node_id # NO_NODE_ID
    BY <1>3, <1>5
  <2> DEFINE S == {i}
  <2>2. Alike(ds, cs, S) /\ S = {i}
    BY <1>7
  <2> HIDE DEF cs, ds, S
  <2> QED
    BY <1>1, <1>3, <1>8, <2>1, <2>2, LinkedOpen, Zenon
<1>9. m.conn.new_node = n.conn.new_node
  BY DEF RoleNames
<1>10. Reached(p, m, v)
  BY <1>4, <1>6, <1>8, <1>9 DEF Reached, Similar
<1> QED
  BY <1>10 DEF v

-----------------------------------------------------------------------------
(* The ends of the handlers *)

\* A role pointer is not touched, but for the new node's that may be cleared.
LEMMA RolesKept ==
  ASSUME NEW p \in Addr, node[p] \in State, NEW n, NEW w, Reached(p, n, w),
         Roles(node[p], net.conns[p])
  PROVE  Roles(n, w.conns[p])
<1>1. /\ n \in State /\ Similar(n, node[p]) /\ Linked(n, w.conns[p])
      /\ n.conn.new_node \in {node[p].conn.new_node, NULL}
  BY DEF Reached
<1>2. Outsider(node[p]) /\ node[p].process # "assertion failed: node_id"
  BY DEF Roles
<1>3. Outsider(n)
  BY <1>1, <1>2, OutsiderSame
<1> QED
  BY <1>1, <1>2, <1>3 DEF Roles, Linked, Similar

LEMMA EndBecome ==
  ASSUME Types, NEW p \in Addr, NEW n, NEW w, Reached(p, n, w), Become(p, n, w), UNCHANGED registry
  PROVE  GoodStep(p)
<1>1. node[p] \in State /\ registry \subseteq Node
  BY DEF Types
<1>2. n \in State /\ w \in Network /\ SameBut(w, net, p, Slots)
  BY DEF Reached
<1>3. Roles(node[p], net.conns[p]) => Roles(n, w.conns[p])
  BY <1>1, RolesKept
<1> QED
  BY <1>1, <1>2, <1>3 DEF GoodStep

\* on_join_end()
LEMMA EndEndJoin ==
  ASSUME Types, NEW p \in Addr, NEW n, NEW w, Reached(p, n, w), EndJoin(p, n, w),
         n.process = "running", n.input_state # "JOIN_NODE_SELECTION" \/ n.connection_state = "CONNECTING"
  PROVE  GoodStep(p)
<1> DEFINE m == [n EXCEPT !.connection_state = "CONNECTED"]
<1>1. node[p] \in State /\ registry \subseteq Node
  BY DEF Types
<1>2. n \in State /\ w \in Network /\ SameBut(w, net, p, Slots)
  BY DEF Reached
<1>3. /\ m \in State /\ m.conn = n.conn /\ m.connection_state = "CONNECTED"
      /\ m.process = n.process /\ m.input_state = n.input_state
  BY <1>2 DEF State
<1>4. Become(p, m, w) /\ registry' \subseteq Node
  <2>1. Myself(p, n) \in Node
    BY <1>2 DEF Myself, Node, State
  <2> QED
    BY <1>1, <2>1 DEF EndJoin
<1> HIDE DEF m
<1>5. ASSUME Roles(node[p], net.conns[p]) PROVE Roles(m, w.conns[p])
  <2>1. Roles(n, w.conns[p])
    BY <1>1, <1>5, RolesKept
  <2>2. Pointers(m, w.conns[p]) /\ Identified(m, w.conns[p])
    BY <1>3, <2>1 DEF Roles, Pointers, Identified
  <2>3. Outsider(m)
    BY <1>3, <2>1 DEF Roles, Outsider, InRing
  <2> QED
    BY <1>3, <2>2, <2>3 DEF Roles
<1> QED
  BY <1>2, <1>3, <1>4, <1>5 DEF GoodStep

\* leave_ring()
LEMMA EndLeave ==
  ASSUME Types, NEW p \in Addr, NEW n \in State, NEW w \in Network, SameBut(w, net, p, Slots),
         n.process = "running", leave_ring(p, n, w)
  PROVE  GoodStep(p)
<1> DEFINE k == Unassign(n, Slots)
           m == [k EXCEPT !.connection_state = "DISCONNECTED"]
           v == Close(w, p, Slots)
<1>1. Become(p, m, v) /\ registry' \subseteq Node
  BY DEF leave_ring, Types
<1>2. /\ k \in State /\ Similar(k, n)
      /\ \A r \in RoleNames : k.conn[r] = IF n.conn[r] \in Slots THEN NULL ELSE n.conn[r]
  BY UnassignState
<1>3. \A r \in RoleNames : k.conn[r] = NULL
  BY <1>2 DEF State
<1> HIDE DEF k
<1>4. /\ m \in State /\ m.conn = k.conn /\ m.connection_state = "DISCONNECTED"
      /\ m.process = "running"
  BY <1>2 DEF State, Similar
<1>5. v \in Network /\ SameBut(v, w, p, Slots) /\ \A j \in Slots : ~v.conns[p][j].open
  BY CloseNet
<1> HIDE DEF m, v
<1>6. SameBut(v, net, p, Slots)
  BY <1>5, SameTrans
<1>7. Linked(m, v.conns[p])
  BY <1>3, <1>4, <1>5, LinkedNone
<1>8. Outsider(m)
  BY <1>3, <1>4 DEF Outsider, InRing, RoleNames
<1> QED
  BY <1>1, <1>4, <1>5, <1>6, <1>7, <1>8 DEF GoodStep, Roles, Linked

\* error(), or a dereference of a null pointer
LEMMA EndDie ==
  ASSUME Types, NEW p \in Addr, NEW w \in Network, SameBut(w, net, p, Slots),
         NEW why \in {"exited", "assertion failed: pred_conn", "null pred_conn",
                      "assertion failed: node_id", "no space in the routing tables"},
         why = "assertion failed: node_id" => ~Roles(node[p], net.conns[p]),
         Die(p, why, w)
  PROVE  GoodStep(p)
<1> DEFINE m == [FreshNode EXCEPT !.process = why]
           v == Terminate(w, p)
<1>1. Become(p, m, v) /\ registry' \subseteq Node
  BY DEF Die, Types
<1>2. FreshNode \in State
  BY FreshFacts
<1>3. /\ m \in State /\ m.conn = NoRoles /\ m.connection_state = "DISCONNECTED"
      /\ m.process = why
  BY <1>2 DEF State, FreshNode
<1>4. v \in Network /\ SameBut(v, w, p, Slots) /\ \A j \in Slots : ~v.conns[p][j].open
  BY TerminateNet
<1> HIDE DEF m, v
<1>5. SameBut(v, net, p, Slots)
  BY <1>4, SameTrans
<1>6. \A r \in RoleNames : m.conn[r] = NULL
  BY <1>3, FreshFacts
<1>7. Linked(m, v.conns[p])
  BY <1>3, <1>4, <1>6, LinkedNone
<1>8. Outsider(m)
  BY <1>3, <1>6 DEF Outsider, InRing, RoleNames
<1> QED
  BY <1>1, <1>3, <1>4, <1>5, <1>7, <1>8 DEF GoodStep, Roles, Linked

\* close_connection(), with or without removing the neighbor
LEMMA EndDrop ==
  ASSUME Types, NEW p \in Addr, NEW n, NEW w, Reached(p, n, w), NEW i,
         Drop(p, n, w, i) \/ DropNeighbor(p, n, w, i)
  PROVE  GoodStep(p)
<1> DEFINE v == Close(w, p, {i})
           k == Unassign(n, {i})
           id == w.conns[p][i].node_id
<1>1. Reached(p, k, v)
  BY ReachedClose
<1>2. Reached(p, Prune(k, v.conns[p], id), v)
  BY <1>1, ReachedPrune
<1>3. \/ Become(p, k, v) /\ UNCHANGED registry
      \/ Become(p, Prune(k, v.conns[p], id), v) /\ UNCHANGED registry
  BY DEF Drop, DropNeighbor
<1> HIDE DEF v, k
<1> QED
  BY <1>1, <1>2, <1>3, EndBecome

\* join_ring()
LEMMA EndJoinRing ==
  ASSUME Types, NEW p \in Addr, NEW n \in State, n.conn = node[p].conn,
         n.process = "running", n.input_state = "COMMAND", join_ring(p, n, net),
         Roles(node[p], net.conns[p]) /\ NoJoinOverNewNode => node[p].conn.new_node = NULL
  PROVE  GoodStep(p)
<1> DEFINE i == FreeSlot(net.conns[p])
           up == Listening(n.succ.addr)
           c == [NoRoles EXCEPT !.succ = IF up THEN i ELSE NULL]
           m == [InitRouting(n) EXCEPT !.connection_state = "CONNECTING",
                   !.awaiting_succ = TRUE, !.awaiting_pred = TRUE, !.conn = c]
           v == Connect(net, p, i, n.succ, up)
           ms == <<EntryMsg(n.self, p), RouteMsg(n.self)>>
           u == Write(v, p, i, ms)
           cs == net.conns[p]
<1>1. \/ up /\ Become(p, ArmTimer(m), u) /\ UNCHANGED registry
      \/ ~up /\ leave_ring(p, m, v)
  BY DEF join_ring
<1>2. /\ net \in Network /\ node[p] \in State /\ registry \subseteq Node
      /\ net.conns \in [Addr -> [Slots -> Slot]] /\ n.succ \in Node /\ n.self \in NodeID
  BY NetworkParts DEF Types, State
<1>3. i \in Slots \cup {NULL} /\ (i # NULL => i \in Slots /\ ~cs[i].open)
  BY <1>2, FreeSlotFacts
<1>4. /\ v \in Network /\ SameBut(v, net, p, {i})
      /\ i \in Slots => v.conns[p][i].open /\ v.conns[p][i].node_id = n.succ.id
  <2> DEFINE d == n.succ
  <2>1. v = Connect(net, p, i, d, up) /\ d \in Node
    BY <1>2
  <2> HIDE DEF i, up, v, d
  <2>2. /\ v \in Network /\ SameBut(v, net, p, {i})
        /\ i \in Slots => v.conns[p][i].open /\ v.conns[p][i].node_id = d.id
    <3>1. net \in Network /\ i \in Slots \cup {NULL} /\ d \in Node /\ p \in Addr
      BY <1>2, <1>3, <2>1
    <3>2. v = Connect(net, p, i, d, up)
      BY <2>1
    <3> QED
      BY ONLY <3>1, <3>2, ConnectNet
  <2> QED
    BY <2>2 DEF d
<1>5. ms \in Seq(Lines)
  BY <1>2, MessageFacts, LineSeqs
<1>6. u \in Network /\ SameBut(u, v, p, {})
  <2> HIDE DEF v, ms
  <2> QED
    BY <1>4, <1>5, WriteNet
<1>7. SameBut(v, net, p, Slots) /\ SameBut(u, net, p, Slots)
  BY <1>4, <1>6, SameTrans, SameRefl
<1>8. /\ c \in [RoleNames -> Slots \cup {NULL}]
      /\ \A r \in RoleNames : r # "succ" => c[r] = NULL
      /\ c["succ"] = i \/ c["succ"] = NULL
  <2> HIDE DEF i, up
  <2> QED
    BY <1>3, FreshFacts DEF RoleNames
<1> HIDE DEF c, u, v, i, ms
<1>9. /\ m \in State /\ m.conn = c /\ m.process = "running" /\ m.input_state = "COMMAND"
      /\ m.connection_state = "CONNECTING"
  BY <1>8 DEF State, InitRouting
<1> HIDE DEF m
<1>10. CASE up
  <2> DEFINE k == ArmTimer(m)
             es == u.conns[p]
  <2>1. Become(p, k, u) /\ UNCHANGED registry
    BY <1>1, <1>10
  <2>2. /\ k \in State /\ k.conn = c /\ k.process = "running" /\ k.input_state = "COMMAND"
        /\ k.connection_state = "CONNECTING"
    BY <1>9 DEF State, ArmTimer
  <2> HIDE DEF k, up
  <2>3. ASSUME Roles(node[p], cs) /\ NoJoinOverNewNode PROVE Roles(k, es)
    <3> DEFINE b == [n EXCEPT !.conn = NoRoles]
               S == {i}
    <3>1. Linked(node[p], cs) /\ node[p].conn.new_node = NULL
      BY <2>3 DEF Roles, Linked
    <3>2. b \in State /\ \A r \in RoleNames : b.conn[r] = NULL
      BY FreshFacts DEF State
    <3> HIDE DEF b
    <3>3. Linked(b, cs)
      <4> HIDE DEF cs
      <4> QED
        BY <1>2, <3>1, <3>2, LinkedForget
    <3>4. i # NULL => ~cs[i].open /\ es[i].open /\ es[i].node_id # NO_NODE_ID
      BY <1>2, <1>3, <1>4, <1>6 DEF SameBut, SameSlot, Node, NodeID
    <3>5. Alike(es, cs, S) /\ S = {i}
      BY <1>4, <1>6 DEF SameBut, SameSlot, Alike
    <3>6. /\ \A r \in RoleNames : r # "succ" => k.conn[r] = b.conn[r]
          /\ k.conn["succ"] = i \/ k.conn["succ"] = NULL
      BY <1>8, <2>2, <3>2
    <3> HIDE DEF S, cs, es
    <3>7. Linked(k, es)
      BY <1>3, <2>2, <3>2, <3>3, <3>4, <3>5, <3>6, LinkedOpen
    <3>8. Outsider(k)
      BY <2>2 DEF Outsider, InRing
    <3> QED
      BY <2>2, <3>7, <3>8 DEF Roles, Linked
  <2> QED
    BY <1>2, <1>6, <1>7, <2>1, <2>2, <2>3 DEF GoodStep
<1>11. CASE ~up
  BY <1>1, <1>4, <1>7, <1>9, <1>11, EndLeave
<1> QED
  BY <1>10, <1>11

-----------------------------------------------------------------------------
(* User commands *)

\* The search for an ID finds one.
LEMMA LowestUnusedFacts ==
  ASSUME NEW used, NodeID \ used # {}
  PROVE  LowestUnused(used) \in NodeID
<1> DEFINE T == NodeID \ used
<1>1. T \subseteq Nat /\ T # {}
  BY DEF NodeID
<1>2. \E m \in T : \A k \in T : m <= k
  <2> HIDE DEF T
  <2> QED
    BY <1>1, LeastElement
<1> QED
  BY <1>2 DEF LowestUnused

LEMMA JoinRefusedStep ==
  ASSUME Types, NEW p \in Addr, NEW own \in NodeID, JoinRefused(p, own)
  PROVE  GoodStep(p)
<1> DEFINE m == JoinArguments(p, own)
<1>1. Reached(p, node[p], net)
  BY ReachedStart
<1>2. m \in State /\ Similar(m, node[p]) /\ m.conn = node[p].conn
  <2>1. node[p] \in State
    BY DEF Types
  <2> QED
    BY <2>1 DEF JoinArguments, State, Similar
<1>3. Become(p, m, net) /\ UNCHANGED registry
  BY DEF JoinRefused
<1> HIDE DEF m
<1>4. Reached(p, m, net)
  BY <1>1, <1>2, ReachedVariables
<1> QED
  BY <1>3, <1>4, EndBecome

LEMMA JoinAloneStep ==
  ASSUME Types, NEW p \in Addr, NEW own \in NodeID, JoinAlone(p, own)
  PROVE  GoodStep(p)
<1> DEFINE n == JoinArguments(p, own)
           m == [InitRouting(n) EXCEPT !.succ = Myself(p, n), !.second_succ = Myself(p, n)]
<1>1. Reached(p, node[p], net)
  BY ReachedStart
<1>2. /\ node[p].process = "running" /\ node[p].input_state = "COMMAND"
      /\ EndJoin(p, m, net)
  BY DEF JoinAlone, Command
<1>3. n \in State /\ Similar(n, node[p]) /\ n.conn = node[p].conn
  <2>1. node[p] \in State
    BY DEF Types
  <2> QED
    BY <2>1 DEF JoinArguments, State, Similar
<1> HIDE DEF n
<1>4. m \in State /\ Similar(m, node[p]) /\ m.conn = node[p].conn
  <2>1. Myself(p, n) \in Node
    BY <1>3 DEF Myself, Node, State
  <2> QED
    BY <1>3, <2>1 DEF InitRouting, State, Similar
<1> HIDE DEF m
<1>5. Reached(p, m, net)
  BY <1>1, <1>4, ReachedVariables
<1> QED
  BY <1>2, <1>4, <1>5, EndEndJoin DEF Similar

LEMMA JoinAskStep ==
  ASSUME Types, NEW p \in Addr, NEW own \in NodeID, JoinAsk(p, own)
  PROVE  GoodStep(p)
<1> DEFINE n == JoinArguments(p, own)
           used == {d.id : d \in registry}
           id == IF n.self \in used THEN LowestUnused(used) ELSE n.self
           m == [n EXCEPT !.self = id, !.node_arr = registry,
                          !.connection_state = "AWAITING_USER_SELECTION",
                          !.input_state = "JOIN_NODE_SELECTION"]
<1>1. node[p] \in State /\ net \in Network /\ registry \subseteq Node
  BY DEF Types
<1>2. /\ node[p].process = "running" /\ n.connection_state = "DISCONNECTED"
      /\ NodeID \ used # {} /\ Become(p, m, net) /\ UNCHANGED registry
  BY DEF JoinAsk, Command
<1>3. n \in State /\ Similar(n, node[p]) /\ n.conn = node[p].conn
  BY <1>1 DEF JoinArguments, State, Similar
<1>4. id \in NodeID
  <2>1. n.self \in NodeID
    BY <1>3 DEF State
  <2> HIDE DEF n, used
  <2> QED
    BY <1>2, <2>1, LowestUnusedFacts
<1> HIDE DEF n, id
<1>5. /\ m \in State /\ m.conn = node[p].conn /\ m.process = "running"
      /\ m.connection_state = "AWAITING_USER_SELECTION"
  BY <1>1, <1>2, <1>3, <1>4 DEF State, Similar
<1> HIDE DEF m
<1>6. ASSUME Roles(node[p], net.conns[p]) PROVE Roles(m, net.conns[p])
  <2>1. ~InRing(node[p]) /\ node[p].conn.new_node = NULL
    BY <1>2, <1>3, <1>6 DEF Roles, Outsider, InRing, Similar
  <2>2. Outsider(m)
    BY <1>5, <2>1 DEF Outsider, InRing
  <2> QED
    BY <1>5, <1>6, <2>2 DEF Roles, Pointers, Identified
<1>7. SameBut(net, net, p, Slots)
  BY SameRefl
<1> QED
  BY <1>1, <1>2, <1>5, <1>6, <1>7 DEF GoodStep

LEMMA JoinSelectStep ==
  ASSUME Types, NEW p \in Addr, NEW d, JoinSelect(p, d)
  PROVE  GoodStep(p)
<1> DEFINE n == [node[p] EXCEPT !.succ = d, !.input_state = "COMMAND", !.node_arr = {}]
<1>1. /\ node[p].process = "running" /\ node[p].input_state = "JOIN_NODE_SELECTION"
      /\ d \in node[p].node_arr /\ join_ring(p, n, net)
  BY DEF JoinSelect
<1>2. /\ n \in State /\ n.conn = node[p].conn /\ n.process = "running"
      /\ n.input_state = "COMMAND"
  <2>1. node[p] \in State /\ d \in Node
    BY <1>1 DEF Types, State
  <2> QED
    BY <1>1, <2>1 DEF State
<1>3. Roles(node[p], net.conns[p]) => node[p].conn.new_node = NULL
  BY <1>1 DEF Roles, Outsider
<1> HIDE DEF n
<1> QED
  BY <1>1, <1>2, <1>3, EndJoinRing

LEMMA DirectJoinStep ==
  ASSUME Types, NEW p \in Addr, NEW own \in NodeID, NEW d \in Node, DirectJoin(p, own, d)
  PROVE  GoodStep(p)
<1> DEFINE n == [node[p] EXCEPT !.self = own, !.succ = d, !.ring = FALSE]
<1>1. /\ node[p].process = "running" /\ node[p].input_state = "COMMAND"
      /\ join_ring(p, n, net)
  BY DEF DirectJoin, Command
<1>2. /\ n \in State /\ n.conn = node[p].conn /\ n.process = "running"
      /\ n.input_state = "COMMAND"
  <2>1. node[p] \in State
    BY DEF Types
  <2> QED
    BY <1>1, <2>1 DEF State
<1>3. NoJoinOverNewNode => node[p].conn.new_node = NULL
  BY DEF NoJoinOverNewNode
<1> HIDE DEF n
<1> QED
  BY <1>1, <1>2, <1>3, EndJoinRing

LEMMA DirectJoinAloneStep ==
  ASSUME Types, NEW p \in Addr, NEW own \in NodeID, DirectJoinAlone(p, own)
  PROVE  GoodStep(p)
<1> DEFINE me == [id |-> own, addr |-> p]
           m == [node[p] EXCEPT !.self = own, !.succ = me, !.second_succ = me,
                   !.ring = FALSE, !.connection_state = "CONNECTED",
                   !.awaiting_pred = FALSE, !.awaiting_succ = FALSE]
<1>1. node[p] \in State /\ net \in Network /\ registry \subseteq Node
  BY DEF Types
<1>2. /\ node[p].process = "running" /\ node[p].input_state = "COMMAND"
      /\ Become(p, m, net) /\ UNCHANGED registry
  BY DEF DirectJoinAlone, Command
<1>3. me \in Node
  BY DEF Node
<1> HIDE DEF me
<1>4. /\ m \in State /\ m.conn = node[p].conn /\ m.process = "running"
      /\ m.connection_state = "CONNECTED" /\ m.input_state = "COMMAND"
  BY <1>1, <1>2, <1>3 DEF State
<1> HIDE DEF m
<1>5. ASSUME Roles(node[p], net.conns[p]) PROVE Roles(m, net.conns[p])
  <2>1. Outsider(m)
    BY <1>4 DEF Outsider, InRing
  <2> QED
    BY <1>4, <1>5, <2>1 DEF Roles, Pointers, Identified
<1>6. SameBut(net, net, p, Slots)
  BY SameRefl
<1> QED
  BY <1>1, <1>2, <1>4, <1>5, <1>6 DEF GoodStep

LEMMA LeaveStep ==
  ASSUME Types, NEW p \in Addr, Leave(p)
  PROVE  GoodStep(p)
<1>1. /\ node[p] \in State /\ net \in Network /\ node[p].process = "running"
      /\ leave_ring(p, node[p], net)
  BY DEF Leave, Command, Types
<1>2. SameBut(net, net, p, Slots)
  BY SameRefl
<1> QED
  BY <1>1, <1>2, EndLeave

LEMMA TimeoutStep ==
  ASSUME Types, NEW p \in Addr, Timeout(p)
  PROVE  GoodStep(p)
<1> DEFINE n == [node[p] EXCEPT !.timer = FALSE]
<1>1. node[p] \in State /\ net \in Network
  BY DEF Types
<1>2. leave_ring(p, n, net) /\ node[p].process = "running"
  BY DEF Timeout
<1>3. n \in State /\ n.process = "running"
  BY <1>1, <1>2 DEF State
<1>4. SameBut(net, net, p, Slots)
  BY SameRefl
<1> HIDE DEF n
<1> QED
  BY <1>1, <1>2, <1>3, <1>4, EndLeave

LEMMA ChordAskStep ==
  ASSUME Types, NEW p \in Addr, ChordAsk(p)
  PROVE  GoodStep(p)
<1> DEFINE offered == {d \in registry : /\ d.id # node[p].self
                                        /\ find_connection_by_node_id(net.conns[p], d.id) = NULL}
           m == [node[p] EXCEPT !.node_arr = offered, !.input_state = "CHORD_NODE_SELECTION"]
<1>1. node[p] \in State /\ net \in Network /\ registry \subseteq Node
  BY DEF Types
<1>2. /\ node[p].process = "running" /\ node[p].connection_state = "CONNECTED"
      /\ Become(p, m, net) /\ UNCHANGED registry
  BY DEF ChordAsk, Command
<1>3. offered \subseteq Node
  BY <1>1
<1> HIDE DEF offered
<1>4. /\ m \in State /\ m.conn = node[p].conn /\ m.process = "running"
      /\ m.connection_state = "CONNECTED" /\ m.input_state = "CHORD_NODE_SELECTION"
  BY <1>1, <1>2, <1>3 DEF State
<1> HIDE DEF m
<1>5. ASSUME Roles(node[p], net.conns[p]) PROVE Roles(m, net.conns[p])
  <2>1. Outsider(m)
    BY <1>4 DEF Outsider, InRing
  <2> QED
    BY <1>4, <1>5, <2>1 DEF Roles, Pointers, Identified
<1>6. SameBut(net, net, p, Slots)
  BY SameRefl
<1> QED
  BY <1>1, <1>2, <1>4, <1>5, <1>6 DEF GoodStep

LEMMA ChordSelectStep ==
  ASSUME Types, NEW p \in Addr, NEW d, ChordSelect(p, d)
  PROVE  GoodStep(p)
<1> DEFINE n == node[p]
           i == FreeSlot(net.conns[p])
           up == Listening(d.addr)
           v == Connect(net, p, i, d, up)
           m == [n EXCEPT !.input_state = "COMMAND", !.node_arr = {},
                          !.conn.chord = IF up THEN i ELSE NULL]
           ms == <<ChordMsg(n.self), RouteMsg(n.self)>>
           u == IF up THEN Write(v, p, i, ms) ELSE v
<1>1. /\ n.process = "running" /\ n.input_state = "CHORD_NODE_SELECTION"
      /\ d \in n.node_arr /\ Become(p, m, u) /\ UNCHANGED registry
  BY DEF ChordSelect
<1>2. n \in State /\ net \in Network /\ d \in Node /\ n.self \in NodeID /\ registry \subseteq Node
  BY <1>1 DEF Types, State
<1>3. net.conns[p] \in [Slots -> Slot]
  BY <1>2, NetworkParts
<1>4. i \in Slots \cup {NULL} /\ (i # NULL => i \in Slots /\ ~net.conns[p][i].open)
  BY <1>3, FreeSlotFacts
<1>5. ms \in Seq(Lines)
  BY <1>2, MessageFacts, LineSeqs
<1> HIDE DEF ms
<1>6. /\ m \in State /\ m.process = n.process /\ m.connection_state = n.connection_state
      /\ m.input_state = "COMMAND"
      /\ m.conn["chord"] = i \/ m.conn["chord"] = NULL
      /\ \A s \in RoleNames : s # "chord" => m.conn[s] = n.conn[s]
  <2> DEFINE x == IF up THEN i ELSE NULL
             c == [n.conn EXCEPT !.chord = x]
  <2>1. x \in Slots \cup {NULL} /\ (x = i \/ x = NULL)
    BY <1>4
  <2>2. m = [n EXCEPT !.input_state = "COMMAND", !.node_arr = {}, !.conn = c]
    OBVIOUS
  <2>3. n.conn \in [RoleNames -> Slots \cup {NULL}]
    BY <1>2 DEF State
  <2> HIDE DEF x, i, n
  <2>4. /\ c \in [RoleNames -> Slots \cup {NULL}] /\ c["chord"] = x
        /\ \A s \in RoleNames : s # "chord" => c[s] = n.conn[s]
    BY <2>1, <2>3 DEF RoleNames
  <2> HIDE DEF c, m
  <2> QED
    BY <1>2, <2>1, <2>2, <2>4 DEF State
<1> HIDE DEF m
<1>7. /\ v \in Network /\ SameBut(v, net, p, {i})
      /\ i \in Slots => v.conns[p][i].open /\ v.conns[p][i].node_id = d.id
  <2>1. v = Connect(net, p, i, d, up)
    OBVIOUS
  <2> HIDE DEF v, i, up
  <2> QED
    BY ONLY <1>2, <1>4, <2>1, p \in Addr, ConnectNet
<1> HIDE DEF v, i, up
<1>8. u \in Network /\ SameBut(u, v, p, {})
  <2>1. CASE up
    BY <1>5, <1>7, <2>1, WriteNet
  <2>2. CASE ~up
    BY <1>7, <2>2, SameRefl
  <2> QED
    BY <2>1, <2>2
<1> HIDE DEF u
<1>9. SameBut(u, net, p, Slots)
  BY <1>7, <1>8, SameTrans
<1>10. ASSUME Roles(n, net.conns[p]) PROVE Roles(m, u.conns[p])
  <2> DEFINE cs == net.conns[p]
             es == u.conns[p]
             S == {i}
  <2>1. Linked(n, cs) /\ Outsider(n)
    BY <1>10 DEF Roles, Linked
  <2>2. i # NULL => ~cs[i].open /\ es[i].open /\ es[i].node_id # NO_NODE_ID
    BY <1>2, <1>4, <1>7, <1>8 DEF SameBut, SameSlot, Node, NodeID
  <2>3. Alike(es, cs, S) /\ S = {i}
    BY <1>7, <1>8 DEF SameBut, SameSlot, Alike
  <2> HIDE DEF S, cs, es, n
  <2>4. Linked(m, es)
    BY <1>2, <1>4, <1>6, <2>1, <2>2, <2>3, LinkedOpen
  <2>5. m.conn.new_node = n.conn.new_node
    BY <1>6 DEF RoleNames
  <2>6. Outsider(m)
    BY <1>1, <1>6, <2>1, <2>5 DEF Outsider, InRing
  <2> QED
    BY <1>1, <1>6, <2>4, <2>6 DEF Roles, Linked, es
<1> QED
  BY <1>1, <1>2, <1>6, <1>8, <1>9, <1>10 DEF GoodStep

LEMMA SelectionCancelledStep ==
  ASSUME Types, NEW p \in Addr, SelectionCancelled(p)
  PROVE  GoodStep(p)
<1> DEFINE n == node[p]
           x == IF n.input_state = "JOIN_NODE_SELECTION" THEN "DISCONNECTED" ELSE n.connection_state
           m == [n EXCEPT !.input_state = "COMMAND", !.node_arr = {}, !.connection_state = x]
<1>1. n \in State /\ net \in Network /\ registry \subseteq Node
  BY DEF Types
<1>2. n.process = "running" /\ Become(p, m, net) /\ UNCHANGED registry
  BY DEF SelectionCancelled
<1>3. x \in {"DISCONNECTED", "AWAITING_USER_SELECTION", "CONNECTING", "CONNECTED"}
  BY <1>1 DEF State
<1> HIDE DEF x
<1>4. /\ m \in State /\ m.conn = n.conn /\ m.process = "running"
      /\ m.connection_state = x /\ m.input_state = "COMMAND"
  BY <1>1, <1>2, <1>3 DEF State
<1> HIDE DEF m
<1>5. ASSUME Roles(n, net.conns[p]) PROVE Roles(m, net.conns[p])
  <2>1. Outsider(m)
    BY <1>4, <1>5 DEF Roles, Outsider, InRing, x
  <2> QED
    BY <1>4, <1>5, <2>1 DEF Roles, Pointers, Identified
<1>6. SameBut(net, net, p, Slots)
  BY SameRefl
<1> QED
  BY <1>1, <1>2, <1>4, <1>5, <1>6 DEF GoodStep

LEMMA RemoveChordStep ==
  ASSUME Types, NEW p \in Addr, RemoveChord(p)
  PROVE  GoodStep(p)
<1> DEFINE i == node[p].conn.chord
           v == Close(net, p, {i})
           k == Unassign(node[p], {i})
           id == net.conns[p][i].node_id
<1>1. Reached(p, k, v)
  BY ReachedStart, ReachedClose
<1>2. Become(p, Prune(k, v.conns[p], id), v) /\ UNCHANGED registry
  BY DEF RemoveChord
<1> HIDE DEF v, k
<1>3. Reached(p, Prune(k, v.conns[p], id), v)
  BY <1>1, ReachedPrune
<1> QED
  BY <1>2, <1>3, EndBecome

LEMMA ExitStep ==
  ASSUME Types, NEW p \in Addr, Exit(p)
  PROVE  GoodStep(p)
<1>1. net \in Network /\ Die(p, "exited", net)
  BY DEF Exit, Types
<1>2. SameBut(net, net, p, Slots)
  BY SameRefl
<1> QED
  BY <1>1, <1>2, EndDie

LEMMA StartStep ==
  ASSUME Types, NEW p \in Addr, Start(p)
  PROVE  GoodStep(p)
<1>1. node[p] \in State /\ net \in Network /\ registry \subseteq Node
  BY DEF Types
<1>2. node[p].process # "running" /\ Become(p, FreshNode, net) /\ UNCHANGED registry
  BY DEF Start
<1>3. /\ FreshNode \in State /\ \A r \in RoleNames : FreshNode.conn[r] = NULL
      /\ FreshNode.process = "running" /\ FreshNode.connection_state = "DISCONNECTED"
  BY FreshFacts DEF FreshNode
<1>4. ASSUME Roles(node[p], net.conns[p]) PROVE Roles(FreshNode, net.conns[p])
  <2>1. node[p].conn.new_node = NULL /\ Linked(node[p], net.conns[p])
    BY <1>2, <1>4 DEF Roles, Outsider, Linked
  <2>2. Linked(FreshNode, net.conns[p])
    BY <1>1, <1>3, <2>1, LinkedForget
  <2>3. Outsider(FreshNode)
    BY <1>3 DEF Outsider, InRing, RoleNames
  <2> QED
    BY <1>3, <2>2, <2>3 DEF Roles, Linked
<1>5. SameBut(net, net, p, Slots)
  BY SameRefl
<1> QED
  BY <1>1, <1>2, <1>3, <1>4, <1>5 DEF GoodStep

-----------------------------------------------------------------------------
(* Connections to the public socket *)

LEMMA AcceptNodeStep ==
  ASSUME Types, NEW p \in Addr, AcceptNode(p)
  PROVE  GoodStep(p)
<1> DEFINE n == node[p]
           i == FreeSlot(net.conns[p])
           m == [n EXCEPT !.conn.new_node = i]
           v == Accept(net, p, i)
           c == [n.conn EXCEPT !.new_node = i]
<1>1. /\ n.process = "running" /\ net.backlog[p] # <<>> /\ InRing(n) /\ n.conn.new_node = NULL
      /\ Become(p, m, v) /\ UNCHANGED registry
  BY DEF AcceptNode, Pending
<1>2. /\ n \in State /\ net \in Network /\ registry \subseteq Node
      /\ n.conn \in [RoleNames -> Slots \cup {NULL}]
  BY DEF Types, State
<1>3. net.conns[p] \in [Slots -> Slot]
  BY <1>2, NetworkParts
<1>4. i \in Slots \cup {NULL} /\ (i # NULL => i \in Slots /\ ~net.conns[p][i].open)
  BY <1>3, FreeSlotFacts
<1>5. m = [n EXCEPT !.conn = c]
  OBVIOUS
<1>6. /\ c \in [RoleNames -> Slots \cup {NULL}] /\ c["new_node"] = i
      /\ \A s \in RoleNames : s # "new_node" => c[s] = n.conn[s]
  <2> HIDE DEF i, n
  <2> QED
    BY <1>2, <1>4 DEF RoleNames
<1> HIDE DEF c, m
<1>7. m \in State /\ m.conn = c /\ Similar(m, n)
  BY <1>2, <1>5, <1>6 DEF State, Similar
<1>8. /\ v \in Network /\ SameBut(v, net, p, {i})
      /\ i \in Slots => v.conns[p][i].open /\ v.conns[p][i].node_id = NO_NODE_ID
  <2>1. v = Accept(net, p, i)
    OBVIOUS
  <2> HIDE DEF v, i
  <2> QED
    BY ONLY <1>1, <1>2, <1>4, <2>1, p \in Addr, AcceptNet
<1> HIDE DEF v, i
<1>9. SameBut(v, net, p, Slots)
  BY <1>8, SameTrans, SameRefl
<1>10. ASSUME Roles(n, net.conns[p]) PROVE Roles(m, v.conns[p])
  <2> DEFINE cs == net.conns[p]
             ds == v.conns[p]
             S == {i}
  <2>1. Linked(n, cs) /\ Outsider(n) /\ n.process # "assertion failed: node_id"
    BY <1>10 DEF Roles, Linked
  <2>2. i # NULL => ~cs[i].open /\ ds[i].open /\ ds[i].node_id = NO_NODE_ID
    BY <1>4, <1>8
  <2>3. Alike(ds, cs, S) /\ S = {i}
    BY <1>8, SameAlike
  <2>4. m.conn.new_node = i /\ \A s \in RoleNames : s # "new_node" => m.conn[s] = n.conn[s]
    BY <1>6, <1>7
  <2> HIDE DEF S, cs, ds, n
  <2>5. Linked(m, ds)
    BY <1>1, <1>2, <1>4, <1>7, <2>1, <2>2, <2>3, <2>4, LinkedAccept
  <2>6. Outsider(m)
    BY <1>1, <1>7, <2>1 DEF Outsider, InRing, Similar
  <2> QED
    BY <1>7, <2>1, <2>5, <2>6 DEF Roles, Linked, Similar, ds
<1> QED
  BY <1>1, <1>2, <1>7, <1>8, <1>9, <1>10 DEF GoodStep

LEMMA RefuseNodeStep ==
  ASSUME Types, NEW p \in Addr, RefuseNode(p)
  PROVE  GoodStep(p)
<1> DEFINE v == Refuse(net, p)
<1>1. net.backlog[p] # <<>> /\ Become(p, node[p], v) /\ UNCHANGED registry
  BY DEF RefuseNode, Pending
<1>2. node[p] \in State /\ net \in Network /\ Similar(node[p], node[p])
  BY DEF Types, Similar
<1>3. v \in Network /\ SameBut(v, net, p, {})
  BY <1>1, <1>2, RefuseNet
<1> HIDE DEF v
<1>4. Reached(p, node[p], v)
  BY <1>2, <1>3, ReachedStart, ReachedSame
<1> QED
  BY <1>1, <1>4, EndBecome

-----------------------------------------------------------------------------
(* A line or the end of input of a connection *)

LEMMA RoleFacts ==
  ASSUME NEW n, NEW i
  PROVE  /\ RoleOf(n, i) = "new_node" => i = n.conn.new_node
         /\ RoleOf(n, i) = "chord" => i # n.conn.new_node
<1>1. CASE i = n.conn.new_node
  BY <1>1 DEF RoleOf
<1>2. CASE i # n.conn.new_node /\ i = n.conn.pred
  BY <1>2 DEF RoleOf
<1>3. CASE i \notin {n.conn.new_node, n.conn.pred} /\ i = n.conn.succ
  BY <1>3 DEF RoleOf
<1>4. CASE i \notin {n.conn.new_node, n.conn.pred, n.conn.succ}
  BY <1>4 DEF RoleOf
<1> QED
  BY <1>1, <1>2, <1>3, <1>4

\* A line is read, and every line but the end of input has the ID of a node.
LEMMA ReadingFacts ==
  ASSUME Types, NEW p \in Addr, NEW i \in Slots, NEW roles, NEW types, Reading(p, i, roles, types)
  PROVE  /\ Reached(p, node[p], Rest(p, i))
         /\ node[p] \in State /\ node[p].process = "running"
         /\ net.conns[p][i].open /\ RoleOf(node[p], i) \in roles /\ Line(p, i).type \in types
         /\ "EOF" \notin types =>
              /\ Line(p, i).id \in NodeID /\ Line(p, i).addr \in Addr \cup {NO_ADDR}
              /\ Sender(Line(p, i)) \in Node /\ SuccMsg(Line(p, i)) \in Lines
<1>1. /\ node[p].process = "running" /\ net.conns[p][i].open /\ net.conns[p][i].inbox # <<>>
      /\ RoleOf(node[p], i) \in roles /\ Line(p, i).type \in types
  BY DEF Reading, Line
<1>2. net \in Network /\ node[p] \in State
  BY DEF Types
<1>3. net.conns[p][i] \in Slot
  BY <1>2, NetworkParts
<1>4. net.conns[p][i].inbox \in Seq(Lines)
  BY <1>3, SlotFields
<1>5. Line(p, i) \in Lines
  BY <1>1, <1>4 DEF Line
<1>6. ASSUME "EOF" \notin types
      PROVE  /\ Line(p, i).id \in NodeID /\ Line(p, i).addr \in Addr \cup {NO_ADDR}
             /\ Sender(Line(p, i)) \in Node /\ SuccMsg(Line(p, i)) \in Lines
  <2>1. Line(p, i) # EOF
    BY <1>1, <1>6 DEF EOF
  <2>2. Line(p, i).id \in NodeID /\ Line(p, i).addr \in Addr \cup {NO_ADDR}
    BY <1>5, <2>1 DEF Lines, Sendable
  <2> QED
    BY <2>2, MessageFacts DEF Sender, Node, SuccMsg
<1> DEFINE v == Rest(p, i)
<1>7. v \in Network /\ SameBut(v, net, p, {})
  <2>1. v = Consume(net, p, i)
    BY DEF Rest
  <2> HIDE DEF v
  <2> QED
    BY ONLY <1>1, <1>2, <2>1, p \in Addr, i \in Slots, ConsumeNet
<1> HIDE DEF v
<1>8. Reached(p, node[p], v)
  <2>1. Similar(node[p], node[p])
    BY DEF Similar
  <2> QED
    BY <1>2, <1>7, <2>1, ReachedStart, ReachedSame
<1> QED
  BY <1>1, <1>2, <1>6, <1>8 DEF v

LEMMA EndIgnore ==
  ASSUME Types, NEW p \in Addr, NEW i, Reached(p, node[p], Rest(p, i)), Ignore(p, i)
  PROVE  GoodStep(p)
  BY EndBecome DEF Ignore

LEMMA EndLeaveReached ==
  ASSUME Types, NEW p \in Addr, NEW n, NEW w, Reached(p, n, w), node[p].process = "running",
         leave_ring(p, n, w)
  PROVE  GoodStep(p)
<1>1. n \in State /\ w \in Network /\ SameBut(w, net, p, Slots) /\ n.process = "running"
  BY DEF Reached, Similar
<1> QED
  BY <1>1, EndLeave

\* A handler that finds an assertion violated.
LEMMA EndDieReached ==
  ASSUME Types, NEW p \in Addr, NEW w \in Network, SameBut(w, net, p, Slots),
         NEW why \in {"assertion failed: pred_conn", "null pred_conn",
                      "no space in the routing tables"},
         Die(p, why, w)
  PROVE  GoodStep(p)
  BY EndDie

\* The assertion that a chord is identified.
LEMMA EndDieChord ==
  ASSUME Types, NEW p \in Addr, NEW i \in Slots, Reached(p, node[p], Rest(p, i)),
         net.conns[p][i].open, net.conns[p][i].node_id = NO_NODE_ID, RoleOf(node[p], i) = "chord",
         Die(p, "assertion failed: node_id", Rest(p, i))
  PROVE  GoodStep(p)
<1>1. Rest(p, i) \in Network /\ SameBut(Rest(p, i), net, p, Slots)
  BY DEF Reached
<1>2. i # node[p].conn.new_node
  BY RoleFacts
<1>3. ~Roles(node[p], net.conns[p])
  BY <1>2 DEF Roles, Identified
<1> QED
  BY <1>1, <1>3, EndDie

LEMMA MisplacedStep ==
  ASSUME Types, NEW p \in Addr, NEW i \in Slots, Misplaced(p, i)
  PROVE  GoodStep(p)
<1>1. Reading(p, i, {"pred", "chord"}, {"ENTRY", "SUCC", "PRED", "CHORD"})
  BY DEF Misplaced
<1>2. /\ Reached(p, node[p], Rest(p, i)) /\ node[p].process = "running"
      /\ net.conns[p][i].open
  BY <1>1, ReadingFacts
<1>3. \/ leave_ring(p, node[p], Rest(p, i))
      \/ /\ RoleOf(node[p], i) = "chord" /\ net.conns[p][i].node_id = NO_NODE_ID
         /\ Die(p, "assertion failed: node_id", Rest(p, i))
      \/ Ignore(p, i)
  BY DEF Misplaced
<1> QED
  BY <1>2, <1>3, EndLeaveReached, EndDieChord, EndIgnore

LEMMA NewNodeRouteStep ==
  ASSUME Types, NEW p \in Addr, NEW i \in Slots, NewNodeRoute(p, i)
  PROVE  GoodStep(p)
  BY ReadingFacts, EndIgnore DEF NewNodeRoute

LEMMA NewNodeBrokenStep ==
  ASSUME Types, NEW p \in Addr, NEW i \in Slots, NewNodeBroken(p, i)
  PROVE  GoodStep(p)
  BY ReadingFacts, EndDrop DEF NewNodeBroken

LEMMA ChordBrokenStep ==
  ASSUME Types, NEW p \in Addr, NEW i \in Slots, ChordBroken(p, i)
  PROVE  GoodStep(p)
<1>1. Reading(p, i, {"chord"}, {"EOF"})
  BY DEF ChordBroken
<1>2. /\ Reached(p, node[p], Rest(p, i)) /\ net.conns[p][i].open
      /\ RoleOf(node[p], i) = "chord"
  BY <1>1, ReadingFacts
<1>3. \/ /\ net.conns[p][i].node_id = NO_NODE_ID
         /\ Die(p, "assertion failed: node_id", Rest(p, i))
      \/ DropNeighbor(p, node[p], Rest(p, i), i)
  BY DEF ChordBroken
<1> QED
  BY <1>2, <1>3, EndDieChord, EndDrop

LEMMA RouteStep ==
  ASSUME Types, NEW p \in Addr, NEW i \in Slots, Route(p, i)
  PROVE  GoodStep(p)
<1> DEFINE n == node[p]
           id == net.conns[p][i].node_id
           m == [n EXCEPT !.neighbor_ids = @ \cup {id}]
           w == Rest(p, i)
<1>1. Reading(p, i, {"pred", "succ", "chord"}, {"ROUTE"})
  BY DEF Route
<1>2. Reached(p, n, w) /\ n \in State /\ net.conns[p][i].open /\ Line(p, i).id \in NodeID
  BY <1>1, ReadingFacts
<1>3. \/ /\ id = NO_NODE_ID /\ RoleOf(n, i) = "chord"
         /\ Die(p, "assertion failed: node_id", w)
      \/ Ignore(p, i)
      \/ Die(p, "no space in the routing tables", w)
      \/ Line(p, i).id = id /\ Become(p, m, w) /\ UNCHANGED registry
  BY DEF Route
<1>4. CASE /\ id = NO_NODE_ID /\ RoleOf(n, i) = "chord"
           /\ Die(p, "assertion failed: node_id", w)
  BY <1>2, <1>4, EndDieChord
<1>5. CASE Ignore(p, i)
  BY <1>2, <1>5, EndIgnore
<1>6. CASE Die(p, "no space in the routing tables", w)
  <2>1. w \in Network /\ SameBut(w, net, p, Slots)
    BY <1>2 DEF Reached
  <2> HIDE DEF w
  <2> QED
    BY <1>6, <2>1, EndDieReached
<1>7. CASE Line(p, i).id = id /\ Become(p, m, w) /\ UNCHANGED registry
  <2>1. m \in State /\ Similar(m, n) /\ m.conn = n.conn
    BY <1>2, <1>7 DEF State, Similar
  <2> HIDE DEF m, w, n
  <2>2. Reached(p, m, w)
    BY <1>2, <2>1, ReachedVariables
  <2> QED
    BY <1>7, <2>2, EndBecome
<1> QED
  BY <1>3, <1>4, <1>5, <1>6, <1>7

LEMMA PredBrokenStep ==
  ASSUME Types, NEW p \in Addr, NEW i \in Slots, PredBroken(p, i)
  PROVE  GoodStep(p)
<1> DEFINE n == node[p]
           m == [n EXCEPT !.neighbor_ids = @ \ {net.conns[p][i].node_id}]
           w == Rest(p, i)
<1>1. Reading(p, i, {"pred"}, {"EOF"})
  BY DEF PredBroken
<1>2. Reached(p, n, w) /\ n \in State /\ n.process = "running"
  BY <1>1, ReadingFacts
<1>3. \/ leave_ring(p, m, w)
      \/ DropNeighbor(p, n, w, i)
      \/ DropNeighbor(p, ArmTimer(n), w, i)
  BY DEF PredBroken
<1>4. m \in State /\ Similar(m, n) /\ m.conn = n.conn
  BY <1>2 DEF State, Similar
<1>5. ArmTimer(n) \in State /\ Similar(ArmTimer(n), n) /\ ArmTimer(n).conn = n.conn
  BY <1>2 DEF State, Similar, ArmTimer
<1> HIDE DEF m, w
<1>6. Reached(p, m, w) /\ Reached(p, ArmTimer(n), w)
  BY <1>2, <1>4, <1>5, ReachedVariables
<1> QED
  BY <1>2, <1>3, <1>6, EndLeaveReached, EndDrop

LEMMA SuccSuccStep ==
  ASSUME Types, NEW p \in Addr, NEW i \in Slots, SuccSucc(p, i)
  PROVE  GoodStep(p)
<1> DEFINE n == node[p]
           k == [n EXCEPT !.second_succ = Sender(Line(p, i)), !.awaiting_succ = FALSE]
           w == Rest(p, i)
<1>1. Reading(p, i, {"succ"}, {"SUCC"})
  BY DEF SuccSucc
<1>2. /\ Reached(p, n, w) /\ n \in State /\ n.process = "running"
      /\ Sender(Line(p, i)) \in Node
  BY <1>1, ReadingFacts
<1>3. \/ Ignore(p, i)
      \/ n.connection_state = "CONNECTING" /\ EndJoin(p, k, w)
      \/ Become(p, k, w) /\ UNCHANGED registry
  BY DEF SuccSucc
<1>4. k \in State /\ Similar(k, n) /\ k.conn = n.conn
  BY <1>2 DEF State, Similar
<1> HIDE DEF k
<1>5. Reached(p, k, w)
  BY <1>2, <1>4, ReachedVariables
<1>6. CASE Ignore(p, i)
  BY <1>2, <1>6, EndIgnore
<1>7. CASE n.connection_state = "CONNECTING" /\ EndJoin(p, k, w)
  <2>1. k.process = "running" /\ k.connection_state = "CONNECTING"
    BY <1>2, <1>4, <1>7 DEF Similar
  <2> HIDE DEF w
  <2> QED
    BY <1>5, <1>7, <2>1, EndEndJoin
<1>8. CASE Become(p, k, w) /\ UNCHANGED registry
  BY <1>5, <1>8, EndBecome
<1> QED
  BY <1>3, <1>6, <1>7, <1>8

-----------------------------------------------------------------------------
(* Handlers that change the neighbors in the ring *)

\* The pointer to the new successor.
LEMMA AttachState ==
  ASSUME NEW p \in Addr, NEW n \in State, NEW w \in Network, NEW a, a = AttachToSucc(p, n, w)
  PROVE  /\ a.n \in State /\ Similar(a.n, n)
         /\ a.n.conn["succ"] = FreeSlot(w.conns[p]) \/ a.n.conn["succ"] = NULL
         /\ \A s \in RoleNames : s # "succ" => a.n.conn[s] = n.conn[s]
<1> DEFINE i  == FreeSlot(w.conns[p])
           up == Listening(n.succ.addr)
           x  == IF up THEN i ELSE NULL
           c  == [n.conn EXCEPT !.succ = x]
           m  == [n EXCEPT !.conn = c]
<1>1. a.n = [n EXCEPT !.conn.succ = x]
  BY DEF AttachToSucc
<1>2. a.n = m
  BY <1>1
<1>3. n.conn \in [RoleNames -> Slots \cup {NULL}]
  BY DEF State
<1>4. i \in Slots \cup {NULL} /\ (x = i \/ x = NULL)
  <2>1. w.conns[p] \in [Slots -> Slot]
    BY NetworkParts
  <2> QED
    BY <2>1, FreeSlotFacts
<1> HIDE DEF i, x
<1>5. /\ c \in [RoleNames -> Slots \cup {NULL}] /\ c["succ"] = x
      /\ \A s \in RoleNames : s # "succ" => c[s] = n.conn[s]
  BY <1>3, <1>4 DEF RoleNames
<1> HIDE DEF c
<1>6. m \in State /\ Similar(m, n) /\ m.conn = c
  BY <1>5 DEF State, Similar
<1> HIDE DEF m
<1> QED
  BY <1>2, <1>4, <1>5, <1>6 DEF i

\* The new successor's connection: m is k with the pointer to it.
LEMMA AttachNet ==
  ASSUME NEW p \in Addr, NEW k, NEW w, Reached(p, k, w),
         NEW n \in State, NEW a, a = AttachToSucc(p, n, w),
         NEW m \in State, Similar(m, k), m.conn["succ"] = a.n.conn["succ"],
         \A s \in RoleNames : s # "succ" => m.conn[s] = k.conn[s]
  PROVE  Reached(p, m, a.w)
<1> DEFINE i  == FreeSlot(w.conns[p])
           up == Listening(n.succ.addr)
           d  == n.succ
           v  == Connect(w, p, i, d, up)
           ms == <<PredMsg(n.self), RouteMsg(n.self)>>
<1>1. a.w = IF up THEN Write(v, p, i, ms) ELSE v
  BY DEF AttachToSucc
<1>2. w \in Network /\ d \in Node /\ n.self \in NodeID
  BY DEF Reached, State
<1>3. m.conn["succ"] = i \/ m.conn["succ"] = NULL
  BY <1>2, AttachState
<1>4. ms \in Seq(Lines)
  <2>1. PredMsg(n.self) \in Lines /\ RouteMsg(n.self) \in Lines
    BY <1>2, MessageFacts
  <2> QED
    BY <2>1, LineSeqs
<1>5. i = FreeSlot(w.conns[p]) /\ v = Connect(w, p, i, d, up)
  OBVIOUS
<1> HIDE DEF i, ms, v, up, d
<1>6. Reached(p, m, v)
  BY <1>2, <1>3, <1>5, ReachedConnect
<1>7. Reached(p, m, Write(v, p, i, ms))
  BY <1>4, <1>6, ReachedWrite
<1> QED
  BY <1>1, <1>6, <1>7

LEMMA ReachedAttach ==
  ASSUME NEW p \in Addr, NEW n, NEW w, Reached(p, n, w), NEW a, a = AttachToSucc(p, n, w)
  PROVE  Reached(p, a.n, a.w)
<1> DEFINE m == a.n
<1>1. n \in State /\ w \in Network
  BY DEF Reached
<1>2. /\ m \in State /\ Similar(m, n) /\ m.conn["succ"] = a.n.conn["succ"]
      /\ \A s \in RoleNames : s # "succ" => m.conn[s] = n.conn[s]
  BY <1>1, AttachState
<1> HIDE DEF m
<1>3. Reached(p, m, a.w)
  BY <1>1, <1>2, AttachNet
<1> QED
  BY <1>3 DEF m

\* The chord with a node that becomes a neighbor in the ring is closed.
LEMMA ReachedDegenerate ==
  ASSUME NEW p \in Addr, NEW n, NEW w, Reached(p, n, w), NEW id,
         NEW d, d = CloseDegenerate(p, n, w, id)
  PROVE  /\ Reached(p, d.n, d.w) /\ d.n.conn.new_node = n.conn.new_node
         /\ d.n.conn.pred = n.conn.pred
<1> DEFINE c == find_connection_by_node_id(w.conns[p], id)
           v == Close(w, p, {c})
           k == Unassign(n, {c})
           m == Prune(k, v.conns[p], id)
<1>1. CASE IsChord(n, c)
  <2>1. d.n = m /\ d.w = v
    BY <1>1 DEF CloseDegenerate
  <2>2. /\ Reached(p, k, v)
        /\ \A r \in RoleNames : k.conn[r] = IF n.conn[r] \in {c} THEN NULL ELSE n.conn[r]
    BY ReachedClose
  <2>3. c # NULL /\ c \notin {n.conn.new_node, n.conn.pred, n.conn.succ}
    BY <1>1 DEF IsChord
  <2> HIDE DEF v, k, c
  <2>4. Reached(p, m, v) /\ m.conn = k.conn
    BY <2>2, ReachedPrune
  <2>5. k.conn.new_node = n.conn.new_node /\ k.conn.pred = n.conn.pred
    BY <2>2, <2>3 DEF RoleNames
  <2> QED
    BY <2>1, <2>4, <2>5
<1>2. CASE ~IsChord(n, c)
  BY <1>2 DEF CloseDegenerate
<1> QED
  BY <1>1, <1>2

\* The new node's connection i is identified, and may become the predecessor's.
LEMMA ReachedIdentify ==
  ASSUME NEW p \in Addr, NEW n, NEW w, Reached(p, n, w), NEW i \in Slots,
         NEW m \in State, Similar(m, n), NEW S \in SUBSET {n.conn.pred},
         m.conn.new_node = NULL, m.conn.pred = i \/ (m.conn.pred = n.conn.pred /\ S = {}),
         m.conn.succ = n.conn.succ, m.conn.chord = n.conn.chord,
         NEW v \in Network, NEW T, T = S \cup {i}, SameBut(v, w, p, T),
         Roles(node[p], net.conns[p]) =>
           /\ n.conn.new_node = i /\ v.conns[p][i].open = w.conns[p][i].open
           /\ v.conns[p][i].node_id # NO_NODE_ID
           /\ \A j \in Slots : j \in S => ~v.conns[p][j].open
  PROVE  Reached(p, m, v)
<1>1. n \in State /\ SameBut(w, net, p, Slots) /\ Similar(n, node[p])
  BY DEF Reached
<1>2. SameBut(v, net, p, Slots)
  BY <1>1, SameTrans
<1>3. ASSUME Roles(node[p], net.conns[p]) PROVE Linked(m, v.conns[p])
  <2> DEFINE cs == w.conns[p]
             ds == v.conns[p]
  <2>1. Linked(n, cs)
    BY <1>3 DEF Reached
  <2>2. Alike(ds, cs, S \cup {i})
    BY SameAlike
  <2>3. /\ n.conn.new_node = i /\ ds[i].open = cs[i].open
        /\ ds[i].node_id # NO_NODE_ID
        /\ \A j \in Slots : j \in S => ~ds[j].open
    BY <1>3
  <2> HIDE DEF cs, ds
  <2>4. Linked(m, ds)
    BY <1>1, <2>1, <2>2, <2>3, LinkedIdentify
  <2> QED
    BY <2>4 DEF ds
<1> QED
  BY <1>1, <1>2, <1>3 DEF Reached, Similar

\* The pointers of the new node and of the predecessor are assigned.
Take(n, i) == [n EXCEPT !.conn.pred = i, !.conn.new_node = NULL]

LEMMA TakeState ==
  ASSUME NEW n \in State, NEW i \in Slots, NEW m, m = Take(n, i)
  PROVE  /\ m \in State /\ Similar(m, n) /\ m.conn.new_node = NULL /\ m.conn.pred = i
         /\ m.conn.succ = n.conn.succ /\ m.conn.chord = n.conn.chord
         /\ m.self = n.self /\ m.succ = n.succ
<1> DEFINE c == [n.conn EXCEPT !.pred = i, !.new_node = NULL]
<1>1. m = [n EXCEPT !.conn = c]
  BY DEF Take
<1>2. n.conn \in [RoleNames -> Slots \cup {NULL}]
  BY DEF State
<1>3. /\ c \in [RoleNames -> Slots \cup {NULL}] /\ c.pred = i /\ c.new_node = NULL
      /\ c.succ = n.conn.succ /\ c.chord = n.conn.chord
  BY <1>2 DEF RoleNames
<1> HIDE DEF c
<1> QED
  BY <1>1, <1>3 DEF State, Similar

LEMMA NewNodeChordStep ==
  ASSUME Types, NEW p \in Addr, NEW i \in Slots, NewNodeChord(p, i)
  PROVE  GoodStep(p)
<1> DEFINE n == node[p]
           id == Line(p, i).id
           w == Rest(p, i)
           c == [n.conn EXCEPT !.new_node = NULL]
           m == [n EXCEPT !.conn = c]
           v == SetNodeId(w, p, i, id)
           ms == <<RouteMsg(n.self)>>
<1>1. Reading(p, i, {"new_node"}, {"CHORD"})
  BY DEF NewNodeChord
<1>2. /\ Reached(p, n, w) /\ n \in State /\ id \in NodeID
      /\ RoleOf(n, i) = "new_node"
  BY <1>1, ReadingFacts
<1>3. \/ Ignore(p, i)
      \/ Become(p, m, Write(v, p, i, ms)) /\ UNCHANGED registry
  BY DEF NewNodeChord
<1>4. CASE Ignore(p, i)
  BY <1>2, <1>4, EndIgnore
<1>5. CASE Become(p, m, Write(v, p, i, ms)) /\ UNCHANGED registry
  <2>1. n.conn \in [RoleNames -> Slots \cup {NULL}] /\ w \in Network /\ n.self \in NodeID
    BY <1>2 DEF State, Reached
  <2>2. /\ c \in [RoleNames -> Slots \cup {NULL}] /\ c.new_node = NULL /\ c.pred = n.conn.pred
        /\ c.succ = n.conn.succ /\ c.chord = n.conn.chord
    <3> HIDE DEF n
    <3> QED
      BY <2>1 DEF RoleNames
  <2>3. ms \in Seq(Lines)
    BY <2>1, MessageFacts, LineSeqs
  <2>4. /\ v \in Network /\ SameBut(v, w, p, {i})
        /\ v.conns[p][i].node_id = id /\ v.conns[p][i].open = w.conns[p][i].open
    <3>1. v = SetNodeId(w, p, i, id) /\ w \in Network /\ id \in NodeID
      BY <1>2, <2>1
    <3> HIDE DEF v, w, id
    <3> QED
      BY ONLY <3>1, p \in Addr, i \in Slots, SetNodeIdNet
  <2> HIDE DEF c
  <2>5. /\ m \in State /\ Similar(m, n) /\ m.conn.new_node = NULL /\ m.conn.pred = n.conn.pred
        /\ m.conn.succ = n.conn.succ /\ m.conn.chord = n.conn.chord
    BY <1>2, <2>2 DEF State, Similar
  <2>6. n.conn.new_node = i /\ v.conns[p][i].node_id # NO_NODE_ID
    BY <1>2, <2>4, RoleFacts DEF NodeID
  <2> DEFINE S == {}
             T == {i}
  <2>7. S \in SUBSET {n.conn.pred} /\ T = S \cup {i} /\ S = {} /\ SameBut(v, w, p, T)
    BY <2>4
  <2>8. \A j \in Slots : j \in S => ~v.conns[p][j].open
    OBVIOUS
  <2> HIDE DEF m, v, w, n, S, T, ms
  <2>9. Reached(p, m, v)
    BY <1>2, <2>4, <2>5, <2>6, <2>7, <2>8, ReachedIdentify
  <2>10. Reached(p, m, Write(v, p, i, ms))
    BY <2>3, <2>9, ReachedWrite
  <2> QED
    BY <1>5, <2>10, EndBecome
<1> QED
  BY <1>3, <1>4, <1>5

LEMMA NewNodePredStep ==
  ASSUME Types, NEW p \in Addr, NEW i \in Slots, NewNodePred(p, i)
  PROVE  GoodStep(p)
<1> DEFINE n == node[p]
           id == Line(p, i).id
           old == {n.conn.pred} \ {NULL}
           n1 == Unassign(n, old)
           w1 == Close(Rest(p, i), p, old)
           d == CloseDegenerate(p, n1, w1, id)
           k == TakeAsPred(d.n, i)
           v0 == SetNodeId(d.w, p, i, id)
           ms == <<SuccMsg(n.succ), RouteMsg(n.self)>>
           v == Write(v0, p, i, ms)
<1>1. Reading(p, i, {"new_node"}, {"PRED"})
  BY DEF NewNodePred
<1>2. /\ Reached(p, n, Rest(p, i)) /\ n \in State /\ n.process = "running" /\ id \in NodeID
      /\ RoleOf(n, i) = "new_node"
  BY <1>1, ReadingFacts
<1>3. \/ n.connection_state = "CONNECTING" /\ EndJoin(p, k, v)
      \/ Become(p, k, v) /\ UNCHANGED registry
      \/ Drop(p, n, Rest(p, i), i)
  BY DEF NewNodePred
<1>4. /\ Reached(p, n1, w1)
      /\ \A r \in RoleNames : n1.conn[r] = IF n.conn[r] \in old THEN NULL ELSE n.conn[r]
  BY <1>2, ReachedClose
<1>5. n1.conn.new_node = IF i \in old THEN NULL ELSE i
  BY <1>2, <1>4, RoleFacts DEF RoleNames
<1>6. ASSUME Roles(n, net.conns[p]) PROVE n1.conn.new_node = i
  <2>1. i = n.conn.new_node /\ i # NULL
    BY <1>2, RoleFacts DEF Slots
  <2>2. i # n.conn.pred
    BY <1>6, <2>1 DEF Roles, Pointers, RoleNames
  <2> QED
    BY <1>5, <2>2
<1>7. ms \in Seq(Lines)
  <2>1. n.succ \in Node /\ n.self \in NodeID
    BY <1>2 DEF State
  <2>2. SuccMsg(n.succ) \in Lines /\ RouteMsg(n.self) \in Lines
    BY <2>1, SuccFacts, MessageFacts
  <2> QED
    BY <2>2, LineSeqs
<1> HIDE DEF n1, w1, ms, id, old
<1>8. Reached(p, d.n, d.w) /\ d.n.conn.new_node = n1.conn.new_node
  BY <1>4, ReachedDegenerate
<1> HIDE DEF d
<1>9. d.n \in State /\ d.w \in Network /\ Similar(d.n, n)
  BY <1>8 DEF Reached
<1>10. /\ k \in State /\ Similar(k, d.n) /\ k.conn.new_node = NULL /\ k.conn.pred = i
       /\ k.conn.succ = d.n.conn.succ /\ k.conn.chord = d.n.conn.chord
  <2> DEFINE b == Take(d.n, i)
  <2>1. /\ b \in State /\ Similar(b, d.n) /\ b.conn.new_node = NULL /\ b.conn.pred = i
        /\ b.conn.succ = d.n.conn.succ /\ b.conn.chord = d.n.conn.chord
    BY <1>9, TakeState
  <2>2. k = [b EXCEPT !.timer = FALSE, !.awaiting_pred = FALSE]
    BY DEF TakeAsPred, Take
  <2> HIDE DEF b, k
  <2> QED
    BY <2>1, <2>2 DEF State, Similar
<1> HIDE DEF k
<1>11. /\ v0 \in Network /\ SameBut(v0, d.w, p, {i})
       /\ v0.conns[p][i].node_id = id /\ v0.conns[p][i].open = d.w.conns[p][i].open
  <2>1. v0 = SetNodeId(d.w, p, i, id)
    OBVIOUS
  <2> HIDE DEF v0
  <2> QED
    BY ONLY <1>2, <1>9, <2>1, p \in Addr, i \in Slots, SetNodeIdNet
<1>12. v0.conns[p][i].node_id # NO_NODE_ID
  BY <1>2, <1>11 DEF NodeID
<1> HIDE DEF v0
<1>13. Reached(p, k, v0)
  <2> DEFINE S == {}
             T == {i}
             n2 == d.n
             w2 == d.w
  <2>1. S \in SUBSET {n2.conn.pred} /\ T = S \cup {i} /\ S = {} /\ SameBut(v0, w2, p, T)
    BY <1>11
  <2>2. /\ \A j \in Slots : j \in S => ~v0.conns[p][j].open
        /\ Roles(node[p], net.conns[p]) =>
             n2.conn.new_node = i /\ v0.conns[p][i].open = w2.conns[p][i].open
    BY <1>6, <1>8, <1>11
  <2>3. Reached(p, n2, w2) /\ Similar(k, n2) /\ k.conn.succ = n2.conn.succ /\ k.conn.chord = n2.conn.chord
    BY <1>8, <1>10
  <2> HIDE DEF S, T, n, n2, w2
  <2> QED
    BY <1>10, <1>11, <1>12, <2>1, <2>2, <2>3, ReachedIdentify
<1>14. Reached(p, k, v)
  BY <1>7, <1>13, ReachedWrite
<1> HIDE DEF v
<1>15. CASE n.connection_state = "CONNECTING" /\ EndJoin(p, k, v)
  <2>1. k.process = "running" /\ k.connection_state = "CONNECTING"
    BY <1>2, <1>9, <1>10, <1>15 DEF Similar
  <2> QED
    BY <1>14, <1>15, <2>1, EndEndJoin
<1>16. CASE Become(p, k, v) /\ UNCHANGED registry
  BY <1>14, <1>16, EndBecome
<1>17. CASE Drop(p, n, Rest(p, i), i)
  BY <1>2, <1>17, EndDrop
<1> QED
  BY <1>3, <1>15, <1>16, <1>17

LEMMA EntryAloneStep ==
  ASSUME Types, NEW p \in Addr, NEW i \in Slots, Reading(p, i, {"new_node"}, {"ENTRY"}), EntryAlone(p, i)
  PROVE  GoodStep(p)
<1> DEFINE n == node[p]
           m == Line(p, i)
           w == Rest(p, i)
           n0 == [n EXCEPT !.succ = Sender(m), !.second_succ = Myself(p, n)]
           n1 == Take(n0, i)
           v0 == SetNodeId(w, p, i, m.id)
           v1 == Write(v0, p, i, <<SuccMsg(m)>>)
           a == AttachToSucc(p, n0, v1)
           k == Take(a.n, i)
<1>1. /\ Reached(p, n, w) /\ n \in State /\ n.process = "running" /\ m.id \in NodeID
      /\ RoleOf(n, i) = "new_node" /\ Sender(m) \in Node /\ SuccMsg(m) \in Lines
  BY ReadingFacts
<1>2. \/ Drop(p, n, w, i)
      \/ leave_ring(p, a.n, a.w)
      \/ Die(p, "assertion failed: pred_conn", a.w)
      \/ Become(p, k, a.w) /\ UNCHANGED registry
  BY DEF EntryAlone, Take
<1>3. n0 \in State /\ Similar(n0, n) /\ n0.conn = n.conn
  <2>1. Myself(p, n) \in Node
    BY <1>1 DEF Myself, Node, State
  <2> HIDE DEF m, n
  <2> QED
    BY <1>1, <2>1 DEF State, Similar
<1> HIDE DEF n0
<1>4. /\ n1 \in State /\ Similar(n1, n0) /\ n1.conn.new_node = NULL /\ n1.conn.pred = i
      /\ n1.conn.succ = n.conn.succ /\ n1.conn.chord = n.conn.chord
  BY <1>3, TakeState
<1> HIDE DEF n1
<1>5. w \in Network /\ <<SuccMsg(m)>> \in Seq(Lines)
  BY <1>1, LineSeqs DEF Reached
<1>6. /\ v0 \in Network /\ SameBut(v0, w, p, {i})
      /\ v0.conns[p][i].node_id = m.id /\ v0.conns[p][i].open = w.conns[p][i].open
  <2> DEFINE id == m.id
  <2>1. v0 = SetNodeId(w, p, i, id) /\ w \in Network /\ id \in NodeID
    BY <1>1, <1>5
  <2> HIDE DEF v0, w, id
  <2>2. /\ v0 \in Network /\ SameBut(v0, w, p, {i})
        /\ v0.conns[p][i].node_id = id /\ v0.conns[p][i].open = w.conns[p][i].open
    BY ONLY <2>1, p \in Addr, i \in Slots, SetNodeIdNet
  <2> QED
    BY <2>2 DEF id
<1>7. n.conn.new_node = i /\ v0.conns[p][i].node_id # NO_NODE_ID
  BY <1>1, <1>6, RoleFacts DEF NodeID
<1> HIDE DEF v0
<1>8. Reached(p, n1, v0)
  <2> DEFINE S == {}
             T == {i}
  <2>1. S \in SUBSET {n.conn.pred} /\ T = S \cup {i} /\ S = {} /\ SameBut(v0, w, p, T)
    BY <1>6
  <2>2. \A j \in Slots : j \in S => ~v0.conns[p][j].open
    OBVIOUS
  <2>3. Similar(n1, n)
    BY <1>3, <1>4 DEF Similar
  <2> HIDE DEF S, T, n, w
  <2> QED
    BY <1>1, <1>4, <1>6, <1>7, <2>1, <2>2, <2>3, ReachedIdentify
<1>9. Reached(p, n1, v1)
  BY <1>5, <1>8, ReachedWrite
<1> HIDE DEF v1
<1>10. v1 \in Network
  BY <1>9 DEF Reached
<1>11. a = AttachToSucc(p, n0, v1)
  OBVIOUS
<1> HIDE DEF a
<1>12. /\ a.n \in State /\ Similar(a.n, n0)
       /\ a.n.conn["succ"] = FreeSlot(v1.conns[p]) \/ a.n.conn["succ"] = NULL
       /\ \A s \in RoleNames : s # "succ" => a.n.conn[s] = n0.conn[s]
  BY <1>3, <1>10, <1>11, AttachState
<1>13. /\ k \in State /\ Similar(k, a.n) /\ k.conn.new_node = NULL /\ k.conn.pred = i
       /\ k.conn.succ = a.n.conn.succ /\ k.conn.chord = a.n.conn.chord
  BY <1>12, TakeState
<1> HIDE DEF k
<1>14. Reached(p, k, a.w)
  <2>1. Similar(k, n1)
    BY <1>4, <1>12, <1>13 DEF Similar
  <2>2. k.conn["succ"] = a.n.conn["succ"] /\ k.conn["chord"] = n1.conn["chord"]
    BY <1>3, <1>4, <1>12, <1>13 DEF RoleNames
  <2>3. \A s \in RoleNames : s # "succ" => k.conn[s] = n1.conn[s]
    BY <1>4, <1>13, <2>2 DEF RoleNames
  <2> QED
    BY <1>3, <1>9, <1>11, <1>13, <2>1, <2>2, <2>3, AttachNet
<1>15. a.w \in Network /\ SameBut(a.w, net, p, Slots)
  BY <1>14 DEF Reached
<1>16. CASE Drop(p, n, w, i)
  BY <1>1, <1>16, EndDrop
<1>17. CASE leave_ring(p, a.n, a.w)
  <2>1. a.n.process = "running"
    BY <1>1, <1>3, <1>12 DEF Similar
  <2> QED
    BY <1>12, <1>15, <1>17, <2>1, EndLeave
<1>18. CASE Die(p, "assertion failed: pred_conn", a.w)
  BY <1>15, <1>18, EndDieReached
<1>19. CASE Become(p, k, a.w) /\ UNCHANGED registry
  BY <1>14, <1>19, EndBecome
<1> QED
  BY <1>2, <1>16, <1>17, <1>18, <1>19

LEMMA EntryBetweenStep ==
  ASSUME Types, NEW p \in Addr, NEW i \in Slots, Reading(p, i, {"new_node"}, {"ENTRY"}), EntryBetween(p, i)
  PROVE  GoodStep(p)
<1> DEFINE n == node[p]
           m == Line(p, i)
           r == Rest(p, i)
           c == n.conn.pred
           w0 == SetNodeId(r, p, i, m.id)
           w == Write(w0, p, i, <<SuccMsg(n.succ)>>)
           v0 == Write(w, p, c, <<EntryMsg(m.id, m.addr)>>)
           v == Write(v0, p, i, <<RouteMsg(n.self)>>)
           S == {c}
           u == Close(v, p, S)
           b == Prune(n, u.conns[p], w.conns[p][c].node_id)
           k == Take(b, i)
           T == S \cup {i}
<1>1. /\ Reached(p, n, r) /\ n \in State /\ m.id \in NodeID /\ m.addr \in Addr \cup {NO_ADDR}
      /\ RoleOf(n, i) = "new_node"
  BY ReadingFacts
<1>2. \/ Die(p, "null pred_conn", w)
      \/ Become(p, k, u) /\ UNCHANGED registry
  BY Zenon DEF EntryBetween, Take
<1>3. /\ <<SuccMsg(n.succ)>> \in Seq(Lines) /\ <<EntryMsg(m.id, m.addr)>> \in Seq(Lines)
      /\ <<RouteMsg(n.self)>> \in Seq(Lines)
  <2>1. n.succ \in Node /\ n.self \in NodeID
    BY <1>1 DEF State
  <2>2. SuccMsg(n.succ) \in Lines /\ EntryMsg(m.id, m.addr) \in Lines /\ RouteMsg(n.self) \in Lines
    BY <1>1, <2>1, SuccFacts, MessageFacts
  <2> QED
    BY <2>2, LineSeqs
<1>4. r \in Network /\ SameBut(r, net, p, Slots)
  BY <1>1 DEF Reached
<1>5. /\ w0 \in Network /\ SameBut(w0, r, p, {i})
      /\ w0.conns[p][i].node_id # NO_NODE_ID /\ w0.conns[p][i].open = r.conns[p][i].open
  <2> DEFINE id == m.id
  <2>1. w0 = SetNodeId(r, p, i, id) /\ id \in NodeID
    BY <1>1
  <2> HIDE DEF w0, r, id
  <2>2. /\ w0 \in Network /\ SameBut(w0, r, p, {i})
        /\ w0.conns[p][i].node_id = id /\ w0.conns[p][i].open = r.conns[p][i].open
    BY ONLY <1>4, <2>1, p \in Addr, i \in Slots, SetNodeIdNet
  <2> QED
    BY <2>1, <2>2 DEF NodeID
<1> HIDE DEF w0
<1>6. w \in Network /\ SameBut(w, w0, p, {})
  BY <1>3, <1>5, WriteNet
<1> HIDE DEF w
<1>7. v0 \in Network /\ SameBut(v0, w, p, {})
  BY <1>3, <1>6, WriteNet
<1> HIDE DEF v0
<1>8. v \in Network /\ SameBut(v, v0, p, {})
  BY <1>3, <1>7, WriteNet
<1> HIDE DEF v
<1>9. u \in Network /\ SameBut(u, v, p, S) /\ \A j \in Slots : j \in S => ~u.conns[p][j].open
  BY <1>8, CloseNet
<1>10. CASE Die(p, "null pred_conn", w)
  <2>1. SameBut(w, net, p, Slots)
    BY <1>4, <1>5, <1>6 DEF SameBut, SameSlot
  <2> QED
    BY <1>6, <1>10, <2>1, EndDieReached
<1>11. CASE Become(p, k, u) /\ UNCHANGED registry
  <2>1. b \in State /\ Similar(b, n) /\ b.conn = n.conn
    BY <1>1, PruneState
  <2> HIDE DEF u, b
  <2>2. /\ k \in State /\ Similar(k, b) /\ k.conn.new_node = NULL /\ k.conn.pred = i
        /\ k.conn.succ = n.conn.succ /\ k.conn.chord = n.conn.chord
    BY <2>1, TakeState
  <2>3. Similar(k, n) /\ S \in SUBSET {n.conn.pred}
    BY <2>1, <2>2 DEF Similar
  <2>4. SameBut(v, r, p, {i}) /\ v.conns[p][i].node_id # NO_NODE_ID
        /\ v.conns[p][i].open = r.conns[p][i].open
    BY <1>5, <1>6, <1>7, <1>8 DEF SameBut, SameSlot
  <2>5. SameBut(u, r, p, T) /\ T = S \cup {i}
    <3>1. \A q \in Addr, j \in Slots : ~(q = p /\ j \in S) => SameSlot(u, v, q, j)
      BY <1>9, Zenon DEF SameBut
    <3>2. \A q \in Addr, j \in Slots : ~(q = p /\ j = i) => SameSlot(v, r, q, j)
      BY <2>4 DEF SameBut
    <3> HIDE DEF S
    <3>3. \A q \in Addr, j \in Slots : ~(q = p /\ j \in T) => SameSlot(u, r, q, j)
      BY ONLY <3>1, <3>2 DEF SameSlot, T
    <3> QED
      BY <3>3 DEF SameBut
  <2>6. ASSUME Roles(node[p], net.conns[p])
        PROVE  /\ n.conn.new_node = i /\ u.conns[p][i].open = r.conns[p][i].open
               /\ u.conns[p][i].node_id # NO_NODE_ID
               /\ \A j \in Slots : j \in S => ~u.conns[p][j].open
    <3>1. i = n.conn.new_node /\ i # NULL
      BY <1>1, RoleFacts DEF Slots
    <3>2. i \notin S
      BY <2>6, <3>1 DEF Roles, Pointers, RoleNames
    <3> QED
      BY <1>9, <2>4, <3>1, <3>2, Zenon DEF SameBut, SameSlot
  <2> HIDE DEF k, r, n, S, T
  <2>7. Reached(p, k, u)
    BY <1>1, <1>9, <2>2, <2>3, <2>5, <2>6, ReachedIdentify
  <2> QED
    BY <1>11, <2>7, EndBecome
<1> QED
  BY <1>2, <1>10, <1>11

LEMMA NewNodeEntryStep ==
  ASSUME Types, NEW p \in Addr, NEW i \in Slots, NewNodeEntry(p, i)
  PROVE  GoodStep(p)
<1>1. /\ Reading(p, i, {"new_node"}, {"ENTRY"})
      /\ \/ Drop(p, node[p], Rest(p, i), i) \/ EntryAlone(p, i) \/ EntryBetween(p, i)
  BY DEF NewNodeEntry
<1>2. Reached(p, node[p], Rest(p, i))
  BY <1>1, ReadingFacts
<1> QED
  BY <1>1, <1>2, EndDrop, EntryAloneStep, EntryBetweenStep

LEMMA SuccEntryStep ==
  ASSUME Types, NEW p \in Addr, NEW i \in Slots, SuccEntry(p, i)
  PROVE  GoodStep(p)
<1> DEFINE n == node[p]
           m == Line(p, i)
           w == Rest(p, i)
           t == TellPred(p, n, w, m)
           v == Close(t, p, {i})
           b == Unassign(n, {i})
           k == Prune(b, v.conns[p], n.succ.id)
           k0 == [k EXCEPT !.second_succ = n.succ, !.succ = Sender(m)]
           a == AttachToSucc(p, k0, v)
<1>1. Reading(p, i, {"succ"}, {"ENTRY"})
  BY DEF SuccEntry
<1>2. /\ Reached(p, n, w) /\ n \in State /\ n.process = "running"
      /\ Sender(m) \in Node /\ SuccMsg(m) \in Lines
  BY <1>1, ReadingFacts
<1>3. \/ leave_ring(p, n, w)
      \/ Die(p, "null pred_conn", w)
      \/ Become(p, a.n, a.w) /\ UNCHANGED registry
      \/ leave_ring(p, a.n, a.w)
  BY DEF SuccEntry
<1>4. Reached(p, n, t)
  <2>1. <<SuccMsg(m)>> \in Seq(Lines)
    BY <1>2, LineSeqs
  <2> HIDE DEF n, w
  <2> QED
    BY <1>2, <2>1, ReachedWrite DEF TellPred
<1> HIDE DEF t
<1>5. Reached(p, b, v)
  BY <1>4, ReachedClose
<1> HIDE DEF b, v
<1>6. Reached(p, k, v)
  BY <1>5, ReachedPrune
<1> HIDE DEF k
<1>7. k0 \in State /\ Similar(k0, k) /\ k0.conn = k.conn
  <2>1. k \in State /\ n.succ \in Node
    BY <1>2, <1>6 DEF Reached, State
  <2> HIDE DEF n, m
  <2> QED
    BY <1>2, <2>1 DEF State, Similar
<1> HIDE DEF k0
<1>8. Reached(p, k0, v)
  BY <1>6, <1>7, ReachedVariables
<1>9. Reached(p, a.n, a.w)
  BY <1>8, ReachedAttach
<1> HIDE DEF a
<1>10. CASE leave_ring(p, n, w)
  BY <1>2, <1>10, EndLeaveReached
<1>11. CASE Die(p, "null pred_conn", w)
  <2>1. w \in Network /\ SameBut(w, net, p, Slots)
    BY <1>2 DEF Reached
  <2> HIDE DEF w
  <2> QED
    BY <1>11, <2>1, EndDieReached
<1>12. CASE Become(p, a.n, a.w) /\ UNCHANGED registry
  BY <1>9, <1>12, EndBecome
<1>13. CASE leave_ring(p, a.n, a.w)
  BY <1>2, <1>9, <1>13, EndLeaveReached
<1> QED
  BY <1>3, <1>10, <1>11, <1>12, <1>13

LEMMA SuccBrokenStep ==
  ASSUME Types, NEW p \in Addr, NEW i \in Slots, SuccBroken(p, i)
  PROVE  GoodStep(p)
<1> DEFINE n == node[p]
           w == Rest(p, i)
           succ_id == w.conns[p][i].node_id
           k == [n EXCEPT !.awaiting_succ = TRUE, !.succ = n.second_succ]
           t == TellPred(p, n, w, k.succ)
           d == CloseDegenerate(p, k, t, k.succ.id)
           a == AttachToSucc(p, d.n, d.w)
           Less(x) == [x EXCEPT !.neighbor_ids = @ \ {succ_id}]
<1>1. Reading(p, i, {"succ"}, {"EOF"})
  BY Zenon DEF SuccBroken
<1>2. Reached(p, n, w) /\ n \in State /\ n.process = "running"
  BY <1>1, ReadingFacts
<1>3. \/ leave_ring(p, Less(n), w)
      \/ DropNeighbor(p, k, w, i)
      \/ leave_ring(p, Less(k), w)
      \/ DropNeighbor(p, a.n, a.w, i)
      \/ leave_ring(p, Less(a.n), a.w)
  BY Zenon DEF SuccBroken
<1>4. k \in State /\ Similar(k, n) /\ k.conn = n.conn /\ n.second_succ \in Node /\ k.succ \in Node
  BY <1>2 DEF State, Similar
<1> HIDE DEF k
<1>5. Reached(p, k, w)
  BY <1>2, <1>4, ReachedVariables
<1>6. Reached(p, k, t)
  <2>1. SuccMsg(k.succ) \in Lines
    BY <1>4, SuccFacts
  <2>2. <<SuccMsg(k.succ)>> \in Seq(Lines)
    BY <2>1, LineSeqs
  <2> HIDE DEF n, w
  <2> QED
    BY <1>5, <2>2, ReachedWrite DEF TellPred
<1> HIDE DEF t
<1>7. Reached(p, d.n, d.w)
  BY <1>6, ReachedDegenerate
<1> HIDE DEF d
<1>8. Reached(p, a.n, a.w)
  BY <1>7, ReachedAttach
<1> HIDE DEF a, succ_id
<1>9. ASSUME NEW x, NEW y, Reached(p, x, y), leave_ring(p, Less(x), y) PROVE GoodStep(p)
  <2> DEFINE z == Less(x)
  <2>1. x \in State
    BY <1>9 DEF Reached
  <2>2. z \in State /\ Similar(z, x) /\ z.conn = x.conn
    BY <2>1 DEF State, Similar
  <2> HIDE DEF z
  <2>3. Reached(p, z, y)
    BY <1>9, <2>2, ReachedVariables
  <2> QED
    BY <1>2, <1>9, <2>3, EndLeaveReached DEF z
<1>10. CASE DropNeighbor(p, k, w, i)
  BY <1>5, <1>10, EndDrop
<1>11. CASE DropNeighbor(p, a.n, a.w, i)
  BY <1>8, <1>11, EndDrop
<1> QED
  BY <1>2, <1>3, <1>5, <1>8, <1>9, <1>10, <1>11

-----------------------------------------------------------------------------
(* Every step *)

LEMMA EveryStep ==
  ASSUME Types, Next
  PROVE  \E p \in Addr : GoodStep(p)
<1>1. PICK p \in Addr : User(p) \/ System(p) \/ Timeout(p)
  BY DEF Next
<1>2. CASE User(p)
  <2>1. ASSUME NEW id \in TypedIds[p],
               JoinRefused(p, id) \/ JoinAlone(p, id) \/ JoinAsk(p, id) \/ DirectJoinAlone(p, id)
        PROVE  GoodStep(p)
    <3>1. id \in NodeID
      BY RingAssumption
    <3> QED
      BY <2>1, <3>1, JoinRefusedStep, JoinAloneStep, JoinAskStep, DirectJoinAloneStep
  <2>2. CASE \E d \in node[p].node_arr : JoinSelect(p, d) \/ ChordSelect(p, d)
    BY <2>2, JoinSelectStep, ChordSelectStep
  <2>3. ASSUME NEW id \in TypedIds[p], NEW q \in Addr \ {p}, NEW far \in TypedIds[q],
               DirectJoin(p, id, [id |-> far, addr |-> q])
        PROVE  GoodStep(p)
    <3>1. id \in NodeID /\ far \in NodeID
      BY RingAssumption
    <3>2. [id |-> far, addr |-> q] \in Node
      BY <3>1 DEF Node
    <3> QED
      BY <2>3, <3>1, <3>2, DirectJoinStep
  <2>4. CASE Leave(p) \/ ChordAsk(p)
    BY <2>4, LeaveStep, ChordAskStep
  <2>5. CASE SelectionCancelled(p) \/ RemoveChord(p) \/ Exit(p) \/ Start(p)
    BY <2>5, SelectionCancelledStep, RemoveChordStep, ExitStep, StartStep
  <2> QED
    BY <1>2, <2>1, <2>2, <2>3, <2>4, <2>5 DEF User
<1>3. CASE HandleConnection(p)
  BY <1>3, AcceptNodeStep, RefuseNodeStep DEF HandleConnection
<1>4. CASE \E i \in Slots : HandleInput(p, i)
  <2>1. PICK i \in Slots : HandleInput(p, i)
    BY <1>4
  <2>2. CASE \/ NewNodeEntry(p, i) \/ NewNodePred(p, i) \/ NewNodeChord(p, i)
             \/ NewNodeRoute(p, i) \/ NewNodeBroken(p, i)
    BY <2>2, NewNodeEntryStep, NewNodePredStep, NewNodeChordStep, NewNodeRouteStep, NewNodeBrokenStep
  <2>3. CASE Misplaced(p, i) \/ PredBroken(p, i) \/ ChordBroken(p, i) \/ Route(p, i)
    BY <2>3, MisplacedStep, PredBrokenStep, ChordBrokenStep, RouteStep
  <2>4. CASE SuccSucc(p, i) \/ SuccEntry(p, i) \/ SuccBroken(p, i)
    BY <2>4, SuccSuccStep, SuccEntryStep, SuccBrokenStep
  <2> QED
    BY <2>1, <2>2, <2>3, <2>4 DEF HandleInput
<1>5. CASE Timeout(p)
  BY <1>5, TimeoutStep
<1> QED
  BY <1>1, <1>2, <1>3, <1>4, <1>5 DEF System

\* A step of p leaves the slots of the other processes as they are.
LEMMA StepKeeps ==
  ASSUME Types, NEW p \in Addr, GoodStep(p)
  PROVE  Types' /\ (RolesInv /\ NoJoinOverNewNode => RolesInv')
<1>1. PICK m \in State, v \in Network :
        /\ Become(p, m, v) /\ SameBut(v, net, p, Slots)
        /\ Roles(node[p], net.conns[p]) /\ NoJoinOverNewNode => Roles(m, v.conns[p])
  BY DEF GoodStep
<1>2. node' = [node EXCEPT ![p] = m] /\ net' = v /\ registry' \subseteq Node
  BY <1>1 DEF Become, GoodStep
<1>3. node \in [Addr -> State]
  BY DEF Types
<1>4. Types'
  BY <1>2, <1>3 DEF Types
<1>5. ASSUME RolesInv, NoJoinOverNewNode, NEW q \in Addr PROVE Roles(node'[q], net'.conns[q])
  <2>1. CASE q = p
    BY <1>1, <1>2, <1>3, <1>5, <2>1 DEF RolesInv
  <2>2. CASE q # p
    <3> DEFINE n == node[q]
               cs == net.conns[q]
               ds == v.conns[q]
    <3>1. node'[q] = n /\ net'.conns[q] = ds /\ n \in State /\ Roles(n, cs)
      BY <1>2, <1>3, <1>5, <2>2 DEF RolesInv
    <3>2. Alike(ds, cs, {})
      BY <1>1, <2>2 DEF SameBut, SameSlot, Alike
    <3> HIDE DEF n, cs, ds
    <3>3. Linked(n, ds)
      BY <3>1, <3>2, LinkedSame DEF Roles, Linked
    <3> QED
      BY <3>1, <3>3 DEF Roles, Linked
  <2> QED
    BY <2>1, <2>2
<1> QED
  BY <1>4, <1>5 DEF RolesInv

LEMMA InitGood == Init => Types /\ RolesInv
<1> SUFFICES ASSUME Init PROVE Types /\ RolesInv
  OBVIOUS
<1>1. /\ node = [p \in Addr |-> FreshNode] /\ registry = {}
      /\ net = [conns |-> [p \in Addr |-> [i \in Slots |-> CLOSED]], backlog |-> [p \in Addr |-> <<>>]]
  BY DEF Init, NoConnections
<1>2. CLOSED \in Slot
  BY DEF CLOSED, Slot, FarEnd, NO_PEER
<1>3. Types
  BY <1>1, <1>2, FreshFacts DEF Types, Network
<1>4. ASSUME NEW p \in Addr PROVE Roles(node[p], net.conns[p])
  <2>1. /\ node[p] = FreshNode /\ FreshNode \in State
        /\ \A r \in RoleNames : FreshNode.conn[r] = NULL
        /\ FreshNode.process = "running" /\ FreshNode.connection_state = "DISCONNECTED"
    BY <1>1, FreshFacts DEF FreshNode
  <2>2. \A j \in Slots : ~net.conns[p][j].open
    BY <1>1 DEF CLOSED
  <2>3. Linked(node[p], net.conns[p])
    BY <2>1, <2>2, LinkedNone
  <2>4. Outsider(node[p])
    BY <2>1 DEF Outsider, InRing, RoleNames
  <2> QED
    BY <2>1, <2>3, <2>4 DEF Roles, Linked
<1> QED
  BY <1>3, <1>4 DEF RolesInv

LEMMA TypesInvariant == Spec => []Types
<1>1. Init => Types
  BY InitGood
<1>2. Types /\ [Next]_vars => Types'
  <2>1. ASSUME Types, Next PROVE Types'
    BY <2>1, EveryStep, StepKeeps
  <2>2. ASSUME Types, UNCHANGED vars PROVE Types'
    BY <2>2 DEF Types, vars
  <2> QED
    BY <2>1, <2>2
<1> QED
  BY <1>1, <1>2, PTL DEF Spec

\* The global variables of main.c and ring.c keep their types, whatever the users do.
THEOREM TypeCorrect == Spec => []TypeOK
<1>1. Types => TypeOK
  <2> SUFFICES ASSUME Types PROVE TypeOK
    OBVIOUS
  <2>1. DOMAIN NoRoles = RoleNames
    BY DEF NoRoles, RoleNames
  <2>2. ASSUME NEW p \in Addr
        PROVE  LET n == node[p] IN
               /\ n.self \in NodeID /\ n.succ \in Node /\ n.second_succ \in Node
               /\ n.connection_state \in {"DISCONNECTED", "AWAITING_USER_SELECTION", "CONNECTING", "CONNECTED"}
               /\ n.input_state \in {"COMMAND", "JOIN_NODE_SELECTION", "CHORD_NODE_SELECTION"}
               /\ n.conn \in [DOMAIN NoRoles -> Slots \cup {NULL}]
               /\ n.node_arr \subseteq Node /\ n.neighbor_ids \subseteq NodeID
               /\ {n.awaiting_succ, n.awaiting_pred, n.timer, n.ring, n.routing_ready} \subseteq BOOLEAN
    <3>1. node[p] \in State
      BY DEF Types
    <3> QED
      BY <2>1, <3>1 DEF State
  <2> QED
    BY <2>2 DEF TypeOK, Types
<1> QED
  BY <1>1, TypesInvariant, PTL

LEMMA RolesInvariant == Spec /\ [][NoJoinOverNewNode]_vars => []RolesInv
<1>1. Init => RolesInv
  BY InitGood
<1>2. Types /\ RolesInv /\ [Next]_vars /\ [NoJoinOverNewNode]_vars => RolesInv'
  <2>1. ASSUME Types, RolesInv, Next, NoJoinOverNewNode PROVE RolesInv'
    BY <2>1, EveryStep, StepKeeps
  <2>2. ASSUME RolesInv, UNCHANGED vars PROVE RolesInv'
    BY <2>2 DEF RolesInv, vars
  <2> QED
    BY <2>1, <2>2
<1> QED
  BY <1>1, <1>2, TypesInvariant, PTL DEF Spec

\* No process ends because a chord has not introduced itself (the assertions of
\* handle_message and handle_broken_socket).
ChordsIdentified == \A p \in Addr : node[p].process # "assertion failed: node_id"

LEMMA RolesMeaning == Types /\ RolesInv => RolesSound /\ ChordsIdentified
<1> SUFFICES ASSUME Types, RolesInv PROVE RolesSound /\ ChordsIdentified
  OBVIOUS
<1>1. ASSUME NEW p \in Addr
      PROVE  /\ DOMAIN node[p].conn = RoleNames
             /\ Pointers(node[p], net.conns[p]) /\ Identified(node[p], net.conns[p])
             /\ node[p].process # "assertion failed: node_id"
  <2>1. node[p] \in State /\ Roles(node[p], net.conns[p])
    BY DEF Types, RolesInv
  <2> QED
    BY <2>1 DEF State, Roles
<1> QED
  BY <1>1 DEF RolesSound, ChordsIdentified, Pointers, Identified

\* Whatever the interleaving of the processes, the streams, the timers and the users, the
\* pointers new_node_conn, pred_conn, succ_conn and outbound_chord_conn name different open
\* connections and exactly the new node's is unidentified, so that the assertions on the ID
\* of a chord hold, as long as dj is not given over a node that is being let in (join_ring
\* clears the pointers).
THEOREM RolesCorrect ==
  Spec /\ [][NoJoinOverNewNode]_vars => [](RolesSound /\ ChordsIdentified)
  BY RolesInvariant, TypesInvariant, RolesMeaning, PTL

-----------------------------------------------------------------------------
(* Without direct joins nothing has to be assumed of the users *)

NoDirectJoins == budget \in [Bounds -> Int] /\ budget["direct_join"] = 0

LEMMA BudgetKept ==
  ASSUME NoDirectJoins, Next
  PROVE  NoDirectJoins' /\ NoJoinOverNewNode
<1>1. ASSUME NEW kind \in Commands, Spend(kind) PROVE NoDirectJoins'
  <2>1. kind # "direct_join" /\ kind \in Bounds /\ "total" \in Bounds
        /\ "direct_join" \in Bounds
    BY <1>1 DEF Spend, NoDirectJoins, Bounds, Commands
  <2>2. budget' = [budget EXCEPT ![kind] = @ - 1, !["total"] = @ - 1]
    BY <1>1 DEF Spend
  <2>3. budget' \in [Bounds -> Int]
    BY <2>1, <2>2 DEF NoDirectJoins
  <2>4. budget'["direct_join"] = budget["direct_join"]
    BY <2>1, <2>2 DEF NoDirectJoins
  <2> QED
    BY <2>3, <2>4 DEF NoDirectJoins
<1>2. ASSUME UNCHANGED budget PROVE NoDirectJoins'
  BY <1>2 DEF NoDirectJoins
<1>3. PICK p \in Addr : User(p) \/ System(p) \/ Timeout(p)
  BY DEF Next
<1>4. ASSUME User(p) PROVE NoDirectJoins'
  <2> DEFINE Asks(id) == \/ JoinRefused(p, id) \/ JoinAlone(p, id) \/ JoinAsk(p, id)
                         \/ DirectJoinAlone(p, id)
             Dials(id) == \E q \in Addr \ {p} : \E far \in TypedIds[q] :
                            DirectJoin(p, id, [id |-> far, addr |-> q])
  <2>1. CASE \/ \E id \in TypedIds[p] : Asks(id) \/ Dials(id)
             \/ Leave(p) \/ ChordAsk(p) \/ Exit(p) \/ Start(p)
    <3>1. \E kind \in Commands : Spend(kind)
      <4>1. ASSUME NEW id, JoinRefused(p, id) PROVE Spend("refused_join")
        BY <4>1 DEF JoinRefused, Command
      <4>2. ASSUME NEW id, JoinAlone(p, id) PROVE Spend("join")
        BY <4>2 DEF JoinAlone, Command
      <4>3. ASSUME NEW id, JoinAsk(p, id) PROVE Spend("join")
        BY <4>3 DEF JoinAsk, Command
      <4>4. ASSUME NEW id, DirectJoinAlone(p, id) PROVE Spend("direct_join")
        BY <4>4 DEF DirectJoinAlone, Command
      <4>5. CASE Leave(p)
        BY <4>5 DEF Leave, Command, Commands
      <4>6. CASE ChordAsk(p)
        BY <4>6 DEF ChordAsk, Command, Commands
      <4>7. CASE Exit(p) \/ Start(p)
        BY <4>7 DEF Exit, Start, Command, Commands
      <4>8. ASSUME NEW id, Dials(id) PROVE Spend("direct_join")
        BY <4>8 DEF DirectJoin, Command
      <4> QED
        BY <2>1, <4>1, <4>2, <4>3, <4>4, <4>5, <4>6, <4>7, <4>8 DEF Commands
    <3> QED
      BY <1>1, <3>1
  <2>2. CASE \E d \in node[p].node_arr : JoinSelect(p, d) \/ ChordSelect(p, d)
    BY <1>2, <2>2 DEF JoinSelect, ChordSelect
  <2>3. CASE SelectionCancelled(p) \/ RemoveChord(p)
    BY <1>2, <2>3 DEF SelectionCancelled, RemoveChord
  <2> QED
    BY <1>4, <2>1, <2>2, <2>3 DEF User
<1>5. ASSUME System(p) \/ Timeout(p) PROVE NoDirectJoins'
  <2>1. CASE HandleConnection(p) \/ Timeout(p)
    BY <1>2, <2>1 DEF HandleConnection, AcceptNode, RefuseNode, Timeout
  <2>2. CASE \E i \in Slots : HandleInput(p, i)
    <3>1. PICK i \in Slots : HandleInput(p, i)
      BY <2>2
    <3>2. \E roles, types : Reading(p, i, roles, types)
      <4>1. CASE NewNodeEntry(p, i) \/ NewNodePred(p, i) \/ NewNodeChord(p, i)
        BY <4>1 DEF NewNodeEntry, NewNodePred, NewNodeChord
      <4>2. CASE NewNodeRoute(p, i) \/ NewNodeBroken(p, i) \/ Misplaced(p, i) \/ PredBroken(p, i)
        BY <4>2 DEF NewNodeRoute, NewNodeBroken, Misplaced, PredBroken
      <4>3. CASE SuccSucc(p, i) \/ SuccEntry(p, i) \/ SuccBroken(p, i)
        BY <4>3, Zenon DEF SuccSucc, SuccEntry, SuccBroken
      <4>4. CASE ChordBroken(p, i) \/ Route(p, i)
        BY <4>4 DEF ChordBroken, Route
      <4> QED
        BY <3>1, <4>1, <4>2, <4>3, <4>4 DEF HandleInput
    <3> QED
      BY <1>2, <3>2 DEF Reading
  <2> QED
    BY <1>5, <2>1, <2>2 DEF System
<1>6. NoJoinOverNewNode
  BY DEF NoJoinOverNewNode, DirectJoin, Command, Spend, NoDirectJoins
<1> QED
  BY <1>3, <1>4, <1>5, <1>6

\* Users who only join, leave, make chords, exit and start the program again never
\* confuse the roles of the connections, at any pace.
THEOREM RolesCorrectWithoutDirectJoins ==
  ASSUME Budget["direct_join"] = 0
  PROVE  Spec => [](RolesSound /\ ChordsIdentified)
<1>1. Init => NoDirectJoins
  BY RingAssumption DEF Init, NoDirectJoins
<1>2. NoDirectJoins /\ [Next]_vars => NoDirectJoins' /\ [NoJoinOverNewNode]_vars
  <2>1. ASSUME NoDirectJoins, Next PROVE NoDirectJoins' /\ NoJoinOverNewNode
    BY <2>1, BudgetKept
  <2>2. ASSUME NoDirectJoins, UNCHANGED vars PROVE NoDirectJoins'
    BY <2>2 DEF NoDirectJoins, vars
  <2> QED
    BY <2>1, <2>2
<1>3. Spec => [][NoJoinOverNewNode]_vars
  BY <1>1, <1>2, PTL DEF Spec
<1> QED
  BY <1>3, RolesCorrect, PTL
=============================================================================
