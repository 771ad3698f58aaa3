-------------------------- MODULE NodeServerProofs --------------------------
(***************************************************************************)
(* Proof that the node server's list is right (RegistryAccurate of module  *)
(* NodeServer), for any number of processes and IDs, any IDs the users ask *)
(* for and any loss and delay of datagrams.                                *)
(***************************************************************************)
EXTENDS NodeServer, TLAPS, SequenceTheorems, WellFoundedInduction

-----------------------------------------------------------------------------
(* The inductive invariant *)

\* The IDs a process can have: the search for an unused one may end past the last.
AnyId   == 0 .. MAX_NODE_ID + 1
Listing == [id : AnyId, client : Client]
Request == [type : {"REG", "UNREG", "NODES"}, id : AnyId, list : {{}}]
LostType == {"REG", "UNREG", "NODES", "OKREG", "OKUNREG", "NODESLIST"}
Answer  == [type : {"OKREG", "OKUNREG", "NODESLIST"}, id : {0}, list : SUBSET Listing]
State   == [connection_state : {"DISCONNECTED", "AWAITING_NODE_LIST", "AWAITING_USER_SELECTION",
                                "CONNECTING", "CONNECTED"},
            input_state : {"COMMAND", "JOIN_NODE_SELECTION", "CHORD_NODE_SELECTION"},
            self : AnyId, action : {"none", "JOIN_ACTION", "CHORD_ACTION"},
            node_arr : SUBSET Listing, chord : BOOLEAN, timer : BOOLEAN,
            renamed : BOOLEAN, held : SUBSET AnyId]

\* Types of the variables.
Types == /\ node \in [Client -> State]
         /\ registry \subseteq Listing
         /\ requests \in [Client -> Seq(Request)]
         /\ answers \in [Client -> Seq(Answer)]
         /\ lost \in Seq(LostType)

\* A process is no member while it waits for the list of a join or for the user to
\* select a successor.
Mode(n) == /\ n.action = "JOIN_ACTION" => n.connection_state = "AWAITING_NODE_LIST"
           /\ n.action # "none" => n.input_state = "COMMAND"
           /\ n.input_state = "JOIN_NODE_SELECTION" =>
                n.connection_state \in {"AWAITING_USER_SELECTION", "DISCONNECTED"}
Modes == \A p \in Client : Mode(node[p])

Member(n)    == n.connection_state = "CONNECTED"
IsReg(m, i)   == m.type = "REG" /\ m.id = i
IsUnreg(m, i) == m.type = "UNREG" /\ m.id = i

\* The IDs of a member and of every UNREG are among the ones the process held.
HeldBy(n, r) == /\ Member(n) => n.self \in n.held
                /\ \A k \in DOMAIN r : r[k].type = "UNREG" => r[k].id \in n.held
Holding == \A p \in Client : HeldBy(node[p], requests[p])

\* A REG under way is that of a member or an UNREG follows it.
Covered(n, r) ==
  \A k \in DOMAIN r : r[k].type = "REG" =>
    \/ Member(n) /\ r[k].id = n.self
    \/ \E j \in DOMAIN r : k < j /\ IsUnreg(r[j], r[k].id)

\* An entry of the list is that of a member or an UNREG for it is under way.
Accounted(p, n, r, reg) ==
  \A d \in reg : d.client = p =>
    \/ Member(n) /\ d.id = n.self
    \/ \E j \in DOMAIN r : IsUnreg(r[j], d.id)

\* The entry stands and nothing under way removes it; or it will once the requests
\* under way have arrived.
Stands(p, i, r, reg) == Entry(p, i) \in reg /\ \A j \in DOMAIN r : ~IsUnreg(r[j], i)
Coming(i, r) ==
  \E k \in DOMAIN r : IsReg(r[k], i) /\ \A j \in DOMAIN r : k < j => ~IsUnreg(r[j], i)

\* Another process holds or held the ID of p.
Shared(p) == \E q \in Client \ {p} : node[p].self \in node[q].held

\* The list is right for p, or will be.
Recorded(p) ==
  /\ Covered(node[p], requests[p])
  /\ Accounted(p, node[p], requests[p], registry)
  /\ Member(node[p]) => \/ Stands(p, node[p].self, requests[p], registry)
                        \/ Coming(node[p].self, requests[p])
                        \/ Shared(p)

Ledger == Lossless => \A p \in Client : ~node[p].renamed => Recorded(p)

Inv == Types /\ Modes /\ Holding /\ Ledger

-----------------------------------------------------------------------------
(* Helpers *)

\* A datagram appended to a sequence.
LEMMA OneMore ==
  ASSUME NEW S, NEW r \in Seq(S), NEW m \in S
  PROVE  /\ r \o <<m>> \in Seq(S)
         /\ DOMAIN r = 1 .. Len(r) /\ Len(r) \in Nat
         /\ DOMAIN (r \o <<m>>) = 1 .. Len(r) + 1
         /\ \A k \in DOMAIN r : (r \o <<m>>)[k] = r[k]
         /\ (r \o <<m>>)[Len(r) + 1] = m
<1>1. <<m>> \in Seq(S) /\ Len(<<m>>) = 1 /\ <<m>>[1] = m
  OBVIOUS
<1>2. /\ r \o <<m>> \in Seq(S)
      /\ Len(r \o <<m>>) = Len(r) + 1
      /\ \A i \in 1 .. Len(r) + 1 : (r \o <<m>>)[i] = IF i <= Len(r) THEN r[i] ELSE <<m>>[i - Len(r)]
  BY <1>1, ConcatProperties
<1>3. Len(r) \in Nat /\ DOMAIN r = 1 .. Len(r)
  BY LenProperties
<1>4. DOMAIN (r \o <<m>>) = 1 .. Len(r) + 1
  BY <1>2, LenProperties
<1> QED
  BY <1>1, <1>2, <1>3, <1>4

\* The state after Send: only p changes.
LEMMA SendFacts ==
  ASSUME Types, NEW p \in Client, NEW n \in State, NEW ms \in Seq(Request), Send(p, n, ms)
  PROVE  /\ node' \in [Client -> State]
         /\ requests' \in [Client -> Seq(Request)]
         /\ node'[p] = n /\ \A q \in Client \ {p} : node'[q] = node[q]
         /\ requests'[p] = requests[p] \o ms
         /\ \A q \in Client \ {p} : requests'[q] = requests[q]
<1>1. requests[p] \o ms \in Seq(Request)
  BY ConcatProperties DEF Types
<1> QED
  BY <1>1 DEF Send, Types

\* The search for an unused ID finds one that a process can have.
LEMMA LowestUnusedId ==
  ASSUME NEW used PROVE LowestUnused(used) \in AnyId
<1> DEFINE T == {i \in AnyId : i \notin used \ {MAX_NODE_ID + 1}}
<1> DEFINE Less == {pair \in Nat \X Nat : pair[1] < pair[2]}
<1>0. MAX_NODE_ID \in Nat
  BY NodeServerAssumption
<1>1. T \subseteq Nat /\ MAX_NODE_ID + 1 \in T
  BY <1>0 DEF AnyId
<1>2. IsWellFoundedOn(Less, Nat)
  BY NatLessThanWellFounded DEF OpToRel
<1> HIDE DEF Less
<1>3. PICK m \in T : \A k \in T : ~(<<k, m>> \in Less)
  <2> HIDE DEF T
  <2> QED
    BY <1>1, <1>2, WFMin
<1>4. \A k \in 0 .. m - 1 : k \in used
  <2> SUFFICES ASSUME NEW k \in 0 .. m - 1, k \notin used PROVE FALSE
    OBVIOUS
  <2>1. m \in AnyId /\ m \in Nat
    BY <1>1
  <2>2. k \in Nat /\ k < m /\ k \in AnyId
    BY <1>0, <2>1 DEF AnyId
  <2>3. k \in T
    BY <2>2
  <2>4. <<k, m>> \in Less
    BY <2>1, <2>2 DEF Less
  <2> QED
    BY <1>3, <2>3, <2>4
<1>5. m \in AnyId /\ m \notin used \ {MAX_NODE_ID + 1}
  BY <1>3
<1> QED
  BY <1>4, <1>5 DEF LowestUnused, AnyId

-----------------------------------------------------------------------------
(* What a process may do to the list *)

\* What is kept when p goes on as n: everyone's own IDs and what others see of them.
Same(p, n) == /\ n.renamed = node[p].renamed
              /\ node[p].held \subseteq n.held
              /\ Mode(n)

\* A process that takes no part in a step finds its record as before.
LEMMA OthersRecorded ==
  ASSUME NEW q \in Client, node'[q] = node[q], requests'[q] = requests[q], registry' = registry,
         \A x \in Client : node[x].held \subseteq node'[x].held,
         Recorded(q)
  PROVE  Recorded(q)'
<1>1. Shared(q) => Shared(q)'
  BY DEF Shared
<1> QED
  BY <1>1 DEF Recorded

\* A process goes on without entering or leaving a ring, and sends at most NODES.
LEMMA Keeps ==
  ASSUME Inv, NEW p \in Client, NEW n \in State, NEW ms \in {<<>>, <<Nodes>>},
         Send(p, n, ms), registry' = registry, lost' = lost, answers' \in [Client -> Seq(Answer)],
         Same(p, n), Member(n) <=> Member(node[p]),
         Member(n) => n.self = node[p].self
  PROVE  Inv'
<1> USE DEF Inv
<1>0. Nodes \in Request
  BY NodeServerAssumption DEF Nodes, Datagram, Request, AnyId
<1>1. ms \in Seq(Request)
  <2>1. CASE ms = <<>>
    BY <2>1, EmptySeq
  <2>2. CASE ms = <<Nodes>>
    BY <1>0, <2>2
  <2> QED
    BY <2>1, <2>2
<1>2. /\ node' \in [Client -> State] /\ requests' \in [Client -> Seq(Request)]
      /\ node'[p] = n /\ \A q \in Client \ {p} : node'[q] = node[q]
      /\ requests'[p] = requests[p] \o ms
      /\ \A q \in Client \ {p} : requests'[q] = requests[q]
  BY <1>1, SendFacts
<1>3. Types'
  BY <1>2 DEF Types
<1>4. Modes'
  BY <1>2 DEF Modes, Same
<1>5. /\ Len(requests[p]) \in Nat /\ DOMAIN requests[p] = 1 .. Len(requests[p])
      /\ DOMAIN requests'[p] \in {1 .. Len(requests[p]), 1 .. Len(requests[p]) + 1}
      /\ \A k \in DOMAIN requests[p] : requests'[p][k] = requests[p][k]
      /\ \A k \in DOMAIN requests'[p] \ DOMAIN requests[p] : requests'[p][k].type = "NODES"
  <2>1. requests[p] \in Seq(Request)
    BY DEF Types
  <2>2. CASE ms = <<>>
    BY <1>2, <2>1, <2>2, ConcatEmptySeq, LenProperties
  <2>3. CASE ms = <<Nodes>>
    <3>1. Nodes.type = "NODES"
      BY DEF Nodes, Datagram
    <3> QED
      BY <1>0, <1>2, <2>1, <2>3, <3>1, OneMore, SMTT(30)
  <2> QED
    BY <2>2, <2>3
<1>6. \A k, j \in DOMAIN requests'[p] : requests'[p][k].type # "NODES" => k \in DOMAIN requests[p]
  BY <1>5
<1>7. Holding'
  <2>1. HeldBy(n, requests'[p])
    <3>1. HeldBy(node[p], requests[p])
      BY DEF Holding
    <3> QED
      BY <1>5, <3>1 DEF HeldBy, Same
  <2> QED
    BY <1>2, <2>1 DEF Holding
<1>8. Ledger'
  <2> SUFFICES ASSUME Lossless, NEW q \in Client, ~node'[q].renamed PROVE Recorded(q)'
    BY DEF Ledger, Lossless
  <2>1. ~node[q].renamed
    BY <1>2 DEF Same
  <2>2. Recorded(q)
    BY <2>1 DEF Ledger
  <2>3. \A x \in Client : node[x].held \subseteq node'[x].held
    BY <1>2 DEF Same
  <2>4. CASE q # p
    BY <1>2, <2>2, <2>3, <2>4, OthersRecorded
  <2>5. CASE q = p
    <3> DEFINE r == requests[p]
               s == requests'[p]
    <3>1. Covered(n, s)
      BY <1>5, <2>2, <2>5, SMTT(30) DEF Recorded, Covered, IsUnreg
    <3>2. Accounted(p, n, s, registry)
      BY <1>5, <2>2, <2>5 DEF Recorded, Accounted, IsUnreg
    <3>3. ASSUME Member(n) PROVE Stands(p, n.self, s, registry) \/ Coming(n.self, s) \/ Shared(p)'
      <4>1. Member(node[p]) /\ n.self = node[p].self
        BY <3>3
      <4>2. Stands(p, n.self, r, registry) => Stands(p, n.self, s, registry)
        BY <1>5 DEF Stands, IsUnreg
      <4>3. ASSUME Coming(n.self, r) PROVE Coming(n.self, s)
        <5>1. PICK k \in DOMAIN r :
                IsReg(r[k], n.self) /\ \A j \in DOMAIN r : k < j => ~IsUnreg(r[j], n.self)
          BY <4>3 DEF Coming
        <5>2. k \in DOMAIN s /\ IsReg(s[k], n.self)
          BY <1>5, <5>1
        <5>3. \A j \in DOMAIN s : k < j => ~IsUnreg(s[j], n.self)
          BY <1>5, <5>1 DEF IsUnreg
        <5> QED
          BY <5>2, <5>3 DEF Coming
      <4>4. Shared(p) => Shared(p)'
        BY <1>2, <2>3, <4>1 DEF Shared
      <4> QED
        BY <2>2, <2>5, <4>1, <4>2, <4>3, <4>4 DEF Recorded
    <3> QED
      BY <1>2, <2>5, <3>1, <3>2, <3>3 DEF Recorded
  <2> QED
    BY <2>4, <2>5
<1> QED
  BY <1>3, <1>4, <1>7, <1>8

\* What holds after p has sent one more request m: its requests and everyone's types.
LEMMA SendsOne ==
  ASSUME Inv, NEW p \in Client, NEW n \in State, NEW m \in Request, Send(p, n, <<m>>),
         registry' = registry, lost' = lost, answers' \in [Client -> Seq(Answer)], Mode(n)
  PROVE  /\ Types' /\ Modes'
         /\ node'[p] = n /\ \A q \in Client \ {p} : node'[q] = node[q]
         /\ \A q \in Client \ {p} : requests'[q] = requests[q]
         /\ Len(requests[p]) \in Nat /\ DOMAIN requests[p] = 1 .. Len(requests[p])
         /\ DOMAIN requests'[p] = 1 .. Len(requests[p]) + 1
         /\ \A k \in DOMAIN requests[p] : requests'[p][k] = requests[p][k]
         /\ requests'[p][Len(requests[p]) + 1] = m
<1> USE DEF Inv
<1>1. <<m>> \in Seq(Request)
  OBVIOUS
<1>2. /\ node' \in [Client -> State] /\ requests' \in [Client -> Seq(Request)]
      /\ node'[p] = n /\ \A q \in Client \ {p} : node'[q] = node[q]
      /\ requests'[p] = requests[p] \o <<m>>
      /\ \A q \in Client \ {p} : requests'[q] = requests[q]
  BY <1>1, SendFacts
<1>3. Types'
  BY <1>2 DEF Types
<1>4. Modes'
  BY <1>2 DEF Modes
<1>5. requests[p] \in Seq(Request)
  BY DEF Types
<1> QED
  BY <1>2, <1>3, <1>4, <1>5, OneMore

\* A process becomes a member and sends REG (on_join_end).
LEMMA Enters ==
  ASSUME Inv, NEW p \in Client, NEW n \in State, Send(p, n, <<Reg(n)>>),
         registry' = registry, lost' = lost, answers' \in [Client -> Seq(Answer)],
         Same(p, n), ~Member(node[p]), Member(n), n.self \in n.held
  PROVE  Inv'
<1> USE DEF Inv
<1> DEFINE r == requests[p]
           s == requests'[p]
<1>0. Reg(n) \in Request /\ Reg(n).type = "REG" /\ Reg(n).id = n.self
  BY DEF Reg, Datagram, Request, State
<1>1. /\ Types' /\ Modes'
      /\ node'[p] = n /\ \A q \in Client \ {p} : node'[q] = node[q]
      /\ \A q \in Client \ {p} : requests'[q] = requests[q]
      /\ Len(r) \in Nat /\ DOMAIN r = 1 .. Len(r)
      /\ DOMAIN s = 1 .. Len(r) + 1
      /\ \A k \in DOMAIN r : s[k] = r[k]
      /\ s[Len(r) + 1] = Reg(n)
  BY <1>0, SendsOne DEF Same
<1>2. Holding'
  <2>1. HeldBy(node[p], r)
    BY DEF Holding
  <2>2. HeldBy(n, s)
    BY <1>0, <1>1, <2>1, SMTT(30) DEF HeldBy, Same
  <2> QED
    BY <1>1, <2>2 DEF Holding
<1>3. Ledger'
  <2> SUFFICES ASSUME Lossless, NEW q \in Client, ~node'[q].renamed PROVE Recorded(q)'
    BY DEF Ledger, Lossless
  <2>1. ~node[q].renamed
    BY <1>1 DEF Same
  <2>2. Recorded(q)
    BY <2>1 DEF Ledger
  <2>3. \A x \in Client : node[x].held \subseteq node'[x].held
    BY <1>1 DEF Same
  <2>4. CASE q # p
    BY <1>1, <2>2, <2>3, <2>4, OthersRecorded
  <2>5. CASE q = p
    <3>1. Covered(n, s)
      <4> SUFFICES ASSUME NEW k \in DOMAIN s, s[k].type = "REG"
                   PROVE  \/ Member(n) /\ s[k].id = n.self
                          \/ \E j \in DOMAIN s : k < j /\ IsUnreg(s[j], s[k].id)
        BY DEF Covered
      <4>1. CASE k = Len(r) + 1
        BY <1>0, <1>1, <4>1
      <4>2. CASE k \in DOMAIN r
        <5>1. r[k].type = "REG" /\ r[k].id = s[k].id
          BY <1>1, <4>2
        <5>2. PICK j \in DOMAIN r : k < j /\ IsUnreg(r[j], r[k].id)
          BY <2>2, <2>5, <4>2, <5>1 DEF Recorded, Covered
        <5> QED
          BY <1>1, <5>1, <5>2
      <4> QED
        BY <1>1, <4>1, <4>2
    <3>2. Accounted(p, n, s, registry)
      <4> SUFFICES ASSUME NEW d \in registry, d.client = p
                   PROVE  \E j \in DOMAIN s : IsUnreg(s[j], d.id)
        BY DEF Accounted
      <4>1. PICK j \in DOMAIN r : IsUnreg(r[j], d.id)
        BY <2>2, <2>5 DEF Recorded, Accounted
      <4> QED
        BY <1>1, <4>1
    <3>3. Coming(n.self, s)
      <4>1. Len(r) + 1 \in DOMAIN s /\ IsReg(s[Len(r) + 1], n.self)
        BY <1>0, <1>1 DEF IsReg
      <4>2. \A j \in DOMAIN s : ~(Len(r) + 1 < j)
        BY <1>1
      <4> QED
        BY <4>1, <4>2 DEF Coming
    <3> QED
      BY <1>1, <2>5, <3>1, <3>2, <3>3 DEF Recorded
  <2> QED
    BY <2>4, <2>5
<1> QED
  BY <1>1, <1>2, <1>3

\* A member leaves and sends UNREG (leave_ring).
LEMMA Exits ==
  ASSUME Inv, NEW p \in Client, NEW n \in State, Send(p, n, <<Unreg(n)>>),
         registry' = registry, lost' = lost, answers' \in [Client -> Seq(Answer)],
         Same(p, n), Member(node[p]), ~Member(n), n.self = node[p].self
  PROVE  Inv'
<1> USE DEF Inv
<1> DEFINE r == requests[p]
           s == requests'[p]
<1>0. Unreg(n) \in Request /\ Unreg(n).type = "UNREG" /\ Unreg(n).id = n.self
  BY DEF Unreg, Datagram, Request, State
<1>1. /\ Types' /\ Modes'
      /\ node'[p] = n /\ \A q \in Client \ {p} : node'[q] = node[q]
      /\ \A q \in Client \ {p} : requests'[q] = requests[q]
      /\ Len(r) \in Nat /\ DOMAIN r = 1 .. Len(r)
      /\ DOMAIN s = 1 .. Len(r) + 1
      /\ \A k \in DOMAIN r : s[k] = r[k]
      /\ s[Len(r) + 1] = Unreg(n)
  BY <1>0, SendsOne DEF Same
<1>2. Holding'
  <2>1. HeldBy(node[p], r)
    BY DEF Holding
  <2>2. HeldBy(n, s)
    BY <1>0, <1>1, <2>1, SMTT(30) DEF HeldBy, Same
  <2> QED
    BY <1>1, <2>2 DEF Holding
<1>3. Ledger'
  <2> SUFFICES ASSUME Lossless, NEW q \in Client, ~node'[q].renamed PROVE Recorded(q)'
    BY DEF Ledger, Lossless
  <2>1. ~node[q].renamed
    BY <1>1 DEF Same
  <2>2. Recorded(q)
    BY <2>1 DEF Ledger
  <2>3. \A x \in Client : node[x].held \subseteq node'[x].held
    BY <1>1 DEF Same
  <2>4. CASE q # p
    BY <1>1, <2>2, <2>3, <2>4, OthersRecorded
  <2>5. CASE q = p
    <3>0. Len(r) + 1 \in DOMAIN s /\ IsUnreg(s[Len(r) + 1], n.self)
      BY <1>0, <1>1 DEF IsUnreg
    <3>1. Covered(n, s)
      <4> SUFFICES ASSUME NEW k \in DOMAIN s, s[k].type = "REG"
                   PROVE  \E j \in DOMAIN s : k < j /\ IsUnreg(s[j], s[k].id)
        BY DEF Covered
      <4>1. k \in DOMAIN r /\ r[k] = s[k] /\ k < Len(r) + 1
        BY <1>0, <1>1
      <4>2. CASE r[k].id = n.self
        BY <3>0, <4>1, <4>2
      <4>3. CASE r[k].id # n.self
        <5>1. PICK j \in DOMAIN r : k < j /\ IsUnreg(r[j], r[k].id)
          BY <2>2, <2>5, <4>1, <4>3 DEF Recorded, Covered
        <5> QED
          BY <1>1, <4>1, <5>1
      <4> QED
        BY <4>2, <4>3
    <3>2. Accounted(p, n, s, registry)
      BY <1>1, <2>2, <2>5, <3>0, SMTT(30) DEF Recorded, Accounted
    <3> QED
      BY <1>1, <2>5, <3>1, <3>2 DEF Recorded
  <2> QED
    BY <2>4, <2>5
<1> QED
  BY <1>1, <1>2, <1>3

\* A refused join changes the ID of p, which is excepted from then on.
LEMMA Renames ==
  ASSUME Inv, NEW p \in Client, NEW n \in State, Send(p, n, <<>>),
         registry' = registry, lost' = lost, answers' = answers,
         n.renamed, node[p].held \subseteq n.held, Mode(n), n.self \in n.held
  PROVE  Inv'
<1> USE DEF Inv
<1>0. requests[p] \in Seq(Request)
  BY DEF Types
<1>1. /\ node' \in [Client -> State] /\ requests' \in [Client -> Seq(Request)]
      /\ node'[p] = n /\ \A q \in Client \ {p} : node'[q] = node[q]
      /\ requests'[p] = requests[p] \o <<>>
      /\ \A q \in Client \ {p} : requests'[q] = requests[q]
  BY EmptySeq, SendFacts
<1>2. requests'[p] = requests[p]
  BY <1>0, <1>1, ConcatEmptySeq
<1>3. Types'
  BY <1>1 DEF Types
<1>4. Modes'
  BY <1>1 DEF Modes
<1>5. Holding'
  BY <1>1, <1>2 DEF Holding, HeldBy
<1>6. Ledger'
  <2> SUFFICES ASSUME Lossless, NEW q \in Client, ~node'[q].renamed PROVE Recorded(q)'
    BY DEF Ledger, Lossless
  <2>1. q # p /\ ~node[q].renamed
    BY <1>1
  <2>2. Recorded(q)
    BY <2>1 DEF Ledger
  <2>3. \A x \in Client : node[x].held \subseteq node'[x].held
    BY <1>1
  <2> QED
    BY <1>1, <2>1, <2>2, <2>3, OthersRecorded
<1> QED
  BY <1>3, <1>4, <1>5, <1>6

-----------------------------------------------------------------------------
(* What the server and the network may do to the list *)

\* The first request of p is taken off its queue.
LEMMA OneLess ==
  ASSUME Types, NEW p \in Client, requests[p] # <<>>,
         requests' = [requests EXCEPT ![p] = Tail(@)]
  PROVE  /\ requests' \in [Client -> Seq(Request)]
         /\ \A q \in Client \ {p} : requests'[q] = requests[q]
         /\ 1 \in DOMAIN requests[p] /\ Head(requests[p]) = requests[p][1]
         /\ Head(requests[p]) \in Request
         /\ \A k \in DOMAIN requests'[p] :
              /\ k + 1 \in DOMAIN requests[p] /\ k \in Nat
              /\ requests'[p][k] = requests[p][k + 1]
         /\ \A k \in DOMAIN requests[p] :
              k = 1 \/ (k \in Nat /\ k - 1 \in DOMAIN requests'[p]
                         /\ requests'[p][k - 1] = requests[p][k])
<1> DEFINE r == requests[p]
           s == Tail(r)
<1>1. r \in Seq(Request) /\ r # <<>>
  BY DEF Types
<1>2. /\ Head(r) \in Request /\ Head(r) = r[1]
      /\ s \in Seq(Request) /\ Len(s) = Len(r) - 1
      /\ \A i \in 1 .. Len(s) : s[i] = r[i + 1]
  BY <1>1, HeadTailProperties
<1>3. Len(r) \in Nat /\ Len(r) >= 1 /\ DOMAIN r = 1 .. Len(r) /\ DOMAIN s = 1 .. Len(s)
  BY <1>1, <1>2, LenProperties, EmptySeq
<1>4. requests' \in [Client -> Seq(Request)] /\ requests'[p] = s
  BY <1>2 DEF Types
<1>5. \A q \in Client \ {p} : requests'[q] = requests[q]
  BY DEF Types
<1> QED
  BY <1>2, <1>3, <1>4, <1>5

\* The list has changed as the request m of p asks.
Handled(p, m) ==
  /\ \A d \in registry' : d \in registry \/ (m.type = "REG" /\ d = Entry(p, m.id))
  /\ \A d \in registry' : ~IsUnreg(m, d.id)
  /\ \A d \in registry : IsUnreg(m, d.id) \/ d \in registry'
  /\ \A i : IsReg(m, i) => Entry(p, i) \in registry'

\* What ServerHandles makes of the list.
LEMMA Served ==
  ASSUME Types, NEW p \in Client, requests[p] # <<>>, Head(requests[p]) \in Request,
         registry' = ServerHandles(p).registry
  PROVE  /\ registry' \subseteq Listing
         /\ ServerHandles(p).answer \in Answer
         /\ Handled(p, Head(requests[p]))
<1> DEFINE m == Head(requests[p])
<1>0. m.id \in AnyId /\ registry \subseteq Listing
  BY DEF Types, Request
<1>1. CASE m.type = "REG"
  <2>1. /\ ServerHandles(p).registry = registry \cup {Entry(p, m.id)}
        /\ ServerHandles(p).answer = Datagram("OKREG", 0, {})
    BY <1>1 DEF ServerHandles
  <2>2. Entry(p, m.id) \in Listing
    BY <1>0 DEF Entry, Listing
  <2>3. Datagram("OKREG", 0, {}) \in Answer
    BY DEF Datagram, Answer
  <2> QED
    BY <1>0, <1>1, <2>1, <2>2, <2>3 DEF Handled, IsUnreg, IsReg
<1>2. CASE m.type = "UNREG"
  <2>1. /\ ServerHandles(p).registry = {d \in registry : d.id # m.id}
        /\ ServerHandles(p).answer = Datagram("OKUNREG", 0, {})
    BY <1>2 DEF ServerHandles
  <2>2. Datagram("OKUNREG", 0, {}) \in Answer
    BY DEF Datagram, Answer
  <2> QED
    BY <1>0, <1>2, <2>1, <2>2 DEF Handled, IsUnreg, IsReg
<1>3. CASE m.type = "NODES"
  <2>1. /\ ServerHandles(p).registry = registry
        /\ ServerHandles(p).answer = Datagram("NODESLIST", 0, registry)
    BY <1>3 DEF ServerHandles
  <2>2. Datagram("NODESLIST", 0, registry) \in Answer
    BY <1>0 DEF Datagram, Answer
  <2> QED
    BY <1>0, <1>3, <2>1, <2>2 DEF Handled, IsUnreg, IsReg
<1> QED
  BY <1>1, <1>2, <1>3 DEF Request

\* A request of p is handled, or one that does not matter is lost: the list stays
\* right for everyone, or will be.
LEMMA Takes ==
  ASSUME Inv, NEW p \in Client, requests[p] # <<>>, requests' = [requests EXCEPT ![p] = Tail(@)],
         node' = node, registry' \subseteq Listing, answers' \in [Client -> Seq(Answer)],
         lost' \in Seq(LostType), Lossless' => Lossless /\ Handled(p, Head(requests[p]))
  PROVE  Inv'
<1> USE DEF Inv
<1> DEFINE r == requests[p]
           s == requests'[p]
           m == Head(requests[p])
<1>1. /\ requests' \in [Client -> Seq(Request)]
      /\ \A q \in Client \ {p} : requests'[q] = requests[q]
      /\ 1 \in DOMAIN r /\ m = r[1] /\ m \in Request
      /\ \A k \in DOMAIN s : k + 1 \in DOMAIN r /\ k \in Nat /\ s[k] = r[k + 1]
      /\ \A k \in DOMAIN r :
           k = 1 \/ (k \in Nat /\ k - 1 \in DOMAIN s /\ s[k - 1] = r[k])
  BY OneLess
<1>3. Types'
  BY <1>1 DEF Types
<1>4. Modes'
  BY DEF Modes
<1>5. Holding'
  <2>1. HeldBy(node[p], r)
    BY DEF Holding
  <2>2. HeldBy(node[p], s)
    BY <1>1, <2>1 DEF HeldBy
  <2> QED
    BY <1>1, <2>2 DEF Holding
<1>6. Ledger'
  <2> SUFFICES ASSUME Lossless', NEW q \in Client, ~node[q].renamed PROVE Recorded(q)'
    BY DEF Ledger
  <2>0. /\ \A d \in registry' : d \in registry \/ (m.type = "REG" /\ d = Entry(p, m.id))
        /\ \A d \in registry' : ~IsUnreg(m, d.id)
        /\ \A d \in registry : IsUnreg(m, d.id) \/ d \in registry'
        /\ \A i : IsReg(m, i) => Entry(p, i) \in registry'
    BY DEF Handled
  <2>1. Recorded(q)
    BY DEF Ledger
  <2>2. Shared(q)' <=> Shared(q)
    BY DEF Shared
  <2>3. CASE q # p
    <3>1. requests'[q] = requests[q]
      BY <1>1, <2>3
    <3>2. Accounted(q, node[q], requests[q], registry')
      <4> SUFFICES ASSUME NEW d \in registry', d.client = q PROVE d \in registry
        BY <2>1 DEF Recorded, Accounted
      <4>1. d # Entry(p, m.id)
        BY <2>3 DEF Entry
      <4> QED
        BY <2>0, <4>1
    <3>3. ASSUME Member(node[q]), Stands(q, node[q].self, requests[q], registry)
          PROVE  Stands(q, node[q].self, requests[q], registry') \/ Shared(q)
      <4>1. Entry(q, node[q].self) \in registry
        BY <3>3 DEF Stands
      <4>2. CASE IsUnreg(m, node[q].self)
        <5>1. node[q].self \in node[p].held
          BY <1>1, <4>2 DEF Holding, HeldBy, IsUnreg
        <5> QED
          BY <2>3, <5>1 DEF Shared
      <4>3. CASE ~IsUnreg(m, node[q].self)
        <5>1. Entry(q, node[q].self).id = node[q].self
          BY DEF Entry
        <5> QED
          BY <2>0, <3>3, <4>1, <4>3, <5>1 DEF Stands
      <4> QED
        BY <4>2, <4>3
    <3> QED
      BY <2>1, <2>2, <3>1, <3>2, <3>3 DEF Recorded
  <2>4. CASE q = p
    <3> DEFINE n == node[p]
    <3>1. Covered(n, r) /\ Accounted(p, n, r, registry)
      BY <2>1, <2>4 DEF Recorded
    <3>2. Covered(n, s)
      <4> SUFFICES ASSUME NEW k \in DOMAIN s, s[k].type = "REG", ~(Member(n) /\ s[k].id = n.self)
                   PROVE  \E j \in DOMAIN s : k < j /\ IsUnreg(s[j], s[k].id)
        BY DEF Covered
      <4>1. k \in Nat /\ k + 1 \in DOMAIN r /\ s[k] = r[k + 1]
        BY <1>1
      <4>2. PICK j \in DOMAIN r : k + 1 < j /\ IsUnreg(r[j], r[k + 1].id)
        BY <3>1, <4>1 DEF Covered
      <4>3. j \in Nat /\ j - 1 \in DOMAIN s /\ s[j - 1] = r[j] /\ k < j - 1
        BY <1>1, <4>1, <4>2
      <4> QED
        BY <4>1, <4>2, <4>3
    <3>3. Accounted(p, n, s, registry')
      <4> SUFFICES ASSUME NEW d \in registry', d.client = p, ~(Member(n) /\ d.id = n.self)
                   PROVE  \E j \in DOMAIN s : IsUnreg(s[j], d.id)
        BY DEF Accounted
      <4>1. \E j \in DOMAIN r : j # 1 /\ IsUnreg(r[j], d.id)
        <5>1. CASE d \in registry
          <6>1. PICK j \in DOMAIN r : IsUnreg(r[j], d.id)
            BY <3>1, <5>1 DEF Accounted
          <6>2. ~IsUnreg(r[1], d.id)
            BY <1>1, <2>0
          <6> QED
            BY <6>1, <6>2
        <5>2. CASE m.type = "REG" /\ d = Entry(p, m.id)
          <6>1. d.id = r[1].id /\ r[1].type = "REG"
            BY <1>1, <5>2 DEF Entry
          <6>2. PICK j \in DOMAIN r : 1 < j /\ IsUnreg(r[j], r[1].id)
            BY <1>1, <3>1, <6>1 DEF Covered
          <6> QED
            BY <6>1, <6>2
        <5> QED
          BY <2>0, <5>1, <5>2
      <4> QED
        BY <1>1, <4>1, Zenon
    <3>4. ASSUME Member(n)
          PROVE  Stands(p, n.self, s, registry') \/ Coming(n.self, s) \/ Shared(p)
      <4>1. ASSUME Stands(p, n.self, r, registry) PROVE Stands(p, n.self, s, registry')
        <5>1. ~IsUnreg(m, n.self) /\ Entry(p, n.self) \in registry /\ Entry(p, n.self).id = n.self
          BY <1>1, <4>1 DEF Stands, Entry
        <5>2. \A j \in DOMAIN s : ~IsUnreg(s[j], n.self)
          BY <1>1, <4>1 DEF Stands
        <5> QED
          BY <2>0, <5>1, <5>2 DEF Stands
      <4>2. ASSUME Coming(n.self, r) PROVE Stands(p, n.self, s, registry') \/ Coming(n.self, s)
        <5>1. PICK k \in DOMAIN r :
                IsReg(r[k], n.self) /\ \A j \in DOMAIN r : k < j => ~IsUnreg(r[j], n.self)
          BY <4>2 DEF Coming
        <5>2. CASE k = 1
          <6>1. Entry(p, n.self) \in registry'
            BY <1>1, <2>0, <5>1, <5>2
          <6>2. \A j \in DOMAIN s : ~IsUnreg(s[j], n.self)
            <7> SUFFICES ASSUME NEW j \in DOMAIN s PROVE ~IsUnreg(s[j], n.self)
              OBVIOUS
            <7>1. j \in Nat /\ j + 1 \in DOMAIN r /\ s[j] = r[j + 1] /\ DOMAIN r \subseteq Nat \ {0}
              BY <1>1, LenProperties, SMTT(30) DEF Types
            <7>2. j # 0
              BY <1>1, LenProperties DEF Types
            <7>3. k < j + 1
              BY <5>2, <7>1, <7>2
            <7>4. ~IsUnreg(r[j + 1], n.self)
              BY <5>1, <7>1, <7>3
            <7> QED
              BY <7>1, <7>4
          <6> QED
            BY <6>1, <6>2 DEF Stands
        <5>3. CASE k # 1
          <6>1. k \in Nat /\ k - 1 \in DOMAIN s /\ s[k - 1] = r[k]
            BY <1>1, <5>3
          <6>2. ASSUME NEW j \in DOMAIN s, k - 1 < j PROVE ~IsUnreg(s[j], n.self)
            <7>1. j \in Nat /\ j + 1 \in DOMAIN r /\ s[j] = r[j + 1]
              BY <1>1
            <7>2. k < j + 1
              BY <6>1, <6>2, <7>1
            <7>3. ~IsUnreg(r[j + 1], n.self)
              BY <5>1, <7>1, <7>2
            <7> QED
              BY <7>1, <7>3
          <6> QED
            BY <5>1, <6>1, <6>2 DEF Coming
        <5> QED
          BY <5>2, <5>3
      <4> QED
        BY <2>1, <2>4, <3>4, <4>1, <4>2 DEF Recorded
    <3> QED
      BY <2>2, <2>4, <3>2, <3>3, <3>4 DEF Recorded
  <2> QED
    BY <2>3, <2>4
<1> QED
  BY <1>3, <1>4, <1>5, <1>6

\* A datagram is taken off a socket.
LEMMA Received ==
  ASSUME Types, NEW p \in Client, answers[p] # <<>>, answers' = [answers EXCEPT ![p] = Tail(@)]
  PROVE  answers' \in [Client -> Seq(Answer)] /\ Head(answers[p]) \in Answer
<1>1. Tail(answers[p]) \in Seq(Answer) /\ Head(answers[p]) \in Answer
  BY HeadTailProperties DEF Types
<1> QED
  BY <1>1 DEF Types

\* The server answers a request of p.
LEMMA Serves == ASSUME Inv, NEW p \in Client, Serve(p) PROVE Inv'
<1>0. /\ requests[p] # <<>> /\ registry' = ServerHandles(p).registry
      /\ requests' = [requests EXCEPT ![p] = Tail(@)]
      /\ answers' = [answers EXCEPT ![p] = Append(@, ServerHandles(p).answer)]
      /\ node' = node /\ lost' = lost
  BY DEF Serve
<1>1. Head(requests[p]) \in Request
  BY <1>0, OneLess DEF Inv
<1>2. /\ registry' \subseteq Listing
      /\ ServerHandles(p).answer \in Answer
      /\ Handled(p, Head(requests[p]))
  BY <1>0, <1>1, Served DEF Inv
<1>3. answers' \in [Client -> Seq(Answer)]
  <2>1. Append(answers[p], ServerHandles(p).answer) \in Seq(Answer)
    BY <1>2, AppendProperties DEF Inv, Types
  <2> QED
    BY <1>0, <2>1 DEF Inv, Types
<1>4. lost' \in Seq(LostType) /\ (Lossless' => Lossless)
  BY <1>0 DEF Inv, Types, Lossless
<1> QED
  BY <1>0, <1>2, <1>3, <1>4, Takes

\* One more datagram is lost: if none that matters is lost then, none was before.
LEMMA OneLost ==
  ASSUME lost \in Seq(LostType), NEW type \in LostType, lost' = Append(lost, type)
  PROVE  /\ lost' \in Seq(LostType)
         /\ Lossless' => Lossless /\ type \notin {"REG", "UNREG"}
<1>1. /\ lost' \in Seq(LostType) /\ Len(lost') = Len(lost) + 1
      /\ \A i \in 1 .. Len(lost) : lost'[i] = lost[i]
      /\ lost'[Len(lost) + 1] = type
  BY AppendProperties
<1>2. Len(lost) \in Nat /\ DOMAIN lost = 1 .. Len(lost) /\ DOMAIN lost' = 1 .. Len(lost) + 1
  BY <1>1, LenProperties
<1> QED
  BY <1>1, <1>2 DEF Lossless

\* A request of p is lost.
LEMMA LosesRequest == ASSUME Inv, NEW p \in Client, LoseRequest(p) PROVE Inv'
<1>0. /\ requests[p] # <<>> /\ lost' = Append(lost, Head(requests[p]).type)
      /\ requests' = [requests EXCEPT ![p] = Tail(@)]
      /\ node' = node /\ registry' = registry /\ answers' = answers
  BY DEF LoseRequest
<1>1. Head(requests[p]) \in Request
  BY <1>0, OneLess DEF Inv
<1>2. Head(requests[p]).type \in LostType
  BY <1>1 DEF Request, LostType
<1>3. /\ lost' \in Seq(LostType)
      /\ Lossless' => Lossless /\ Head(requests[p]).type \notin {"REG", "UNREG"}
  BY <1>0, <1>2, OneLost DEF Inv, Types
<1>4. Head(requests[p]).type \notin {"REG", "UNREG"} => Handled(p, Head(requests[p]))
  BY <1>0 DEF Handled, IsReg, IsUnreg
<1>5. registry' \subseteq Listing /\ answers' \in [Client -> Seq(Answer)]
  BY <1>0 DEF Inv, Types
<1> QED
  BY <1>0, <1>3, <1>4, <1>5, Takes

\* Taking or losing an answer in the main loop changes nothing else.
LEMMA AnswersOnly ==
  ASSUME Inv, node' = node, registry' = registry, requests' = requests,
         answers' \in [Client -> Seq(Answer)], lost' \in Seq(LostType), Lossless' => Lossless
  PROVE  Inv'
<1> USE DEF Inv
<1>1. Types' /\ Modes' /\ Holding'
  BY DEF Types, Modes, Holding
<1>2. Ledger'
  BY DEF Ledger, Recorded, Shared
<1> QED
  BY <1>1, <1>2

-----------------------------------------------------------------------------
(* The actions *)

\* leave_ring() of a process that is what it was but for what n leaves behind.
LEMMA Leaves ==
  ASSUME Inv, NEW p \in Client, NEW n \in State, leave_ring(p, n),
         registry' = registry, lost' = lost, answers' \in [Client -> Seq(Answer)],
         n.renamed = node[p].renamed, n.held = node[p].held, Member(n) <=> Member(node[p]),
         Member(n) => n.self = node[p].self
  PROVE  Inv'
<1> DEFINE l == [n EXCEPT !.connection_state = "DISCONNECTED", !.chord = FALSE, !.action = "none"]
<1>1. l \in State /\ l.self = n.self /\ Same(p, l) /\ ~Member(l)
  BY DEF State, Same, Mode, Member
<1>2. Unreg(n) = Unreg(l)
  BY <1>1 DEF Unreg
<1>3. CASE Member(n)
  <2>1. Send(p, l, <<Unreg(l)>>)
    BY <1>2, <1>3 DEF leave_ring, Member
  <2> QED
    BY <1>1, <1>3, <2>1, Exits
<1>4. CASE ~Member(n)
  <2>1. Send(p, l, <<>>)
    BY <1>4 DEF leave_ring, Member
  <2> QED
    BY <1>1, <1>4, <2>1, Keeps
<1> QED
  BY <1>3, <1>4

\* on_join_end() of a process that is not a member.
LEMMA Joins ==
  ASSUME Inv, NEW p \in Client, NEW n \in State, on_join_end(p, n),
         registry' = registry, lost' = lost, answers' \in [Client -> Seq(Answer)],
         n.renamed = node[p].renamed, n.held = node[p].held, ~Member(node[p]),
         n.input_state # "JOIN_NODE_SELECTION"
  PROVE  Inv'
<1> DEFINE j == [n EXCEPT !.connection_state = "CONNECTED", !.action = "none",
                          !.held = @ \cup {n.self}]
<1>1. j \in State /\ j.self = n.self /\ Same(p, j) /\ Member(j) /\ j.self \in j.held
  BY DEF State, Same, Mode, Member
<1>2. Reg(n) = Reg(j)
  BY <1>1 DEF Reg
<1>3. Send(p, j, <<Reg(j)>>)
  BY <1>2 DEF on_join_end
<1> QED
  BY <1>1, <1>3, Enters

\* A process goes on as n, quietly.
LEMMA GoesOn ==
  ASSUME Inv, NEW p \in Client, NEW n \in State, Quietly(p, n),
         registry' = registry, lost' = lost, answers' \in [Client -> Seq(Answer)],
         Same(p, n), Member(n) <=> Member(node[p]), Member(n) => n.self = node[p].self
  PROVE  Inv'
BY Keeps DEF Quietly

\* The steps of a process in its main loop.
LEMMA MainLoopStep ==
  ASSUME Inv, NEW p \in Client,
         \/ Join(p) \/ JoinRefused(p) \/ Leave(p) \/ ChordAsk(p)
         \/ SelectSuccessor(p) \/ SelectChord(p) \/ Cancel(p)
         \/ JoinEnds(p) \/ RingLost(p) \/ PredChanges(p) \/ PredTimeout(p) \/ MainReceives(p)
  PROVE  Inv'
<1>0. /\ node[p] \in State /\ Mode(node[p]) /\ answers \in [Client -> Seq(Answer)]
      /\ lost \in Seq(LostType)
  BY DEF Inv, Types, Modes
<1>1. CASE Join(p)
  <2>0. PICK id \in TypedIds[p] :
          Send(p, [node[p] EXCEPT !.self = id, !.action = "JOIN_ACTION",
                                  !.connection_state = "AWAITING_NODE_LIST"], <<Nodes>>)
    BY <1>1 DEF Join
  <2> DEFINE n == [node[p] EXCEPT !.self = id, !.action = "JOIN_ACTION",
                                  !.connection_state = "AWAITING_NODE_LIST"]
  <2>1. /\ node[p].input_state = "COMMAND" /\ ~Member(node[p])
        /\ registry' = registry /\ lost' = lost /\ answers' = answers /\ Send(p, n, <<Nodes>>)
    BY <1>1, <2>0 DEF Join, Command, Member
  <2>2. id \in AnyId
    BY NodeServerAssumption DEF NodeID, AnyId
  <2>3. n \in State /\ Same(p, n) /\ ~Member(n)
    BY <1>0, <2>1, <2>2 DEF State, Same, Mode, Member
  <2> QED
    BY <1>0, <2>1, <2>3, Keeps
<1>2. CASE JoinRefused(p)
  <2>1. /\ node[p].input_state = "COMMAND"
        /\ registry' = registry /\ lost' = lost /\ answers' = answers
    BY <1>2 DEF JoinRefused, Command
  <2>2. PICK id \in NodeID :
          Send(p, [node[p] EXCEPT !.self = id, !.renamed = TRUE, !.held = @ \cup {id}], <<>>)
    BY <1>2 DEF JoinRefused, Quietly
  <2> DEFINE n == [node[p] EXCEPT !.self = id, !.renamed = TRUE, !.held = @ \cup {id}]
  <2>3. id \in AnyId
    BY NodeServerAssumption DEF NodeID, AnyId
  <2>4. n \in State /\ n.renamed /\ node[p].held \subseteq n.held /\ Mode(n) /\ n.self \in n.held
    BY <1>0, <2>1, <2>3 DEF State, Mode
  <2> QED
    BY <2>1, <2>2, <2>4, Renames
<1>3. CASE Leave(p)
  BY <1>0, <1>3, Leaves DEF Leave, Command
<1>4. CASE ChordAsk(p)
  <2> DEFINE n == [node[p] EXCEPT !.action = "CHORD_ACTION"]
  <2>1. /\ node[p].input_state = "COMMAND"
        /\ registry' = registry /\ lost' = lost /\ answers' = answers /\ Send(p, n, <<Nodes>>)
    BY <1>4 DEF ChordAsk, Command
  <2>2. /\ n \in State /\ Same(p, n) /\ n.self = node[p].self
        /\ Member(n) <=> Member(node[p])
    BY <1>0, <2>1 DEF State, Same, Mode, Member
  <2> QED
    BY <1>0, <2>1, <2>2, Keeps
<1>5. CASE SelectSuccessor(p)
  <2> DEFINE n == [node[p] EXCEPT !.connection_state = "CONNECTING", !.input_state = "COMMAND",
                                  !.node_arr = {}, !.chord = FALSE]
             w == [n EXCEPT !.timer = TRUE]
  <2>1. /\ node[p].input_state = "JOIN_NODE_SELECTION" /\ node[p].action = "none"
        /\ registry' = registry /\ lost' = lost /\ answers' = answers
        /\ Quietly(p, w) \/ leave_ring(p, n)
    BY <1>5 DEF SelectSuccessor, Running
  <2>2. ~Member(node[p])
    BY <1>0, <2>1 DEF Mode, Member
  <2>3. /\ n \in State /\ w \in State /\ Same(p, w) /\ ~Member(w) /\ ~Member(n)
        /\ n.renamed = node[p].renamed /\ n.held = node[p].held
    BY <1>0, <2>1 DEF State, Same, Mode, Member
  <2> HIDE DEF n, w
  <2> QED
    BY <1>0, <2>1, <2>2, <2>3, GoesOn, Leaves
<1>6. CASE SelectChord(p)
  <2>1. PICK connected \in BOOLEAN :
          Quietly(p, [node[p] EXCEPT !.chord = connected, !.input_state = "COMMAND", !.node_arr = {}])
    BY <1>6 DEF SelectChord
  <2> DEFINE n == [node[p] EXCEPT !.chord = connected, !.input_state = "COMMAND", !.node_arr = {}]
  <2>2. /\ node[p].action = "none"
        /\ registry' = registry /\ lost' = lost /\ answers' = answers
    BY <1>6 DEF SelectChord, Running
  <2>3. /\ n \in State /\ Same(p, n) /\ n.self = node[p].self
        /\ Member(n) <=> Member(node[p])
    BY <1>0, <2>2 DEF State, Same, Mode, Member
  <2> QED
    BY <1>0, <2>1, <2>2, <2>3, GoesOn
<1>7. CASE Cancel(p)
  <2> DEFINE n == [node[p] EXCEPT !.input_state = "COMMAND", !.node_arr = {},
                     !.connection_state = IF node[p].input_state = "JOIN_NODE_SELECTION"
                                          THEN "DISCONNECTED" ELSE @]
  <2>1. /\ node[p].action = "none" /\ Quietly(p, n)
        /\ registry' = registry /\ lost' = lost /\ answers' = answers
    BY <1>7 DEF Cancel, Running
  <2>2. /\ n \in State /\ Same(p, n) /\ n.self = node[p].self
        /\ Member(n) <=> Member(node[p])
    BY <1>0, <2>1 DEF State, Same, Mode, Member
  <2> QED
    BY <1>0, <2>1, <2>2, GoesOn
<1>8. CASE JoinEnds(p)
  <2> DEFINE n == [node[p] EXCEPT !.timer = FALSE]
  <2>1. /\ node[p].connection_state = "CONNECTING" /\ on_join_end(p, n)
        /\ registry' = registry /\ lost' = lost /\ answers' = answers
    BY <1>8 DEF JoinEnds
  <2>2. /\ n \in State /\ n.renamed = node[p].renamed /\ n.held = node[p].held
        /\ ~Member(node[p]) /\ n.input_state # "JOIN_NODE_SELECTION"
    BY <1>0, <2>1 DEF State, Mode, Member
  <2> QED
    BY <1>0, <2>1, <2>2, Joins
<1>9. CASE RingLost(p)
  BY <1>0, <1>9, Leaves DEF RingLost
<1>10. CASE PredChanges(p)
  <2> DEFINE n == [node[p] EXCEPT !.timer = ~@]
  <2>1. /\ node[p].action = "none" /\ Quietly(p, n)
        /\ registry' = registry /\ lost' = lost /\ answers' = answers
    BY <1>10 DEF PredChanges, Running
  <2>2. /\ n \in State /\ Same(p, n) /\ n.self = node[p].self
        /\ Member(n) <=> Member(node[p])
    BY <1>0, <2>1 DEF State, Same, Mode, Member
  <2> QED
    BY <1>0, <2>1, <2>2, GoesOn
<1>11. CASE PredTimeout(p)
  <2> DEFINE n == [node[p] EXCEPT !.timer = FALSE]
  <2>1. /\ leave_ring(p, n) /\ registry' = registry /\ lost' = lost /\ answers' = answers
    BY <1>11 DEF PredTimeout
  <2>2. /\ n \in State /\ n.renamed = node[p].renamed /\ n.held = node[p].held
        /\ n.self = node[p].self
        /\ Member(n) <=> Member(node[p])
    BY <1>0 DEF State, Member
  <2> HIDE DEF n
  <2> QED
    BY <1>0, <2>1, <2>2, Leaves
<1>12. CASE MainReceives(p)
  <2>1. /\ answers[p] # <<>> /\ answers' = [answers EXCEPT ![p] = Tail(@)]
        /\ node' = node /\ registry' = registry /\ requests' = requests /\ lost' = lost
    BY <1>12 DEF MainReceives
  <2>2. answers' \in [Client -> Seq(Answer)]
    BY <2>1, Received DEF Inv
  <2> QED
    BY <1>0, <2>1, <2>2, AnswersOnly DEF Lossless
<1> QED
  BY <1>1, <1>2, <1>3, <1>4, <1>5, <1>6, <1>7, <1>8, <1>9, <1>10, <1>11, <1>12

\* A process returns from request_node_list().
LEMMA ReturnStep == ASSUME Inv, NEW p \in Client, Returns(p) PROVE Inv'
<1>0. node[p] \in State /\ Mode(node[p]) /\ answers \in [Client -> Seq(Answer)]
  BY DEF Inv, Types, Modes
<1>1. ASSUME Receives(p)
      PROVE  /\ answers' \in [Client -> Seq(Answer)] /\ Listed(p) \subseteq Listing
             /\ registry' = registry /\ lost' = lost /\ node[p].input_state = "COMMAND"
  <2>1. /\ answers[p] # <<>> /\ answers' = [answers EXCEPT ![p] = Tail(@)]
        /\ registry' = registry /\ lost' = lost /\ node[p].action # "none"
    BY <1>1 DEF Receives, Running
  <2>2. answers' \in [Client -> Seq(Answer)] /\ Head(answers[p]) \in Answer
    BY <2>1, Received DEF Inv
  <2> QED
    BY <1>0, <2>1, <2>2 DEF Answer, Listed, Mode
<1>2. CASE OnlyNode(p)
  <2>1. Receives(p) /\ node[p].action = "JOIN_ACTION" /\ on_join_end(p, node[p])
    BY <1>2 DEF OnlyNode
  <2>2. ~Member(node[p])
    BY <1>0, <2>1 DEF Mode, Member
  <2> QED
    BY <1>0, <1>1, <2>1, <2>2, Joins
<1>3. CASE OfferSuccessors(p)
  <2> DEFINE id == IF node[p].self \in Ids(Listed(p)) THEN LowestUnused(Ids(Listed(p)))
                   ELSE node[p].self
             n == [node[p] EXCEPT !.self = id, !.action = "none", !.node_arr = Listed(p),
                                  !.connection_state = "AWAITING_USER_SELECTION",
                                  !.input_state = "JOIN_NODE_SELECTION"]
  <2>1. Receives(p) /\ node[p].action = "JOIN_ACTION" /\ Quietly(p, n)
    BY <1>3 DEF OfferSuccessors
  <2>2. id \in AnyId
    BY <1>0, LowestUnusedId DEF State
  <2> HIDE DEF id
  <2>3. n \in State /\ Same(p, n) /\ ~Member(n) /\ ~Member(node[p])
    BY <1>0, <1>1, <2>1, <2>2 DEF State, Same, Mode, Member
  <2> QED
    BY <1>1, <2>1, <2>3, GoesOn
<1>4. CASE OfferChords(p)
  <2>1. Receives(p) /\ node[p].action = "CHORD_ACTION"
    BY <1>4 DEF OfferChords
  <2>2. PICK offered \in SUBSET {d \in Listed(p) : d.id # node[p].self} :
          Quietly(p, [node[p] EXCEPT !.action = "none", !.node_arr = offered,
                        !.input_state = IF offered = {} THEN @ ELSE "CHORD_NODE_SELECTION"])
    BY <1>4 DEF OfferChords
  <2> DEFINE n == [node[p] EXCEPT !.action = "none", !.node_arr = offered,
                     !.input_state = IF offered = {} THEN @ ELSE "CHORD_NODE_SELECTION"]
  <2>3. offered \subseteq Listing
    BY <1>1, <2>1, <2>2
  <2>4. /\ n \in State /\ Same(p, n) /\ n.self = node[p].self
        /\ Member(n) <=> Member(node[p])
    BY <1>0, <1>1, <2>1, <2>3 DEF State, Same, Mode, Member
  <2> QED
    BY <1>1, <2>1, <2>2, <2>4, GoesOn
<1>5. CASE WrongAnswer(p)
  <2> DEFINE n == [node[p] EXCEPT !.action = "none"]
  <2>1. Receives(p) /\ Quietly(p, n)
    BY <1>5 DEF WrongAnswer
  <2>2. /\ n \in State /\ Same(p, n) /\ n.self = node[p].self
        /\ Member(n) <=> Member(node[p])
    BY <1>0, <1>1, <2>1 DEF State, Same, Mode, Member
  <2> QED
    BY <1>1, <2>1, <2>2, GoesOn
<1>6. CASE NoAnswer(p)
  BY <1>0, <1>6, Leaves DEF NoAnswer
<1> QED
  BY <1>2, <1>3, <1>4, <1>5, <1>6 DEF Returns

-----------------------------------------------------------------------------
\* Whatever datagrams are delayed, taken for others or lost, the list of the node
\* server is right once every REG and UNREG has arrived (leave_ring, on_join_end).
THEOREM RegistryCorrect == Spec => []RegistryAccurate
<1>1. Init => Inv
  <2> SUFFICES ASSUME Init PROVE Inv
    OBVIOUS
  <2>1. /\ \A p \in Client : node[p] = [connection_state |-> "DISCONNECTED", input_state |-> "COMMAND",
                                        self |-> 0, action |-> "none", node_arr |-> {},
                                        chord |-> FALSE, timer |-> FALSE,
                                        renamed |-> FALSE, held |-> {}]
        /\ \A p \in Client : requests[p] = <<>> /\ answers[p] = <<>>
        /\ registry = {}
    BY DEF Init
  <2>2. 0 \in AnyId
    BY NodeServerAssumption DEF AnyId
  <2>3. ASSUME NEW p \in Client PROVE node[p] \in State
    <3>1. node[p] = [connection_state |-> "DISCONNECTED", input_state |-> "COMMAND",
                     self |-> 0, action |-> "none", node_arr |-> {},
                     chord |-> FALSE, timer |-> FALSE, renamed |-> FALSE, held |-> {}]
      BY <2>1
    <3> QED
      BY <2>2, <3>1 DEF State
  <2>4. Types
    BY <2>1, <2>3, EmptySeq DEF Init, Types
  <2>5. Modes /\ Holding
    BY <2>1, EmptySeq DEF Modes, Mode, Holding, HeldBy, Member
  <2>6. Ledger
    BY <2>1, EmptySeq DEF Ledger, Recorded, Covered, Accounted, Member
  <2> QED
    BY <2>4, <2>5, <2>6 DEF Inv
<1>2. Inv /\ [Next]_vars => Inv'
  <2> SUFFICES ASSUME Inv, [Next]_vars PROVE Inv'
    OBVIOUS
  <2>1. ASSUME NEW p \in Client, Returns(p) PROVE Inv'
    BY <2>1, ReturnStep
  <2>2. ASSUME NEW p \in Client,
               \/ Join(p) \/ JoinRefused(p) \/ Leave(p) \/ ChordAsk(p)
               \/ SelectSuccessor(p) \/ SelectChord(p) \/ Cancel(p)
               \/ JoinEnds(p) \/ RingLost(p) \/ PredChanges(p) \/ PredTimeout(p) \/ MainReceives(p)
        PROVE  Inv'
    BY <2>2, MainLoopStep
  <2>3. ASSUME NEW p \in Client, Serve(p) PROVE Inv'
    BY <2>3, Serves
  <2>4. ASSUME NEW p \in Client, LoseRequest(p) PROVE Inv'
    BY <2>4, LosesRequest
  <2>5. ASSUME NEW p \in Client, LoseAnswer(p) PROVE Inv'
    <3>1. /\ answers[p] # <<>> /\ answers' = [answers EXCEPT ![p] = Tail(@)]
          /\ lost' = Append(lost, Head(answers[p]).type)
          /\ node' = node /\ registry' = registry /\ requests' = requests
      BY <2>5 DEF LoseAnswer
    <3>2. answers' \in [Client -> Seq(Answer)] /\ Head(answers[p]) \in Answer
      BY <3>1, Received DEF Inv
    <3>3. lost' \in Seq(LostType) /\ (Lossless' => Lossless)
      <4>1. Head(answers[p]).type \in LostType
        BY <3>2 DEF Answer, LostType
      <4> QED
        BY <3>1, <4>1, OneLost DEF Inv, Types
    <3> QED
      BY <3>1, <3>2, <3>3, AnswersOnly
  <2>6. CASE UNCHANGED vars
    BY <2>6 DEF vars, Inv, Types, Modes, Holding, Ledger, Lossless, Recorded, Shared
  <2> QED
    BY <2>1, <2>2, <2>3, <2>4, <2>5, <2>6 DEF Next
<1>3. Inv => RegistryAccurate
  <2> SUFFICES ASSUME Inv, Drained, Lossless PROVE RegistryAccurate
    BY DEF RegistryAccurate
  <2>0. ASSUME NEW p \in Client PROVE DOMAIN requests[p] = {}
    <3>1. requests[p] = <<>>
      BY DEF Drained
    <3> QED
      BY <3>1
  <2>1. ASSUME NEW d \in registry, ~node[d.client].renamed
        PROVE  d.client \in Members /\ d.id = node[d.client].self
    <3>1. d.client \in Client
      BY DEF Inv, Types, Listing
    <3> QED
      BY <2>0, <2>1, <3>1 DEF Inv, Ledger, Recorded, Accounted, Member, Members
  <2>2. ASSUME NEW p \in Members, ~node[p].renamed
        PROVE  \/ Entry(p, node[p].self) \in registry
               \/ \E q \in Client \ {p} : node[p].self \in node[q].held
    <3>1. p \in Client /\ Member(node[p])
      BY DEF Members, Member
    <3> QED
      BY <2>0, <2>2, <3>1 DEF Inv, Ledger, Recorded, Stands, Coming, Shared
  <2> QED
    BY <2>1, <2>2 DEF RegistryAccurate
<1> QED
  BY <1>1, <1>2, <1>3, PTL DEF Spec

=============================================================================
