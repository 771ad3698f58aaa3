-------------------------- MODULE PathVectorProofs --------------------------
(***************************************************************************)
(* Proofs about module PathVector, for every set of nodes that fits the    *)
(* tables and every set of links: the tables of every node stay sound      *)
(* under the messages of the others, and no node of a ring forwards to a   *)
(* neighbor it has no connection with, but over a column that was kept.    *)
(***************************************************************************)
EXTENDS PathVector, RoutingTableProofs, FiniteSetTheorems

USE DEF NO_NODE_ID, NO_NODE_INDEX

-----------------------------------------------------------------------------
(* The invariant *)

\* The lines on the connections.
Lines == {m \in [type : {"HELLO", "CHORD", "EOF", "ROUTE", "CHAT"},
                 recipient : NodeID \cup {NO_NODE_ID}, path : Path] :
            m.type \in {"ROUTE", "CHAT"} => m.recipient \in NodeID}

Views   == [Links -> [Sides -> {"closed", "backlog", "new", "known"}]]
Inboxes == [Links -> [Sides -> Seq(Lines)]]

\* Every column of the table t is about a node that p has a known connection with, or kept.
Covered(e, p, t, kp) ==
  \A j \in Neighbors : t.neighbor_ids[j] # NO_NODE_ID =>
    KnownEnds(e, p, t.neighbor_ids[j]) # {} \/ t.neighbor_ids[j] \in kp

\* Inductive invariant, of the values t, m, e, b and kp of table, members, end, inbox
\* and kept: the tables of every node are sound and those of the members covered.
InvOf(t, m, e, b, kp) ==
  /\ t \in [NodeID -> Table] /\ m \subseteq NodeID
  /\ e \in Views /\ b \in Inboxes /\ kp \in [NodeID -> SUBSET NodeID]
  /\ \A p \in NodeID : Sound(p, t[p])
  /\ \A p \in m : Covered(e, p, t[p], kp[p])
Inv == InvOf(table, members, end, inbox, kept)

-----------------------------------------------------------------------------
(* Rows in order *)

\* A set of numbers can be counted in increasing order.
Counted(S) == \E n \in Nat : \E g \in [1 .. n -> S] :
                /\ \A y \in S : \E i \in 1 .. n : g[i] = y
                /\ \A i, j \in 1 .. n : i < j => g[i] < g[j]

\* The greatest element is counted last.
LEMMA CountedNext ==
  ASSUME NEW k \in Nat, \A T \in SUBSET (0 .. k - 1) : Counted(T), NEW S \in SUBSET (0 .. k)
  PROVE  Counted(S)
<1> DEFINE R == S \ {k}
<1>1. R \in SUBSET (0 .. k - 1)
  OBVIOUS
<1>n. PICK n \in Nat : \E g \in [1 .. n -> R] :
        /\ \A y \in R : \E i \in 1 .. n : g[i] = y
        /\ \A i, j \in 1 .. n : i < j => g[i] < g[j]
  BY <1>1 DEF Counted
<1>2. PICK g \in [1 .. n -> R] :
        /\ \A y \in R : \E i \in 1 .. n : g[i] = y
        /\ \A i, j \in 1 .. n : i < j => g[i] < g[j]
  BY <1>n
<1>3. CASE k \notin S
  <2>1. R = S
    BY <1>3
  <2> QED
    BY <1>2, <2>1
<1>4. CASE k \in S
  <2> DEFINE h == [i \in 1 .. n + 1 |-> IF i = n + 1 THEN k ELSE g[i]]
  <2>0. \A y \in R : y \in S /\ y < k /\ y \in Nat
    BY <1>1
  <2>1. \A i \in 1 .. n : g[i] \in S /\ g[i] < k /\ g[i] \in Nat
    BY <2>0
  <2>2. h \in [1 .. n + 1 -> S]
    BY <1>4, <2>1
  <2>3. \A i \in 1 .. n : h[i] = g[i] /\ i \in 1 .. n + 1
    OBVIOUS
  <2>4. h[n + 1] = k /\ n + 1 \in 1 .. n + 1 /\ n + 1 \in Nat
    OBVIOUS
  <2> HIDE DEF h
  <2>5. \A y \in S : \E i \in 1 .. n + 1 : h[i] = y
    <3> SUFFICES ASSUME NEW y \in S PROVE \E i \in 1 .. n + 1 : h[i] = y
      OBVIOUS
    <3>1. CASE y = k
      BY <2>4, <3>1
    <3>2. CASE y # k
      <4>1. PICK i \in 1 .. n : g[i] = y
        BY <1>2, <3>2
      <4> QED
        BY <2>3, <4>1
    <3> QED
      BY <3>1, <3>2
  <2>6. ASSUME NEW i \in 1 .. n + 1, NEW j \in 1 .. n + 1, i < j PROVE h[i] < h[j]
    <3>1. i \in 1 .. n /\ (j \in 1 .. n \/ j = n + 1)
      BY <2>6
    <3> QED
      BY <1>2, <2>1, <2>3, <2>4, <2>6, <3>1
  <2> QED
    BY <2>2, <2>4, <2>5, <2>6 DEF Counted
<1> QED
  BY <1>3, <1>4

\* Every bound has the property: a least one without it is not 0 and not a successor.
LEMMA CountedAll == \A k \in Nat : \A S \in SUBSET (0 .. k - 1) : Counted(S)
<1> DEFINE Bad == {k \in Nat : \E S \in SUBSET (0 .. k - 1) : ~Counted(S)}
<1> SUFFICES ASSUME Bad # {} PROVE FALSE
  OBVIOUS
<1>1. PICK m \in Bad : \A k \in Bad : m <= k
  <2>1. Bad \subseteq Nat
    OBVIOUS
  <2> HIDE DEF Bad
  <2> QED
    BY <2>1, LeastElement
<1>2. m # 0
  <2>1. \A S \in SUBSET (0 .. 0 - 1) : S = {}
    OBVIOUS
  <2>2. Counted({})
    <3> DEFINE g == [i \in 1 .. 0 |-> 0]
    <3>1. g \in [1 .. 0 -> {}] /\ 0 \in Nat /\ 1 .. 0 = {}
      OBVIOUS
    <3> QED
      BY <3>1 DEF Counted
  <2> QED
    BY <2>1, <2>2
<1>3. m - 1 \in Nat /\ m - 1 \notin Bad /\ m \in Nat
  BY <1>1, <1>2
<1>4. \A T \in SUBSET (0 .. (m - 1) - 1) : Counted(T)
  BY <1>3
<1>5. \A S \in SUBSET (0 .. m - 1) : Counted(S)
  BY <1>3, <1>4, CountedNext
<1> QED
  BY <1>5

\* A loop over all rows meets every row of a set.
LEMMA InOrderRows ==
  ASSUME NEW S \in SUBSET Recipients
  PROVE  /\ Cardinality(S) \in Nat
         /\ InOrder(S) \in [1 .. Cardinality(S) -> S]
         /\ \A y \in S : \E i \in 1 .. Cardinality(S) : InOrder(S)[i] = y
<1>1. MAX_RECIPIENTS \in Nat /\ S \in SUBSET (0 .. MAX_RECIPIENTS - 1)
  BY SizeAssumption DEF Recipients
<1>n. PICK n \in Nat : \E g \in [1 .. n -> S] :
        /\ \A y \in S : \E i \in 1 .. n : g[i] = y
        /\ \A i, j \in 1 .. n : i < j => g[i] < g[j]
  <2>1. Counted(S)
    BY <1>1, CountedAll
  <2> QED
    BY <2>1 DEF Counted
<1>2. PICK g \in [1 .. n -> S] :
        /\ \A y \in S : \E i \in 1 .. n : g[i] = y
        /\ \A i, j \in 1 .. n : i < j => g[i] < g[j]
  BY <1>n
<1>3. Cardinality(S) = n
  <2>1. \A i, j \in 1 .. n : g[i] = g[j] => i = j
    <3> SUFFICES ASSUME NEW i \in 1 .. n, NEW j \in 1 .. n, g[i] = g[j] PROVE i = j
      OBVIOUS
    <3>1. g[i] \in S /\ g[j] \in S /\ i \in Int /\ j \in Int
      OBVIOUS
    <3>0. \A y \in S : y \in Int
      BY <1>1
    <3>2. g[i] \in Int /\ g[j] \in Int
      BY <3>0, <3>1
    <3>3. ~(i < j) /\ ~(j < i)
      BY <1>2, <3>2
    <3> QED
      BY <3>1, <3>3
  <2>2. g \in Bijection(1 .. n, S)
    BY <1>2, <2>1 DEF Bijection, Injection, IsInjective, Surjection
  <2> QED
    BY <2>2, FS_CountingElements DEF ExistsBijection
<1> DEFINE f == InOrder(S)
<1>4. f \in [1 .. n -> S] /\ \A i, k \in 1 .. n : i < k => f[i] < f[k]
  BY <1>2, <1>3 DEF InOrder
<1> HIDE DEF f
<1>5. ASSUME NEW y \in S, \A i \in 1 .. n : f[i] # y PROVE FALSE
  <2> DEFINE D == 1 .. n
             T == S \ {y}
  <2>1. f \in [D -> T]
    BY <1>4, <1>5
  <2>2. IsFiniteSet(D) /\ Cardinality(D) = n
    BY FS_Interval
  <2>3. IsFiniteSet(S)
    <3>1. IsFiniteSet(0 .. MAX_RECIPIENTS - 1)
      BY <1>1, FS_Interval
    <3> QED
      BY <1>1, <3>1, FS_Subset
  <2>4. IsFiniteSet(T) /\ Cardinality(T) = n - 1
    BY <1>3, <2>3, FS_RemoveElement
  <2>5. \E i, k \in D : i # k /\ f[i] = f[k]
    <3>1. Cardinality(T) < Cardinality(D)
      BY <2>2, <2>4
    <3> HIDE DEF D, T
    <3> QED
      BY <2>1, <2>2, <2>4, <3>1, FS_PigeonHole
  <2>6. PICK i \in 1 .. n, k \in 1 .. n : i # k /\ f[i] = f[k]
    BY <2>5
  <2>7. f[i] \in Int /\ f[k] \in Int
    <3>1. f[i] \in S /\ f[k] \in S
      BY <1>4
    <3>2. \A z \in S : z \in Int
      BY <1>1
    <3> QED
      BY <3>1, <3>2
  <2>8. i < k \/ k < i
    BY <2>6
  <2> QED
    BY <1>4, <2>6, <2>7, <2>8
<1> QED
  BY <1>3, <1>4, <1>5 DEF f

-----------------------------------------------------------------------------
(* Room in the tables *)

\* An index array without repetitions that does not hold self has room for any
\* other node, since there is an index for each of them.
LEMMA Room ==
  ASSUME NEW self \in NodeID, NEW n \in NodeID \ {self}, NEW max \in Nat,
         Cardinality(NodeID) - 1 <= max,
         NEW ids \in [0 .. max - 1 -> NodeID \cup {NO_NODE_ID}], Unique(ids),
         \A i \in 0 .. max - 1 : ids[i] # self
  PROVE  HasRoom(ids, n)
<1> SUFFICES ASSUME ~HasRoom(ids, n) PROVE FALSE
  OBVIOUS
<1> DEFINE D == 0 .. max - 1
           Q == NodeID \ {self}
           P == Q \ {n}
<1>1. \A i \in D : ids[i] \in P
  BY DEF HasRoom
<1>2. ids \in [D -> P]
  BY <1>1
<1>3. IsFiniteSet(D) /\ Cardinality(D) = max
  BY FS_Interval
<1>4. IsFiniteSet(Q) /\ Cardinality(Q) = Cardinality(NodeID) - 1
  BY RoomAssumption, FS_RemoveElement
<1>5. IsFiniteSet(P) /\ Cardinality(P) = Cardinality(Q) - 1
  BY <1>4, FS_RemoveElement
<1>6. Cardinality(NodeID) \in Nat
  BY RoomAssumption, FS_CardinalityType
<1>7. \E x, y \in D : x # y /\ ids[x] = ids[y]
  <2>1. Cardinality(P) < Cardinality(D)
    BY <1>3, <1>4, <1>5, <1>6
  <2> HIDE DEF D, P
  <2> QED
    BY <1>2, <1>3, <1>5, <2>1, FS_PigeonHole
<1>8. \A i \in D : ids[i] # NO_NODE_ID
  BY DEF HasRoom
<1> QED
  BY <1>2, <1>7, <1>8 DEF Unique

\* No node ever lacks a row or a column for another node.
LEMMA TableRoom ==
  ASSUME NEW self, NEW t, Sound(self, t), NEW n \in NodeID \ {self}
  PROVE  HasRoom(t.neighbor_ids, n) /\ HasRoom(t.recipient_ids, n)
<1>0. /\ self \in NodeID /\ t \in Table /\ Unique(t.neighbor_ids) /\ Unique(t.recipient_ids)
      /\ \A j \in Neighbors : t.neighbor_ids[j] # self
      /\ \A i \in Recipients : t.recipient_ids[i] # self
  BY NodeIDAssumption DEF Sound, Shape, RowSelfFree
<1>1. /\ t.neighbor_ids \in [Neighbors -> NodeID \cup {NO_NODE_ID}]
      /\ t.recipient_ids \in [Recipients -> NodeID \cup {NO_NODE_ID}]
  BY <1>0, TableFields
<1>2. HasRoom(t.neighbor_ids, n)
  BY <1>0, <1>1, SizeAssumption, RoomAssumption, Room DEF Neighbors
<1>3. HasRoom(t.recipient_ids, n)
  BY <1>0, <1>1, SizeAssumption, RoomAssumption, Room DEF Recipients
<1> QED
  BY <1>2, <1>3

-----------------------------------------------------------------------------
(* Announcements *)

\* Messages are lines.
LEMMA MessageLines ==
  /\ HELLO \in Lines /\ CHORD \in Lines /\ EOF \in Lines
  /\ \A r \in NodeID : Chat(r) \in Lines /\ Message("ROUTE", r, <<>>) \in Lines
  /\ \A p, r \in NodeID, path \in Path : Route(p, r, path) \in Lines
<1>1. <<>> \in Path /\ INVALID_PATH \in Path
  BY InvalidPathFacts DEF Path
<1>2. \A p \in NodeID, path \in Path : path # INVALID_PATH => <<p>> \o path \in Path
  BY DEF Path
<1> QED
  BY <1>1, <1>2 DEF Lines, Message, HELLO, CHORD, EOF, Chat, Route

\* What a sound table announces to a new neighbor are lines.
LEMMA AnnouncementLines ==
  ASSUME NEW p, NEW t, Sound(p, t)
  PROVE  send_shortest_paths(p, t) \in Seq(Lines)
<1> DEFINE S == {i \in Recipients : t.recipient_ids[i] # NO_NODE_ID}
           rows == InOrder(S)
           ms == [k \in DOMAIN rows |-> Route(p, t.recipient_ids[rows[k]],
                                              ShortestPath(t, t.recipient_ids[rows[k]]))]
<1>0. p \in NodeID /\ t.recipient_ids \in [Recipients -> NodeID \cup {NO_NODE_ID}]
  BY TableFields DEF Sound, Shape
<1>1. Cardinality(S) \in Nat /\ rows \in [1 .. Cardinality(S) -> S]
  <2>1. S \in SUBSET Recipients
    OBVIOUS
  <2> HIDE DEF S
  <2> QED
    BY <2>1, InOrderRows
<1>2. \A i \in S : t.recipient_ids[i] \in NodeID
  BY <1>0
<1> HIDE DEF rows, S
<1>3. \A k \in 1 .. Cardinality(S) : ms[k] \in Lines
  <2> SUFFICES ASSUME NEW k \in 1 .. Cardinality(S) PROVE ms[k] \in Lines
    OBVIOUS
  <2>1. t.recipient_ids[rows[k]] \in NodeID
    BY <1>1, <1>2
  <2>2. ShortestPath(t, t.recipient_ids[rows[k]]) \in Path
    BY <2>1, ShortestPathFacts
  <2> QED
    BY <1>0, <1>1, <2>1, <2>2, MessageLines
<1>4. ms \in Seq(Lines)
  <2>1. ms = [k \in 1 .. Cardinality(S) |-> ms[k]]
    BY <1>1
  <2> HIDE DEF ms
  <2> QED
    BY <1>1, <1>3, <2>1
<1>5. send_shortest_paths(p, t) = <<Message("ROUTE", p, <<>>)>> \o ms
  BY DEF send_shortest_paths, rows, S
<1> HIDE DEF ms
<1> QED
  BY <1>0, <1>4, <1>5, MessageLines

\* The announcements after the loss of a neighbor are lines.
LEMMA LossLines ==
  ASSUME NEW p, NEW t, Sound(p, t), NEW u, Sound(p, u)
  PROVE  LossAnnouncements(p, t, u) \in Seq(Lines)
<1> DEFINE S == {i \in Recipients : t.recipient_ids[i] # NO_NODE_ID
                                      /\ ShortestPathChanged(t, u, i)}
           rows == InOrder(S)
           ms == [k \in DOMAIN rows |-> Route(p, t.recipient_ids[rows[k]],
                                              ShortestPath(u, t.recipient_ids[rows[k]]))]
<1>0. p \in NodeID /\ t.recipient_ids \in [Recipients -> NodeID \cup {NO_NODE_ID}]
  BY TableFields DEF Sound, Shape
<1>1. Cardinality(S) \in Nat /\ rows \in [1 .. Cardinality(S) -> S]
  <2>1. S \in SUBSET Recipients
    OBVIOUS
  <2> HIDE DEF S
  <2> QED
    BY <2>1, InOrderRows
<1>2. \A i \in S : t.recipient_ids[i] \in NodeID
  BY <1>0
<1>5. LossAnnouncements(p, t, u) = ms
  BY DEF LossAnnouncements
<1> HIDE DEF rows, S
<1>3. \A k \in 1 .. Cardinality(S) : ms[k] \in Lines
  <2> SUFFICES ASSUME NEW k \in 1 .. Cardinality(S) PROVE ms[k] \in Lines
    OBVIOUS
  <2>1. t.recipient_ids[rows[k]] \in NodeID
    BY <1>1, <1>2
  <2>2. ShortestPath(u, t.recipient_ids[rows[k]]) \in Path
    BY <2>1, ShortestPathFacts
  <2> QED
    BY <1>0, <1>1, <2>1, <2>2, MessageLines
<1>4. ms = [k \in 1 .. Cardinality(S) |-> ms[k]]
  BY <1>1
<1> HIDE DEF ms
<1> QED
  BY <1>1, <1>3, <1>4, <1>5, SMTT(30)

-----------------------------------------------------------------------------
(* Connections *)

\* The nodes at the two sides of a link.
LEMMA EndFacts ==
  ASSUME NEW l \in Links, NEW s \in Sides
  PROVE  /\ Other(s) \in Sides /\ Other(Other(s)) = s
         /\ At(l, s) \in NodeID
         /\ Far(l, s) \in NodeID \ {At(l, s)}
<1>1. s = 1 \/ s = 2
  BY DEF Sides
<1>2. Ends[l] \in NodeID \X NodeID /\ Ends[l][1] # Ends[l][2]
  BY PathVectorAssumption
<1>3. Ends[l][1] \in NodeID /\ Ends[l][2] \in NodeID
  BY <1>2
<1> QED
  BY <1>1, <1>2, <1>3 DEF Other, At, Far, Sides

\* Something for every side of every link.
LEMMA EverySide ==
  ASSUME NEW V, NEW c, c = [l \in Links |-> c[l]],
         \A l \in Links : c[l] = [s \in Sides |-> c[l][s]],
         \A l \in Links, s \in Sides : c[l][s] \in V
  PROVE  c \in [Links -> [Sides -> V]]
<1>1. ASSUME NEW l \in Links PROVE c[l] \in [Sides -> V]
  <2> DEFINE d == c[l]
  <2>1. d = [s \in Sides |-> d[s]] /\ \A s \in Sides : d[s] \in V
    OBVIOUS
  <2> HIDE DEF d
  <2>2. d \in [Sides -> V]
    BY <2>1
  <2> QED
    BY <2>2 DEF d
<1> QED
  BY <1>1

\* Writing keeps the inboxes.
LEMMA WriteKeeps ==
  ASSUME NEW e, NEW b \in Inboxes, NEW xs, NEW ms \in Seq(Lines), NEW c, c = Write(e, b, xs, ms)
  PROVE  c \in Inboxes
<1>1. \A l \in Links, s \in Sides : c[l][s] \in {b[l][s], b[l][s] \o ms}
  BY DEF Write
<1>2. \A l \in Links, s \in Sides : b[l][s] \in Seq(Lines)
  BY DEF Inboxes
<1>3. c = [l \in Links |-> c[l]] /\ \A l \in Links : c[l] = [s \in Sides |-> c[l][s]]
  BY DEF Write
<1>4. ASSUME NEW l \in Links, NEW s \in Sides PROVE c[l][s] \in Seq(Lines)
  <2>1. b[l][s] \in Seq(Lines) /\ c[l][s] \in {b[l][s], b[l][s] \o ms}
    BY <1>1, <1>2
  <2>2. b[l][s] \o ms \in Seq(Lines)
    BY <2>1
  <2> QED
    BY ONLY <2>1, <2>2
<1>5. c \in [Links -> [Sides -> Seq(Lines)]]
  BY ONLY <1>3, <1>4, EverySide
<1> QED
  BY <1>5 DEF Inboxes

\* Closing connections keeps the views and the inboxes.
LEMMA CloseKeeps ==
  ASSUME NEW e \in Views, NEW b \in Inboxes,
         NEW xs, NEW f, f = CloseEnds(e, xs), NEW c, c = AfterClose(e, b, xs)
  PROVE  f \in Views /\ c \in Inboxes
<1>1. \A l \in Links, s \in Sides :
        /\ f[l][s] = IF <<l, s>> \in xs THEN "closed" ELSE e[l][s]
        /\ <<l, s>> \notin xs => c[l][s] \in {b[l][s], Append(b[l][s], EOF)}
        /\ <<l, s>> \in xs => c[l][s] = <<>>
  BY DEF CloseEnds, AfterClose
<1>2. \A l \in Links, s \in Sides : /\ b[l][s] \in Seq(Lines)
                                    /\ e[l][s] \in {"closed", "backlog", "new", "known"}
  BY DEF Inboxes, Views
<1>3. /\ c = [l \in Links |-> c[l]] /\ \A l \in Links : c[l] = [s \in Sides |-> c[l][s]]
      /\ f = [l \in Links |-> f[l]] /\ \A l \in Links : f[l] = [s \in Sides |-> f[l][s]]
  BY DEF CloseEnds, AfterClose
<1>4. ASSUME NEW l \in Links, NEW s \in Sides
      PROVE  c[l][s] \in Seq(Lines) /\ f[l][s] \in {"closed", "backlog", "new", "known"}
  <2>1. b[l][s] \in Seq(Lines) /\ c[l][s] \in {<<>>, b[l][s], Append(b[l][s], EOF)}
    BY <1>1, <1>2
  <2>2. <<>> \in Seq(Lines) /\ Append(b[l][s], EOF) \in Seq(Lines)
    BY <2>1, MessageLines
  <2>3. f[l][s] \in {"closed", "backlog", "new", "known"}
    BY <1>1, <1>2
  <2> QED
    BY ONLY <2>1, <2>2, <2>3
<1>5. c \in [Links -> [Sides -> Seq(Lines)]]
  BY ONLY <1>3, <1>4, EverySide
<1>6. f \in [Links -> [Sides -> {"closed", "backlog", "new", "known"}]]
  BY ONLY <1>3, <1>4, EverySide
<1> QED
  BY <1>5, <1>6 DEF Inboxes, Views

\* What a connection that p opens looks like.
LEMMA ConnectFacts ==
  ASSUME NEW t, NEW p, Sound(p, t), t = table[p], NEW l \in Links, NEW hello \in {HELLO, CHORD},
         NEW e \in Views, NEW b \in Inboxes, e[l] = [s \in Sides |-> "closed"],
         Connect(p, l, hello, e, b)
  PROVE  /\ end' \in Views /\ inbox' \in Inboxes
         /\ \A k \in Links, s \in Sides : k # l => end'[k][s] = e[k][s] /\ inbox'[k][s] = b[k][s]
         /\ end'[l][1] = "known" /\ end'[l][2] = "backlog" /\ inbox'[l][1] = b[l][1]
         /\ inbox'[l][2] = <<hello>> \o send_shortest_paths(p, t)
         /\ \A k \in Links, s \in Sides : e[k][s] = "known" => end'[k][s] = "known"
<1> DEFINE ms == send_shortest_paths(p, t)
           first == <<hello>> \o ms
<1>0. /\ e \in [Links -> [Sides -> {"closed", "backlog", "new", "known"}]]
      /\ b \in [Links -> [Sides -> Seq(Lines)]] /\ 1 \in Sides /\ 2 \in Sides
  BY DEF Views, Inboxes, Sides
<1>1. /\ end' = [e EXCEPT ![l] = <<"known", "backlog">>]
      /\ inbox' = [b EXCEPT ![l][2] = first]
  BY DEF Connect
<1>3. ms \in Seq(Lines)
  BY AnnouncementLines
<1>4. first \in Seq(Lines)
  <2> HIDE DEF ms
  <2> QED
    BY <1>3, MessageLines
<1> HIDE DEF first
<1>5. <<"known", "backlog">> \in [Sides -> {"closed", "backlog", "new", "known"}]
  BY DEF Sides
<1>6. end' \in Views
  BY <1>0, <1>1, <1>5 DEF Views
<1>7. inbox' \in Inboxes
  BY <1>0, <1>1, <1>4 DEF Inboxes
<1>8. /\ \A k \in Links, s \in Sides : k # l => end'[k][s] = e[k][s] /\ inbox'[k][s] = b[k][s]
      /\ end'[l] = <<"known", "backlog">> /\ inbox'[l][1] = b[l][1] /\ inbox'[l][2] = first
  BY <1>0, <1>1
<1>9. \A k \in Links, s \in Sides : e[k][s] = "known" => end'[k][s] = "known"
  BY <1>8
<1> QED
  BY <1>6, <1>7, <1>8, <1>9 DEF first

\* A connection that p knows.
LEMMA KnownEndFacts ==
  ASSUME NEW e, NEW p, NEW n
  PROVE  /\ \A l \in Links, s \in Sides :
              At(l, s) = p /\ Far(l, s) = n /\ e[l][s] = "known" => KnownEnds(e, p, n) # {}
         /\ KnownEnds(e, p, n) # {} =>
              \E l \in Links, s \in Sides : At(l, s) = p /\ Far(l, s) = n /\ e[l][s] = "known"
<1>1. ASSUME NEW l \in Links, NEW s \in Sides,
             At(l, s) = p, Far(l, s) = n, e[l][s] = "known"
      PROVE  KnownEnds(e, p, n) # {}
  <2>1. <<l, s>> \in KnownEnds(e, p, n)
    BY <1>1 DEF KnownEnds, OpenEnds
  <2> QED
    BY <2>1
<1>2. ASSUME KnownEnds(e, p, n) # {}
      PROVE  \E l \in Links, s \in Sides : At(l, s) = p /\ Far(l, s) = n /\ e[l][s] = "known"
  <2>1. PICK x \in Links \X Sides : At(x[1], x[2]) = p /\ e[x[1]][x[2]] = "known" /\ Far(x[1], x[2]) = n
    BY <1>2 DEF KnownEnds, OpenEnds
  <2>2. x[1] \in Links /\ x[2] \in Sides
    OBVIOUS
  <2> QED
    BY <2>1, <2>2
<1> QED
  BY <1>1, <1>2

\* Known connections that are not lost still cover the columns.
LEMMA CoveredKeeps ==
  ASSUME NEW e, NEW f, NEW p, NEW t, NEW kp, Covered(e, p, t, kp),
         \A l \in Links, s \in Sides : At(l, s) = p /\ e[l][s] = "known" => f[l][s] = "known"
  PROVE  Covered(f, p, t, kp)
<1> SUFFICES ASSUME NEW j \in Neighbors, t.neighbor_ids[j] # NO_NODE_ID, t.neighbor_ids[j] \notin kp
             PROVE  KnownEnds(f, p, t.neighbor_ids[j]) # {}
  BY DEF Covered
<1>1. KnownEnds(e, p, t.neighbor_ids[j]) # {}
  BY DEF Covered
<1>2. PICK l \in Links, s \in Sides :
        At(l, s) = p /\ Far(l, s) = t.neighbor_ids[j] /\ e[l][s] = "known"
  BY <1>1, KnownEndFacts
<1> QED
  BY <1>2, KnownEndFacts

\* What p closes no other node notices at once.
LEMMA CoveredElsewhere ==
  ASSUME NEW e, NEW p, NEW xs, \A x \in xs : At(x[1], x[2]) = p,
         NEW q, q # p, NEW t, NEW kp, Covered(e, q, t, kp)
  PROVE  Covered(CloseEnds(e, xs), q, t, kp)
<1> DEFINE f == CloseEnds(e, xs)
<1>1. ASSUME NEW l \in Links, NEW s \in Sides, At(l, s) = q, e[l][s] = "known"
      PROVE  f[l][s] = "known"
  <2>1. <<l, s>> \notin xs
    BY <1>1
  <2> QED
    BY <1>1, <2>1 DEF CloseEnds
<1> HIDE DEF f
<1>2. Covered(f, q, t, kp)
  BY <1>1, CoveredKeeps
<1> QED
  BY <1>2 DEF f

\* Columns that are not there need not be kept.
LEMMA CoveredFewer ==
  ASSUME NEW e, NEW p, NEW t, Sound(p, t), NEW kp, Covered(e, p, t, kp)
  PROVE  Covered(e, p, t, {n \in kp : get_neighbor_index(t, n) # NO_NODE_INDEX})
<1>1. DOMAIN t.neighbor_ids = Neighbors /\ Neighbors \subseteq Nat
  BY TableFields, SizeAssumption DEF Sound, Shape, Neighbors
<1>2. \A j \in Neighbors : get_neighbor_index(t, t.neighbor_ids[j]) # NO_NODE_INDEX
  BY <1>1, FirstIndexMissing DEF get_neighbor_index
<1> QED
  BY <1>2 DEF Covered

-----------------------------------------------------------------------------
(* Losing a connection *)

\* remove_neighbor_connection() of p: the tables stay sound, and the column goes
\* with the last connection.
LEMMA LoseEndKeeps ==
  ASSUME NEW p, NEW t, Sound(p, t), NEW e \in Views, NEW b \in Inboxes, NEW kp,
         NEW l \in Links, NEW s \in Sides, At(l, s) = p,
         NEW r, r = LoseEnd(p, t, <<l, s>>, e, b)
  PROVE  /\ Sound(p, r.table) /\ r.end = CloseEnds(e, {<<l, s>>})
         /\ r.end \in Views /\ r.inbox \in Inboxes
         /\ Covered(e, p, t, kp) => Covered(r.end, p, r.table, kp)
<1> DEFINE n == Far(l, s)
           f == CloseEnds(e, {<<l, s>>})
           c == AfterClose(e, b, {<<l, s>>})
           u == remove_routing_neighbor(t, n)
           ms == LossAnnouncements(p, t, u)
           d == Write(f, c, OpenEnds(f, p), ms)
           last == e[l][s] = "known" /\ LastConnection(p, n, f)
<1>1. r = IF last THEN [table |-> u, end |-> f, inbox |-> d]
          ELSE [table |-> t, end |-> f, inbox |-> c]
  BY DEF LoseEnd
<1>2. f \in Views /\ c \in Inboxes
  BY CloseKeeps
<1>3. n \in NodeID
  BY EndFacts
<1>4. /\ Sound(p, u)
      /\ \A j \in Neighbors : /\ u.neighbor_ids[j] \in {t.neighbor_ids[j], NO_NODE_ID}
                              /\ u.neighbor_ids[j] # n
  <2>1. CASE get_neighbor_index(t, n) # NO_NODE_INDEX
    BY <1>3, <2>1, RemoveSound
  <2>2. CASE get_neighbor_index(t, n) = NO_NODE_INDEX
    <3>1. u = t
      BY <2>2 DEF remove_routing_neighbor
    <3>2. DOMAIN t.neighbor_ids = Neighbors /\ Neighbors \subseteq Nat
      BY TableFields, SizeAssumption DEF Sound, Shape, Neighbors
    <3>3. \A j \in Neighbors : t.neighbor_ids[j] # n
      BY <2>2, <3>2, FirstIndexMissing DEF get_neighbor_index
    <3> QED
      BY <3>1, <3>3
  <2> QED
    BY <2>1, <2>2
<1> HIDE DEF u
<1>5. ms \in Seq(Lines)
  BY <1>4, LossLines
<1> HIDE DEF ms
<1>6. d \in Inboxes
  BY <1>2, <1>5, WriteKeeps
<1> HIDE DEF d, c
<1>7. ASSUME Covered(e, p, t, kp), NEW j \in Neighbors, t.neighbor_ids[j] # NO_NODE_ID,
             t.neighbor_ids[j] \notin kp, t.neighbor_ids[j] # n \/ e[l][s] # "known"
      PROVE  KnownEnds(f, p, t.neighbor_ids[j]) # {}
  <2>1. PICK k \in Links, o \in Sides :
          At(k, o) = p /\ Far(k, o) = t.neighbor_ids[j] /\ e[k][o] = "known"
    BY <1>7, KnownEndFacts DEF Covered
  <2>2. <<k, o>> # <<l, s>>
    BY <1>7, <2>1
  <2>3. f[k][o] = "known"
    BY <2>1, <2>2 DEF CloseEnds
  <2> HIDE DEF f
  <2> QED
    BY <2>1, <2>3, KnownEndFacts
<1> HIDE DEF f, n
<1>8. CASE last
  <2>1. r.table = u /\ r.end = f /\ r.inbox = d
    BY <1>1, <1>8
  <2>2. ASSUME Covered(e, p, t, kp) PROVE Covered(f, p, u, kp)
    <3> SUFFICES ASSUME NEW j \in Neighbors, u.neighbor_ids[j] # NO_NODE_ID,
                        u.neighbor_ids[j] \notin kp
                 PROVE  KnownEnds(f, p, u.neighbor_ids[j]) # {}
      BY DEF Covered
    <3>1. u.neighbor_ids[j] = t.neighbor_ids[j] /\ t.neighbor_ids[j] # n
      BY <1>4
    <3> QED
      BY <1>7, <2>2, <3>1
  <2> QED
    BY <1>2, <1>4, <1>6, <2>1, <2>2 DEF f
<1>9. CASE ~last
  <2>1. r.table = t /\ r.end = f /\ r.inbox = c
    BY <1>1, <1>9
  <2>2. ASSUME Covered(e, p, t, kp) PROVE Covered(f, p, t, kp)
    <3>1. e[l][s] # "known" \/ KnownEnds(f, p, n) # {}
      BY <1>9 DEF LastConnection
    <3> SUFFICES ASSUME NEW j \in Neighbors, t.neighbor_ids[j] # NO_NODE_ID,
                        t.neighbor_ids[j] \notin kp
                 PROVE  KnownEnds(f, p, t.neighbor_ids[j]) # {}
      BY DEF Covered
    <3> QED
      BY <1>7, <2>2, <3>1
  <2> QED
    BY <1>2, <2>1, <2>2 DEF f
<1> QED
  BY <1>8, <1>9

-----------------------------------------------------------------------------
(* The steps *)

\* A step of p that leaves its tables sound and covered and the other nodes alone.
LEMMA BecomeKeeps ==
  ASSUME Inv, NEW p \in NodeID, NEW r, Become(p, r),
         members' = members, Sound(p, r.table), p \in members => Covered(r.end, p, r.table, kept[p]),
         r.end \in Views, r.inbox \in Inboxes,
         \A q \in members \ {p} : Covered(r.end, q, table[q], kept[q])
  PROVE  InvOf(table', members', end', inbox', kept')
<1> DEFINE kp == {n \in kept[p] : get_neighbor_index(r.table, n) # NO_NODE_INDEX}
<1>1. /\ table' = [table EXCEPT ![p] = r.table] /\ end' = r.end /\ inbox' = r.inbox
      /\ kept' = [kept EXCEPT ![p] = kp]
  BY DEF Become
<1>2. /\ r.table \in Table /\ table \in [NodeID -> Table] /\ members \subseteq NodeID
      /\ kept \in [NodeID -> SUBSET NodeID] /\ \A q \in NodeID : Sound(q, table[q])
  BY DEF Sound, Shape, Inv, InvOf
<1>0. kp \subseteq NodeID /\ (p \in members => Covered(r.end, p, r.table, kp))
  BY <1>2, CoveredFewer
<1> HIDE DEF kp
<1>3. \A q \in NodeID : /\ table'[q] = IF q = p THEN r.table ELSE table[q]
                        /\ kept'[q] = IF q = p THEN kp ELSE kept[q]
  BY <1>1, <1>2
<1>4. table' \in [NodeID -> Table] /\ kept' \in [NodeID -> SUBSET NodeID]
  BY <1>0, <1>1, <1>2
<1>5. \A q \in NodeID : Sound(q, table'[q])
  BY <1>2, <1>3
<1>6. \A q \in members : Covered(r.end, q, table'[q], kept'[q])
  BY <1>0, <1>2, <1>3
<1> QED
  BY <1>1, <1>2, <1>4, <1>5, <1>6 DEF InvOf

\* The values of the variables after a step.
LEMMA NextInv == InvOf(table', members', end', inbox', kept') => Inv'
BY DEF Inv, InvOf, Covered, KnownEnds, OpenEnds, Sound, Shape, RowSelfFree,
       SelfFree, RowOK, Best, Usable, Unique

\* A step that leaves the tables alone, loses no known connection and may keep columns.
LEMMA ViewKeeps ==
  ASSUME Inv, members' = members, table' = table, kept' \in [NodeID -> SUBSET NodeID],
         \A q \in NodeID : kept[q] \subseteq kept'[q],
         end' \in Views, inbox' \in Inboxes,
         \A l \in Links, s \in Sides : end[l][s] = "known" => end'[l][s] = "known"
  PROVE  Inv'
<1>1. ASSUME NEW q \in members PROVE Covered(end', q, table[q], kept'[q])
  <2>1. Covered(end, q, table[q], kept[q]) /\ kept[q] \subseteq kept'[q]
    BY DEF Inv, InvOf
  <2>2. Covered(end', q, table[q], kept[q])
    BY <2>1, CoveredKeeps
  <2> QED
    BY <2>1, <2>2 DEF Covered
<1> QED
  BY <1>1, NextInv DEF Inv, InvOf

\* A handler reads its line.
LEMMA ReadKeeps ==
  ASSUME Inv, NEW l \in Links, NEW s \in Sides, inbox[l][s] # <<>>
  PROVE  /\ Line(l, s) \in Lines /\ Rest(l, s) \in Inboxes
         /\ \A k \in Links, o \in Sides : <<k, o>> # <<l, s>> => Rest(l, s)[k][o] = inbox[k][o]
<1> DEFINE b == Rest(l, s)
<1>1. inbox \in [Links -> [Sides -> Seq(Lines)]] /\ inbox[l][s] \in Seq(Lines)
  BY DEF Inv, InvOf, Inboxes
<1>2. Head(inbox[l][s]) \in Lines /\ Tail(inbox[l][s]) \in Seq(Lines)
  BY <1>1
<1>3. b = [inbox EXCEPT ![l][s] = Tail(inbox[l][s])]
  BY DEF Rest
<1> HIDE DEF b
<1>4. b \in Inboxes
  BY <1>1, <1>2, <1>3 DEF Inboxes
<1>5. \A k \in Links, o \in Sides : <<k, o>> # <<l, s>> => b[k][o] = inbox[k][o]
  BY <1>1, <1>3
<1> QED
  BY <1>2, <1>4, <1>5 DEF b, Line

\* What a ROUTE message makes of the tables of the node that reads it.
LEMMA LearnedKeeps ==
  ASSUME Inv, NEW l \in Links, NEW s \in Sides, end[l][s] = "known", Receives(l, s, "ROUTE"),
         NEW p, p = At(l, s), NEW new, new = Learned(l, s)
  PROVE  /\ Sound(p, new.table) /\ new.route \in Lines
         /\ \A kp : Covered(end, p, table[p], kp) => Covered(end, p, new.table, kp)
<1> DEFINE m == Line(l, s)
           n == Far(l, s)
           u == update_routing_given_new_path(p, table[p], n, m.recipient, m.path)
<1>1. m \in Lines /\ m.type = "ROUTE"
  BY ReadKeeps DEF Receives, Line
<1> HIDE DEF m
<1>2. m.recipient \in NodeID /\ m.path \in Path
  BY <1>1 DEF Lines
<1>3. p \in NodeID /\ n \in NodeID \ {p}
  BY EndFacts
<1>4. Sound(p, table[p])
  BY <1>3 DEF Inv, InvOf
<1>5. CASE m.recipient = p
  <2>1. new.table = table[p] /\ new.route = m
    BY <1>5 DEF Learned, m
  <2> QED
    BY <1>1, <1>4, <2>1
<1>6. CASE m.recipient # p
  <2>1. new.table = u /\ new.route = Route(p, m.recipient, ShortestPath(u, m.recipient))
    BY <1>6 DEF Learned, m
  <2>2. Sound(p, u) /\ \A j \in Neighbors : u.neighbor_ids[j] \in {table[p].neighbor_ids[j], n}
    <3>1. HasRoom(table[p].neighbor_ids, n) /\ HasRoom(table[p].recipient_ids, m.recipient)
      BY <1>2, <1>3, <1>4, <1>6, TableRoom
    <3> HIDE DEF n
    <3> QED
      BY <1>2, <1>3, <1>4, <1>6, <3>1, UpdateSound
  <2> HIDE DEF u
  <2>3. new.route \in Lines
    BY <1>2, <1>3, <2>1, <2>2, ShortestPathFacts, MessageLines
  <2>4. KnownEnds(end, p, n) # {}
    BY KnownEndFacts
  <2> HIDE DEF n
  <2>5. ASSUME NEW kp, Covered(end, p, table[p], kp) PROVE Covered(end, p, u, kp)
    BY <2>2, <2>4, <2>5 DEF Covered
  <2> QED
    BY <2>1, <2>2, <2>3, <2>5
<1> QED
  BY <1>5, <1>6

\* Opening a connection.
LEMMA OpenInv ==
  ASSUME Inv, NEW l \in Links, Open(l)
  PROVE  Inv'
<1> DEFINE p == At(l, 1)
<1>0. /\ end \in Views /\ inbox \in Inboxes /\ kept \in [NodeID -> SUBSET NodeID]
      /\ p \in NodeID /\ Sound(p, table[p])
  BY EndFacts DEF Inv, InvOf, Sides
<1>1. /\ end[l] = [s \in Sides |-> "closed"]
      /\ table' = table /\ members' = members /\ kept' = kept
  BY DEF Open
<1>2. PICK hello \in {HELLO, CHORD} : Connect(p, l, hello, end, inbox)
  BY DEF Open
<1>3. /\ end' \in Views /\ inbox' \in Inboxes
      /\ \A k \in Links, s \in Sides : end[k][s] = "known" => end'[k][s] = "known"
  BY <1>0, <1>1, <1>2, ConnectFacts
<1> QED
  BY <1>0, <1>1, <1>3, ViewKeeps

\* One connection of p less: the other nodes are covered as before.
LEMMA OthersCovered ==
  ASSUME Inv, NEW l \in Links, NEW s \in Sides, NEW p, p = At(l, s),
         NEW f, f = CloseEnds(end, {<<l, s>>})
  PROVE  \A q \in members \ {p} : Covered(f, q, table[q], kept[q])
<1> DEFINE xs == {<<l, s>>}
<1>1. \A x \in xs : At(x[1], x[2]) = p
  OBVIOUS
<1>2. f = CloseEnds(end, xs)
  OBVIOUS
<1>3. \A q \in members : Covered(end, q, table[q], kept[q])
  BY DEF Inv, InvOf
<1> HIDE DEF xs
<1> QED
  BY <1>1, <1>2, <1>3, CoveredElsewhere

\* A connection is lost after the inboxes became b.
LEMMA LoseEndInv ==
  ASSUME Inv, NEW l \in Links, NEW s \in Sides, NEW b \in Inboxes, members' = members,
         Become(At(l, s), LoseEnd(At(l, s), table[At(l, s)], <<l, s>>, end, b))
  PROVE  Inv'
<1> DEFINE p == At(l, s)
           r == LoseEnd(p, table[p], <<l, s>>, end, b)
<1>0. /\ end \in Views /\ p \in NodeID
      /\ \A q \in NodeID : Sound(q, table[q])
      /\ \A q \in members : Covered(end, q, table[q], kept[q])
  BY EndFacts DEF Inv, InvOf
<1>1. Become(p, r)
  OBVIOUS
<1> HIDE DEF r
<1>2. /\ Sound(p, r.table) /\ r.end = CloseEnds(end, {<<l, s>>})
      /\ r.end \in Views /\ r.inbox \in Inboxes
      /\ Covered(end, p, table[p], kept[p]) => Covered(r.end, p, r.table, kept[p])
  BY <1>0, LoseEndKeeps DEF r
<1>3. \A q \in members \ {p} : Covered(r.end, q, table[q], kept[q])
  BY <1>2, OthersCovered
<1> QED
  BY <1>0, <1>1, <1>2, <1>3, BecomeKeeps, NextInv

\* Closing a connection, and the end of its input.
LEMMA CloseLinkInv ==
  ASSUME Inv, NEW l \in Links, NEW s \in Sides, CloseLink(l, s) \/ EndOfLink(l, s)
  PROVE  Inv'
<1>1. inbox \in Inboxes
  BY DEF Inv, InvOf
<1>2. EndOfLink(l, s) => Rest(l, s) \in Inboxes
  BY ReadKeeps DEF EndOfLink, Receives
<1> QED
  BY <1>1, <1>2, LoseEndInv DEF CloseLink, EndOfLink, Receives

\* Leaving: the node is no member any more, and the others lose nothing at once.
LEMMA LeaveInv ==
  ASSUME Inv, NEW p \in NodeID, Leave(p)
  PROVE  Inv'
<1> DEFINE xs == OpenEnds(end, p)
           f == CloseEnds(end, xs)
           c == AfterClose(end, inbox, xs)
<1>0. /\ table \in [NodeID -> Table] /\ members \subseteq NodeID
      /\ end \in Views /\ inbox \in Inboxes /\ kept \in [NodeID -> SUBSET NodeID]
      /\ \A q \in NodeID : Sound(q, table[q])
      /\ \A q \in members : Covered(end, q, table[q], kept[q])
  BY DEF Inv, InvOf
<1>1. members' = members \ {p} /\ end' = f /\ inbox' = c /\ table' = table /\ kept' = kept
  BY DEF Leave
<1>2. \A x \in xs : At(x[1], x[2]) = p
  BY DEF OpenEnds
<1> HIDE DEF xs
<1>3. f \in Views /\ c \in Inboxes
  BY <1>0, CloseKeeps
<1>4. \A q \in members \ {p} : Covered(f, q, table[q], kept[q])
  BY <1>0, <1>2, CoveredElsewhere
<1> HIDE DEF f, c
<1> QED
  BY <1>0, <1>1, <1>3, <1>4, NextInv DEF InvOf

\* A node that joins has empty tables, whatever connections it has.
LEMMA RejoinInv ==
  ASSUME Inv, NEW p \in NodeID, Rejoin(p) \/ JoinAgain(p)
  PROVE  Inv'
<1> DEFINE u == init_routing(table[p])
<1>0. /\ table \in [NodeID -> Table] /\ members \subseteq NodeID
      /\ end \in Views /\ inbox \in Inboxes /\ kept \in [NodeID -> SUBSET NodeID]
      /\ \A q \in NodeID : Sound(q, table[q])
      /\ \A q \in members : Covered(end, q, table[q], kept[q])
  BY DEF Inv, InvOf
<1>1. /\ members' \subseteq members \cup {p} /\ end' = end /\ inbox' = inbox
      /\ table' = [table EXCEPT ![p] = u] /\ kept' = [kept EXCEPT ![p] = {}]
  BY DEF Rejoin, JoinAgain
<1>2. /\ u \in Table
      /\ \A i \in Recipients : u.recipient_ids[i] = NO_NODE_ID
      /\ \A j \in Neighbors : u.neighbor_ids[j] = NO_NODE_ID
  <2>1. table[p] \in Table
    BY <1>0
  <2> QED
    BY <2>1 DEF init_routing, Table
<1> HIDE DEF u
<1>3. Sound(p, u)
  BY <1>2, EmptySound
<1>4. Covered(end, p, u, {})
  BY <1>2 DEF Covered
<1>5. /\ table' \in [NodeID -> Table] /\ \A q \in NodeID : table'[q] = IF q = p THEN u ELSE table[q]
      /\ kept' \in [NodeID -> SUBSET NodeID] /\ \A q \in NodeID : kept'[q] = IF q = p THEN {} ELSE kept[q]
  BY <1>0, <1>1, <1>2
<1>6. \A q \in NodeID : Sound(q, table'[q])
  BY <1>0, <1>3, <1>5
<1>7. \A q \in members' : Covered(end, q, table'[q], kept'[q])
  BY <1>0, <1>1, <1>4, <1>5
<1> QED
  BY <1>0, <1>1, <1>5, <1>6, <1>7, NextInv DEF InvOf

\* A node that starts a ring keeps all its columns.
LEMMA StartRingInv ==
  ASSUME Inv, NEW p \in NodeID, StartRing(p)
  PROVE  Inv'
<1> DEFINE columns == {table[p].neighbor_ids[j] : j \in Neighbors} \ {NO_NODE_ID}
<1>0. /\ table \in [NodeID -> Table] /\ members \subseteq NodeID
      /\ end \in Views /\ inbox \in Inboxes /\ kept \in [NodeID -> SUBSET NodeID]
      /\ \A q \in NodeID : Sound(q, table[q])
      /\ \A q \in members : Covered(end, q, table[q], kept[q])
  BY DEF Inv, InvOf
<1>1. /\ members' = members \cup {p} /\ end' = end /\ inbox' = inbox
      /\ table' = table /\ kept' = [kept EXCEPT ![p] = columns]
  BY DEF StartRing
<1>2. columns \subseteq NodeID
  <2>1. table[p].neighbor_ids \in [Neighbors -> NodeID \cup {NO_NODE_ID}]
    BY <1>0, TableFields
  <2> QED
    BY <2>1
<1>3. Covered(end, p, table[p], columns)
  BY DEF Covered
<1> HIDE DEF columns
<1>4. /\ kept' \in [NodeID -> SUBSET NodeID]
      /\ \A q \in NodeID : kept'[q] = IF q = p THEN columns ELSE kept[q]
  BY <1>0, <1>1, <1>2
<1>5. \A q \in members \cup {p} : Covered(end, q, table[q], kept'[q])
  BY <1>0, <1>3, <1>4
<1> QED
  BY <1>0, <1>1, <1>4, <1>5, NextInv DEF InvOf

\* Accepting a connection, or refusing it.
LEMMA AcceptInv ==
  ASSUME Inv, NEW l \in Links, Accept(l)
  PROVE  Inv'
<1>0. end \in Views /\ inbox \in Inboxes /\ kept \in [NodeID -> SUBSET NodeID]
  BY DEF Inv, InvOf
<1>1. /\ members' = members /\ table' = table /\ kept' = kept
      /\ end[l][2] = "backlog" /\ 1 \in Sides /\ 2 \in Sides
  BY DEF Accept, Sides
<1>2. CASE end' = [end EXCEPT ![l][2] = "new"] /\ inbox' = inbox
  <2>2. end \in [Links -> [Sides -> {"closed", "backlog", "new", "known"}]]
    BY <1>0 DEF Views
  <2>3. end' \in Views
    BY <1>1, <1>2, <2>2 DEF Views
  <2>4. \A k \in Links, s \in Sides :
          end'[k][s] = IF k = l /\ s = 2 THEN "new" ELSE end[k][s]
    BY <1>1, <1>2, <2>2
  <2>6. \A k \in Links, s \in Sides : end[k][s] = "known" => end'[k][s] = "known"
    BY <1>1, <2>4
  <2> QED
    BY <1>0, <1>1, <1>2, <2>3, <2>6, ViewKeeps
<1>3. CASE /\ end' = CloseEnds(end, {<<l, 2>>})
           /\ inbox' = AfterClose(end, inbox, {<<l, 2>>})
  <2>1. end' \in Views /\ inbox' \in Inboxes
    BY <1>0, <1>3, CloseKeeps
  <2>2. \A k \in Links, s \in Sides : end[k][s] = "known" => end'[k][s] = "known"
    <3>1. \A k \in Links, s \in Sides :
            end'[k][s] = IF <<k, s>> \in {<<l, 2>>} THEN "closed" ELSE end[k][s]
      BY <1>3 DEF CloseEnds
    <3> QED
      BY <1>1, <3>1
  <2> QED
    BY <1>0, <1>1, <2>1, <2>2, ViewKeeps
<1> QED
  BY <1>2, <1>3 DEF Accept

\* A connection becomes known.
LEMMA KnownKeeps ==
  ASSUME NEW e \in Views, NEW l \in Links, NEW s \in Sides, NEW f, f = Known(e, l, s)
  PROVE  /\ f \in Views
         /\ \A k \in Links, o \in Sides : f[k][o] = IF <<k, o>> = <<l, s>> THEN "known" ELSE e[k][o]
<1>1. e \in [Links -> [Sides -> {"closed", "backlog", "new", "known"}]]
  BY DEF Views
<1> QED
  BY <1>1 DEF Views, Known

\* Sending the table.
LEMMA DumpKeeps ==
  ASSUME Inv, NEW l \in Links, NEW s \in Sides, NEW b \in Inboxes
  PROVE  Dump(l, s, b) \in Inboxes
<1>1. send_shortest_paths(At(l, s), table[At(l, s)]) \in Seq(Lines)
  BY EndFacts, AnnouncementLines DEF Inv, InvOf
<1> QED
  BY <1>1, WriteKeeps DEF Dump

\* Introductions: accepted, rejected, and of a node that joins one that is alone.
LEMMA GreetInv ==
  ASSUME Inv, NEW l \in Links, NEW s \in Sides,
         Greet(l, s) \/ Reject(l, s) \/ IgnoreLine(l, s) \/ \E k \in Links : GreetAlone(l, s, k)
  PROVE  Inv'
<1> DEFINE p == At(l, s)
           b == Rest(l, s)
           f == Known(end, l, s)
<1>0. /\ end \in Views /\ p \in NodeID /\ Sound(p, table[p]) /\ kept \in [NodeID -> SUBSET NodeID]
      /\ members' = members /\ table' = table /\ kept' = kept
  BY EndFacts DEF Inv, InvOf, Greet, Reject, IgnoreLine, GreetAlone, Admits, Introduces, Receives
<1>1. b \in Inboxes /\ (end[l][s] = "new")
  BY ReadKeeps DEF Greet, Reject, IgnoreLine, GreetAlone, Admits, Introduces, Receives
<1>2. /\ f \in Views
      /\ \A k \in Links, o \in Sides : f[k][o] = IF <<k, o>> = <<l, s>> THEN "known" ELSE end[k][o]
  BY <1>0, KnownKeeps
<1>3. Dump(l, s, b) \in Inboxes
  BY <1>1, DumpKeeps
<1> HIDE DEF b, f
<1>4. CASE Reject(l, s) \/ IgnoreLine(l, s)
  <2>1. end' = end /\ inbox' = b
    BY <1>4 DEF Reject, IgnoreLine, b
  <2> QED
    BY <1>0, <1>1, <2>1, ViewKeeps
<1>5. CASE Greet(l, s)
  <2>1. end' = f /\ inbox' = Dump(l, s, b)
    BY <1>5 DEF Greet, f, b
  <2> QED
    BY <1>0, <1>2, <1>3, <2>1, ViewKeeps
<1>6. CASE \E k \in Links : GreetAlone(l, s, k)
  <2>1. PICK k \in Links : GreetAlone(l, s, k)
    BY <1>6
  <2>2. Connect(p, k, HELLO, f, b) /\ end[k] = [c \in Sides |-> "closed"]
    BY <2>1 DEF GreetAlone, f, b
  <2>3. f[k] = [c \in Sides |-> "closed"]
    <3>1. k # l
      BY <2>2, <1>1
    <3>2. f[k] \in [Sides -> {"closed", "backlog", "new", "known"}]
      BY <1>2 DEF Views
    <3>3. \A c \in Sides : f[k][c] = "closed"
      BY <1>2, <2>2, <3>1
    <3> QED
      BY <3>2, <3>3
  <2>4. /\ end' \in Views /\ inbox' \in Inboxes
        /\ \A j \in Links, o \in Sides : f[j][o] = "known" => end'[j][o] = "known"
    BY <1>0, <1>1, <1>2, <2>2, <2>3, ConnectFacts
  <2> QED
    BY <1>0, <1>2, <2>4, ViewKeeps
<1> QED
  BY <1>4, <1>5, <1>6

\* The column of the predecessor whose place is taken stays covered, or is kept.
LEMMA TakeOverInv ==
  ASSUME Inv, NEW l \in Links, NEW s \in Sides, NEW x \in Links \X Sides, TakeOver(l, s, x)
  PROVE  Inv'
<1> DEFINE p == At(l, s)
           old == Far(x[1], x[2])
           d == CloseEnds(end, {x})
           f == Known(d, l, s)
           b == AfterClose(end, Rest(l, s), {x})
           gone == KnownEnds(f, p, old) = {} /\ get_neighbor_index(table[p], old) # NO_NODE_INDEX
           more == IF gone THEN {old} ELSE {}
<1>0. /\ table \in [NodeID -> Table] /\ members \subseteq NodeID
      /\ end \in Views /\ kept \in [NodeID -> SUBSET NodeID]
      /\ \A q \in NodeID : Sound(q, table[q])
      /\ \A q \in members : Covered(end, q, table[q], kept[q])
      /\ p \in NodeID /\ x[1] \in Links /\ x[2] \in Sides /\ old \in NodeID
  BY EndFacts DEF Inv, InvOf
<1>1. /\ members' = members /\ table' = table /\ inbox[l][s] # <<>>
      /\ end' = f /\ inbox' = Dump(l, s, b) /\ kept' = [kept EXCEPT ![p] = @ \cup more]
      /\ At(x[1], x[2]) = p
  BY DEF TakeOver, Introduces, Receives, OpenEnds
<1>2. d \in Views /\ b \in Inboxes
  <2>1. Rest(l, s) \in Inboxes
    BY <1>1, ReadKeeps
  <2> QED
    BY <1>0, <2>1, CloseKeeps
<1>3. \A k \in Links, o \in Sides : d[k][o] = IF <<k, o>> = x THEN "closed" ELSE end[k][o]
  BY DEF CloseEnds
<1>4. inbox' \in Inboxes
  BY <1>1, <1>2, DumpKeeps
<1> HIDE DEF d, b
<1>5. /\ f \in Views
      /\ \A k \in Links, o \in Sides : f[k][o] = IF <<k, o>> = <<l, s>> THEN "known" ELSE d[k][o]
  BY <1>2, KnownKeeps
<1> HIDE DEF f
<1>6. \A k \in Links, o \in Sides : end[k][o] = "known" /\ <<k, o>> # x => f[k][o] = "known"
  BY <1>3, <1>5
<1>7. /\ kept' \in [NodeID -> SUBSET NodeID]
      /\ \A q \in NodeID : kept'[q] = IF q = p THEN kept[p] \cup more ELSE kept[q]
  BY <1>0, <1>1
<1>8. ASSUME NEW q \in members PROVE Covered(f, q, table[q], kept'[q])
  <2>0. q \in NodeID /\ Sound(q, table[q]) /\ Covered(end, q, table[q], kept[q])
    BY <1>0
  <2>1. CASE q # p
    <3>1. \A k \in Links, o \in Sides : At(k, o) = q /\ end[k][o] = "known" => f[k][o] = "known"
      BY <1>1, <1>6, <2>1
    <3> QED
      BY <1>7, <2>0, <2>1, <3>1, CoveredKeeps
  <2>2. CASE q = p
    <3> SUFFICES ASSUME NEW j \in Neighbors, table[p].neighbor_ids[j] # NO_NODE_ID,
                        table[p].neighbor_ids[j] \notin kept'[p]
                 PROVE  KnownEnds(f, p, table[p].neighbor_ids[j]) # {}
      BY <2>2 DEF Covered
    <3> DEFINE n == table[p].neighbor_ids[j]
    <3>0. get_neighbor_index(table[p], n) # NO_NODE_INDEX
      <4>1. DOMAIN table[p].neighbor_ids = Neighbors /\ Neighbors \subseteq Nat
        BY <1>0, TableFields, SizeAssumption DEF Neighbors
      <4> QED
        BY <4>1, FirstIndexMissing DEF get_neighbor_index
    <3> HIDE DEF n
    <3>1. KnownEnds(end, p, n) # {} /\ n \notin more
      <4>1. n \notin kept[p] /\ n \notin more
        BY <1>0, <1>7 DEF n
      <4> QED
        BY <2>0, <2>2, <4>1 DEF Covered, n
    <3>2. CASE n = old
      BY <3>0, <3>1, <3>2 DEF n
    <3>3. CASE n # old
      <4>1. PICK k \in Links, o \in Sides : At(k, o) = p /\ Far(k, o) = n /\ end[k][o] = "known"
        BY <3>1, KnownEndFacts
      <4>2. <<k, o>> # x
        BY <3>3, <4>1
      <4>3. f[k][o] = "known"
        BY <1>6, <4>1, <4>2
      <4> QED
        BY <4>1, <4>3, KnownEndFacts DEF n
    <3> QED
      BY <3>2, <3>3
  <2> QED
    BY <2>1, <2>2
<1> QED
  BY <1>0, <1>1, <1>4, <1>5, <1>7, <1>8, NextInv DEF InvOf

\* Learning a route.
LEMMA LearnRouteInv ==
  ASSUME Inv, NEW l \in Links, NEW s \in Sides, LearnRoute(l, s)
  PROVE  Inv'
<1> DEFINE p == At(l, s)
           new == Learned(l, s)
           xs == IF new.changed THEN OpenEnds(end, p) ELSE {}
           b == Rest(l, s)
           c == Write(end, b, xs, <<new.route>>)
           r == [table |-> new.table, end |-> end, inbox |-> c]
<1>0. /\ end \in Views /\ p \in NodeID
      /\ \A q \in members : Covered(end, q, table[q], kept[q])
  BY EndFacts DEF Inv, InvOf
<1>1. Become(p, r) /\ members' = members /\ Receives(l, s, "ROUTE") /\ end[l][s] = "known"
  BY DEF LearnRoute, Receives
<1>2. b \in Inboxes
  BY <1>1, ReadKeeps DEF Receives
<1>3. /\ Sound(p, new.table) /\ new.route \in Lines
      /\ Covered(end, p, table[p], kept[p]) => Covered(end, p, new.table, kept[p])
  BY <1>1, LearnedKeeps
<1> HIDE DEF new, b, xs
<1>4. <<new.route>> \in Seq(Lines)
  BY <1>3
<1>5. c \in Inboxes
  BY <1>0, <1>2, <1>4, WriteKeeps
<1> HIDE DEF c
<1>6. r.table = new.table /\ r.end = end /\ r.inbox = c
  OBVIOUS
<1> HIDE DEF r
<1> QED
  BY <1>0, <1>1, <1>3, <1>5, <1>6, BecomeKeeps, NextInv

\* Learning a route while one of the writes fails.
LEMMA LearnRouteWriteFailsInv ==
  ASSUME Inv, NEW l \in Links, NEW s \in Sides, NEW x \in Links \X Sides,
         LearnRouteWriteFails(l, s, x)
  PROVE  Inv'
<1> DEFINE p == At(l, s)
           new == Learned(l, s)
           b == Rest(l, s)
           line == <<new.route>>
<1>0. /\ end \in Views /\ p \in NodeID
      /\ \A q \in members : Covered(end, q, table[q], kept[q])
  BY EndFacts DEF Inv, InvOf
<1>1. /\ Receives(l, s, "ROUTE") /\ end[l][s] = "known" /\ members' = members
      /\ x \in OpenEnds(end, p)
  BY DEF LearnRouteWriteFails, Receives
<1>2. PICK later \in SUBSET (OpenEnds(end, p) \ {x}) :
        LET sooner == OpenEnds(end, p) \ (later \cup {x})
            lost   == LoseEnd(p, new.table, x, end, Write(end, b, sooner, line))
        IN  Become(p, [lost EXCEPT !.inbox = Write(lost.end, @, later, line)])
  BY DEF LearnRouteWriteFails
<1> DEFINE sooner == OpenEnds(end, p) \ (later \cup {x})
           c == Write(end, b, sooner, line)
           lost == LoseEnd(p, new.table, x, end, c)
           d == Write(lost.end, lost.inbox, later, line)
           r == [lost EXCEPT !.inbox = Write(lost.end, @, later, line)]
<1>3. Become(p, r)
  BY <1>2
<1>4. r.table = lost.table /\ r.end = lost.end /\ r.inbox = d
  BY DEF LoseEnd
<1>5. b \in Inboxes
  BY <1>1, ReadKeeps DEF Receives
<1>6. /\ Sound(p, new.table) /\ new.route \in Lines
      /\ Covered(end, p, table[p], kept[p]) => Covered(end, p, new.table, kept[p])
  BY <1>1, LearnedKeeps
<1> HIDE DEF r, b, new
<1>7. line \in Seq(Lines)
  BY <1>6
<1> HIDE DEF line
<1>8. c \in Inboxes
  BY <1>0, <1>5, <1>7, WriteKeeps
<1>9. x[1] \in Links /\ x[2] \in Sides /\ x = <<x[1], x[2]>> /\ At(x[1], x[2]) = p
  BY <1>1 DEF OpenEnds
<1> HIDE DEF c
<1>10. lost = LoseEnd(p, new.table, <<x[1], x[2]>>, end, c)
  BY <1>9
<1> HIDE DEF lost
<1>11. /\ Sound(p, lost.table) /\ lost.end = CloseEnds(end, {<<x[1], x[2]>>})
       /\ lost.end \in Views /\ lost.inbox \in Inboxes
       /\ Covered(end, p, new.table, kept[p]) => Covered(lost.end, p, lost.table, kept[p])
  BY <1>0, <1>6, <1>8, <1>9, <1>10, LoseEndKeeps
<1>12. d \in Inboxes
  BY <1>7, <1>11, WriteKeeps
<1>13. \A q \in members \ {p} : Covered(lost.end, q, table[q], kept[q])
  BY <1>9, <1>11, OthersCovered
<1> HIDE DEF d, p
<1> QED
  BY <1>0, <1>1, <1>3, <1>4, <1>6, <1>11, <1>12, <1>13, BecomeKeeps, NextInv

\* Forwarding a chat message: at worst the node stops being a member.
LEMMA ForwardInv ==
  ASSUME Inv, NEW p \in NodeID, NEW r \in NodeID, NEW b \in Inboxes,
         Forward(p, r, b), table' = table, kept' = kept
  PROVE  Inv'
<1> DEFINE known == KnownEnds(end, p, NextHop(table[p], r))
           xs == OpenEnds(end, p)
           f == CloseEnds(end, xs)
           c == AfterClose(end, b, xs)
<1>0. /\ table \in [NodeID -> Table] /\ members \subseteq NodeID /\ end \in Views
      /\ kept \in [NodeID -> SUBSET NodeID]
      /\ \A q \in NodeID : Sound(q, table[q])
      /\ \A q \in members : Covered(end, q, table[q], kept[q])
  BY DEF Inv, InvOf
<1>1. CASE inbox' = b /\ UNCHANGED <<members, crashed, end>>
  BY <1>0, <1>1, NextInv DEF InvOf
<1>2. CASE (\E x \in known : inbox' = Write(end, b, {x}, <<Chat(r)>>))
           /\ UNCHANGED <<members, crashed, end>>
  <2>1. PICK x \in known : inbox' = Write(end, b, {x}, <<Chat(r)>>)
    BY <1>2
  <2>2. <<Chat(r)>> \in Seq(Lines)
    BY MessageLines
  <2>3. inbox' \in Inboxes
    BY <2>1, <2>2, WriteKeeps
  <2> QED
    BY <1>0, <1>2, <2>3, NextInv DEF InvOf
<1>3. CASE members' = members \ {p} /\ end' = f /\ inbox' = c
  <2>1. \A x \in xs : At(x[1], x[2]) = p
    BY DEF OpenEnds
  <2> HIDE DEF xs
  <2>2. f \in Views /\ c \in Inboxes
    BY <1>0, CloseKeeps
  <2>3. \A q \in members \ {p} : Covered(f, q, table[q], kept[q])
    BY <1>0, <2>1, CoveredElsewhere
  <2> HIDE DEF f, c
  <2> QED
    BY <1>0, <1>3, <2>2, <2>3, NextInv DEF InvOf
<1> QED
  BY <1>1, <1>2, <1>3 DEF Forward

\* The handlers of chat messages and the command that sends one.
LEMMA ChatInv ==
  ASSUME Inv
  PROVE  /\ \A p, r \in NodeID : SendChat(p, r) => Inv'
         /\ \A l \in Links, s \in Sides : ChatArrives(l, s) \/ ChatPassesOn(l, s) => Inv'
<1>0. inbox \in Inboxes
  BY DEF Inv, InvOf
<1>1. ASSUME NEW p \in NodeID, NEW r \in NodeID, SendChat(p, r) PROVE Inv'
  BY <1>0, <1>1, ForwardInv DEF SendChat
<1>2. ASSUME NEW l \in Links, NEW s \in Sides, ChatArrives(l, s) PROVE Inv'
  <2>1. Rest(l, s) \in Inboxes
    BY <1>2, ReadKeeps DEF ChatArrives, Receives
  <2>2. /\ inbox' = Rest(l, s) /\ end' = end /\ members' = members /\ table' = table
        /\ kept' = kept
    BY <1>2 DEF ChatArrives, Receives
  <2> QED
    BY <2>1, <2>2, NextInv DEF Inv, InvOf
<1>3. ASSUME NEW l \in Links, NEW s \in Sides, ChatPassesOn(l, s) PROVE Inv'
  <2>1. inbox[l][s] # <<>> /\ Line(l, s).type = "CHAT"
    BY <1>3 DEF ChatPassesOn
  <2>2. Line(l, s) \in Lines /\ Rest(l, s) \in Inboxes
    BY <2>1, ReadKeeps
  <2>3. Line(l, s).recipient \in NodeID
    BY <2>1, <2>2 DEF Lines
  <2>4. Forward(At(l, s), Line(l, s).recipient, Rest(l, s)) /\ table' = table /\ kept' = kept
    BY <1>3 DEF ChatPassesOn
  <2> QED
    BY <2>2, <2>3, <2>4, EndFacts, ForwardInv
<1> QED
  BY <1>1, <1>2, <1>3

-----------------------------------------------------------------------------
(* The theorems *)

\* No connection is open and all tables are empty at first.
LEMMA InitInv == Init => Inv
<1> SUFFICES ASSUME Init PROVE Inv
  OBVIOUS
<1>1. EmptyTable \in Table
  <2>1. <<>> \in Path
    BY DEF Path
  <2> QED
    BY <2>1, SizeAssumption DEF EmptyTable, Table, Neighbors, Recipients
<1>2. /\ \A i \in Recipients : EmptyTable.recipient_ids[i] = NO_NODE_ID
      /\ \A j \in Neighbors : EmptyTable.neighbor_ids[j] = NO_NODE_ID
  BY DEF EmptyTable
<1>3. \A p \in NodeID : Sound(p, EmptyTable) /\ Covered(end, p, EmptyTable, kept[p])
  BY <1>1, <1>2, EmptySound DEF Covered
<1>4. end \in Views /\ inbox \in Inboxes /\ kept \in [NodeID -> SUBSET NodeID]
  BY DEF Init, Views, Inboxes
<1>6. table = [p \in NodeID |-> EmptyTable] /\ members = NodeID
  BY DEF Init
<1> QED
  BY <1>1, <1>3, <1>4, <1>6 DEF Inv, InvOf

\* Every step keeps the invariant.
LEMMA StepInv == Inv /\ [Next]_vars => Inv'
<1> SUFFICES ASSUME Inv, [Next]_vars PROVE Inv'
  OBVIOUS
<1>1. ASSUME NEW l \in Links, Open(l) \/ Accept(l) PROVE Inv'
  BY <1>1, OpenInv, AcceptInv
<1>2. ASSUME NEW l \in Links, NEW s \in Sides,
             CloseLink(l, s) \/ Handle(l, s) \/ \E k \in Links : GreetAlone(l, s, k)
      PROVE  Inv'
  BY <1>2, CloseLinkInv, GreetInv, LearnRouteInv, ChatInv DEF Handle
<1>3. ASSUME NEW l \in Links, NEW s \in Sides, NEW x \in Links \X Sides,
             TakeOver(l, s, x) \/ LearnRouteWriteFails(l, s, x)
      PROVE  Inv'
  BY <1>3, TakeOverInv, LearnRouteWriteFailsInv
<1>4. ASSUME NEW p \in NodeID, \/ Leave(p) \/ Rejoin(p) \/ StartRing(p) \/ JoinAgain(p)
                               \/ \E r \in NodeID : SendChat(p, r)
      PROVE  Inv'
  BY <1>4, LeaveInv, RejoinInv, StartRingInv, ChatInv
<1>5. CASE UNCHANGED vars
  BY <1>5, NextInv DEF vars, Inv
<1> QED
  BY <1>1, <1>2, <1>3, <1>4, <1>5 DEF Next

\* A row of sound and covered tables leads to a connection or over a kept column.
LEMMA InvForwardable == Inv => Forwardable
<1> SUFFICES ASSUME Inv, NEW p \in members, NEW r \in NodeID, HasRow(p, r)
             PROVE  \/ KnownEnds(end, p, NextHop(table[p], r)) # {}
                    \/ NextHop(table[p], r) \in kept[p]
  BY DEF Forwardable
<1> DEFINE t == table[p]
           i == get_recipient_index(t, r)
<1>1. Sound(p, t) /\ Covered(end, p, t, kept[p])
  BY DEF Inv, InvOf
<1>2. i # NO_NODE_INDEX
  BY DEF HasRow
<1>3. NextHop(t, r) = t.neighbor_ids[t.forwarding_table[i]]
  BY DEF NextHop
<1> HIDE DEF t
<1>4. PICK k \in Recipients : t.recipient_ids[k] = r
  BY <1>1, <1>2, ShortestPathFacts
<1>5. i = k /\ r # NO_NODE_ID
  BY <1>1, <1>4, ShortestPathFacts, NodeIDAssumption
<1> HIDE DEF i
<1>6. /\ t.forwarding_table[i] \in Neighbors
      /\ t.neighbor_ids[t.forwarding_table[i]] # NO_NODE_ID
  BY <1>1, <1>4, <1>5 DEF Sound, RowOK, Best, Usable
<1> QED
  BY <1>1, <1>3, <1>6 DEF Covered, t

\* Whatever the order of openings, closings, takeovers, writes that fail, departures and
\* messages, a member never forwards to a neighbor it has no connection with, but over
\* a column that a PRED or an earlier ring left behind (forward_message).
THEOREM ForwardableAlways == Spec => []Forwardable
<1>1. Init => Inv
  BY InitInv
<1>2. Inv /\ [Next]_vars => Inv'
  BY StepInv
<1>3. Inv => Forwardable
  BY InvForwardable
<1> QED
  BY <1>1, <1>2, <1>3, PTL DEF Spec
=============================================================================
