---------------------------- MODULE RoutingBase -----------------------------
(***************************************************************************)
(* What the routing tables of one node promise, without indices: the node  *)
(* remembers the last path each neighbor offered for each recipient and    *)
(* forwards to a neighbor that offers a shortest one.  It never abandons a *)
(* neighbor whose offer is still among the shortest.                       *)
(***************************************************************************)
EXTENDS Integers, Sequences

CONSTANTS
  Ids,    \* node identifiers
  NoId,   \* no node
  Paths,  \* the paths a neighbor may offer
  NoPath  \* no path

VARIABLES
  heard,  \* heard[n][r]: the path to r that neighbor n offers, or NoPath
  via     \* via[r]: the neighbor messages to r are forwarded to, or NoId

vars == <<heard, via>>

Init == /\ heard = [n \in Ids |-> [r \in Ids |-> NoPath]]
        /\ via = [r \in Ids |-> NoId]

\* The neighbors that offer a path to r and none of whose competitors is shorter.
ShortestVia(h, r) ==
  {n \in Ids : /\ h[n][r] # NoPath
               /\ \A m \in Ids : h[m][r] # NoPath => Len(h[n][r]) <= Len(h[m][r])}

\* The neighbors that may be used for r when old was used so far.
Choices(h, r, old) ==
  IF ShortestVia(h, r) = {} THEN {NoId}
  ELSE IF old \in ShortestVia(h, r) THEN {old}
  ELSE ShortestVia(h, r)

\* Neighbor n replaces its offer for r, and only that one.
Learn(n, r) ==
  LET h == heard' IN
  /\ h[n][r] \in Paths \cup {NoPath}
  /\ h = [heard EXCEPT ![n][r] = h[n][r]]
  /\ \E v \in Choices(h, r, via[r]) : via' = [via EXCEPT ![r] = v]

\* Everything neighbor n offered is withdrawn.
Forget(n) ==
  LET h == [heard EXCEPT ![n] = [r \in Ids |-> NoPath]] IN
  /\ heard' = h
  /\ via' \in [Ids -> Ids \cup {NoId}]
  /\ \A r \in Ids : via'[r] \in Choices(h, r, via[r])

\* The node starts over.
Reset == heard' = [n \in Ids |-> [r \in Ids |-> NoPath]] /\ via' = [r \in Ids |-> NoId]

Next == \/ \E n, r \in Ids : Learn(n, r)
        \/ \E n \in Ids : Forget(n)
        \/ Reset

Spec == Init /\ [][Next]_vars
=============================================================================
