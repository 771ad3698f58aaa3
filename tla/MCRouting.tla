----------------------------- MODULE MCRouting ------------------------------
(* Small instances of Routing: node 0 with three possible peers. *)
EXTENDS Routing

MCNodeID == 0 .. 3
MCRoutes == {p \in UNION {[1 .. k -> MCNodeID] : k \in 1 .. 2} :
               \A a, b \in DOMAIN p : p[a] = p[b] => a = b}
=============================================================================
