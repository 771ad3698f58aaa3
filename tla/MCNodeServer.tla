---------------------------- MODULE MCNodeServer ----------------------------
(* Two processes that ask for different IDs, the lowest ones, so that a     *)
(* process whose ID is replaced gets one that the other asks for.          *)
EXTENDS NodeServer

OwnId == [p \in Client |-> {p - 1}]
TwoClients == 1 .. 2
=============================================================================
