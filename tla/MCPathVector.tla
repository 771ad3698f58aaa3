---------------------------- MODULE MCPathVector ----------------------------
(* Three nodes in a ring, one pair of them with a second connection.       *)
EXTENDS PathVector

ThreeNodes == 1 .. 3
FourLinks == 1 .. 4
FourEnds == << <<1, 2>>, <<2, 3>>, <<3, 1>>, <<2, 1>> >>
Budget(open, close, take, leave, chat, fail, calm) ==
  [open |-> open, close |-> close, take |-> take, leave |-> leave, chat |-> chat,
   fail |-> fail, calm |-> calm]

\* Three connections are opened, each when all is quiet, and then one of them is closed,
\* a parallel one or not, or taken over, or a node leaves and comes back, while a chat
\* message may be under way.
CalmBudgets == {Budget(3, 1, 0, 0, 1, 0, TRUE), Budget(3, 0, 1, 0, 1, 0, TRUE),
                Budget(3, 0, 0, 1, 1, 0, TRUE)}

\* The same with two connections, while everything is under way, also with a failing write.
RaceBudgets == {Budget(2, 1, 0, 0, 1, 1, FALSE), Budget(2, 0, 1, 0, 1, 0, FALSE),
                Budget(2, 0, 0, 1, 1, 0, FALSE), Budget(2, 1, 1, 0, 0, 0, FALSE)}

CalmAndRaces == CalmBudgets \cup RaceBudgets

\* A node introduces itself, closes the connection and is written to; no parallel ones.
FailingWrite == {Budget(2, 1, 0, 0, 0, 1, FALSE)}
ThreeLinks == 1 .. 3
ThreeEnds == << <<1, 2>>, <<2, 3>>, <<3, 1>> >>
=============================================================================
