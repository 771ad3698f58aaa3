------------------------------- MODULE MCRing -------------------------------
(* Small instances of Ring: three processes, or four where chords matter.  *)
EXTENDS Ring

Processes3 == 1 .. 3
Processes4 == 1 .. 4

OwnId == [p \in Addr |-> {p}]
\* Processes 2 and 3 ask for the same ID.
ClashingId == [p \in Addr |-> IF p = 3 THEN {2} ELSE {p}]
\* Processes 1 and 2 may ask for another ID the next time.
FreshId == [p \in Addr |-> {p, 3}]

None == [c \in Bounds |-> IF c = "total" THEN 9 ELSE 0]

CalmBudget       == [None EXCEPT !.join = 4, !.leave = 2, !.exit = 1]
ChordBudget      == [None EXCEPT !.join = 4, !.leave = 1, !.chord = 2, !.total = 6]
ConcurrentBudget == [None EXCEPT !.join = 3, !.leave = 1]
DirectBudget     == [None EXCEPT !.direct_join = 3, !.exit = 1, !.start = 1, !.refused_join = 1,
                              !.total = 3]
=============================================================================
