----------------------------- MODULE ReadLines ------------------------------
(***************************************************************************)
(* The line reader (read-lines.c).  A byte is a number, newlines the set   *)
(* of the bytes that are '\n'.  buffer is buffer[0 .. *buffer_index - 1],  *)
(* the part of the C array that means something between two calls.         *)
(***************************************************************************)
EXTENDS Integers, Sequences

Largest(S) == CHOOSE k \in S : \A j \in S : j <= k

\* Faulty variant: a full buffer is not noticed.
ReadLinesFull(buffer, data, newlines, size) ==
  LET all  == buffer \o data
      ends == {i \in 1 .. Len(data) : all[i] \in newlines}
      start == Largest(ends \cup {0})
  IN  [lines |-> SubSeq(all, 1, start), buffer |-> SubSeq(all, start + 1, Len(all)),
       result |-> "RL_OK"]

\* The buffer after read() returned data, and the lines handed to the handler,
\* one after the other with their line ends.  The loop looks at the first
\* Len(data) bytes of the buffer, wherever the new bytes are.
read_lines(buffer, data, newlines, size) ==
  LET all  == buffer \o data
      ends == {i \in 1 .. Len(data) : all[i] \in newlines}
      start == Largest(ends \cup {0})
      rest == SubSeq(all, start + 1, Len(all))
  IN  IF Len(rest) = size
      THEN [lines |-> SubSeq(all, 1, start), buffer |-> <<>>, result |-> "RL_OVERFLOW"]
      ELSE [lines |-> SubSeq(all, 1, start), buffer |-> rest, result |-> "RL_OK"]
=============================================================================
