----------------------------- MODULE EventLoop ------------------------------
(***************************************************************************)
(* The main loop of one process (main.c): the time select() may wait, the  *)
(* timer, and one round over the readable descriptors in the order of the  *)
(* code: standard input, the public socket, the connections.  What the     *)
(* lines mean is in module Ring; here a line at most sets or cancels the   *)
(* timer, and the timer closes all connections, as pred_timeout() does.    *)
(* The node server's socket is in module NodeServer.                       *)
(*                                                                         *)
(* The bytes of a stream are numbered 1, 2, ... and arrive one at a time,  *)
(* so that read() may return any part of a message.                        *)
(***************************************************************************)
EXTENDS ReadLines, Timer

CONSTANTS
  Connections,  \* the slots for connections, numbered from 1
  BUF_SIZE,     \* MAX_NODE_MESSAGE_SIZE and USER_COMMAND_BUF_SIZE
  DELAY_MS,     \* the delay of every set_timeout()
  Scenarios,    \* bounds: bytes of a stream, connection requests, timers set
  MAX_CLOCK     \* bound: nanoseconds the clock runs

STDIN   == 0
PUBLIC  == -1  \* the public socket
Streams == {STDIN} \cup Connections

ASSUME EventLoopAssumption ==
  /\ Connections \subseteq Nat \ {0}
  /\ BUF_SIZE \in Nat \ {0} /\ DELAY_MS \in Nat \ {0} /\ MAX_CLOCK \in Nat
  /\ \A s \in Scenarios :
       s.stdin \in Nat /\ s.bytes \in Nat /\ s.requests \in Nat /\ s.timers \in Nat

VARIABLES
  bounds,    \* what is left of the scenario
  stream,    \* stream[f]: what reached this host on descriptor f
  reader,    \* reader[f]: the buffer of f, and what became of its bytes
  open,      \* the streams in select_inputs
  member,    \* connection_state is CONNECTING or CONNECTED
  backlog,   \* connection requests at the public socket
  clock,     \* time in nanoseconds
  timer,     \* timeout_handler # NULL, timeout_instant, and when it was set
  wait,      \* the timeval of the current select(), and when it was computed
  readable,  \* the fd_set select() returned
  pc         \* where in the round the process is

vars == <<bounds, stream, reader, open, member, backlog, clock, timer, wait, readable, pc>>

\* arrived: number of bytes; newlines: the line ends among them; ended: the far
\* end closed.
NewStream == [arrived |-> 0, newlines |-> {}, ended |-> FALSE]
\* taken: bytes returned by read(); handed: the lines handed over, with their
\* line ends; cut: bytes were discarded.
NewReader == [taken |-> 0, buffer |-> <<>>, handed |-> <<>>, cut |-> FALSE]
NoTimer   == [armed |-> FALSE, instant |-> Timespec(0), since |-> 0]
NoTimeout == [tv_sec |-> 0, tv_usec |-> 0, from |-> 0, forever |-> TRUE]

Init ==
  /\ bounds \in Scenarios
  /\ stream = [f \in Streams |-> NewStream] /\ reader = [f \in Streams |-> NewReader]
  /\ open = {STDIN} /\ member = TRUE /\ backlog = 0
  /\ clock = 0 /\ timer = NoTimer /\ wait = NoTimeout /\ readable = {} /\ pc = "prepare"

-----------------------------------------------------------------------------
(* The world outside *)

world   == <<bounds, stream, backlog, clock>>
process == <<reader, open, member, timer, wait, readable, pc>>

\* Another byte of an open stream arrives; it may be a line end.
Arrive(f) ==
  LET k == stream[f].arrived + 1 IN
  /\ f \in open /\ ~stream[f].ended
  /\ k <= IF f = STDIN THEN bounds.stdin ELSE bounds.bytes
  /\ \E ends \in {{}, {k}} :
       stream' = [stream EXCEPT ![f].arrived = k, ![f].newlines = @ \cup ends]
  /\ UNCHANGED <<bounds, backlog, clock, process>>

\* The far end of a stream closes it.
Finish(f) ==
  /\ f \in open /\ ~stream[f].ended
  /\ stream' = [stream EXCEPT ![f].ended = TRUE]
  /\ UNCHANGED <<bounds, backlog, clock, process>>

\* Another node connects.
Request ==
  /\ bounds.requests > 0
  /\ bounds' = [bounds EXCEPT !.requests = @ - 1]
  /\ backlog' = backlog + 1
  /\ UNCHANGED <<stream, clock, process>>

\* Time passes; it matters only while there are timers.
Tick ==
  /\ clock < MAX_CLOCK
  /\ timer.armed \/ bounds.timers > 0
  /\ clock' = clock + 1
  /\ UNCHANGED <<bounds, stream, backlog, process>>

-----------------------------------------------------------------------------
(* One round of the loop *)

\* Faulty variant: select() is always called without a timeout.
PrepareForever ==
  /\ pc = "prepare"
  /\ wait' = NoTimeout /\ pc' = "select"
  /\ UNCHANGED <<world, reader, open, member, timer, readable>>

\* The time left until the timer is due.
Prepare ==
  /\ pc = "prepare"
  /\ LET t == SelectTimeout(Timespec(clock), timer.instant) IN
     wait' = IF timer.armed
             THEN [tv_sec |-> t.tv_sec, tv_usec |-> t.tv_usec, from |-> clock, forever |-> FALSE]
             ELSE NoTimeout
  /\ pc' = "select"
  /\ UNCHANGED <<world, reader, open, member, timer, readable>>

Ready(f) == f \in open /\ (reader[f].taken < stream[f].arrived \/ stream[f].ended)
ReadySet == {f \in Streams : Ready(f)} \cup (IF backlog > 0 THEN {PUBLIC} ELSE {})
WaitOver == ~wait.forever /\ clock >= wait.from + WaitingTime(wait)
Due      == timer.armed /\ Later(Timespec(clock), timer.instant)

\* select() returns because of input or of its timeout; then the timer is looked
\* at.  Its handler leaves the ring, which closes the connections.
Select ==
  /\ pc = "select"
  /\ ReadySet # {} \/ WaitOver
  /\ readable' = ReadySet
  /\ timer' = IF Due THEN NoTimer ELSE timer
  /\ open' = IF Due THEN {STDIN} ELSE open
  /\ member' = (member /\ ~Due)
  /\ wait' = NoTimeout /\ pc' = "stdin"
  /\ UNCHANGED <<world, reader>>

\* What handling some lines may do to the timer; it is set in the first second,
\* which leaves the clock the time to reach the instant.
SetTimer == /\ bounds.timers > 0 /\ clock < NS_PER_SEC
            /\ timer' = [armed |-> TRUE, since |-> clock,
                         instant |-> TimeoutInstant(Timespec(clock), DELAY_MS)]
            /\ bounds' = [bounds EXCEPT !.timers = @ - 1]
CancelTimer == timer.armed /\ timer' = NoTimer /\ UNCHANGED bounds
LeaveTimer  == UNCHANGED <<timer, bounds>>

\* What read() returns: all there is, as far as it fits in the buffer.
Data(f) ==
  LET r == reader[f]
      n == stream[f].arrived - r.taken
      room == BUF_SIZE - Len(r.buffer)
  IN  [k \in 1 .. (IF n < room THEN n ELSE room) |-> r.taken + k]

\* read_lines() on a descriptor with input.
ReadStream(f) ==
  LET d == Data(f)
      s == read_lines(reader[f].buffer, d, stream[f].newlines, BUF_SIZE)
  IN  /\ d # <<>>
      /\ reader' = [reader EXCEPT ![f] =
                      [taken |-> @.taken + Len(d), buffer |-> s.buffer,
                       handed |-> @.handed \o s.lines,
                       cut |-> @.cut \/ s.result = "RL_OVERFLOW"]]
      /\ LeaveTimer \/ (s.lines # <<>> /\ (SetTimer \/ CancelTimer))
      /\ UNCHANGED <<stream, backlog, clock, member, wait>>

\* read() returned 0 or an error.
AtEnd(f) == Data(f) = <<>>

NoStdin == /\ pc = "stdin" /\ STDIN \notin readable
           /\ pc' = "public"
           /\ UNCHANGED <<world, reader, open, member, timer, wait, readable>>
ReadStdin == /\ pc = "stdin" /\ STDIN \in readable
             /\ ReadStream(STDIN)
             /\ pc' = "public" /\ UNCHANGED <<open, readable>>
\* The end of standard input ends the process.
EndStdin == /\ pc = "stdin" /\ STDIN \in readable /\ AtEnd(STDIN)
            /\ pc' = "exit" /\ open' = {}
            /\ UNCHANGED <<world, reader, member, timer, wait, readable>>

\* Faulty variant: the round ends here although nobody asked for a connection.
NoRequestContinue ==
  /\ pc = "public" /\ PUBLIC \notin readable
  /\ readable' = {} /\ pc' = "prepare"
  /\ UNCHANGED <<world, reader, open, member, timer, wait>>

NoRequest == /\ pc = "public" /\ PUBLIC \notin readable
             /\ pc' = "connections"
             /\ UNCHANGED <<world, reader, open, member, timer, wait, readable>>

Free == Connections \ open
Lowest(S) == CHOOSE i \in S : \A j \in S : i <= j

\* Faulty variant: the buffer of the last user of the slot is kept.
AcceptKeepsBuffer ==
  LET i == Lowest(Free) IN
  /\ pc = "public" /\ PUBLIC \in readable /\ member /\ Free # {}
  /\ open' = open \cup {i} /\ backlog' = backlog - 1
  /\ stream' = [stream EXCEPT ![i] = NewStream]
  /\ reader' = [reader EXCEPT ![i] = [NewReader EXCEPT !.buffer = reader[i].buffer]]
  /\ pc' = "connections"
  /\ UNCHANGED <<bounds, clock, member, timer, wait, readable>>

\* A connection is accepted into the lowest free slot.
Accept ==
  LET i == Lowest(Free) IN
  /\ pc = "public" /\ PUBLIC \in readable /\ member /\ Free # {}
  /\ open' = open \cup {i} /\ backlog' = backlog - 1
  /\ stream' = [stream EXCEPT ![i] = NewStream]
  /\ reader' = [reader EXCEPT ![i] = NewReader]
  /\ pc' = "connections"
  /\ UNCHANGED <<bounds, clock, member, timer, wait, readable>>

\* A connection is refused, because this node is not in a ring or busy with
\* another new node: the round ends without serving the connections.
Refuse == /\ pc = "public" /\ PUBLIC \in readable
          /\ backlog' = backlog - 1
          /\ readable' = {} /\ pc' = "prepare"
          /\ UNCHANGED <<bounds, stream, clock, reader, open, member, timer, wait>>

\* The connections are visited in the order of their slots; one that was closed
\* since select() returned is passed over.
AtSlot(i) == /\ pc = "connections" /\ i \in readable
             /\ \A j \in readable : j \in Connections => i <= j
             /\ readable' = readable \ {i}

ReadConnection(i) == AtSlot(i) /\ i \in open /\ ReadStream(i) /\ UNCHANGED <<open, pc>>

\* RL_END empties the buffer, RL_ERROR leaves it; both close the connection.
CloseConnection(i) ==
  /\ AtSlot(i) /\ i \in open /\ AtEnd(i)
  /\ \E b \in {<<>>, reader[i].buffer} : reader' = [reader EXCEPT ![i].buffer = b]
  /\ open' = open \ {i}
  /\ UNCHANGED <<world, member, timer, wait, pc>>

PassOver(i) == /\ AtSlot(i) /\ i \notin open
               /\ UNCHANGED <<world, reader, open, member, timer, wait, pc>>

EndRound == /\ pc = "connections" /\ readable \cap Connections = {}
            /\ readable' = {} /\ pc' = "prepare"
            /\ UNCHANGED <<world, reader, open, member, timer, wait>>

Loop == \/ Prepare \/ Select
        \/ NoStdin \/ ReadStdin \/ EndStdin
        \/ NoRequest \/ Accept \/ Refuse
        \/ \E i \in Connections : ReadConnection(i) \/ CloseConnection(i) \/ PassOver(i)
        \/ EndRound

World == Request \/ Tick \/ \E f \in Streams : Arrive(f) \/ Finish(f)

Next == Loop \/ World

Spec == Init /\ [][Next]_vars

\* The process is scheduled and time passes.
FairSpec == Spec /\ WF_vars(Loop) /\ WF_vars(Tick)

-----------------------------------------------------------------------------
(* Properties *)

\* However the bytes of a stream are cut into reads, and whatever the slot was used
\* for before, the handler is given the bytes in order, each once; the rest is in
\* the buffer (read_lines and add_connection).  Only an overflow discards bytes.
LinesInOrder ==
  \A f \in open :
    LET r == reader[f] IN ~r.cut => r.handed \o r.buffer = [k \in 1 .. r.taken |-> k]

\* There is always room in the buffer: read() with no room returns 0, which the
\* loop takes for the end of the connection (read_lines, RL_OVERFLOW).
BufferHasRoom == \A f \in Streams : Len(reader[f].buffer) < BUF_SIZE

\* The timer does not go off before the delay asked for has passed, wherever in
\* the second it was set (set_timeout and the comparison of main.c).
NotEarly ==
  [][pc = "select" /\ timer.armed /\ ~timer'.armed =>
       clock >= timer.since + DELAY_MS * NS_PER_MS]_vars

\* The time handed to select() is never negative: select() would fail and the
\* loop end the process.
WaitValid == pc = "select" /\ ~wait.forever => wait.tv_sec >= 0 /\ wait.tv_usec >= 0

\* When select() returns for want of input the timer is due: the rounding of the
\* waiting time does not make the loop spin.
NoIdleRound ==
  [][pc = "select" /\ pc' = "stdin" /\ readable' = {} => timer.armed /\ ~timer'.armed]_vars

\* A timer that is not cancelled goes off, with and without other input.
TimerFires == timer.armed ~> ~timer.armed \/ pc = "exit"

\* What arrives on a stream, its end included, is read, although a refused
\* connection ends the round before the connections are served.
InputServed == \A f \in Streams : Ready(f) ~> ~Ready(f)

\* "handler: function called for every line received" (read-lines.h): once
\* everything that arrived was read, no complete line is left in the buffer.
EveryLineHandled ==
  \A f \in Streams :
    f \in open /\ reader[f].taken = stream[f].arrived =>
      \A k \in DOMAIN reader[f].buffer : reader[f].buffer[k] \notin stream[f].newlines
=============================================================================
