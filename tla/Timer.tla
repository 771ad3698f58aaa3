------------------------------- MODULE Timer --------------------------------
(***************************************************************************)
(* The arithmetic of the timer (main.c): timespec values, the instant      *)
(* set_timeout() computes and the time select() is told to wait.  The      *)
(* three ratios are 1000 in the code; smaller ones keep the instances of   *)
(* TLC small and make carries and roundings frequent.                      *)
(***************************************************************************)
EXTENDS Integers

CONSTANTS NS_PER_US, US_PER_MS, MS_PER_SEC

ASSUME TimerAssumption ==
  NS_PER_US \in Nat \ {0} /\ US_PER_MS \in Nat \ {0} /\ MS_PER_SEC \in Nat \ {0}

US_PER_SEC == US_PER_MS * MS_PER_SEC
NS_PER_MS  == NS_PER_US * US_PER_MS
NS_PER_SEC == NS_PER_US * US_PER_SEC

\* What clock_gettime() returns at time ns.
Timespec(ns) == [tv_sec |-> ns \div NS_PER_SEC, tv_nsec |-> ns % NS_PER_SEC]

\* Integer division of C: towards zero.
Quotient(a, b) == IF a >= 0 THEN a \div b ELSE -((-a) \div b)

\* timeout_instant after set_timeout(ms, ..): the delay is added to the seconds
\* and to the nanoseconds, and the carry is made once, above a full second.
TimeoutInstant(now, ms) ==
  LET sec  == now.tv_sec + Quotient(ms, MS_PER_SEC)
      nsec == now.tv_nsec + ms * NS_PER_MS
  IN  IF nsec > NS_PER_SEC THEN [tv_sec |-> sec + 1, tv_nsec |-> nsec - NS_PER_SEC]
      ELSE [tv_sec |-> sec, tv_nsec |-> nsec]

\* Faulty variant: the nanoseconds are compared whatever the seconds are.
LaterInSecond(a, b) == a.tv_sec > b.tv_sec \/ a.tv_nsec > b.tv_nsec

\* now is after the instant.
Later(now, instant) ==
  \/ now.tv_sec > instant.tv_sec
  \/ now.tv_sec = instant.tv_sec /\ now.tv_nsec > instant.tv_nsec

\* Faulty variants: no borrow from the seconds; rounded down.
SelectTimeoutNoBorrow(now, instant) ==
  IF Later(now, instant) THEN [tv_sec |-> 0, tv_usec |-> 0]
  ELSE [tv_sec |-> instant.tv_sec - now.tv_sec,
        tv_usec |-> Quotient(instant.tv_nsec - now.tv_nsec, NS_PER_US) + 1]
SelectTimeoutDown(now, instant) ==
  LET sec  == instant.tv_sec - now.tv_sec
      usec == Quotient(instant.tv_nsec - now.tv_nsec, NS_PER_US)
  IN  IF Later(now, instant) THEN [tv_sec |-> 0, tv_usec |-> 0]
      ELSE IF usec < 0 THEN [tv_sec |-> sec - 1, tv_usec |-> usec + US_PER_SEC]
      ELSE [tv_sec |-> sec, tv_usec |-> usec]

\* The timeval handed to select() at time now.
SelectTimeout(now, instant) ==
  LET sec  == instant.tv_sec - now.tv_sec
      usec == Quotient(instant.tv_nsec - now.tv_nsec, NS_PER_US) + 1
  IN  IF Later(now, instant) THEN [tv_sec |-> 0, tv_usec |-> 0]
      ELSE IF usec < 0 THEN [tv_sec |-> sec - 1, tv_usec |-> usec + US_PER_SEC]
      ELSE [tv_sec |-> sec, tv_usec |-> usec]

\* How long select() waits, in nanoseconds.
WaitingTime(timeval) == timeval.tv_sec * NS_PER_SEC + timeval.tv_usec * NS_PER_US
=============================================================================
