--------------------------- MODULE EventLoopProofs --------------------------
(***************************************************************************)
(* Proofs about the main loop, its timer and its line reader (modules      *)
(* EventLoop, Timer and ReadLines), for any buffer size, any delay, any    *)
(* clock and any ratios of the units of time.                              *)
(***************************************************************************)
EXTENDS EventLoop, TLAPS, SequenceTheorems, WellFoundedInduction

-----------------------------------------------------------------------------
(* The arithmetic of the timer *)

\* Division with remainder.
LEMMA DivMod ==
  ASSUME NEW a \in Nat, NEW b \in Nat \ {0}
  PROVE  /\ a \div b \in Nat /\ a % b \in Nat /\ a % b < b
         /\ a = b * (a \div b) + (a % b)
  OBVIOUS

\* Products of naturals, which the provers need help with.
LEMMA Products ==
  /\ \A x, y \in Nat : x * y \in Nat
  /\ \A x, y \in Nat \ {0} : x * y \in Nat \ {0}
  /\ \A x, y, z \in Nat : x <= y => x * z <= y * z
  /\ \A x, y, z \in Int : (x + y) * z = x * z + y * z /\ (x - y) * z = x * z - y * z
  /\ \A x, y, z \in Int : (x * y) * z = x * (y * z)
  /\ \A x, y \in Int : x * y \in Int /\ x * y = y * x
  OBVIOUS

\* The units fit into one another.
LEMMA Units ==
  /\ NS_PER_US \in Nat \ {0} /\ US_PER_SEC \in Nat \ {0}
  /\ NS_PER_MS \in Nat \ {0} /\ NS_PER_SEC \in Nat \ {0} /\ MS_PER_SEC \in Nat \ {0}
  /\ NS_PER_SEC = MS_PER_SEC * NS_PER_MS
  /\ NS_PER_SEC = US_PER_SEC * NS_PER_US
<1>1. NS_PER_US \in Nat \ {0} /\ US_PER_MS \in Nat \ {0} /\ MS_PER_SEC \in Nat \ {0}
  BY TimerAssumption
<1>2. US_PER_SEC \in Nat \ {0} /\ NS_PER_MS \in Nat \ {0}
  BY <1>1, Products DEF US_PER_SEC, NS_PER_MS
<1>3. NS_PER_SEC \in Nat \ {0}
  BY <1>1, <1>2, Products DEF NS_PER_SEC
<1>4. NS_PER_SEC = MS_PER_SEC * NS_PER_MS
  <2>1. NS_PER_SEC = NS_PER_US * (US_PER_MS * MS_PER_SEC)
    BY DEF NS_PER_SEC, US_PER_SEC
  <2>2. NS_PER_MS = NS_PER_US * US_PER_MS
    BY DEF NS_PER_MS
  <2> QED
    BY <1>1, <2>1, <2>2, Products
<1>5. NS_PER_SEC = US_PER_SEC * NS_PER_US
  BY <1>1, <1>2, Products DEF NS_PER_SEC
<1> QED
  BY <1>1, <1>2, <1>3, <1>4, <1>5

\* What clock_gettime() returns adds up to the time.
LEMMA TimespecFacts ==
  ASSUME NEW c \in Nat
  PROVE  /\ Timespec(c).tv_sec \in Nat /\ Timespec(c).tv_nsec \in Nat
         /\ Timespec(c).tv_nsec < NS_PER_SEC
         /\ c = Timespec(c).tv_sec * NS_PER_SEC + Timespec(c).tv_nsec
<1>1. NS_PER_SEC \in Nat \ {0}
  BY Units
<1>2. /\ c \div NS_PER_SEC \in Nat /\ c % NS_PER_SEC \in Nat /\ c % NS_PER_SEC < NS_PER_SEC
      /\ c = NS_PER_SEC * (c \div NS_PER_SEC) + (c % NS_PER_SEC)
  BY <1>1, DivMod
<1> QED
  BY <1>1, <1>2, Products DEF Timespec

\* An instant, which need not be normalised.
Instant == [tv_sec : Nat, tv_nsec : Nat]

\* The instant set_timeout() computes is a pair of naturals, and the clock is past
\* it only when the delay has passed, however long the delay is.
LEMMA InstantFacts ==
  ASSUME NEW c \in Nat, NEW ms \in Nat
  PROVE  /\ TimeoutInstant(Timespec(c), ms) \in Instant
         /\ \A d \in Nat : Later(Timespec(d), TimeoutInstant(Timespec(c), ms)) =>
                             d >= c + ms * NS_PER_MS
<1> DEFINE N == NS_PER_SEC
           D == ms * NS_PER_MS
           q == Quotient(ms, MS_PER_SEC)
           rem == ms % MS_PER_SEC
           s0 == Timespec(c).tv_sec
           n0 == Timespec(c).tv_nsec
           i == TimeoutInstant(Timespec(c), ms)
<1>1. N \in Nat \ {0} /\ NS_PER_MS \in Nat \ {0} /\ MS_PER_SEC \in Nat \ {0} /\ N = MS_PER_SEC * NS_PER_MS
  BY Units
<1>2. q \in Nat /\ rem \in Nat /\ rem < MS_PER_SEC /\ ms = MS_PER_SEC * q + rem
  <2>1. q = ms \div MS_PER_SEC
    BY DEF Quotient
  <2> HIDE DEF q, rem
  <2> QED
    BY <1>1, <2>1, DivMod DEF rem
<1>3. s0 \in Nat /\ n0 \in Nat /\ n0 < N /\ c = s0 * N + n0
  BY TimespecFacts
<1>4. D \in Nat /\ q * N \in Nat /\ s0 * N \in Nat /\ D <= q * N + N
  <2>1. D = (MS_PER_SEC * q) * NS_PER_MS + rem * NS_PER_MS
    <3> HIDE DEF q, rem
    <3>1. MS_PER_SEC * q \in Nat
      BY <1>1, <1>2, Products
    <3>2. (MS_PER_SEC * q + rem) * NS_PER_MS = (MS_PER_SEC * q) * NS_PER_MS + rem * NS_PER_MS
      BY <1>1, <1>2, <3>1, Products
    <3> QED
      BY <1>2, <3>2
  <2>2. (MS_PER_SEC * q) * NS_PER_MS = q * N
    <3>1. (MS_PER_SEC * q) * NS_PER_MS = (q * MS_PER_SEC) * NS_PER_MS
      BY <1>1, <1>2, Products
    <3> QED
      BY <1>1, <1>2, <3>1, Products
  <2>3. rem * NS_PER_MS <= N
    BY <1>1, <1>2, Products
  <2>4. D \in Nat /\ q * N \in Nat /\ s0 * N \in Nat /\ rem * NS_PER_MS \in Nat
    BY <1>1, <1>2, <1>3, Products
  <2> HIDE DEF D, N, q, rem, s0
  <2> QED
    BY <1>1, <2>1, <2>2, <2>3, <2>4
<1>6. /\ n0 + D > N => i.tv_sec = s0 + q + 1 /\ i.tv_nsec = (n0 + D) - N
      /\ ~(n0 + D > N) => i.tv_sec = s0 + q /\ i.tv_nsec = n0 + D
      /\ i = [tv_sec |-> i.tv_sec, tv_nsec |-> i.tv_nsec]
  <2>1. i = IF n0 + D > N THEN [tv_sec |-> s0 + q + 1, tv_nsec |-> (n0 + D) - N]
            ELSE [tv_sec |-> s0 + q, tv_nsec |-> n0 + D]
    BY DEF TimeoutInstant
  <2> HIDE DEF N, D, q, s0, n0, i
  <2>2. CASE n0 + D > N
    <3>1. i = [tv_sec |-> s0 + q + 1, tv_nsec |-> (n0 + D) - N]
      BY <2>1, <2>2
    <3> QED
      BY <2>2, <3>1
  <2>3. CASE ~(n0 + D > N)
    <3>1. i = [tv_sec |-> s0 + q, tv_nsec |-> n0 + D]
      BY <2>1, <2>3
    <3> QED
      BY <2>3, <3>1
  <2> QED
    BY <2>2, <2>3
<1> HIDE DEF N, D, q, rem, s0, n0, i
<1>7. i \in Instant
  <2>1. i.tv_sec \in Nat /\ i.tv_nsec \in Nat
    BY <1>1, <1>2, <1>3, <1>4, <1>6
  <2> QED
    BY <1>6, <2>1 DEF Instant
<1>8. ASSUME NEW d \in Nat, Later(Timespec(d), i) PROVE d >= c + D
  <2> DEFINE s == Timespec(d).tv_sec
             n == Timespec(d).tv_nsec
  <2>1. s \in Nat /\ n \in Nat /\ n < N /\ d = s * N + n
    BY TimespecFacts DEF N
  <2>2. s > i.tv_sec \/ (s = i.tv_sec /\ n > i.tv_nsec)
    BY <1>8 DEF Later
  <2> HIDE DEF s, n
  <2>3. i.tv_sec \in Nat /\ i.tv_nsec \in Nat /\ i.tv_sec * N \in Nat /\ s * N \in Nat
    BY <1>1, <1>7, <2>1, Products DEF Instant
  <2>4. i.tv_sec * N + i.tv_nsec = c + q * N + D
    <3>1. (s0 + q + 1) * N = s0 * N + q * N + N /\ (s0 + q) * N = s0 * N + q * N
      BY <1>1, <1>2, <1>3, Products
    <3> QED
      BY <1>1, <1>2, <1>3, <1>4, <1>6, <3>1
  <2>5. CASE s > i.tv_sec
    <3>1. s * N >= (i.tv_sec + 1) * N /\ (i.tv_sec + 1) * N = i.tv_sec * N + N
      BY <1>1, <2>1, <2>3, <2>5, Products
    <3>2. i.tv_sec * N + N >= c + D
      <4>1. CASE n0 + D > N
        <5>1. i.tv_sec * N = s0 * N + q * N + N
          BY <1>1, <1>2, <1>3, <1>6, <4>1, Products, SMTT(30)
        <5> QED
          BY <1>1, <1>3, <1>4, <5>1
      <4>2. CASE ~(n0 + D > N)
        <5>1. i.tv_sec * N = s0 * N + q * N
          BY <1>1, <1>2, <1>3, <1>6, <4>2, Products
        <5> QED
          BY <1>1, <1>3, <1>4, <4>2, <5>1
      <4> QED
        BY <4>1, <4>2
    <3> QED
      BY <1>1, <1>3, <1>4, <2>1, <2>3, <3>1, <3>2
  <2>6. CASE s = i.tv_sec /\ n > i.tv_nsec
    BY <1>1, <1>3, <1>4, <2>1, <2>3, <2>4, <2>6
  <2> QED
    BY <2>2, <2>5, <2>6
<1> QED
  BY <1>7, <1>8 DEF i, D

\* Division towards zero and one more is enough, and not too little.
LEMMA QuotientFacts ==
  ASSUME NEW a \in Int, NEW b \in Nat \ {0}, NEW k \in Nat \ {0}, -a < k * b
  PROVE  /\ Quotient(a, b) \in Int
         /\ (Quotient(a, b) + 1) * b > a
         /\ a >= 0 => Quotient(a, b) >= 0
         /\ Quotient(a, b) + k >= 0
<1>1. CASE a >= 0
  <2> DEFINE q == a \div b
             r == a % b
  <2>1. Quotient(a, b) = q
    BY <1>1 DEF Quotient
  <2>2. q \in Nat /\ r \in Nat /\ r < b /\ a = b * q + r
    BY <1>1, DivMod
  <2> HIDE DEF q, r
  <2>3. (q + 1) * b = b * q + b /\ b * q \in Nat
    BY <2>2, Products
  <2> QED
    BY <1>1, <2>1, <2>2, <2>3
<1>2. CASE a < 0
  <2> DEFINE m == -a
             q == m \div b
             r == m % b
  <2>1. Quotient(a, b) = -q
    BY <1>2 DEF Quotient
  <2>2. q \in Nat /\ r \in Nat /\ r < b /\ m = b * q + r
    BY <1>2, DivMod
  <2>3. m \in Nat /\ a = -m /\ m < k * b
    BY <1>2
  <2> HIDE DEF m, q, r
  <2>4. (-q + 1) * b = b - b * q /\ b * q \in Nat
    BY <2>2, Products
  <2>5. q < k
    <3> SUFFICES ASSUME k <= q PROVE FALSE
      BY <2>2
    <3>1. k * b <= q * b /\ q * b = b * q /\ k * b \in Nat
      BY <2>2, Products
    <3> QED
      BY <2>2, <2>3, <2>4, <3>1
  <2> QED
    BY <1>2, <2>1, <2>2, <2>3, <2>4, <2>5
<1> QED
  BY <1>1, <1>2

\* The clock does not go back: what is past an instant stays past it.
LEMMA LaterLasts ==
  ASSUME NEW c \in Nat, NEW d \in Nat, d >= c, NEW i \in Instant, Later(Timespec(c), i)
  PROVE  Later(Timespec(d), i)
<1> DEFINE N == NS_PER_SEC
           s == Timespec(c).tv_sec
           n == Timespec(c).tv_nsec
           s1 == Timespec(d).tv_sec
           n1 == Timespec(d).tv_nsec
<1>1. /\ s \in Nat /\ n \in Nat /\ n < N /\ c = s * N + n
      /\ s1 \in Nat /\ n1 \in Nat /\ n1 < N /\ d = s1 * N + n1
  BY TimespecFacts
<1>2. N \in Nat \ {0}
  BY Units
<1>3. s > i.tv_sec \/ (s = i.tv_sec /\ n > i.tv_nsec)
  BY DEF Later
<1>4. s1 > i.tv_sec \/ (s1 = i.tv_sec /\ n1 > i.tv_nsec) => Later(Timespec(d), i)
  BY DEF Later
<1> HIDE DEF N, s, n, s1, n1
<1>5. s1 >= s
  <2> SUFFICES ASSUME s1 < s PROVE FALSE
    BY <1>1
  <2>1. (s1 + 1) * N <= s * N /\ (s1 + 1) * N = s1 * N + N /\ s1 * N \in Nat /\ s * N \in Nat
    BY <1>1, <1>2, Products
  <2> QED
    BY <1>1, <1>2, <2>1
<1>6. s1 = s => n1 >= n
  <2>1. s * N \in Nat
    BY <1>1, <1>2, Products
  <2> QED
    BY <1>1, <2>1
<1>7. i.tv_sec \in Nat /\ i.tv_nsec \in Nat
  BY DEF Instant
<1> QED
  BY <1>1, <1>3, <1>4, <1>5, <1>6, <1>7

\* The time handed to select() is not negative, and once it has passed the clock is
\* past the instant.
LEMMA SelectTimeoutFacts ==
  ASSUME NEW c \in Nat, NEW i \in Instant, NEW t, t = SelectTimeout(Timespec(c), i)
  PROVE  /\ t.tv_sec \in Nat /\ t.tv_usec \in Nat /\ WaitingTime(t) \in Nat
         /\ \A d \in Nat : d >= c + WaitingTime(t) => Later(Timespec(d), i)
<1> DEFINE N == NS_PER_SEC
           U == NS_PER_US
           K == US_PER_SEC
           s == Timespec(c).tv_sec
           n == Timespec(c).tv_nsec
           sec == i.tv_sec - s
           diff == i.tv_nsec - n
           q == Quotient(diff, U)
           W == t.tv_sec * N + t.tv_usec * U
<1>0. N \in Nat \ {0} /\ U \in Nat \ {0} /\ K \in Nat \ {0} /\ N = K * U
  BY Units
<1>1. s \in Nat /\ n \in Nat /\ n < N /\ c = s * N + n
  BY TimespecFacts
<1>2. i.tv_sec \in Nat /\ i.tv_nsec \in Nat
  BY DEF Instant
<1>3. WaitingTime(t) = W
  BY DEF WaitingTime
<1>4. CASE Later(Timespec(c), i)
  <2>1. t = [tv_sec |-> 0, tv_usec |-> 0]
    BY <1>4 DEF SelectTimeout
  <2>2. t.tv_sec = 0 /\ t.tv_usec = 0
    BY <2>1
  <2>3. W = 0
    BY <1>0, <2>2
  <2> HIDE DEF W
  <2> QED
    BY <1>3, <1>4, <2>2, <2>3, LaterLasts
<1>5. CASE ~Later(Timespec(c), i)
  <2>1. s < i.tv_sec \/ (s = i.tv_sec /\ n <= i.tv_nsec)
    BY <1>1, <1>2, <1>5 DEF Later
  <2>2. t = IF q + 1 < 0 THEN [tv_sec |-> sec - 1, tv_usec |-> (q + 1) + K]
            ELSE [tv_sec |-> sec, tv_usec |-> q + 1]
    BY <1>5 DEF SelectTimeout
  <2>3. /\ q + 1 < 0 => t.tv_sec = sec - 1 /\ t.tv_usec = (q + 1) + K
        /\ ~(q + 1 < 0) => t.tv_sec = sec /\ t.tv_usec = q + 1
    <3> HIDE DEF q, sec
    <3>1. CASE q + 1 < 0
      <4>1. t = [tv_sec |-> sec - 1, tv_usec |-> (q + 1) + K]
        BY <2>2, <3>1
      <4> QED
        BY <3>1, <4>1
    <3>2. CASE ~(q + 1 < 0)
      <4>1. t = [tv_sec |-> sec, tv_usec |-> q + 1]
        BY <2>2, <3>2
      <4> QED
        BY <3>2, <4>1
    <3> QED
      BY <3>1, <3>2
  <2>4. diff \in Int /\ -diff < K * U /\ sec \in Int
    BY <1>0, <1>1, <1>2
  <2>5. q \in Int /\ (q + 1) * U > diff /\ (diff >= 0 => q >= 0) /\ q + K >= 0
    <3> HIDE DEF diff
    <3> QED
      BY <1>0, <2>4, QuotientFacts
  <2> DEFINE u == q + 1
  <2>6. u \in Int /\ u * U > diff /\ (diff >= 0 => u > 0) /\ u + K > 0
    <3> HIDE DEF diff, q
    <3> QED
      BY <1>0, <2>5
  <2>7. /\ u < 0 => t.tv_sec = sec - 1 /\ t.tv_usec = u + K
        /\ ~(u < 0) => t.tv_sec = sec /\ t.tv_usec = u
    BY <2>3
  <2>8. /\ diff = i.tv_nsec - n /\ sec = i.tv_sec - s
        /\ s < i.tv_sec => sec >= 1
        /\ s = i.tv_sec => sec = 0 /\ diff >= 0
    BY <1>1, <1>2, <2>1
  <2> HIDE DEF u, q, sec, diff
  <2>9. t.tv_sec \in Nat /\ t.tv_usec \in Nat
    BY <1>0, <2>1, <2>4, <2>6, <2>7, <2>8
  <2>10. W = sec * N + u * U
    <3>1. (sec - 1) * N = sec * N - N /\ (u + K) * U = u * U + N
      BY <1>0, <2>4, <2>6, Products
    <3>2. sec * N \in Int /\ u * U \in Int
      BY <1>0, <2>4, <2>6, Products
    <3>3. CASE u < 0
      <4>1. W = (sec - 1) * N + (u + K) * U
        BY <2>7, <3>3
      <4> QED
        BY <1>0, <3>1, <3>2, <4>1
    <3>4. CASE ~(u < 0)
      BY <2>7, <3>4
    <3> QED
      BY <3>3, <3>4
  <2>11. W \in Nat
    BY <1>0, <2>9, Products
  <2> HIDE DEF W
  <2>12. ASSUME NEW d \in Nat, d >= c + W PROVE Later(Timespec(d), i)
    <3> DEFINE s1 == Timespec(d).tv_sec
               n1 == Timespec(d).tv_nsec
    <3>1. s1 \in Nat /\ n1 \in Nat /\ n1 < N /\ d = s1 * N + n1
      BY TimespecFacts
    <3>2. s1 > i.tv_sec \/ (s1 = i.tv_sec /\ n1 > i.tv_nsec) => Later(Timespec(d), i)
      BY DEF Later
    <3> HIDE DEF s1, n1
    <3>3. d > i.tv_sec * N + i.tv_nsec
      <4>1. sec * N = i.tv_sec * N - s * N
        BY <1>0, <1>1, <1>2, <2>8, Products
      <4>2. i.tv_sec * N \in Nat /\ s * N \in Nat /\ u * U \in Int
        BY <1>0, <1>1, <1>2, <2>6, Products
      <4> QED
        BY <1>1, <1>2, <2>6, <2>8, <2>10, <2>11, <2>12, <4>1, <4>2
    <3>4. s1 >= i.tv_sec
      <4> SUFFICES ASSUME s1 < i.tv_sec PROVE FALSE
        BY <1>2, <3>1
      <4>1. /\ (s1 + 1) * N <= i.tv_sec * N /\ (s1 + 1) * N = s1 * N + N
            /\ s1 * N \in Nat /\ i.tv_sec * N \in Nat
        BY <1>0, <1>2, <3>1, Products
      <4> QED
        BY <1>0, <1>2, <3>1, <3>3, <4>1
    <3>5. s1 = i.tv_sec => n1 > i.tv_nsec
      <4>1. s1 * N \in Nat
        BY <1>0, <3>1, Products
      <4> QED
        BY <1>2, <3>1, <3>3, <4>1
    <3> QED
      BY <1>2, <3>1, <3>2, <3>4, <3>5
  <2> QED
    BY <1>3, <2>9, <2>11, <2>12
<1> QED
  BY <1>4, <1>5

-----------------------------------------------------------------------------
(* The line reader and the choice of a slot *)

\* A set of naturals that is not empty has a least element.
LEMMA Least ==
  ASSUME NEW S, S \subseteq Nat, S # {}
  PROVE  \E m \in S : \A k \in S : m <= k
<1> DEFINE Less == {pair \in Nat \X Nat : pair[1] < pair[2]}
<1>1. IsWellFoundedOn(Less, Nat)
  BY NatLessThanWellFounded DEF OpToRel
<1> HIDE DEF Less
<1>2. PICK m \in S : \A k \in S : ~(<<k, m>> \in Less)
  BY <1>1, WFMin
<1>3. ASSUME NEW k \in S PROVE m <= k
  <2>1. m \in Nat /\ k \in Nat
    OBVIOUS
  <2>2. k < m => <<k, m>> \in Less
    BY <2>1 DEF Less
  <2> QED
    BY <1>2, <2>1, <2>2
<1> QED
  BY <1>3

\* The lowest of some slots is one of them.
LEMMA LowestIn == ASSUME NEW S, S \subseteq Nat, S # {} PROVE Lowest(S) \in S
  BY Least DEF Lowest

\* The largest of some positions is one of them.
LEMMA LargestIn ==
  ASSUME NEW n \in Nat, NEW S, S \subseteq 0 .. n, S # {}
  PROVE  Largest(S) \in S
<1> DEFINE T == {n - j : j \in S}
<1>1. T \subseteq Nat /\ T # {}
  <2>1. ASSUME NEW j \in S PROVE n - j \in Nat
    OBVIOUS
  <2>2. PICK j \in S : TRUE
    OBVIOUS
  <2>3. n - j \in T
    OBVIOUS
  <2> QED
    BY <2>1, <2>3
<1>2. PICK m \in T : \A k \in T : m <= k
  <2> HIDE DEF T
  <2> QED
    BY <1>1, Least
<1>3. PICK j \in S : m = n - j
  OBVIOUS
<1>4. ASSUME NEW k \in S PROVE k <= j
  <2>1. n - k \in T
    OBVIOUS
  <2>2. m <= n - k /\ j \in Int /\ k \in Int
    BY <1>2, <2>1
  <2> QED
    BY <1>3, <2>2
<1> QED
  BY <1>4 DEF Largest

\* What read_lines() makes of a read that fits: the lines and the rest are the bytes
\* there were, in order, and there is room again.
LEMMA ReadLinesFacts ==
  \A buffer, data \in Seq(Nat) : \A newlines \in SUBSET Nat : \A size \in Nat \ {0} :
    Len(buffer) + Len(data) <= size =>
      LET s == read_lines(buffer, data, newlines, size)
      IN  /\ s.lines \in Seq(Nat) /\ s.buffer \in Seq(Nat) /\ Len(s.buffer) < size
          /\ s.result # "RL_OVERFLOW" => s.lines \o s.buffer = buffer \o data
<1> SUFFICES ASSUME NEW buffer \in Seq(Nat), NEW data \in Seq(Nat), NEW newlines \in SUBSET Nat,
                    NEW size \in Nat \ {0}, Len(buffer) + Len(data) <= size
             PROVE  LET s == read_lines(buffer, data, newlines, size)
                    IN  /\ s.lines \in Seq(Nat) /\ s.buffer \in Seq(Nat) /\ Len(s.buffer) < size
                        /\ s.result # "RL_OVERFLOW" => s.lines \o s.buffer = buffer \o data
  OBVIOUS
<1> DEFINE s == read_lines(buffer, data, newlines, size)
           all == buffer \o data
           ends == {i \in 1 .. Len(data) : all[i] \in newlines}
           start == Largest(ends \cup {0})
           lines == SubSeq(all, 1, start)
           rest == SubSeq(all, start + 1, Len(all))
<1>1. s = IF Len(rest) = size
          THEN [lines |-> lines, buffer |-> <<>>, result |-> "RL_OVERFLOW"]
          ELSE [lines |-> lines, buffer |-> rest, result |-> "RL_OK"]
  BY DEF read_lines
<1> HIDE DEF s
<1>2. Len(data) \in Nat /\ Len(buffer) \in Nat
  BY LenProperties
<1>3. all \in Seq(Nat) /\ Len(all) = Len(buffer) + Len(data)
  BY ConcatProperties
<1>4. start \in 0 .. Len(data)
  <2>1. ends \cup {0} \subseteq 0 .. Len(data) /\ ends \cup {0} # {}
    BY <1>2
  <2> HIDE DEF ends
  <2> QED
    BY <1>2, <2>1, LargestIn
<1> HIDE DEF all, start
<1>5. start \in 0 .. Len(all) /\ Len(all) \in Nat /\ Len(all) <= size
  BY <1>2, <1>3, <1>4
<1>6. \A i \in 1 .. Len(all) : all[i] \in Nat
  BY <1>3, ElementOfSeq
<1>7. lines \in Seq(Nat)
  <2>1. \A i \in 1 .. start : all[i] \in Nat
    BY <1>5, <1>6
  <2> QED
    BY <1>5, <2>1, SubSeqProperties
<1>8. rest \in Seq(Nat) /\ Len(rest) = IF start + 1 <= Len(all) THEN Len(all) - (start + 1) + 1 ELSE 0
  <2>1. \A i \in start + 1 .. Len(all) : all[i] \in Nat
    BY <1>5, <1>6
  <2> QED
    BY <1>5, <2>1, SubSeqProperties
<1>9. Len(rest) <= size /\ Len(rest) \in Nat
  BY <1>5, <1>8
<1>10. lines \o rest = all
  <2>1. lines \o rest = SubSeq(all, 1, Len(all))
    <3>1. 1 \in 1 .. Len(all) + 1 /\ start \in 1 - 1 .. Len(all) /\ Len(all) \in start .. Len(all)
      BY <1>5
    <3> QED
      BY <1>3, <3>1, ConcatAdjacentSubSeq
  <2> QED
    BY <1>3, <2>1, SubSeqFull
<1> HIDE DEF lines, rest
<1>11. /\ s.lines \in Seq(Nat) /\ s.buffer \in Seq(Nat) /\ Len(s.buffer) < size
       /\ s.result # "RL_OVERFLOW" => s.lines \o s.buffer = buffer \o data
  <2>1. CASE Len(rest) = size
    <3>1. s = [lines |-> lines, buffer |-> <<>>, result |-> "RL_OVERFLOW"]
      BY <1>1, <2>1
    <3>2. s.lines = lines /\ s.buffer = <<>> /\ s.result = "RL_OVERFLOW"
      BY <3>1
    <3> QED
      BY <1>7, <3>2, EmptySeq
  <2>2. CASE Len(rest) # size
    <3>1. s = [lines |-> lines, buffer |-> rest, result |-> "RL_OK"]
      BY <1>1, <2>2
    <3>2. s.lines = lines /\ s.buffer = rest
      BY <3>1
    <3>3. Len(rest) < size
      BY <1>9, <2>2
    <3>4. s.lines \o s.buffer = buffer \o data
      BY <1>10, <3>2 DEF all
    <3> QED
      BY <1>7, <1>8, <3>2, <3>3, <3>4
  <2> QED
    BY <2>1, <2>2
<1> QED
  BY <1>11 DEF s

\* Concatenation of bytes is associative.
LEMMA BytesAssociative == \A a, b, c \in Seq(Nat) : (a \o b) \o c = a \o (b \o c)
  BY ConcatAssociative, SMTT(30)

\* Consecutive bytes follow one another.
LEMMA BytesFollow ==
  ASSUME NEW t \in Nat, NEW m \in Nat
  PROVE  /\ [k \in 1 .. t |-> k] \in Seq(Nat)
         /\ [k \in 1 .. m |-> t + k] \in Seq(Nat) /\ Len([k \in 1 .. m |-> t + k]) = m
         /\ [k \in 1 .. t |-> k] \o [k \in 1 .. m |-> t + k] = [k \in 1 .. t + m |-> k]
<1> DEFINE a == [k \in 1 .. t |-> k]
           b == [k \in 1 .. m |-> t + k]
           c == [k \in 1 .. t + m |-> k]
<1>1. a \in Seq(Nat) /\ Len(a) = t
  BY SeqDef
<1>2. b \in Seq(Nat) /\ Len(b) = m
  BY SeqDef
<1>3. c \in Seq(Nat) /\ Len(c) = t + m
  BY SeqDef
<1>4. /\ a \o b \in Seq(Nat) /\ Len(a \o b) = t + m
      /\ \A i \in 1 .. t + m : (a \o b)[i] = IF i <= t THEN a[i] ELSE b[i - t]
  <2> HIDE DEF a, b
  <2> QED
    BY <1>1, <1>2, ConcatProperties
<1>5. \A i \in 1 .. t + m : (a \o b)[i] = c[i]
  <2> SUFFICES ASSUME NEW i \in 1 .. t + m PROVE (a \o b)[i] = c[i]
    OBVIOUS
  <2>1. i <= t => a[i] = i
    OBVIOUS
  <2>2. ~(i <= t) => b[i - t] = i
    OBVIOUS
  <2>3. c[i] = i
    OBVIOUS
  <2> QED
    BY <1>4, <2>1, <2>2, <2>3
<1> HIDE DEF a, b, c
<1>6. a \o b = c
  BY <1>3, <1>4, <1>5, SeqEqual
<1> QED
  BY <1>1, <1>2, <1>6 DEF a, b, c

-----------------------------------------------------------------------------
(* The inductive invariant *)

Types ==
  /\ stream \in [Streams -> [arrived : Nat, newlines : SUBSET Nat, ended : BOOLEAN]]
  /\ reader \in [Streams -> [taken : Nat, buffer : Seq(Nat), handed : Seq(Nat), cut : BOOLEAN]]
  /\ open \subseteq Streams
  /\ clock \in Nat
  /\ timer \in [armed : BOOLEAN, instant : Instant, since : Nat]

\* The instant of a running timer is the one computed when it was set.
TimerSound == timer.armed => timer.instant = TimeoutInstant(Timespec(timer.since), DELAY_MS)

\* The time select() waits is the one computed from the timer that is still running.
WaitSound ==
  pc = "select" /\ ~wait.forever =>
    /\ timer.armed /\ wait.from \in Nat /\ wait.from <= clock
    /\ wait.tv_sec = SelectTimeout(Timespec(wait.from), timer.instant).tv_sec
    /\ wait.tv_usec = SelectTimeout(Timespec(wait.from), timer.instant).tv_usec

\* Standard input is read until it ends, which ends the process.
StdinOpen == pc # "exit" => STDIN \in open

Inv == Types /\ StdinOpen /\ LinesInOrder /\ BufferHasRoom /\ TimerSound /\ WaitSound

\* What a reader promises: room in the buffer and, unless bytes were discarded, all
\* the bytes in order.
InOrder(r) == ~r.cut => r.handed \o r.buffer = [k \in 1 .. r.taken |-> k]

\* read_lines() on an open stream keeps the bytes in order and leaves room.
LEMMA ReadStreamStep ==
  ASSUME Inv, NEW f \in open, ReadStream(f)
  PROVE  /\ reader' \in [Streams -> [taken : Nat, buffer : Seq(Nat), handed : Seq(Nat), cut : BOOLEAN]]
         /\ InOrder(reader'[f]) /\ Len(reader'[f].buffer) < BUF_SIZE
         /\ \A g \in Streams \ {f} : reader'[g] = reader[g]
<1> USE DEF Inv
<1> DEFINE r == reader[f]
           n == stream[f].arrived - r.taken
           room == BUF_SIZE - Len(r.buffer)
           m == IF n < room THEN n ELSE room
           d == Data(f)
           s == read_lines(r.buffer, d, stream[f].newlines, BUF_SIZE)
           r1 == [taken |-> r.taken + Len(d), buffer |-> s.buffer, handed |-> r.handed \o s.lines,
                  cut |-> r.cut \/ s.result = "RL_OVERFLOW"]
<1>0. f \in Streams /\ BUF_SIZE \in Nat \ {0}
  BY EventLoopAssumption DEF Types
<1>1. /\ r.taken \in Nat /\ r.buffer \in Seq(Nat) /\ r.handed \in Seq(Nat) /\ r.cut \in BOOLEAN
      /\ stream[f].arrived \in Nat /\ Len(r.buffer) \in Nat /\ Len(r.buffer) < BUF_SIZE
  BY <1>0, LenProperties DEF Types, BufferHasRoom
<1>2. d # <<>> /\ reader' = [reader EXCEPT ![f] = r1]
  BY DEF ReadStream
<1>3. d = [k \in 1 .. m |-> r.taken + k]
  BY DEF Data
<1>4. m \in Nat /\ Len(r.buffer) + m <= BUF_SIZE
  <2>1. m \in Int /\ Len(r.buffer) + m <= BUF_SIZE
    BY <1>0, <1>1, SMTT(30)
  <2>2. m < 0 => d = <<>>
    <3> HIDE DEF m, r
    <3> SUFFICES ASSUME m < 0 PROVE d = <<>>
      OBVIOUS
    <3>1. 1 .. m = {}
      BY <2>1
    <3> QED
      BY <1>3, <3>1
  <2> QED
    BY <1>2, <2>1, <2>2
<1> HIDE DEF m, r, d
<1>5. d \in Seq(Nat) /\ Len(d) = m
  BY <1>1, <1>3, <1>4, BytesFollow
<1>6. /\ s.lines \in Seq(Nat) /\ s.buffer \in Seq(Nat) /\ Len(s.buffer) < BUF_SIZE
      /\ s.result # "RL_OVERFLOW" => s.lines \o s.buffer = r.buffer \o d
  <2>1. Len(r.buffer) + Len(d) <= BUF_SIZE
    BY <1>4, <1>5
  <2>2. stream[f].newlines \in SUBSET Nat
    BY <1>0 DEF Types
  <2> QED
    BY <1>0, <1>1, <1>5, <2>1, <2>2, ReadLinesFacts, ZenonT(60)
<1> HIDE DEF s
<1>7. r1 \in [taken : Nat, buffer : Seq(Nat), handed : Seq(Nat), cut : BOOLEAN]
  <2>1. r.handed \o s.lines \in Seq(Nat) /\ r.taken + Len(d) \in Nat
    BY <1>1, <1>4, <1>5, <1>6, ConcatProperties
  <2>2. (r.cut \/ s.result = "RL_OVERFLOW") \in BOOLEAN
    OBVIOUS
  <2> QED
    BY <1>6, <2>1, <2>2
<1>8. InOrder(r1)
  <2> SUFFICES ASSUME ~r1.cut PROVE r1.handed \o r1.buffer = [k \in 1 .. r1.taken |-> k]
    BY DEF InOrder
  <2>1. ~r.cut /\ s.result # "RL_OVERFLOW"
    OBVIOUS
  <2>2. r.handed \o r.buffer = [k \in 1 .. r.taken |-> k]
    BY <2>1 DEF LinesInOrder, r
  <2>3. (r.handed \o s.lines) \o s.buffer = r.handed \o (r.buffer \o d)
    <3>1. (r.handed \o s.lines) \o s.buffer = r.handed \o (s.lines \o s.buffer)
      <4> HIDE DEF r1
      <4> QED
        BY <1>1, <1>6, BytesAssociative
    <3> QED
      BY <1>6, <2>1, <3>1
  <2>4. r.handed \o (r.buffer \o d) = [k \in 1 .. r.taken |-> k] \o d
    <3>1. (r.handed \o r.buffer) \o d = r.handed \o (r.buffer \o d)
      <4> HIDE DEF r1
      <4> QED
        BY <1>1, <1>5, BytesAssociative
    <3> QED
      BY <2>2, <3>1
  <2>5. [k \in 1 .. r.taken |-> k] \o d = [k \in 1 .. r.taken + m |-> k]
    BY <1>1, <1>3, <1>4, BytesFollow
  <2>6. r1.handed \o r1.buffer = (r.handed \o s.lines) \o s.buffer /\ r1.taken = r.taken + m
    BY <1>5
  <2> HIDE DEF r1
  <2> QED
    BY <2>3, <2>4, <2>5, <2>6
<1>9. Len(r1.buffer) < BUF_SIZE
  BY <1>6
<1> HIDE DEF r1
<1> QED
  BY <1>0, <1>2, <1>7, <1>8, <1>9 DEF Types

\* What handling lines does to the timer.
LEMMA TimerStep ==
  ASSUME Inv, clock' = clock, LeaveTimer \/ SetTimer \/ CancelTimer
  PROVE  timer' \in [armed : BOOLEAN, instant : Instant, since : Nat] /\ TimerSound'
<1> USE DEF Inv
<1>1. CASE LeaveTimer
  BY <1>1 DEF LeaveTimer, Types, TimerSound
<1>2. CASE SetTimer
  <2> DEFINE i == TimeoutInstant(Timespec(clock), DELAY_MS)
  <2>1. timer' = [armed |-> TRUE, since |-> clock, instant |-> i] /\ clock \in Nat
    BY <1>2 DEF SetTimer, Types
  <2>2. DELAY_MS \in Nat
    BY EventLoopAssumption
  <2>3. i \in Instant
    BY <2>1, <2>2, InstantFacts
  <2>4. timer'.instant = TimeoutInstant(Timespec(timer'.since), DELAY_MS)
    BY <2>1
  <2> HIDE DEF i
  <2> QED
    BY <2>1, <2>3, <2>4 DEF TimerSound
<1>3. CASE CancelTimer
  <2>1. NoTimer \in [armed : BOOLEAN, instant : Instant, since : Nat] /\ ~NoTimer.armed
    BY TimespecFacts DEF NoTimer, Instant, Timespec
  <2> QED
    BY <1>3, <2>1 DEF CancelTimer, TimerSound
<1> QED
  BY <1>1, <1>2, <1>3

\* The timer that is not running.
LEMMA NoTimerFacts ==
  NoTimer \in [armed : BOOLEAN, instant : Instant, since : Nat] /\ NoTimer.armed = FALSE
  BY TimespecFacts DEF NoTimer, Instant, Timespec

\* Lines are read from an open stream outside of select().
LEMMA ReadStep ==
  ASSUME Inv, NEW f \in open, ReadStream(f), open' = open, pc # "exit", pc' # "select"
  PROVE  Inv'
<1> USE DEF Inv
<1>1. /\ reader' \in [Streams -> [taken : Nat, buffer : Seq(Nat), handed : Seq(Nat), cut : BOOLEAN]]
      /\ InOrder(reader'[f]) /\ Len(reader'[f].buffer) < BUF_SIZE
      /\ \A g \in Streams \ {f} : reader'[g] = reader[g]
  BY ReadStreamStep
<1>2. stream' = stream /\ clock' = clock /\ (LeaveTimer \/ SetTimer \/ CancelTimer)
  BY DEF ReadStream
<1>3. timer' \in [armed : BOOLEAN, instant : Instant, since : Nat] /\ TimerSound'
  BY <1>2, TimerStep
<1>4. Types'
  BY <1>1, <1>2, <1>3 DEF Types
<1>5. LinesInOrder'
  BY <1>1 DEF LinesInOrder, InOrder, Types
<1>6. BufferHasRoom'
  BY <1>1 DEF BufferHasRoom
<1>7. WaitSound' /\ StdinOpen'
  BY DEF WaitSound, StdinOpen
<1> QED
  BY <1>3, <1>4, <1>5, <1>6, <1>7

\* A step that reads nothing and leaves the timer and select() alone.
LEMMA IdleStep ==
  ASSUME Inv, reader' = reader, timer' = timer, clock' = clock, stream' = stream,
         open' = open \/ (open' = {} /\ pc' = "exit"), pc # "exit", pc' # "select"
  PROVE  Inv'
  BY DEF Inv, Types, StdinOpen, LinesInOrder, BufferHasRoom, TimerSound, WaitSound

\* What happens outside of the process does not disturb it.
LEMMA WorldStep == ASSUME Inv, World PROVE Inv'
<1> USE DEF Inv
<1>1. reader' = reader /\ open' = open /\ timer' = timer /\ wait' = wait /\ pc' = pc
  BY DEF World, Request, Tick, Arrive, Finish, process
<1>2. clock' \in Nat /\ clock' >= clock
  <2>1. clock \in Nat
    BY DEF Types
  <2>2. clock' = clock \/ clock' = clock + 1
    BY DEF World, Request, Tick, Arrive, Finish
  <2> QED
    BY <2>1, <2>2
<1> DEFINE Flow == [arrived : Nat, newlines : SUBSET Nat, ended : BOOLEAN]
<1>3. stream' \in [Streams -> Flow]
  <2>0. stream \in [Streams -> Flow]
    BY DEF Types
  <2>1. CASE Request \/ Tick
    BY <2>1 DEF Request, Tick, Types
  <2>2. ASSUME NEW f \in Streams, Arrive(f) PROVE stream' \in [Streams -> Flow]
    <3> DEFINE k == stream[f].arrived + 1
    <3>1. PICK ends \in {{}, {k}} :
            stream' = [stream EXCEPT ![f].arrived = k, ![f].newlines = @ \cup ends]
      BY <2>2 DEF Arrive
    <3>2. k \in Nat /\ ends \subseteq Nat
      BY DEF Types
    <3>3. [stream[f] EXCEPT !.arrived = k, !.newlines = @ \cup ends] \in Flow
      <4> HIDE DEF k
      <4> QED
        BY <2>0, <3>2
    <3>4. stream' = [stream EXCEPT ![f] = [stream[f] EXCEPT !.arrived = k, !.newlines = @ \cup ends]]
      BY <3>1
    <3> HIDE DEF Flow, k
    <3> QED
      BY <2>0, <3>3, <3>4
  <2>3. ASSUME NEW f \in Streams, Finish(f) PROVE stream' \in [Streams -> Flow]
    <3>1. stream' = [stream EXCEPT ![f].ended = TRUE]
      BY <2>3 DEF Finish
    <3>2. [stream[f] EXCEPT !.ended = TRUE] \in Flow
      BY <2>0
    <3> QED
      BY <2>0, <3>1, <3>2
  <2> QED
    BY <2>1, <2>2, <2>3 DEF World
<1>4. Types'
  BY <1>1, <1>2, <1>3 DEF Types
<1>5. StdinOpen' /\ LinesInOrder' /\ BufferHasRoom' /\ TimerSound'
  BY <1>1 DEF StdinOpen, LinesInOrder, BufferHasRoom, TimerSound
<1>6. WaitSound'
  BY <1>1, <1>2 DEF WaitSound, Types
<1> QED
  BY <1>4, <1>5, <1>6

\* The time select() may wait is computed.
LEMMA PrepareStep == ASSUME Inv, Prepare PROVE Inv'
<1> USE DEF Inv
<1> DEFINE t == SelectTimeout(Timespec(clock), timer.instant)
<1>1. /\ wait' = IF timer.armed
                 THEN [tv_sec |-> t.tv_sec, tv_usec |-> t.tv_usec, from |-> clock, forever |-> FALSE]
                 ELSE NoTimeout
      /\ reader' = reader /\ open' = open /\ timer' = timer /\ clock' = clock /\ stream' = stream
      /\ pc = "prepare"
  BY DEF Prepare, world
<1>2. Types' /\ StdinOpen' /\ LinesInOrder' /\ BufferHasRoom' /\ TimerSound'
  BY <1>1 DEF Types, StdinOpen, LinesInOrder, BufferHasRoom, TimerSound
<1>3. WaitSound'
  <2>1. CASE timer.armed
    <3>1. /\ wait'.from = clock /\ wait'.tv_sec = t.tv_sec /\ wait'.tv_usec = t.tv_usec
          /\ clock \in Nat
      <4> HIDE DEF t
      <4> QED
        BY <1>1, <2>1 DEF Types
    <3> QED
      BY <1>1, <2>1, <3>1 DEF WaitSound
  <2>2. CASE ~timer.armed
    <3>1. wait' = NoTimeout /\ NoTimeout.forever = TRUE
      BY <1>1, <2>2 DEF NoTimeout
    <3> QED
      BY <3>1 DEF WaitSound
  <2> QED
    BY <2>1, <2>2
<1> QED
  BY <1>2, <1>3

\* A connection is accepted into a slot whose buffer is emptied.
LEMMA AcceptStep == ASSUME Inv, Accept PROVE Inv'
<1> USE DEF Inv
<1> DEFINE i == Lowest(Free)
<1>1. /\ open' = open \cup {i} /\ stream' = [stream EXCEPT ![i] = NewStream]
      /\ reader' = [reader EXCEPT ![i] = NewReader]
      /\ Free # {} /\ pc = "public" /\ pc' = "connections" /\ timer' = timer /\ clock' = clock
  BY DEF Accept
<1>2. i \in Streams
  <2>1. Free \subseteq Nat /\ Free \subseteq Streams
    BY EventLoopAssumption DEF Free, Streams
  <2> QED
    BY <1>1, <2>1, LowestIn
<1> HIDE DEF i
<1>3. /\ NewReader \in [taken : Nat, buffer : Seq(Nat), handed : Seq(Nat), cut : BOOLEAN]
      /\ NewReader.buffer = <<>> /\ NewReader.handed = <<>> /\ NewReader.taken = 0
  BY EmptySeq DEF NewReader
<1>4. NewStream \in [arrived : Nat, newlines : SUBSET Nat, ended : BOOLEAN]
  BY DEF NewStream
<1>5. Types'
  BY <1>1, <1>2, <1>3, <1>4 DEF Types
<1>6. reader'[i] = NewReader /\ \A f \in Streams \ {i} : reader'[f] = reader[f]
  BY <1>1, <1>2 DEF Types
<1>7. InOrder(NewReader) /\ Len(NewReader.buffer) < BUF_SIZE
  <2>1. <<>> \o <<>> = [k \in 1 .. 0 |-> k]
    OBVIOUS
  <2> QED
    BY <1>3, <2>1, EmptySeq, EventLoopAssumption DEF InOrder
<1>8. LinesInOrder'
  BY <1>1, <1>6, <1>7 DEF LinesInOrder, InOrder, Types
<1>9. BufferHasRoom'
  BY <1>6, <1>7 DEF BufferHasRoom
<1>10. StdinOpen' /\ TimerSound' /\ WaitSound'
  BY <1>1 DEF StdinOpen, TimerSound, WaitSound
<1> QED
  BY <1>5, <1>8, <1>9, <1>10

\* select() returns; the timer may go off, which closes the connections.
LEMMA SelectStep == ASSUME Inv, Select PROVE Inv'
<1> USE DEF Inv
<1>1. /\ timer' \in {timer, NoTimer} /\ open' \in {open, {STDIN}} /\ pc = "select" /\ pc' = "stdin"
      /\ reader' = reader /\ stream' = stream /\ clock' = clock
  BY DEF Select, world
<1>2. STDIN \in open /\ STDIN \in open' /\ open' \subseteq open
  BY <1>1 DEF StdinOpen
<1>3. Types'
  BY <1>1, <1>2, NoTimerFacts DEF Types
<1>4. LinesInOrder' /\ BufferHasRoom'
  BY <1>1, <1>2 DEF LinesInOrder, BufferHasRoom
<1>5. TimerSound'
  BY <1>1, NoTimerFacts DEF TimerSound
<1>6. WaitSound' /\ StdinOpen'
  BY <1>1, <1>2 DEF WaitSound, StdinOpen
<1> QED
  BY <1>3, <1>4, <1>5, <1>6

\* A connection is closed; what is left of its buffer does not matter.
LEMMA CloseStep == ASSUME Inv, NEW i \in Connections, CloseConnection(i) PROVE Inv'
<1> USE DEF Inv
<1>1. PICK b \in {<<>>, reader[i].buffer} : reader' = [reader EXCEPT ![i].buffer = b]
  BY DEF CloseConnection
<1>2. /\ open' = open \ {i} /\ pc = "connections" /\ pc' = pc
      /\ stream' = stream /\ clock' = clock /\ timer' = timer
  BY DEF CloseConnection, AtSlot, world
<1>3. i \in Streams /\ i # STDIN
  BY EventLoopAssumption DEF Streams, STDIN
<1>4. b \in Seq(Nat) /\ Len(b) < BUF_SIZE
  <2>1. reader[i].buffer \in Seq(Nat) /\ Len(reader[i].buffer) < BUF_SIZE
    BY <1>3 DEF Types, BufferHasRoom
  <2>2. <<>> \in Seq(Nat) /\ Len(<<>>) = 0 /\ 0 < BUF_SIZE
    BY EmptySeq, EventLoopAssumption
  <2> QED
    BY <2>1, <2>2
<1>5. reader' = [reader EXCEPT ![i] = [reader[i] EXCEPT !.buffer = b]]
  BY <1>1
<1>6. /\ [reader[i] EXCEPT !.buffer = b] \in
           [taken : Nat, buffer : Seq(Nat), handed : Seq(Nat), cut : BOOLEAN]
      /\ [reader[i] EXCEPT !.buffer = b].buffer = b
  BY <1>3, <1>4 DEF Types
<1> DEFINE r1 == [reader[i] EXCEPT !.buffer = b]
<1> HIDE DEF r1
<1>7. /\ reader'[i].buffer = b /\ \A f \in Streams \ {i} : reader'[f] = reader[f]
      /\ reader' \in [Streams -> [taken : Nat, buffer : Seq(Nat), handed : Seq(Nat), cut : BOOLEAN]]
  BY <1>3, <1>5, <1>6 DEF Types, r1
<1>8. Types'
  BY <1>2, <1>7 DEF Types
<1>9. LinesInOrder'
  BY <1>2, <1>7 DEF LinesInOrder, Types
<1>10. BufferHasRoom'
  BY <1>4, <1>7 DEF BufferHasRoom
<1>11. StdinOpen' /\ TimerSound' /\ WaitSound'
  BY <1>2, <1>3 DEF StdinOpen, TimerSound, WaitSound
<1> QED
  BY <1>8, <1>9, <1>10, <1>11

\* The invariant holds from the start and every step keeps it.
LEMMA InvHolds == Spec => []Inv
<1>1. Init => Inv
  <2> SUFFICES ASSUME Init PROVE Inv
    OBVIOUS
  <2>1. /\ stream = [f \in Streams |-> NewStream] /\ reader = [f \in Streams |-> NewReader]
        /\ open = {STDIN} /\ clock = 0 /\ timer = NoTimer /\ pc = "prepare"
    BY DEF Init
  <2>2. /\ NewReader \in [taken : Nat, buffer : Seq(Nat), handed : Seq(Nat), cut : BOOLEAN]
        /\ NewReader.buffer = <<>> /\ NewReader.handed = <<>> /\ NewReader.taken = 0
    BY EmptySeq DEF NewReader
  <2>3. NewStream \in [arrived : Nat, newlines : SUBSET Nat, ended : BOOLEAN]
    BY DEF NewStream
  <2>4. STDIN \in Streams
    BY DEF Streams
  <2>5. Types
    BY <2>1, <2>2, <2>3, <2>4, NoTimerFacts DEF Types
  <2>6. LinesInOrder
    <3>1. <<>> \o <<>> = [k \in 1 .. 0 |-> k]
      OBVIOUS
    <3>2. \A f \in open : reader[f] = NewReader
      BY <2>1, <2>4
    <3> QED
      BY <2>2, <3>1, <3>2 DEF LinesInOrder
  <2>7. BufferHasRoom
    BY <2>1, <2>2, EmptySeq, EventLoopAssumption DEF BufferHasRoom
  <2>8. StdinOpen /\ TimerSound /\ WaitSound
    BY <2>1, NoTimerFacts DEF StdinOpen, TimerSound, WaitSound
  <2> QED
    BY <2>5, <2>6, <2>7, <2>8 DEF Inv
<1>2. Inv /\ [Next]_vars => Inv'
  <2> SUFFICES ASSUME Inv, [Next]_vars PROVE Inv'
    OBVIOUS
  <2>1. CASE World
    BY <2>1, WorldStep
  <2>2. CASE Prepare
    BY <2>2, PrepareStep
  <2>3. CASE Select
    BY <2>3, SelectStep
  <2>4. CASE NoStdin \/ EndStdin \/ NoRequest \/ Refuse \/ EndRound
    BY <2>4, IdleStep DEF NoStdin, EndStdin, NoRequest, Refuse, EndRound, world
  <2>5. CASE ReadStdin
    <3>1. pc = "stdin" /\ pc' = "public" /\ ReadStream(STDIN) /\ open' = open
      BY <2>5 DEF ReadStdin
    <3>2. STDIN \in open
      BY <3>1 DEF Inv, StdinOpen
    <3> QED
      BY <3>1, <3>2, ReadStep
  <2>6. CASE Accept
    BY <2>6, AcceptStep
  <2>7. ASSUME NEW i \in Connections, ReadConnection(i) PROVE Inv'
    <3>1. /\ pc = "connections" /\ pc' = pc /\ ReadStream(i) /\ open' = open
          /\ i \in open
      BY <2>7 DEF ReadConnection, AtSlot
    <3> QED
      BY <3>1, ReadStep
  <2>8. ASSUME NEW i \in Connections, CloseConnection(i) PROVE Inv'
    BY <2>8, CloseStep
  <2>9. ASSUME NEW i \in Connections, PassOver(i) PROVE Inv'
    BY <2>9, IdleStep DEF PassOver, AtSlot, world
  <2>10. CASE UNCHANGED vars
    BY <2>10 DEF vars, Inv, Types, StdinOpen, LinesInOrder, BufferHasRoom, TimerSound, WaitSound
  <2> QED
    BY <2>1, <2>2, <2>3, <2>4, <2>5, <2>6, <2>7, <2>8, <2>9, <2>10 DEF Next, Loop
<1> QED
  BY <1>1, <1>2, PTL DEF Spec

-----------------------------------------------------------------------------
(* The theorems *)

\* The handler is given the bytes of a stream in order, each once, however they are
\* cut into reads and whichever connection had the slot before (read_lines,
\* add_connection).
THEOREM ReaderCorrect == Spec => []LinesInOrder
<1>1. Inv => LinesInOrder
  BY DEF Inv
<1> QED
  BY <1>1, InvHolds, PTL

\* A buffer is never left full: there is always room for the next read() (read_lines).
THEOREM RoomCorrect == Spec => []BufferHasRoom
<1>1. Inv => BufferHasRoom
  BY DEF Inv
<1> QED
  BY <1>1, InvHolds, PTL

\* The time handed to select() is never negative (main.c).
THEOREM WaitCorrect == Spec => []WaitValid
<1>1. Inv => WaitValid
  <2> SUFFICES ASSUME Inv, pc = "select", ~wait.forever PROVE wait.tv_sec >= 0 /\ wait.tv_usec >= 0
    BY DEF WaitValid
  <2> DEFINE t == SelectTimeout(Timespec(wait.from), timer.instant)
  <2>1. wait.from \in Nat /\ wait.tv_sec = t.tv_sec /\ wait.tv_usec = t.tv_usec
    BY DEF Inv, WaitSound
  <2>2. timer.instant \in Instant
    BY DEF Inv, Types
  <2>3. t.tv_sec \in Nat /\ t.tv_usec \in Nat
    BY <2>1, <2>2, SelectTimeoutFacts
  <2> QED
    BY <2>1, <2>3
<1> QED
  BY <1>1, InvHolds, PTL

\* The timer does not go off before the delay has passed, whatever the delay and
\* wherever in the second it was set (set_timeout and main.c).
THEOREM TimerNotEarly == Spec => NotEarly
<1> DEFINE Early == pc = "select" /\ timer.armed /\ ~timer'.armed =>
                      clock >= timer.since + DELAY_MS * NS_PER_MS
<1>1. Inv /\ [Next]_vars => [Early]_vars
  <2> SUFFICES ASSUME Inv, Next, pc = "select", timer.armed, ~timer'.armed
               PROVE  clock >= timer.since + DELAY_MS * NS_PER_MS
    OBVIOUS
  <2>1. Select
    BY DEF Next, Loop, World, Prepare, NoStdin, ReadStdin, EndStdin, NoRequest, Accept, Refuse,
           ReadConnection, CloseConnection, PassOver, AtSlot, EndRound,
           Request, Tick, Arrive, Finish, process
  <2>2. Due
    BY <2>1 DEF Select
  <2>3. /\ clock \in Nat /\ timer.since \in Nat /\ DELAY_MS \in Nat
        /\ timer.instant = TimeoutInstant(Timespec(timer.since), DELAY_MS)
    BY EventLoopAssumption DEF Inv, Types, TimerSound
  <2>4. Later(Timespec(clock), TimeoutInstant(Timespec(timer.since), DELAY_MS))
    BY <2>2, <2>3 DEF Due
  <2> QED
    BY <2>3, <2>4, InstantFacts
<1>2. NotEarly <=> [][Early]_vars
  BY DEF NotEarly
<1> QED
  BY <1>1, <1>2, InvHolds, PTL DEF Spec

\* When select() returns for want of input the timer goes off: the rounding of the
\* waiting time never makes the loop spin (main.c).
THEOREM NeverSpins == Spec => NoIdleRound
<1> DEFINE Idle == pc = "select" /\ pc' = "stdin" /\ readable' = {} => timer.armed /\ ~timer'.armed
<1>1. Inv /\ [Next]_vars => [Idle]_vars
  <2> SUFFICES ASSUME Inv, Next, pc = "select", pc' = "stdin", readable' = {}
               PROVE  timer.armed /\ ~timer'.armed
    OBVIOUS
  <2>1. Select
    BY DEF Next, Loop, World, Prepare, NoStdin, ReadStdin, EndStdin, NoRequest, Accept, Refuse,
           ReadConnection, CloseConnection, PassOver, AtSlot, EndRound,
           Request, Tick, Arrive, Finish, process
  <2>2. ~wait.forever /\ clock >= wait.from + WaitingTime(wait)
    BY <2>1 DEF Select, WaitOver
  <2> DEFINE t == SelectTimeout(Timespec(wait.from), timer.instant)
  <2>3. /\ timer.armed /\ wait.from \in Nat /\ clock \in Nat /\ timer.instant \in Instant
        /\ wait.tv_sec = t.tv_sec /\ wait.tv_usec = t.tv_usec
    BY <2>2 DEF Inv, Types, WaitSound
  <2>4. WaitingTime(wait) = WaitingTime(t)
    BY <2>3 DEF WaitingTime
  <2>5. Later(Timespec(clock), timer.instant)
    BY <2>2, <2>3, <2>4, SelectTimeoutFacts
  <2>6. timer' = NoTimer
    BY <2>1, <2>3, <2>5 DEF Select, Due
  <2> QED
    BY <2>3, <2>6, NoTimerFacts
<1>2. NoIdleRound <=> [][Idle]_vars
  BY DEF NoIdleRound
<1> QED
  BY <1>1, <1>2, InvHolds, PTL DEF Spec

=============================================================================
