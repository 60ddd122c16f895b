---------------------------- MODULE MatchProofs ----------------------------
(***************************************************************************)
(* Theorems about Match for every duration of a turn, every set of times   *)
(* and every set of players: what a turn pays, and what the board says     *)
(* before a game, after it and about who only watches.  Each step of a     *)
(* match is one of the room, whose books (BooksInv of GameRoomProofs) are  *)
(* those the scores are computed from.                                     *)
(***************************************************************************)
EXTENDS Match, GameRoomProofs
-----------------------------------------------------------------------------
(* Rounded division and the scores.                                        *)

\* Multiplication by a natural number keeps the order.
LEMMA TimesMonotone ==
    ASSUME NEW d \in Nat, NEW x \in Int, NEW y \in Int, x <= y
    PROVE  x * d <= y * d /\ d * x <= d * y /\ x * d \in Int /\ y * d \in Int
OBVIOUS

\* A product of natural numbers is one.
LEMMA TimesNat ==
    ASSUME NEW x \in Nat, NEW y \in Nat
    PROVE  x * y \in Nat
OBVIOUS

\* Division with remainder.
LEMMA DivMod ==
    ASSUME NEW n \in Nat, NEW d \in Nat \ {0}
    PROVE  /\ n \div d \in Nat /\ n % d \in 0..(d - 1)
           /\ n = d * (n \div d) + (n % d)
<1>1. n \div d \in Int /\ n % d \in 0..(d - 1) /\ n = d * (n \div d) + (n % d) OBVIOUS
<1>2. n \div d >= 0
  <2> DEFINE q == n \div d
  <2> SUFFICES ASSUME q <= -1 PROVE FALSE BY <1>1
  <2>1. d * q <= d * (-1) BY <1>1, TimesMonotone
  <2>2. d * (-1) = -d OBVIOUS
  <2> HIDE DEF q
  <2>3. QED BY <1>1, <2>1, <2>2 DEF q
<1>3. QED BY <1>1, <1>2

\* A quotient is smaller than another one only if what is divided is.
LEMMA QuotientOrder ==
    ASSUME NEW d \in Nat \ {0}, NEW q \in Nat, NEW r \in 0..(d - 1), NEW k \in Nat, NEW s \in 0..(d - 1),
           d * q + r <= d * k + s
    PROVE  q <= k
<1> SUFFICES ASSUME k + 1 <= q PROVE FALSE OBVIOUS
<1>1. d * (k + 1) <= d * q BY TimesMonotone
<1>2. d * (k + 1) = d * k + d OBVIOUS
<1>3. d * k \in Nat /\ d * q \in Nat BY TimesNat
<1>4. QED BY <1>1, <1>2, <1>3

\* round(n / d): the quotient or the next number, a whole number staying as it is.
LEMMA RoundIs ==
    ASSUME NEW n \in Nat, NEW d \in Nat \ {0}
    PROVE  /\ Round(n, d) \in Nat
           /\ n \div d <= Round(n, d) /\ Round(n, d) <= n \div d + 1
           /\ n % d = 0 => Round(n, d) = n \div d
<1>1. n \div d \in Nat /\ n % d \in 0..(d - 1) BY DivMod
<1>2. QED BY <1>1 DEF Round

\* Rounding keeps the order.
LEMMA RoundMonotone ==
    ASSUME NEW d \in Nat \ {0}, NEW m \in Nat, NEW n \in Nat, m <= n
    PROVE  Round(m, d) <= Round(n, d)
<1> DEFINE q == m \div d
           r == m % d
           k == n \div d
           s == n % d
<1>1. q \in Nat /\ r \in 0..(d - 1) /\ m = d * q + r BY DivMod
<1>2. k \in Nat /\ s \in 0..(d - 1) /\ n = d * k + s BY DivMod
<1>3. Round(m, d) = IF 2 * r < d \/ (2 * r = d /\ q % 2 = 0) THEN q ELSE q + 1 BY DEF Round
<1>4. Round(n, d) = IF 2 * s < d \/ (2 * s = d /\ k % 2 = 0) THEN k ELSE k + 1 BY DEF Round
<1> HIDE DEF q, r, k, s
<1>5. q <= k BY <1>1, <1>2, QuotientOrder
<1>6. CASE q = k
  <2>1. d * q \in Nat BY <1>1, TimesNat
  <2>2. r <= s BY <1>1, <1>2, <1>6, <2>1
  <2>3. QED BY <1>1, <1>2, <1>3, <1>4, <1>6, <2>2
<1>7. CASE q < k
  <2>1. Round(m, d) <= q + 1 /\ k <= Round(n, d) BY <1>1, <1>2, <1>3, <1>4
  <2>2. Round(m, d) \in Int /\ Round(n, d) \in Int BY RoundIs
  <2>3. QED BY <1>1, <1>2, <1>7, <2>1, <2>2
<1>8. QED BY <1>1, <1>2, <1>5, <1>6, <1>7

\* A rounded average lies between the bounds of what it is the average of.
LEMMA RoundBetween ==
    ASSUME NEW n \in Nat, NEW d \in Nat \ {0}, NEW lo \in Nat, NEW hi \in Nat,
           d * lo <= n, n <= d * hi
    PROVE  lo <= Round(n, d) /\ Round(n, d) <= hi
<1>1. (d * lo) % d = 0 /\ (d * lo) \div d = lo /\ (d * hi) % d = 0 /\ (d * hi) \div d = hi
  <2>1. ASSUME NEW x \in Nat PROVE (d * x) % d = 0 /\ (d * x) \div d = x
    <3> DEFINE q == (d * x) \div d
               r == (d * x) % d
    <3>1. d * x \in Nat BY TimesNat
    <3>2. q \in Nat /\ r \in 0..(d - 1) /\ d * x = d * q + r BY <3>1, DivMod
    <3> HIDE DEF q, r
    <3>3. d * x + 0 = d * q + r /\ 0 \in 0..(d - 1) BY <3>1, <3>2
    <3>4. d * q \in Nat BY <3>2, TimesNat
    <3>5. q <= x
      <4>1. d * q + r <= d * x + 0 BY <3>1, <3>2, <3>3, <3>4
      <4>2. QED BY <3>2, <3>3, <4>1, QuotientOrder
    <3>6. x <= q
      <4>1. d * x + 0 <= d * q + r BY <3>1, <3>2, <3>3, <3>4
      <4>2. QED BY <3>2, <3>3, <4>1, QuotientOrder
    <3>7. q = x BY <3>2, <3>5, <3>6
    <3>8. r = 0 BY <3>1, <3>2, <3>7
    <3>9. QED BY <3>7, <3>8 DEF q, r
  <2>2. QED BY <2>1
<1>2. d * lo \in Nat /\ d * hi \in Nat BY TimesNat
<1>3. Round(d * lo, d) = lo /\ Round(d * hi, d) = hi BY <1>1, <1>2, RoundIs
<1>4. Round(d * lo, d) <= Round(n, d) /\ Round(n, d) <= Round(d * hi, d) BY <1>2, RoundMonotone
<1>5. QED BY <1>3, <1>4

\* The larger one of two numbers.
LEMMA MaxOfTwo ==
    ASSUME NEW x \in Int, NEW y \in Int
    PROVE  Max({x, y}) = IF x >= y THEN x ELSE y
<1> DEFINE m == IF x >= y THEN x ELSE y
<1>1. m \in {x, y} /\ \A z \in {x, y} : m >= z OBVIOUS
<1>2. \A z \in {x, y} : (\A w \in {x, y} : z >= w) => z = m OBVIOUS
<1>3. QED BY <1>1, <1>2 DEF Max

\* The base score of a guess that comes within the turn.
LEMMA BaseScoreIs ==
    ASSUME NEW e \in 0..Duration, NEW f \in 0..Duration, e <= f
    PROVE  /\ BaseScore(e) \in Nat /\ BaseScore(f) \in Nat
           /\ 50 <= BaseScore(f) /\ BaseScore(f) <= BaseScore(e)
<1> DEFINE D == Duration * Duration
           n(x) == 500 * (Duration - x) * (Duration - x)
<1>1. Duration \in Nat \ {0} BY MatchAssumption
<1>2. D \in Nat \ {0}
  <2>1. 1 * Duration <= Duration * Duration BY <1>1, TimesMonotone
  <2>2. D \in Nat BY <1>1, TimesNat
  <2>3. QED BY <1>1, <2>1, <2>2
<1>3. n(e) \in Nat /\ n(f) \in Nat /\ n(f) <= n(e)
  <2> DEFINE x == Duration - e
             y == Duration - f
  <2>1. x \in Nat /\ y \in Nat /\ y <= x BY <1>1
  <2> HIDE DEF x, y
  <2>2. y * y <= x * y /\ x * y <= x * x BY <2>1, TimesMonotone
  <2>3. y * y \in Nat /\ x * x \in Nat /\ x * y \in Nat BY <2>1, TimesNat
  <2>4. 500 * (y * y) <= 500 * (x * x) BY <2>2, <2>3
  <2>5. 500 * y * y = 500 * (y * y) /\ 500 * x * x = 500 * (x * x) BY <2>1
  <2>6. n(e) = 500 * x * x /\ n(f) = 500 * y * y BY DEF x, y
  <2>7. QED BY <2>3, <2>4, <2>5, <2>6
<1>4. BaseScore(e) = Max({50, Round(n(e), D)}) /\ BaseScore(f) = Max({50, Round(n(f), D)})
  BY DEF BaseScore
<1> HIDE DEF n, D
<1>5. Round(n(e), D) \in Nat /\ Round(n(f), D) \in Nat /\ Round(n(f), D) <= Round(n(e), D)
  BY <1>2, <1>3, RoundIs, RoundMonotone
<1>6. QED BY <1>4, <1>5, MaxOfTwo

\* The multiplier falls with the position.
LEMMA MultiplierIs ==
    ASSUME NEW i \in Nat \ {0}, NEW j \in Nat \ {0}, i <= j
    PROVE  /\ Multiplier(i) \in Nat /\ Multiplier(j) \in Nat
           /\ 9 <= Multiplier(j) /\ Multiplier(j) <= Multiplier(i)
BY DEF Multiplier

\* Who guesses earlier, in time and in order, scores at least as much, and every
\* guess scores something.
LEMMA GuesserScoreIs ==
    ASSUME NEW e \in 0..Duration, NEW f \in 0..Duration, e <= f,
           NEW i \in Nat \ {0}, NEW j \in Nat \ {0}, i <= j
    PROVE  /\ GuesserScore(e, i) \in Nat /\ GuesserScore(f, j) \in Nat
           /\ 0 < GuesserScore(f, j) /\ GuesserScore(f, j) <= GuesserScore(e, i)
<1> DEFINE x == BaseScore(e)
           y == BaseScore(f)
           m == Multiplier(i)
           k == Multiplier(j)
<1>1. x \in Nat /\ y \in Nat /\ 50 <= y /\ y <= x BY BaseScoreIs
<1>2. m \in Nat /\ k \in Nat /\ 9 <= k /\ k <= m BY MultiplierIs
<1>3. GuesserScore(e, i) = Round(x * m, 10) /\ GuesserScore(f, j) = Round(y * k, 10) BY DEF GuesserScore
<1> HIDE DEF x, y, m, k
<1>4. y * k <= x * k /\ x * k <= x * m /\ 50 * k <= y * k BY <1>1, <1>2, TimesMonotone
<1>5. y * k \in Nat /\ x * k \in Nat /\ x * m \in Nat BY <1>1, <1>2, TimesNat
<1>6. y * k <= x * m /\ 450 <= y * k BY <1>2, <1>4, <1>5
<1>7. Round(y * k, 10) <= Round(x * m, 10) /\ Round(450, 10) <= Round(y * k, 10)
  BY <1>5, <1>6, RoundMonotone
<1>8. Round(450, 10) = 45
  <2>1. 450 \div 10 = 45 /\ 450 % 10 = 0 OBVIOUS
  <2>2. QED BY <2>1, RoundIs
<1>9. Round(x * m, 10) \in Nat /\ Round(y * k, 10) \in Nat BY <1>5, RoundIs
<1>10. QED BY <1>3, <1>7, <1>8, <1>9
-----------------------------------------------------------------------------
\* Induction up to a bound, over a set.
LEMMA CountUp ==
    ASSUME NEW N \in Nat, NEW S, 0 \in S, \A n \in 0..N : n # N /\ n \in S => n + 1 \in S
    PROVE  N \in S
<1> DEFINE T == {n \in 0..N : n \notin S}
<1> SUFFICES ASSUME T # {} PROVE FALSE OBVIOUS
<1>1. T \in SUBSET Nat OBVIOUS
<1>2. PICK x \in T : \A y \in T : x <= y BY <1>1, LeastNat
<1>3. x \in 0..N /\ x \notin S /\ x # 0 OBVIOUS
<1>4. x - 1 \in 0..N /\ x - 1 # N /\ x - 1 \notin T BY <1>2, <1>3
<1>5. (x - 1) + 1 = x BY <1>3
<1>6. QED BY <1>3, <1>4, <1>5

\* The next number below a bound.
LEMMA NextUp ==
    ASSUME NEW N \in Nat, NEW n \in 0..N, n # N
    PROVE  n + 1 \in 1..N /\ n + 1 \in 0..N /\ (n + 1) - 1 = n
OBVIOUS

\* What position n adds to what the positions before it have collected.
Adding(sum, n, order, at, members) ==
    IF order[n] \in members THEN sum + GuesserScore(at[n], n) ELSE sum

\* The loop of end_turn: there is a sum after each position.
LEMMA CollectedIs ==
    ASSUME NEW order, NEW at, NEW members, Len(order) \in Nat
    PROVE  \E f : /\ f[0] = 0 /\ \A n \in 1..Len(order) : f[n] = Adding(f[n - 1], n, order, at, members)
                  /\ Collected(order, at, members) = f[Len(order)]
<1> DEFINE N == Len(order)
           Add(x, n) == Adding(x, n, order, at, members)
           Chain(f, k) == f[0] = 0 /\ \A n \in 1..k : f[n] = Add(f[n - 1], n)
           S == {k \in 0..N : \E f : Chain(f, k)}
<1>0. N \in Nat OBVIOUS
<1>1. 0 \in S
  <2>1. Chain([i \in {0} |-> 0], 0) OBVIOUS
  <2> HIDE DEF Chain
  <2>2. \E f : Chain(f, 0) BY <2>1
  <2>3. QED BY <1>0, <2>2
<1>2. ASSUME NEW k \in 0..N, k # N, k \in S PROVE k + 1 \in S
  <2>1. PICK f : Chain(f, k) BY <1>2
  <2> DEFINE g == [i \in 0..(k + 1) |-> IF i = k + 1 THEN Add(f[k], k + 1) ELSE f[i]]
  <2>2. \A n \in 1..(k + 1) : g[n] = Add(g[n - 1], n)
    <3> SUFFICES ASSUME NEW n \in 1..(k + 1) PROVE g[n] = Add(g[n - 1], n) OBVIOUS
    <3>1. CASE n = k + 1
      <4>1. n - 1 = k /\ g[n - 1] = f[k] BY <3>1
      <4>2. QED BY <3>1, <4>1
    <3>2. CASE n # k + 1
      <4>1. n \in 1..k /\ g[n] = f[n] /\ g[n - 1] = f[n - 1] BY <3>2
      <4>2. QED BY <4>1, <2>1
    <3>3. QED BY <3>1, <3>2
  <2>3. g[0] = 0 BY <2>1
  <2>4. Chain(g, k + 1) BY <2>2, <2>3
  <2> HIDE DEF Chain, g
  <2>5. \E h : Chain(h, k + 1) BY <2>4
  <2>6. k + 1 \in 0..N BY <1>2
  <2>7. QED BY <2>5, <2>6
<1>3. PICK f : Chain(f, N)
  <2>1. \A k \in 0..N : k # N /\ k \in S => k + 1 \in S BY <1>2
  <2> HIDE DEF S, N
  <2>2. N \in S BY <1>0, <1>1, <2>1, CountUp
  <2>3. QED BY <2>2 DEF S
<1> DEFINE Body(h) == [n \in 0..N |-> IF n = 0 THEN 0 ELSE Add(h[n - 1], n)]
           g == [n \in 0..N |-> f[n]]
           sum == CHOOSE h : h = Body(h)
<1>5. g = Body(g)
  <2> SUFFICES ASSUME NEW n \in 0..N PROVE g[n] = IF n = 0 THEN 0 ELSE Add(g[n - 1], n) OBVIOUS
  <2>1. CASE n = 0 BY <2>1, <1>3
  <2>2. CASE n # 0
    <3>1. n \in 1..N /\ n - 1 \in 0..N BY <2>2
    <3>2. QED BY <3>1, <1>3
  <2>3. QED BY <2>1, <2>2
<1>6. sum = Body(sum) BY <1>5
<1>7. Collected(order, at, members) = sum[N] BY DEF Collected, Adding
<1> HIDE DEF sum
<1>8. sum[0] = 0 /\ \A n \in 1..N : sum[n] = Add(sum[n - 1], n) BY <1>6
<1>9. QED BY <1>7, <1>8

\* Guesses of the turn: each has its time.
Timed(order, at) == order \in Seq(Players) /\ at \in Seq(Times) /\ Len(at) = Len(order)

\* Each guess that is paid scores between lo and hi.
Ranging(order, at, members, lo, hi) ==
    \A i \in Paid(order, members) : lo <= GuesserScore(at[i], i) /\ GuesserScore(at[i], i) <= hi

\* The time of a guess and its score.
LEMMA TimedIs ==
    ASSUME NEW order, NEW at, Timed(order, at), NEW i \in DOMAIN order
    PROVE  /\ i \in Nat \ {0} /\ i \in DOMAIN at /\ order[i] \in Players /\ at[i] \in 0..Duration
           /\ GuesserScore(at[i], i) \in Nat /\ 0 < GuesserScore(at[i], i)
<1>1. i \in Nat \ {0} /\ i \in DOMAIN at /\ order[i] \in Players /\ at[i] \in Times BY DEF Timed
<1>2. at[i] \in 0..Duration BY <1>1, MatchAssumption
<1>3. at[i] <= at[i] /\ i <= i BY <1>1, <1>2
<1>4. QED BY <1>1, <1>2, <1>3, GuesserScoreIs

\* What is collected lies between what so many of the lowest and of the highest
\* score would make.
LEMMA CollectedBetween ==
    ASSUME NEW order, NEW at, Timed(order, at), NEW members, NEW lo \in Nat, NEW hi \in Nat,
           Ranging(order, at, members, lo, hi), NEW k, k = Cardinality(Paid(order, members))
    PROVE  /\ k \in Nat /\ IsFiniteSet(Paid(order, members))
           /\ Collected(order, at, members) \in Nat
           /\ k * lo <= Collected(order, at, members) /\ Collected(order, at, members) <= k * hi
<1> DEFINE N == Len(order)
           P == Paid(order, members)
           C(n) == {i \in P : i <= n}
           c(n) == Cardinality(C(n))
<1>1. N \in Nat /\ DOMAIN order = 1..N BY DEF Timed
<1>2. PICK f : /\ f[0] = 0 /\ \A n \in 1..N : f[n] = Adding(f[n - 1], n, order, at, members)
               /\ Collected(order, at, members) = f[N]
  BY <1>1, CollectedIs
<1> DEFINE Good(n) == /\ IsFiniteSet(C(n)) /\ c(n) \in Nat /\ f[n] \in Nat
                      /\ c(n) * lo <= f[n] /\ f[n] <= c(n) * hi
           S == {n \in 0..N : Good(n)}
<1>3. P \subseteq 1..N BY <1>1 DEF Paid
<1>4. Good(0)
  <2>1. C(0) = {} BY <1>3
  <2>2. IsFiniteSet(C(0)) /\ c(0) = 0 BY <2>1, FS_EmptySet
  <2>3. QED BY <1>2, <2>2
<1>5. ASSUME NEW n \in 0..N, n # N, Good(n) PROVE Good(n + 1)
  <2>1. n + 1 \in 1..N /\ (n + 1) - 1 = n BY <1>1, <1>5, NextUp
  <2>2. f[n + 1] = Adding(f[n], n + 1, order, at, members) BY <1>2, <2>1
  <2>3. CASE n + 1 \in P
    <3> DEFINE x == GuesserScore(at[n + 1], n + 1)
    <3>1. C(n + 1) = C(n) \cup {n + 1} /\ n + 1 \notin C(n) BY <1>3, <2>3
    <3>2. IsFiniteSet(C(n + 1)) /\ c(n + 1) = c(n) + 1
      <4>1. IsFiniteSet(C(n)) BY <1>5
      <4> HIDE DEF C
      <4>2. IsFiniteSet(C(n) \cup {n + 1}) /\ Cardinality(C(n) \cup {n + 1}) = Cardinality(C(n)) + 1
        BY <3>1, <4>1, FS_AddElement
      <4>3. QED BY <3>1, <4>2
    <3>3. f[n + 1] = f[n] + x BY <2>2, <2>3 DEF Paid, Adding
    <3>4. x \in Nat /\ lo <= x /\ x <= hi BY <1>1, <2>1, <2>3, TimedIs DEF Ranging
    <3> HIDE DEF x, C, c
    <3>5. (c(n) + 1) * lo = c(n) * lo + lo /\ (c(n) + 1) * hi = c(n) * hi + hi BY <1>5
    <3>6. c(n) * lo \in Nat /\ c(n) * hi \in Nat BY <1>5, TimesNat
    <3>7. c(n) + 1 \in Nat BY <1>5
    <3>8. f[n] \in Nat /\ c(n) * lo <= f[n] /\ f[n] <= c(n) * hi BY <1>5
    <3>9. f[n + 1] \in Nat /\ (c(n) + 1) * lo <= f[n + 1] /\ f[n + 1] <= (c(n) + 1) * hi
      BY <3>3, <3>4, <3>5, <3>6, <3>8
    <3>10. QED BY <3>2, <3>7, <3>9
  <2>4. CASE n + 1 \notin P
    <3>1. C(n + 1) = C(n)
      <4>1. \A i \in P : i <= n + 1 <=> i <= n BY <1>3, <2>4
      <4>2. QED BY <4>1
    <3>2. f[n + 1] = f[n] BY <1>1, <2>1, <2>2, <2>4 DEF Paid, Adding
    <3>3. QED BY <1>5, <3>1, <3>2
  <2>5. QED BY <2>3, <2>4
<1>6. N \in S
  <2>1. 0 \in S BY <1>1, <1>4
  <2>2. \A n \in 0..N : n # N /\ n \in S => n + 1 \in S
    <3> SUFFICES ASSUME NEW n \in 0..N, n # N, n \in S PROVE n + 1 \in S OBVIOUS
    <3>1. Good(n) OBVIOUS
    <3> HIDE DEF Good
    <3>2. Good(n + 1) BY <1>5, <3>1
    <3>3. n + 1 \in 0..N BY <1>1, NextUp
    <3>4. QED BY <3>2, <3>3
  <2> HIDE DEF S, N
  <2>3. QED BY <1>1, <2>1, <2>2, CountUp
<1>7. C(N) = P
  <2>1. \A i \in P : i <= N BY <1>1, <1>3
  <2>2. QED BY <2>1
<1>8. Good(N) BY <1>6
<1>9. QED BY <1>2, <1>7, <1>8
-----------------------------------------------------------------------------
(* What a turn and a game write on the board.                              *)

\* Every guess scores between nothing and the best first guess.
LEMMA RangingAll ==
    ASSUME NEW order, NEW at, Timed(order, at), NEW members
    PROVE  GuesserScore(0, 1) \in Nat /\ Ranging(order, at, members, 0, GuesserScore(0, 1))
<1>1. 0 \in 0..Duration /\ 1 \in Nat \ {0} BY MatchAssumption
<1>2. GuesserScore(0, 1) \in Nat
  <2>1. 0 <= 0 /\ 1 <= 1 OBVIOUS
  <2>2. QED BY <1>1, <2>1, GuesserScoreIs
<1>3. ASSUME NEW i \in Paid(order, members)
      PROVE  0 <= GuesserScore(at[i], i) /\ GuesserScore(at[i], i) <= GuesserScore(0, 1)
  <2>1. /\ i \in Nat \ {0} /\ at[i] \in 0..Duration /\ GuesserScore(at[i], i) \in Nat
    BY <1>3, TimedIs DEF Paid
  <2>2. 0 <= at[i] /\ 1 <= i BY <2>1
  <2>3. QED BY <1>1, <2>1, <2>2, GuesserScoreIs
<1>4. QED BY <1>2, <1>3 DEF Ranging

\* The drawer's bonus lies between the lowest and the highest score of the
\* guessers who are paid, and is nothing if there are none.
LEMMA BonusIs ==
    ASSUME NEW order, NEW at, Timed(order, at), NEW members, NEW lo \in Nat, NEW hi \in Nat,
           Ranging(order, at, members, lo, hi),
           NEW bonus, bonus = DrawerBonus(Collected(order, at, members), Cardinality(Paid(order, members)))
    PROVE  /\ bonus \in Nat
           /\ Paid(order, members) = {} => bonus = 0
           /\ Paid(order, members) # {} => lo <= bonus /\ bonus <= hi
<1> DEFINE P == Paid(order, members)
           k == Cardinality(P)
           n == Collected(order, at, members)
<1>1. k \in Nat /\ IsFiniteSet(P) /\ n \in Nat /\ k * lo <= n /\ n <= k * hi
  BY CollectedBetween
<1>2. bonus = IF k = 0 THEN 0 ELSE Round(n, k) BY DEF DrawerBonus
<1>3. k = 0 <=> P = {}
  <2> HIDE DEF P
  <2>1. QED BY <1>1, FS_EmptySet
<1> HIDE DEF k, n, P
<1>4. CASE k = 0 BY <1>2, <1>3, <1>4 DEF P
<1>5. CASE k # 0
  <2>1. Round(n, k) \in Nat /\ lo <= Round(n, k) /\ Round(n, k) <= hi
    BY <1>1, <1>5, RoundIs, RoundBetween
  <2>2. QED BY <1>2, <1>3, <1>5, <2>1 DEF P
<1>6. QED BY <1>4, <1>5

\* A new line, a line without its points, and a line that begins a game.
LEMMA LineIs ==
    ASSUME NEW l \in Line
    PROVE  /\ Fresh \in Line /\ Rematched(l) \in Line
           /\ Rematched(l).wins = l.wins /\ Rematched(l).games = l.games
           /\ Rematched(l).score = 0 /\ Rematched(l).streak = 0
           /\ Rematched(l).best = 0 /\ Rematched(l).hits = 0
           /\ l = Rematched(l) <=> l.score = 0 /\ l.streak = 0 /\ l.best = 0 /\ l.hits = 0
           /\ [l EXCEPT !.score = 0] = Fresh
                <=> l.streak = 0 /\ l.best = 0 /\ l.hits = 0 /\ l.wins = 0 /\ l.games = 0
<1>1. Fresh \in Line BY DEF Line, Fresh
<1>2. /\ Rematched(l) \in Line
      /\ Rematched(l).wins = l.wins /\ Rematched(l).games = l.games
      /\ Rematched(l).score = 0 /\ Rematched(l).streak = 0
      /\ Rematched(l).best = 0 /\ Rematched(l).hits = 0
  BY DEF Line, Rematched
<1>3. ASSUME l.score = 0 /\ l.streak = 0 /\ l.best = 0 /\ l.hits = 0 PROVE l = Rematched(l)
  BY <1>3, <1>2 DEF Line
<1>4. ASSUME l.streak = 0 /\ l.best = 0 /\ l.hits = 0 /\ l.wins = 0 /\ l.games = 0
      PROVE  [l EXCEPT !.score = 0] = Fresh
  BY <1>4 DEF Line, Fresh
<1>5. ASSUME [l EXCEPT !.score = 0] = Fresh
      PROVE  l.streak = 0 /\ l.best = 0 /\ l.hits = 0 /\ l.wins = 0 /\ l.games = 0
  <2> DEFINE m == [l EXCEPT !.score = 0]
  <2>1. m.streak = l.streak /\ m.best = l.best /\ m.hits = l.hits /\ m.wins = l.wins /\ m.games = l.games
    BY DEF Line
  <2>2. m.streak = 0 /\ m.best = 0 /\ m.hits = 0 /\ m.wins = 0 /\ m.games = 0 BY <1>5 DEF Fresh
  <2>3. QED BY <2>1, <2>2
<1>6. QED BY <1>1, <1>2, <1>3, <1>4, <1>5

\* A new line has nothing, and a rematch leaves it alone.
LEMMA FreshIs ==
    Fresh \in Line /\ Rematched(Fresh) = Fresh
<1>1. Fresh \in Line BY DEF Line, Fresh
<1>2. Fresh.score = 0 /\ Fresh.streak = 0 /\ Fresh.best = 0 /\ Fresh.hits = 0 BY DEF Fresh
<1>3. QED BY <1>1, <1>2, LineIs

\* A line that goes on with the same wins and games.
LEMMA ScoredIs ==
    ASSUME NEW l \in Line, NEW x \in Nat
    PROVE  /\ Scored(l, x) \in Line /\ Scored(l, x).score = l.score + x
           /\ Scored(l, x).wins = l.wins /\ Scored(l, x).games = l.games
<1>1. l.streak \in Nat /\ l.best \in Nat /\ l.streak + 1 \in Nat BY DEF Line
<1>2. Max({l.best, l.streak + 1}) \in Nat BY <1>1, MaxOfTwo
<1>3. l.score + x \in Nat /\ l.hits + 1 \in Nat BY DEF Line
<1> DEFINE b == Max({l.best, l.streak + 1})
<1>4. Scored(l, x) = [l EXCEPT !.score = l.score + x, !.hits = l.hits + 1,
                               !.streak = l.streak + 1, !.best = b]
  BY DEF Scored, Line
<1> HIDE DEF b
<1>5. QED BY <1>1, <1>2, <1>3, <1>4 DEF Line, b

\* Everyone is in the order once.
Single(order) == \A i, j \in DOMAIN order : order[i] = order[j] => i = j

\* What the end of a turn adds to the score of p, a player of the room.
Earns(order, at, drawer, members, p, x) ==
    /\ p = drawer =>
          x = DrawerBonus(Collected(order, at, members), Cardinality(Paid(order, members)))
    /\ p # drawer => \A i \in DOMAIN order : order[i] = p => x = GuesserScore(at[i], i)
    /\ p # drawer /\ p \notin ToSet(order) => x = 0

\* A line that has not been credited with a guess.
Unguessed(l, m) ==
    m.best = l.best /\ m.hits = l.hits /\ m.streak \in {l.streak, 0}

\* end_turn pays the players of the room and counts no game yet.
LEMMA PayTurnIs ==
    ASSUME board \in [Players -> Line], NEW order, NEW at, Timed(order, at), Single(order),
           NEW drawer, NEW members, NEW lines, lines = PayTurn(order, at, drawer, members), NEW p \in Players
    PROVE  /\ lines[p] \in Line
           /\ p \notin members => lines[p] = Fresh
           /\ p \in members =>
                 /\ lines[p].wins = board[p].wins /\ lines[p].games = board[p].games
                 /\ \E x \in Nat : /\ lines[p].score = board[p].score + x
                                   /\ Earns(order, at, drawer, members, p, x)
                 /\ p \notin ToSet(order) => Unguessed(board[p], lines[p])
<1> DEFINE position == CHOOSE i \in DOMAIN order : order[i] = p
           bonus == DrawerBonus(Collected(order, at, members), Cardinality(Paid(order, members)))
           l == board[p]
<1>1. l \in Line OBVIOUS
<1>2. lines[p] = IF p \notin members THEN Fresh
                 ELSE IF p = drawer THEN [l EXCEPT !.score = @ + bonus]
                 ELSE IF p \in ToSet(order) THEN Scored(l, GuesserScore(at[position], position))
                 ELSE [l EXCEPT !.streak = 0]
  BY DEF PayTurn
<1>3. bonus \in Nat
  <2>1. GuesserScore(0, 1) \in Nat /\ Ranging(order, at, members, 0, GuesserScore(0, 1)) BY RangingAll
  <2>2. 0 \in Nat OBVIOUS
  <2>3. QED BY <2>1, <2>2, BonusIs
<1> HIDE DEF bonus, l
<1>4. CASE p \notin members BY <1>1, <1>2, <1>4, LineIs
<1>5. CASE p \in members /\ p = drawer
  <2>1. lines[p] = [l EXCEPT !.score = l.score + bonus] BY <1>1, <1>2, <1>5 DEF Line
  <2>2. l.score + bonus \in Nat BY <1>1, <1>3 DEF Line
  <2>3. /\ lines[p] \in Line /\ lines[p].score = l.score + bonus
        /\ lines[p].wins = l.wins /\ lines[p].games = l.games
        /\ lines[p].best = l.best /\ lines[p].hits = l.hits /\ lines[p].streak = l.streak
    BY <1>1, <2>1, <2>2 DEF Line
  <2>4. Earns(order, at, drawer, members, p, bonus) BY <1>5 DEF Earns, bonus
  <2>5. QED BY <1>3, <1>5, <2>3, <2>4 DEF Unguessed, l
<1>6. CASE p \in members /\ p # drawer /\ p \in ToSet(order)
  <2>1. position \in DOMAIN order /\ order[position] = p
    <3>1. \E i \in DOMAIN order : order[i] = p BY <1>6 DEF ToSet
    <3>2. QED BY <3>1
  <2> DEFINE x == GuesserScore(at[position], position)
  <2>2. lines[p] = Scored(l, x) BY <1>2, <1>6
  <2>3. \A i \in DOMAIN order : order[i] = p => i = position BY <2>1 DEF Single
  <2> HIDE DEF position
  <2>4. x \in Nat BY <2>1, TimedIs
  <2>5. Earns(order, at, drawer, members, p, x) BY <1>6, <2>3 DEF Earns
  <2> HIDE DEF x
  <2>6. QED BY <1>1, <1>6, <2>2, <2>4, <2>5, ScoredIs DEF l
<1>7. CASE p \in members /\ p # drawer /\ p \notin ToSet(order)
  <2>1. lines[p] = [l EXCEPT !.streak = 0] BY <1>2, <1>7
  <2>2. /\ lines[p] \in Line /\ lines[p].score = l.score + 0
        /\ lines[p].wins = l.wins /\ lines[p].games = l.games
        /\ lines[p].best = l.best /\ lines[p].hits = l.hits /\ lines[p].streak = 0
    BY <1>1, <2>1 DEF Line
  <2>3. \A i \in DOMAIN order : order[i] # p BY <1>7 DEF ToSet
  <2>4. Earns(order, at, drawer, members, p, 0) /\ 0 \in Nat BY <1>7, <2>3 DEF Earns
  <2>5. QED BY <1>7, <2>2, <2>4 DEF Unguessed, l
<1>8. QED BY <1>4, <1>5, <1>6, <1>7

\* build_game_over_payload counts a game, and at most one win, for each player.
LEMMA CloseGameIs ==
    ASSUME NEW lines \in [Players -> Line], NEW players, NEW p \in Players
    PROVE  LET m == CloseGame(lines, players)[p] IN
           /\ m \in Line /\ m.score = lines[p].score /\ m.streak = lines[p].streak
           /\ m.best = lines[p].best /\ m.hits = lines[p].hits
           /\ p \notin players => m = lines[p]
           /\ p \in players => m.games = lines[p].games + 1 /\ m.wins \in {lines[p].wins, lines[p].wins + 1}
<1> DEFINE l == lines[p]
           top == Max({lines[q].score : q \in players} \cup {0})
           w == IF top > 0 /\ l.score = top THEN l.wins + 1 ELSE l.wins
           m == CloseGame(lines, players)[p]
<1>1. l \in Line /\ l.wins \in Nat /\ l.games \in Nat BY DEF Line
<1>2. w \in {l.wins, l.wins + 1} OBVIOUS
<1>3. m = IF p \notin players THEN l ELSE [l EXCEPT !.games = l.games + 1, !.wins = w]
  BY <1>1 DEF CloseGame, Line
<1> HIDE DEF w, l, m
<1>4. w \in Nat /\ l.games + 1 \in Nat BY <1>1, <1>2
<1>5. CASE p \notin players BY <1>1, <1>3, <1>5 DEF l, m
<1>6. CASE p \in players
  <2>1. m = [l EXCEPT !.games = l.games + 1, !.wins = w] BY <1>3, <1>6
  <2>2. /\ m \in Line /\ m.score = l.score /\ m.streak = l.streak /\ m.best = l.best
        /\ m.hits = l.hits /\ m.games = l.games + 1 /\ m.wins = w
    BY <1>1, <1>4, <2>1 DEF Line
  <2>3. QED BY <1>2, <1>6, <2>2 DEF l, m
<1>7. QED BY <1>5, <1>6
-----------------------------------------------------------------------------
(* The inductive invariant of a match.                                     *)

\* Guesses are recorded during a turn only, with the times at which they came.
TurnBook ==
    /\ room.turnDrawer = NoPlayer => room.guessOrder = <<>>
    /\ times \in Seq(Times) /\ Len(times) = Len(room.guessOrder)
    /\ \A i, j \in DOMAIN times : i <= j => times[i] <= times[j]

\* A player that is not in the room has nothing.
Strangers == \A p \in Players \ Members(room) : board[p] = Fresh

\* A game may still be counted: one is on, or choices of an ended one are pending.
Countable == room.pending \/ room.turnDrawer # NoPlayer

\* While a game may still be counted, it has not been.
Counting ==
    \A p \in Players :
        /\ board[p].wins <= board[p].games /\ board[p].games <= started
        /\ Countable => board[p].games < started

ScoreInv ==
    /\ board \in [Players -> Line] /\ started \in 0..MaxGames /\ drops \in 0..MaxDrops
    /\ TurnBook /\ Strangers /\ Counting /\ LobbyIsEven /\ WatchersScoreNothing

\* What a step that ends a turn leaves on the board.
LEMMA SettledIs ==
    ASSUME ScoreInv, NEW order, NEW at, NEW ab, Timed(order, at), Single(order),
           NEW S, S = Settled(order, at, ab)
    PROVE  /\ S \in [Players -> Line]
           /\ \A p \in Players :
                 /\ p \notin Members(room) => S[p] = Fresh
                 /\ p \in Members(room) =>
                       \E x \in Nat : /\ S[p].score = board[p].score + x
                                      /\ ab => x = 0
                                      /\ ~ab => Earns(order, at, room.turnDrawer, Members(room), p, x)
                 /\ \/ S[p].games = board[p].games /\ S[p].wins = board[p].wins
                    \/ /\ room'.state = "GAME_OVER" /\ p \in ActiveSeats(room)
                       /\ S[p].games = board[p].games + 1
                       /\ S[p].wins \in {board[p].wins, board[p].wins + 1}
                 /\ p \in Members(room) /\ p \notin ToSet(order) => Unguessed(board[p], S[p])
<1> DEFINE lines == IF ab THEN board ELSE PayTurn(order, at, room.turnDrawer, Members(room))
           A == ActiveSeats(room)
<1>1. board \in [Players -> Line] /\ Strangers BY DEF ScoreInv
<1>2. S = IF room'.state = "GAME_OVER" THEN CloseGame(lines, A) ELSE lines BY DEF Settled
<1>3. ASSUME NEW p \in Players
      PROVE  /\ lines[p] \in Line
             /\ p \notin Members(room) => lines[p] = Fresh
             /\ lines[p].wins = board[p].wins /\ lines[p].games = board[p].games
             /\ p \in Members(room) =>
                   \E x \in Nat : /\ lines[p].score = board[p].score + x
                                  /\ ab => x = 0
                                  /\ ~ab => Earns(order, at, room.turnDrawer, Members(room), p, x)
             /\ p \in Members(room) /\ p \notin ToSet(order) => Unguessed(board[p], lines[p])
  <2>1. board[p] \in Line /\ (p \notin Members(room) => board[p] = Fresh) BY <1>1 DEF Strangers
  <2>2. CASE ab
    <3>1. lines[p] = board[p] BY <2>2
    <3>2. board[p].score = board[p].score + 0 /\ 0 \in Nat BY <2>1 DEF Line
    <3>3. QED BY <2>1, <2>2, <3>1, <3>2 DEF Unguessed
  <2>3. CASE ~ab
    <3>1. lines = PayTurn(order, at, room.turnDrawer, Members(room)) BY <2>3
    <3> HIDE DEF lines
    <3>2. /\ lines[p] \in Line
          /\ p \notin Members(room) => lines[p] = Fresh
          /\ p \in Members(room) =>
                 /\ lines[p].wins = board[p].wins /\ lines[p].games = board[p].games
                 /\ \E x \in Nat : /\ lines[p].score = board[p].score + x
                                   /\ Earns(order, at, room.turnDrawer, Members(room), p, x)
                 /\ p \notin ToSet(order) => Unguessed(board[p], lines[p])
      BY <1>1, <3>1, PayTurnIs
    <3>3. QED BY <2>1, <2>3, <3>2
  <2>4. QED BY <2>2, <2>3
<1>4. lines \in [Players -> Line]
  <2>1. lines = [p \in Players |-> lines[p]] BY <1>1 DEF PayTurn
  <2> HIDE DEF lines
  <2>2. QED BY <1>3, <2>1
<1>5. A \subseteq Members(room) BY DEF ActiveSeats
<1> HIDE DEF lines, A
<1>6. CASE room'.state # "GAME_OVER"
  <2>1. S = lines BY <1>2, <1>6
  <2>2. QED BY <1>3, <1>4, <2>1
<1>7. CASE room'.state = "GAME_OVER"
  <2>1. S = CloseGame(lines, A) BY <1>2, <1>7
  <2>2. ASSUME NEW p \in Players
        PROVE  /\ S[p] \in Line /\ S[p].score = lines[p].score /\ S[p].streak = lines[p].streak
               /\ S[p].best = lines[p].best /\ S[p].hits = lines[p].hits
               /\ p \notin A => S[p] = lines[p]
               /\ p \in A => S[p].games = lines[p].games + 1 /\ S[p].wins \in {lines[p].wins, lines[p].wins + 1}
    BY <1>4, <2>1, CloseGameIs
  <2>3. S \in [Players -> Line]
    <3>1. S = [p \in Players |-> S[p]] BY <2>1 DEF CloseGame
    <3>2. QED BY <2>2, <3>1
  <2>4. ASSUME NEW p \in Players
        PROVE  /\ p \notin Members(room) => S[p] = Fresh
               /\ p \in Members(room) =>
                     \E x \in Nat : /\ S[p].score = board[p].score + x
                                    /\ ab => x = 0
                                    /\ ~ab => Earns(order, at, room.turnDrawer, Members(room), p, x)
               /\ \/ S[p].games = board[p].games /\ S[p].wins = board[p].wins
                  \/ /\ room'.state = "GAME_OVER" /\ p \in A
                     /\ S[p].games = board[p].games + 1
                     /\ S[p].wins \in {board[p].wins, board[p].wins + 1}
               /\ p \in Members(room) /\ p \notin ToSet(order) => Unguessed(board[p], S[p])
    <3>1. p \notin Members(room) => S[p] = Fresh BY <1>3, <1>5, <2>2
    <3>2. p \in Members(room) => S[p].score = lines[p].score BY <2>2
    <3>3. \/ S[p].games = board[p].games /\ S[p].wins = board[p].wins
          \/ /\ room'.state = "GAME_OVER" /\ p \in A
             /\ S[p].games = board[p].games + 1
             /\ S[p].wins \in {board[p].wins, board[p].wins + 1}
      BY <1>3, <1>7, <2>2
    <3>4. p \in Members(room) /\ p \notin ToSet(order) => Unguessed(board[p], S[p])
      BY <1>3, <2>2 DEF Unguessed
    <3>5. QED BY <1>3, <3>1, <3>2, <3>3, <3>4
  <2>5. QED BY <2>3, <2>4 DEF A
<1>8. QED BY <1>6, <1>7

\* A step that ends the turn.
Ended(r, s) ==
    /\ s.players = r.players /\ s.spectators = r.spectators /\ s.alive = r.alive
    /\ r.turnDrawer # NoPlayer /\ s.turnDrawer = NoPlayer /\ s.guessOrder = <<>>
    /\ s.state # "LOBBY"
    /\ s.state = "GAME_OVER" => ~s.pending

\* It keeps the board fair if no spectator is among the guessers.
LEMMA EndingKeeps ==
    ASSUME room \in Room, ScoreInv, NEW order, NEW at, NEW ab, Timed(order, at), Single(order),
           ToSet(order) \cap Members(room) \cap room.spectators = {},
           Ended(room, room'), board' = Settled(order, at, ab), times' = <<>>,
           started' = started, drops' \in 0..MaxDrops
    PROVE  ScoreInv'
<1> DEFINE S == Settled(order, at, ab)
<1>1. /\ board' \in [Players -> Line]
      /\ \A p \in Players :
                 /\ p \notin Members(room) => board'[p] = Fresh
                 /\ \/ board'[p].games = board[p].games /\ board'[p].wins = board[p].wins
                    \/ /\ room'.state = "GAME_OVER" /\ p \in ActiveSeats(room)
                       /\ board'[p].games = board[p].games + 1
                       /\ board'[p].wins \in {board[p].wins, board[p].wins + 1}
                 /\ p \in Members(room) /\ p \notin ToSet(order) => Unguessed(board[p], board'[p])
  BY SettledIs
<1>2. Members(room') = Members(room) BY DEF Ended, Members
<1>3. /\ board \in [Players -> Line] /\ started \in 0..MaxGames /\ Counting /\ WatchersScoreNothing
  BY DEF ScoreInv
<1>4. TurnBook'
  <2>1. <<>> \in Seq(Times) /\ DOMAIN <<>> = {} OBVIOUS
  <2>2. QED BY <2>1 DEF TurnBook, Ended
<1>5. Strangers' BY <1>1, <1>2 DEF Strangers
<1>6. Counting'
  <2> SUFFICES ASSUME NEW p \in Players
               PROVE  /\ board'[p].wins <= board'[p].games /\ board'[p].games <= started
                      /\ Countable' => board'[p].games < started
    BY DEF Counting
  <2>1. board[p].wins \in Nat /\ board[p].games \in Nat /\ started \in Nat
    BY <1>3, MatchAssumption DEF Line
  <2>2. board[p].wins <= board[p].games /\ board[p].games < started
    BY <1>3 DEF Counting, Countable, Ended
  <2>3. room'.state = "GAME_OVER" => ~Countable' BY DEF Countable, Ended
  <2>4. QED BY <1>1, <2>1, <2>2, <2>3
<1>7. LobbyIsEven' BY DEF LobbyIsEven, Ended
<1>8. WatchersScoreNothing'
  <2> SUFFICES ASSUME room'.alive, NEW p \in Members(room') \cap room'.spectators
               PROVE  [board'[p] EXCEPT !.score = 0] = Fresh
    BY DEF WatchersScoreNothing
  <2>1. p \in Members(room) \cap room.spectators /\ room.alive BY <1>2 DEF Ended
  <2>2. p \in Players BY <2>1, MembersArePlayers
  <2>3. board[p] \in Line /\ board'[p] \in Line BY <1>1, <1>3, <2>2
  <2>4. [board[p] EXCEPT !.score = 0] = Fresh BY <1>3, <2>1 DEF WatchersScoreNothing
  <2>5. /\ board[p].streak = 0 /\ board[p].best = 0 /\ board[p].hits = 0
        /\ board[p].wins = 0 /\ board[p].games = 0
    BY <2>3, <2>4, LineIs
  <2>6. p \notin ToSet(order) /\ p \notin ActiveSeats(room) BY <2>1 DEF ActiveSeats
  <2>7. /\ board'[p].streak = 0 /\ board'[p].best = 0 /\ board'[p].hits = 0
        /\ board'[p].wins = 0 /\ board'[p].games = 0
    BY <1>1, <2>1, <2>2, <2>5, <2>6 DEF Unguessed
  <2>8. QED BY <2>3, <2>7, LineIs
<1>9. QED BY <1>1, <1>3, <1>4, <1>5, <1>6, <1>7, <1>8 DEF ScoreInv
-----------------------------------------------------------------------------
(* The steps of a match.                                                   *)

\* end_turn as a whole.
LEMMA EndTurnEnds ==
    ASSUME NEW r, RoomInv(r), r.turnDrawer # NoPlayer
    PROVE  Ended(r, EndTurn(r))
<1>1. r \in Room /\ r.state = "PLAYING" /\ ~r.pending /\ r.round <= NumRounds
  BY DEF RoomInv, Seating, PhaseOf, Rotating, InGame
<1> DEFINE s == EndTurn(r)
<1>2. /\ Frame(r, s) /\ s.turnDrawer = NoPlayer /\ s.guessOrder = <<>>
      /\ SameRound(r, s) \/ NewRound(r, s)
  BY <1>1, EndTurnIs
<1> HIDE DEF s
<1>3. s.state # "LOBBY" /\ (s.state = "GAME_OVER" => ~s.pending)
  <2>1. CASE SameRound(r, s) BY <1>1, <2>1 DEF SameRound
  <2>2. CASE NewRound(r, s) BY <1>1, <2>2 DEF NewRound
  <2>3. QED BY <1>2, <2>1, <2>2
<1>4. QED BY <1>2, <1>3 DEF Ended, Frame, s

\* A handler that leaves the turn alone and lets nobody watch who has played.
Quietly(r, s) ==
    /\ Still(r, s) /\ (s.alive => r.alive)
    /\ s.spectators \cap Members(r) \subseteq r.spectators

\* Two handlers, one after the other.
LEMMA QuietlyOn ==
    ASSUME NEW r, NEW s, NEW t, Quietly(r, s), Quietly(s, t), Members(s) = Members(r)
    PROVE  Quietly(r, t)
BY DEF Quietly, Still

\* handle_disconnect ends the turn or leaves it alone.
LEMMA DropIs ==
    ASSUME NEW r, RoomInv(r), NEW p \in Members(r)
    PROVE  LET s == HandleDisconnect(r, p) IN
           Ended(r, s) \/ (Quietly(r, s) /\ Members(s) = Members(r))
<1> DEFINE d == MarkDisconnected(r, p)
           t == ScheduleTasks(d, p)
           n == AfterDisconnect(t, p)
           s == HandleDisconnect(r, p)
<1>1. r \in Room /\ p \in Players BY MembersArePlayers DEF RoomInv, Seating
<1>2. s = IF d.host = p /\ d.connected = {} /\ ~InGame(d) THEN Deleted(d)
          ELSE IF p \in n.lostCleanup THEN n ELSE [n EXCEPT !.ripe = @ \ {p}]
  BY DEF HandleDisconnect, FinishDisconnect
<1>3. RoomInv(d) /\ Members(d) = Members(r) BY MarkDisconnectedInv
<1>4. /\ Still(r, d) /\ d.players = r.players /\ d.spectators = r.spectators /\ d.alive = r.alive
  BY <1>1 DEF MarkDisconnected, Still, Room
<1>5. d \in Room BY <1>3 DEF RoomInv, Seating
<1> HIDE DEF d
<1>6. CASE d.host = p /\ d.connected = {} /\ ~InGame(d)
  <2>1. s = Deleted(d) BY <1>2, <1>6
  <2>2. /\ Still(d, s) /\ s.players = d.players /\ s.spectators = d.spectators /\ s.alive = FALSE
    BY <1>5, <2>1 DEF Deleted, Still, Room
  <2> HIDE DEF s
  <2>3. Members(s) = Members(r) BY <1>4, <2>2 DEF Members
  <2>4. Still(r, s) BY <1>4, <2>2 DEF Still
  <2>5. QED BY <1>4, <2>2, <2>3, <2>4 DEF Quietly, s
<1>7. CASE ~ (d.host = p /\ d.connected = {} /\ ~InGame(d))
  <2>1. RoomInv(t) BY <1>3, ScheduleTasksInv
  <2>2. /\ Still(d, t) /\ t.players = d.players /\ t.spectators = d.spectators /\ t.alive = d.alive
    BY <1>1, <1>5 DEF ScheduleTasks, Still, Room
  <2> HIDE DEF t
  <2>3. t \in Room BY <2>1 DEF RoomInv, Seating
  <2>4. \/ n = t \/ n = StartCountdown(t)
        \/ t.turnDrawer # NoPlayer /\ n = EndTurn(t)
    BY <1>1, NoPlayerAssumption DEF AfterDisconnect, EndTurnIfAllGuessed
  <2>5. n \in Room BY <1>1, <2>1, AfterDisconnectInv DEF RoomInv, Seating
  <2> HIDE DEF n
  <2>6. s = n \/ s = [n EXCEPT !.ripe = @ \ {p}] BY <1>2, <1>7
  <2> HIDE DEF s
  <2>7. Still(n, s) /\ s.players = n.players /\ s.spectators = n.spectators /\ s.alive = n.alive
    BY <2>5, <2>6 DEF Still, Room
  <2>8. CASE t.turnDrawer # NoPlayer /\ n = EndTurn(t)
    <3>1. Ended(t, n) BY <2>1, <2>8, EndTurnEnds
    <3>2. Ended(r, s) BY <1>4, <2>2, <2>7, <3>1 DEF Ended, Still
    <3>3. QED BY <3>2 DEF s
  <2>9. CASE n = t \/ n = StartCountdown(t)
    <3>1. Still(t, n) /\ n.players = t.players /\ n.spectators = t.spectators /\ n.alive = t.alive
      BY <2>3, <2>5, <2>9, StartCountdownFrame DEF Still, Frame
    <3>2. Still(r, s) /\ s.players = r.players /\ s.spectators = r.spectators /\ s.alive = r.alive
      BY <1>4, <2>2, <2>7, <3>1 DEF Still
    <3>3. Members(s) = Members(r) BY <3>2 DEF Members
    <3>4. QED BY <3>2, <3>3 DEF Quietly, s
  <2>10. QED BY <2>4, <2>8, <2>9
<1>8. QED BY <1>6, <1>7

\* The guesses of a turn: each guesser once, neither the drawer nor a spectator,
\* and the times do not fall.
Filed(order, at) ==
    /\ Timed(order, at) /\ Single(order)
    /\ \A i, j \in DOMAIN at : i <= j => at[i] <= at[j]
    /\ room.turnDrawer \notin ToSet(order)
    /\ ToSet(order) \cap Members(room) \cap room.spectators = {}

\* A step that ends the turn with these guesses, and pays it unless its drawer
\* has dropped out.
EndsWith(order, at, ab) ==
    /\ Filed(order, at) /\ Ended(room, room')
    /\ board' = Settled(order, at, ab) /\ times' = <<>>
    /\ started' = started /\ drops' \in 0..MaxDrops

\* What the room has on file is filed properly.
LEMMA FiledIs ==
    ASSUME BooksInv, ScoreInv, room.turnDrawer # NoPlayer
    PROVE  Filed(room.guessOrder, times)
<1>1. room.guessOrder \in Seq(Players) /\ Books(room)
  BY DEF BooksInv, InductiveInv, RoomInv, Seating, Room
<1>2. TurnBook BY DEF ScoreInv
<1>3. ToSet(room.guessOrder) = Guessed(room) BY DEF ToSet, Guessed
<1>4. QED BY <1>1, <1>2, <1>3 DEF Filed, Timed, Single, Books, TurnBook

\* So is what it has after one more guess.
LEMMA OneMoreFiled ==
    ASSUME BooksInv, ScoreInv, NEW p \in Players, NEW t \in Times, GuessCorrectly(p),
           \A u \in ToSet(times) : u <= t
    PROVE  Filed(Append(room.guessOrder, p), Append(times, t))
<1> DEFINE g == room.guessOrder
           h == Append(g, p)
           v == Append(times, t)
<1>1. /\ p \in Members(room) /\ room.turnDrawer # NoPlayer /\ p # room.turnDrawer
      /\ p \notin room.spectators /\ p \notin room.hasGuessed
  BY DEF GuessCorrectly, Bound
<1>2. Filed(g, times) BY <1>1, FiledIs
<1>3. g \in Seq(Players) /\ times \in Seq(Times) /\ Len(times) = Len(g) BY <1>2 DEF Filed, Timed
<1>4. ToSet(g) = Guessed(room) /\ Guessed(room) \cap Members(room) = room.hasGuessed
  BY <1>1 DEF ToSet, Guessed, BooksInv, Books
<1>5. p \notin ToSet(g) BY <1>1, <1>4
<1>6. h \in Seq(Players) /\ ToSet(h) = ToSet(g) \cup {p} /\ Single(h)
  <2>1. /\ h \in Seq(Players)
        /\ {h[i] : i \in DOMAIN h} = {g[i] : i \in DOMAIN g} \cup {p}
        /\ (\A i, j \in DOMAIN g : g[i] = g[j] => i = j) /\ p \notin {g[i] : i \in DOMAIN g}
             => \A i, j \in DOMAIN h : h[i] = h[j] => i = j
    BY <1>3, GuessAppended
  <2>2. QED BY <1>2, <1>5, <2>1 DEF ToSet, Single, Filed
<1>7. /\ v \in Seq(Times) /\ Len(v) = Len(times) + 1 /\ Len(h) = Len(g) + 1 /\ DOMAIN v = 1..(Len(times) + 1)
      /\ DOMAIN times = 1..Len(times) /\ Len(times) \in Nat
      /\ v[Len(times) + 1] = t /\ \A i \in 1..Len(times) : v[i] = times[i]
  BY <1>3
<1>8. \A i, j \in DOMAIN v : i <= j => v[i] <= v[j]
  <2> SUFFICES ASSUME NEW i \in DOMAIN v, NEW j \in DOMAIN v, i <= j PROVE v[i] <= v[j] OBVIOUS
  <2> HIDE DEF v
  <2>1. t \in Nat BY MatchAssumption
  <2>2. CASE j \in DOMAIN times BY <1>2, <1>7, <2>2 DEF Filed
  <2>3. CASE j \notin DOMAIN times
    <3>1. v[j] = t BY <1>7, <2>3
    <3>2. CASE i \in DOMAIN times
      <4>1. times[i] \in ToSet(times) BY <3>2 DEF ToSet
      <4>2. QED BY <1>7, <3>1, <3>2, <4>1
    <3>3. CASE i \notin DOMAIN times BY <1>7, <2>1, <3>1, <3>3
    <3>4. QED BY <3>2, <3>3
  <2>4. QED BY <2>2, <2>3
<1> HIDE DEF h, v
<1>9. Timed(h, v) BY <1>3, <1>6, <1>7 DEF Timed
<1>10. ToSet(h) \cap Members(room) \cap room.spectators = {} /\ room.turnDrawer \notin ToSet(h)
  BY <1>1, <1>2, <1>6 DEF Filed
<1>11. QED BY <1>6, <1>8, <1>9, <1>10 DEF Filed, h, v

\* A right guess ends the turn or is filed.
LEMMA GuessIs ==
    ASSUME BooksInv, ScoreInv, NEW p \in Players, NEW t \in Times, GuessAt(p, t)
    PROVE  \/ EndsWith(Append(room.guessOrder, p), Append(times, t), FALSE)
           \/ /\ room'.guessOrder = Append(room.guessOrder, p) /\ times' = Append(times, t)
              /\ room'.turnDrawer = room.turnDrawer /\ room'.pending = room.pending
              /\ room'.players = room.players /\ room'.spectators = room.spectators
              /\ room'.alive = room.alive /\ room'.state = "PLAYING" /\ room.turnDrawer # NoPlayer
              /\ board' = board /\ started' = started /\ drops' = drops
<1> DEFINE g == [room EXCEPT !.hasGuessed = @ \cup {p}, !.guessOrder = Append(@, p)]
<1>1. /\ GuessCorrectly(p) /\ \A u \in ToSet(times) : u <= t
      /\ started' = started /\ drops' = drops
  BY DEF GuessAt
<1>2. /\ p \in Members(room) /\ room.turnDrawer # NoPlayer /\ room.state = "PLAYING"
      /\ room' = EndTurnIfAllGuessed(g)
  BY <1>1 DEF GuessCorrectly, Bound
<1>3. RoomInv(room) BY DEF BooksInv, InductiveInv
<1>4. room \in Room /\ room.guessOrder \in Seq(Players) BY <1>3 DEF RoomInv, Seating, Room
<1>5. Append(room.guessOrder, p) \in Seq(Players) BY <1>4, GuessAppended
<1>6. /\ Alike(room, g) /\ Cleanups(g) = Cleanups(room) /\ g.connected = room.connected
      /\ g.guessOrder = Append(room.guessOrder, p) /\ g.spectators = room.spectators
  BY <1>4, <1>5 DEF Alike, Room, Cleanups
<1> HIDE DEF g
<1>7. RoomInv(g) BY <1>3, <1>6, AlikeInv DEF RoomInv, Seating
<1>8. Filed(Append(room.guessOrder, p), Append(times, t)) BY <1>1, OneMoreFiled
<1>9. drops' \in 0..MaxDrops BY <1>1 DEF ScoreInv
<1>10. CASE AllGuessed(g)
  <2>1. room' = EndTurn(g) BY <1>2, <1>10 DEF EndTurnIfAllGuessed
  <2>2. g.turnDrawer # NoPlayer BY <1>2, <1>6 DEF Alike
  <2>3. Ended(g, room') BY <1>7, <2>1, <2>2, EndTurnEnds
  <2>4. Ended(room, room') BY <1>2, <1>6, <2>3 DEF Ended, Alike
  <2>5. TurnEnds BY <2>4 DEF Ended, TurnEnds
  <2>6. times' = <<>> /\ board' = Settled(Append(room.guessOrder, p), Append(times, t), FALSE)
    BY <2>5 DEF GuessAt
  <2>7. QED BY <1>1, <1>8, <1>9, <2>4, <2>6 DEF EndsWith
<1>11. CASE ~AllGuessed(g)
  <2>1. room' = g BY <1>2, <1>11 DEF EndTurnIfAllGuessed
  <2>2. ~TurnEnds BY <1>6, <2>1 DEF TurnEnds, Alike
  <2>3. times' = Append(times, t) /\ board' = board BY <2>2 DEF GuessAt
  <2>4. QED BY <1>1, <1>2, <1>6, <2>1, <2>3 DEF Alike
<1>12. QED BY <1>10, <1>11

\* So does the timer.
LEMMA TimeUpIs ==
    ASSUME BooksInv, ScoreInv, TurnTimeUp
    PROVE  EndsWith(room.guessOrder, times, FALSE)
<1>1. /\ room.turnDrawer # NoPlayer /\ room' = EndTurn(room)
      /\ times' = <<>> /\ board' = Settled(room.guessOrder, times, FALSE)
      /\ started' = started /\ drops' = drops
  BY DEF TurnTimeUp, TurnTimerFires
<1>2. RoomInv(room) BY DEF BooksInv, InductiveInv
<1>3. Ended(room, room') BY <1>1, <1>2, EndTurnEnds
<1>4. Filed(room.guessOrder, times) BY <1>1, FiledIs
<1>5. drops' \in 0..MaxDrops BY <1>1 DEF ScoreInv
<1>6. QED BY <1>1, <1>3, <1>4, <1>5 DEF EndsWith

\* And so may a player who drops out.
LEMMA PlayerDropsIs ==
    ASSUME BooksInv, ScoreInv, NEW p \in Players, PlayerDrops(p)
    PROVE  /\ drops' \in 0..MaxDrops /\ started' = started
           /\ \/ EndsWith(room.guessOrder, times, p = room.turnDrawer)
              \/ /\ Quietly(room, room') /\ Members(room') = Members(room)
                 /\ board' = board /\ times' = times
<1>1. /\ p \in Members(room) /\ room' = HandleDisconnect(room, p)
      /\ drops < MaxDrops /\ drops' = drops + 1 /\ started' = started
  BY DEF PlayerDrops, ConnectionClosed, Bound
<1>2. RoomInv(room) BY DEF BooksInv, InductiveInv
<1>3. drops' \in 0..MaxDrops BY <1>1, MatchAssumption DEF ScoreInv
<1>4. Ended(room, room') \/ (Quietly(room, room') /\ Members(room') = Members(room))
  BY <1>1, <1>2, DropIs
<1>5. CASE Ended(room, room')
  <2>1. TurnEnds /\ room.turnDrawer # NoPlayer BY <1>5 DEF Ended, TurnEnds
  <2>2. times' = <<>> /\ board' = Settled(room.guessOrder, times, p = room.turnDrawer)
    BY <2>1 DEF PlayerDrops
  <2>3. Filed(room.guessOrder, times) BY <2>1, FiledIs
  <2>4. QED BY <1>1, <1>3, <1>5, <2>2, <2>3 DEF EndsWith
<1>6. CASE Quietly(room, room') /\ Members(room') = Members(room)
  <2>1. ~TurnEnds BY <1>6 DEF Quietly, Still, TurnEnds
  <2>2. board' = board /\ times' = times BY <2>1 DEF PlayerDrops
  <2>3. QED BY <1>1, <1>3, <1>6, <2>2
<1>7. QED BY <1>4, <1>5, <1>6

\* A handler that pays nobody: it leaves the turn alone, gives it up, or begins
\* one with the choices that are pending.
Calm(r, s) ==
    /\ s.alive => r.alive
    /\ s.state = "LOBBY" => r.state = "LOBBY"
    /\ s.spectators \cap Members(r) \subseteq r.spectators
    /\ \/ s.turnDrawer = r.turnDrawer /\ s.guessOrder = r.guessOrder /\ s.pending = r.pending
       \/ s.turnDrawer = NoPlayer /\ s.guessOrder = <<>> /\ s.pending = r.pending
       \/ r.turnDrawer = NoPlayer /\ r.pending /\ s.turnDrawer # NoPlayer /\ s.guessOrder = <<>>

\* One that is quiet is calm.
LEMMA QuietlyIsCalm ==
    ASSUME NEW r, NEW s, Quietly(r, s)
    PROVE  Calm(r, s)
BY DEF Quietly, Still, Calm

\* A removal is quiet, with what follows it.
LEMMA RemovedQuietly ==
    ASSUME NEW r, RoomInv(r), NEW p \in Members(r), NEW h \in Players, NEW s,
           s \in {Removed(r, p), [Removed(r, p) EXCEPT !.host = h], Deleted(Removed(r, p))}
    PROVE  Quietly(r, s)
<1> DEFINE t == Removed(r, p)
<1>1. r \in Room BY DEF RoomInv, Seating
<1>2. t \in Room /\ t.alive = r.alive BY RemovedIs
<1>3. Still(r, t) /\ t.spectators = r.spectators \ {p}
  <2>1. /\ t.state = r.state /\ t.round = r.round /\ t.turnDrawer = r.turnDrawer
        /\ t.drawn = r.drawn /\ t.guessOrder = r.guessOrder /\ t.drawerIndex = r.drawerIndex
        /\ t.pending = r.pending /\ t.spectators = r.spectators \ {p}
    BY <1>1 DEF Removed, Room
  <2>2. QED BY <1>2, <2>1 DEF Still
<1>4. s = t \/ s = [t EXCEPT !.host = h] \/ s = Deleted(t) OBVIOUS
<1> HIDE DEF t
<1>5. Still(t, s) /\ s.spectators = t.spectators /\ (s.alive => t.alive)
  <2>1. CASE s = t BY <1>2, <2>1 DEF Still
  <2>2. CASE s = [t EXCEPT !.host = h] BY <1>2, <2>2 DEF Still, Room
  <2>3. CASE s = Deleted(t) BY <1>2, <2>3 DEF Still, Room, Deleted
  <2>4. QED BY <1>4, <2>1, <2>2, <2>3
<1>6. QED BY <1>2, <1>3, <1>5 DEF Quietly, Still

\* _permanently_remove_player.
LEMMA PermanentlyQuietly ==
    ASSUME NEW r, RoomInv(r), NEW p \in Members(r)
    PROVE  Quietly(r, PermanentlyRemove(r, p))
<1> DEFINE left == Removed(r, p)
           kept == ReassignHost(left, p)
           s == PermanentlyRemove(r, p)
<1>1. r.host \in Players BY DEF RoomInv, Seating, Room
<1>2. left \in Room /\ left.connected \subseteq Members(left)
  <2>1. left \in Room /\ Members(left) = Members(r) \ {p} /\ left.connected = r.connected \ {p}
    BY RemovedIs
  <2>2. QED BY <2>1 DEF RoomInv, Seating
<1>3. s = IF left.connected = {} THEN Deleted(left)
          ELSE IF InGame(kept) /\ Cardinality(kept.connected) < 2 THEN StartCountdown(kept) ELSE kept
  BY DEF PermanentlyRemove
<1>4. kept = IF left.host = p THEN [left EXCEPT !.host = NewHost(left)] ELSE left
  BY DEF ReassignHost
<1>5. CASE left.connected = {}
  <2>1. s = Deleted(left) BY <1>3, <1>5
  <2>2. QED BY <1>1, <2>1, RemovedQuietly
<1>6. CASE left.connected # {}
  <2>1. NewHost(left) \in Players
    <3> HIDE DEF left
    <3>1. NewHost(left) \in left.connected BY <1>2, <1>6, NewHostIs
    <3>2. QED BY <1>2, <3>1, MembersArePlayers
  <2>2. Quietly(r, kept)
    <3>1. kept \in {left, [left EXCEPT !.host = NewHost(left)], Deleted(left)} BY <1>4
    <3>2. QED BY <2>1, <3>1, RemovedQuietly
  <2>3. kept \in Room BY <2>2 DEF Quietly, Still
  <2> HIDE DEF kept
  <2>4. CASE s = kept BY <2>2, <2>4
  <2>5. CASE s = StartCountdown(kept)
    <3>1. Frame(kept, StartCountdown(kept)) BY <2>3, StartCountdownFrame
    <3>2. Still(kept, StartCountdown(kept)) BY <2>3, StartCountdownFrame DEF Still, Frame
    <3>3. QED BY <2>2, <2>5, <3>1, <3>2 DEF Quietly, Still, Frame
  <2>6. QED BY <1>3, <1>6, <2>4, <2>5
<1>7. QED BY <1>5, <1>6

\* Joins: the id is new, so it has not played.
LEMMA JoinQuietly ==
    ASSUME BooksInv, NEW p \in Players, NEW b \in BOOLEAN, Connect(p), room.alive,
           room' = Added(room, p, b) \/ room' = ResumeIfEnough(Added(room, p, b))
    PROVE  Quietly(room, room')
<1> DEFINE r == Added(room, p, b)
<1>1. RoomInv(room) /\ room \in Room BY DEF BooksInv, InductiveInv, RoomInv, Seating
<1>2. p \notin Members(room) \cup room.drawn BY DEF BooksInv, InductiveInv, Connect
<1>3. r \in Room BY <1>1, <1>2, AddedInv DEF RoomInv, Seating
<1>4. Still(room, r) /\ r.spectators \subseteq room.spectators \cup {p}
  <2>1. /\ r.state = room.state /\ r.round = room.round /\ r.turnDrawer = room.turnDrawer
        /\ r.drawn = room.drawn /\ r.guessOrder = room.guessOrder
        /\ r.drawerIndex = room.drawerIndex /\ r.pending = room.pending
        /\ r.spectators \subseteq room.spectators \cup {p}
    BY <1>1 DEF Added, Room
  <2>2. QED BY <1>3, <2>1 DEF Still
<1>5. room' = r \/ room' = ResumeIfEnough(r) OBVIOUS
<1> HIDE DEF r
<1>6. Still(r, room') /\ room'.spectators = r.spectators
  <2>1. CASE room' = r BY <1>3, <2>1 DEF Still
  <2>2. CASE room' = ResumeIfEnough(r)
    <3>1. room' = [r EXCEPT !.countdown = @ /\ Cardinality(r.connected) < 2]
      BY <2>2 DEF ResumeIfEnough
    <3>2. QED BY <1>3, <3>1 DEF Still, Room
  <2>3. QED BY <1>5, <2>1, <2>2
<1>7. QED BY <1>2, <1>4, <1>6 DEF Quietly, Still

\* handle_word_selection, by the drawer or by the server.
LEMMA BeginIsCalm ==
    ASSUME BooksInv, HasSeat(room), room.pending, room' = BeginTurn(room)
    PROVE  Calm(room, room')
<1>1. RoomInv(room) /\ room \in Room BY DEF BooksInv, InductiveInv, RoomInv, Seating
<1>2. room.turnDrawer = NoPlayer BY <1>1 DEF RoomInv, PhaseOf
<1>3. room'.turnDrawer = Seated(room) /\ Seated(room) \in Players BY <1>1, BeginTurnInv, SeatedIs
<1>4. /\ room'.guessOrder = <<>> /\ room'.state = "PLAYING" /\ room'.alive = room.alive
      /\ room'.spectators = room.spectators
  BY <1>1 DEF BeginTurn, Room
<1>5. QED BY <1>2, <1>3, <1>4, NoPlayerAssumption DEF Calm

\* Every other step of the room is calm.
LEMMA OtherIsCalm ==
    ASSUME BooksInv, OtherStep
    PROVE  Calm(room, room')
<1>1. /\ RoomInv(room) /\ room \in Room /\ Cleanups(room) \subseteq Members(room)
  BY DEF BooksInv, InductiveInv, RoomInv, Seating
<1>2. ASSUME NEW p \in Players, NEW b \in BOOLEAN, JoinRoom(p, b)
      PROVE  Calm(room, room')
  BY <1>2, JoinQuietly, QuietlyIsCalm DEF JoinRoom
<1>3. ASSUME NEW h \in Players, NEW p \in Players, NEW b \in BOOLEAN, RespondJoinRequest(h, p, b)
      PROVE  Calm(room, room')
  BY <1>3, JoinQuietly, QuietlyIsCalm DEF RespondJoinRequest, FromHost, Bound
<1>4. ASSUME NEW h \in Players, NEW p \in Players, RespondSpectatorRoleRequest(h, p)
      PROVE  Calm(room, room')
  BY <1>1, <1>4 DEF RespondSpectatorRoleRequest, Calm, Room
<1>5. ASSUME NEW p \in Players, SelectWord(p)
      PROVE  Calm(room, room')
  BY <1>5, BeginIsCalm DEF SelectWord, MaySelect
<1>6. ASSUME NEW p \in Players, EndGameNow(p)
      PROVE  Calm(room, room')
  <2>1. room' = [EndGameImmediately(room) EXCEPT !.countdown = FALSE] BY <1>6 DEF EndGameNow
  <2>2. QED BY <1>1, <2>1 DEF Calm, EndGameImmediately, Room
<1>7. ASSUME NEW p \in Players, NEW q \in Players, TransferHost(p, q)
      PROVE  Calm(room, room')
  BY <1>1, <1>7 DEF TransferHost, Calm, Room
<1>8. ASSUME NEW p \in Players, NEW q \in Players, KickPlayer(p, q)
      PROVE  Calm(room, room')
  BY <1>1, <1>8, RemovedQuietly, QuietlyIsCalm DEF KickPlayer
<1>9. ASSUME NEW p \in Players, LeaveRoom(p)
      PROVE  Calm(room, room')
  <2> DEFINE left == Removed(room, p)
  <2>1. p \in Members(room) BY <1>9 DEF LeaveRoom, Bound
  <2>2. room' = IF left.players = <<>> THEN Deleted(left)
                ELSE IF room.host = p THEN [left EXCEPT !.host = left.players[1]]
                ELSE left
    BY <1>9 DEF LeaveRoom
  <2>3. room.host \in Players /\ left \in Room BY <1>1, <2>1, RemovedIs DEF Room
  <2>4. left.players # <<>> => left.players[1] \in Players
    <3> HIDE DEF left
    <3>1. left.players \in Seq(Players) BY <2>3 DEF Room
    <3>2. QED BY <3>1
  <2>5. Quietly(room, room')
    <3>1. CASE left.players = <<>> BY <1>1, <2>1, <2>2, <2>3, <3>1, RemovedQuietly
    <3>2. CASE left.players # <<>> BY <1>1, <2>1, <2>2, <2>3, <2>4, <3>2, RemovedQuietly
    <3>3. QED BY <3>1, <3>2
  <2>6. QED BY <2>5, QuietlyIsCalm
<1>10. ASSUME NEW n \in Names, Reconnect(n)
       PROVE  Calm(room, room')
  BY <1>1, <1>10 DEF Reconnect, HandleReconnect, ResumeIfEnough, Calm, Room
<1>11. CASE AutoSelectFires
  <2>1. CASE room.state = "WORD_SELECTION" /\ MaySelect(room, room.autoSelect)
    BY <1>11, <2>1, BeginIsCalm DEF AutoSelectFires, MaySelect
  <2>2. CASE ~ (room.state = "WORD_SELECTION" /\ MaySelect(room, room.autoSelect))
    <3>1. room' = [room EXCEPT !.autoSelect = NoPlayer] BY <1>11, <2>2 DEF AutoSelectFires
    <3>2. QED BY <1>1, <3>1 DEF Calm, Room
  <2>3. QED BY <2>1, <2>2
<1>12. CASE CountdownFires
  <2> DEFINE r == [room EXCEPT !.countdown = FALSE]
  <2>1. room' = r \/ room' = EndGameImmediately(r) BY <1>12 DEF CountdownFires
  <2>2. QED BY <1>1, <2>1 DEF Calm, EndGameImmediately, Room
<1>13. ASSUME NEW p \in Players, CleanupFires(p)
       PROVE  Calm(room, room')
  <2>1. p \in Members(room) BY <1>1, <1>13 DEF CleanupFires, CleanupsDue, Cleanups
  <2>2. room' = PermanentlyRemove(room, p) BY <1>13 DEF CleanupFires
  <2>3. QED BY <1>1, <2>1, <2>2, PermanentlyQuietly, QuietlyIsCalm
<1>14. ASSUME NEW p \in Players, HostReassignFires(p)
       PROVE  Calm(room, room')
  <2> DEFINE r == [room EXCEPT !.hostTask = @ \ {p}]
  <2>1. \/ room' = r \/ room' = [r EXCEPT !.host = NewHost(r)] \/ room' = [r EXCEPT !.alive = FALSE]
    BY <1>14 DEF HostReassignFires, ReassignHostIfDisconnected, Deleted
  <2>2. r.alive = room.alive /\ room.alive BY <1>1, <1>14 DEF HostReassignFires, Room
  <2>3. QED BY <1>1, <2>1, <2>2 DEF Calm, Room
<1>15. QED
  BY <1>2, <1>3, <1>4, <1>5, <1>6, <1>7, <1>8, <1>9, <1>10, <1>11, <1>12, <1>13, <1>14
     DEF OtherStep

\* Such a step keeps the board fair.
LEMMA CalmKeeps ==
    ASSUME room \in Room, room' \in Room, ScoreInv, Calm(room, room'),
           board' = [p \in Players |-> IF p \in Members(room') THEN board[p] ELSE Fresh],
           times' = IF room'.turnDrawer = NoPlayer THEN <<>> ELSE times,
           started' = started, drops' \in 0..MaxDrops
    PROVE  ScoreInv'
<1>1. /\ board \in [Players -> Line] /\ started \in 0..MaxGames /\ Counting /\ WatchersScoreNothing
      /\ TurnBook /\ Strangers /\ LobbyIsEven
  BY DEF ScoreInv
<1>2. Fresh \in Line BY DEF Fresh, Line
<1>3. board' \in [Players -> Line] BY <1>1, <1>2
<1>4. ASSUME NEW p \in Players PROVE board'[p] = board[p] \/ board'[p] = Fresh OBVIOUS
<1>5. TurnBook'
  <2>1. <<>> \in Seq(Times) /\ DOMAIN <<>> = {} /\ Len(<<>>) = 0 OBVIOUS
  <2>2. CASE room'.turnDrawer = NoPlayer
    <3>1. times' = <<>> BY <2>2
    <3>2. room'.guessOrder = <<>> BY <1>1, <2>2 DEF Calm, TurnBook
    <3>3. QED BY <2>1, <3>1, <3>2 DEF TurnBook
  <2>3. CASE room'.turnDrawer # NoPlayer
    <3>1. times' = times BY <2>3
    <3>2. Len(times) = Len(room'.guessOrder)
      <4>1. CASE room'.guessOrder = room.guessOrder BY <1>1, <4>1 DEF TurnBook
      <4>2. CASE room.turnDrawer = NoPlayer /\ room'.guessOrder = <<>> BY <1>1, <4>2 DEF TurnBook
      <4>3. QED BY <2>3, <4>1, <4>2 DEF Calm
    <3>3. QED BY <1>1, <2>3, <3>1, <3>2 DEF TurnBook
  <2>4. QED BY <2>2, <2>3
<1>6. Strangers' BY DEF Strangers
<1>7. Counting'
  <2> SUFFICES ASSUME NEW p \in Players
               PROVE  /\ board'[p].wins <= board'[p].games /\ board'[p].games <= started
                      /\ Countable' => board'[p].games < started
    BY DEF Counting
  <2>1. Countable' => Countable BY DEF Countable, Calm
  <2>2. /\ board[p].wins <= board[p].games /\ board[p].games <= started
        /\ Countable => board[p].games < started
    BY <1>1 DEF Counting
  <2>3. CASE board'[p] = board[p] BY <2>1, <2>2, <2>3
  <2>4. CASE board'[p] = Fresh
    <3>1. board'[p].wins = 0 /\ board'[p].games = 0 BY <2>4 DEF Fresh
    <3>2. started \in Nat /\ board[p].games \in Nat BY <1>1, MatchAssumption DEF Line
    <3>3. Countable => started > 0 BY <2>2, <3>2
    <3>4. QED BY <2>1, <3>1, <3>2, <3>3
  <2>5. QED BY <1>4, <2>3, <2>4
<1>8. LobbyIsEven'
  <2> SUFFICES ASSUME room'.alive, room'.state = "LOBBY", NEW p \in Players
               PROVE  board'[p] = Rematched(board'[p])
    BY DEF LobbyIsEven, Rematched
  <2>1. room.alive /\ room.state = "LOBBY" BY DEF Calm
  <2>2. board[p] = Rematched(board[p]) BY <1>1, <2>1 DEF LobbyIsEven
  <2>3. Fresh = Rematched(Fresh) BY FreshIs
  <2>4. QED BY <1>4, <2>2, <2>3
<1>9. WatchersScoreNothing'
  <2> SUFFICES ASSUME room'.alive, NEW p \in Members(room') \cap room'.spectators
               PROVE  [board'[p] EXCEPT !.score = 0] = Fresh
    BY DEF WatchersScoreNothing
  <2>1. p \in Players BY MembersArePlayers
  <2>2. board'[p] = board[p] BY <2>1
  <2>3. [Fresh EXCEPT !.score = 0] = Fresh BY DEF Fresh
  <2>4. CASE p \in Members(room)
    <3>1. p \in Members(room) \cap room.spectators /\ room.alive BY <2>4 DEF Calm
    <3>2. QED BY <1>1, <2>2, <3>1 DEF WatchersScoreNothing
  <2>5. CASE p \notin Members(room) BY <1>1, <2>1, <2>2, <2>3, <2>5 DEF Strangers
  <2>6. QED BY <2>4, <2>5
<1>10. QED BY <1>1, <1>3, <1>5, <1>6, <1>7, <1>8, <1>9 DEF ScoreInv

\* A step that leaves the members, the board and the turn as they are, but may
\* start a game, file a guess or lose a player's connection.
LEMMA SameKeeps ==
    ASSUME room \in Room, ScoreInv, Members(room') = Members(room), board' = board, TurnBook',
           room'.alive => room.alive, room'.state = "LOBBY" => room.state = "LOBBY",
           room'.spectators \cap Members(room) \subseteq room.spectators,
           started' \in 0..MaxGames, drops' \in 0..MaxDrops,
           \/ started' = started /\ (Countable' => Countable)
           \/ started' = started + 1
    PROVE  ScoreInv'
<1>1. /\ board \in [Players -> Line] /\ started \in 0..MaxGames /\ Counting /\ WatchersScoreNothing
      /\ Strangers /\ LobbyIsEven
  BY DEF ScoreInv
<1>2. Strangers' BY <1>1 DEF Strangers
<1>3. Counting'
  <2> SUFFICES ASSUME NEW p \in Players
               PROVE  /\ board[p].wins <= board[p].games /\ board[p].games <= started'
                      /\ Countable' => board[p].games < started'
    BY DEF Counting
  <2>1. /\ board[p].wins <= board[p].games /\ board[p].games <= started
        /\ Countable => board[p].games < started
    BY <1>1 DEF Counting
  <2>2. started \in Nat /\ board[p].games \in Nat BY <1>1, MatchAssumption DEF Line
  <2>3. QED BY <2>1, <2>2
<1>4. LobbyIsEven' BY <1>1 DEF LobbyIsEven, Rematched
<1>5. WatchersScoreNothing' BY <1>1 DEF WatchersScoreNothing
<1>6. QED BY <1>1, <1>2, <1>3, <1>4, <1>5 DEF ScoreInv

\* handle_rematch.
LEMMA RematchKeeps ==
    ASSUME BooksInv, ScoreInv, NEW p \in Players, Rematch(p)
    PROVE  ScoreInv' /\ ~TurnEnds
<1>1. room \in Room /\ RoomInv(room) /\ room.state = "GAME_OVER" /\ HandleRematch(p)
  BY DEF BooksInv, InductiveInv, RoomInv, Seating, Rematch, HandleRematch
<1>2. /\ board' = [q \in Players |-> Rematched(board[q])] /\ times' = <<>>
      /\ started' = started /\ drops' = drops
  BY DEF Rematch
<1>3. /\ room'.players = room.players /\ room'.spectators = room.spectators
      /\ room'.alive = room.alive /\ room'.turnDrawer = NoPlayer /\ room'.guessOrder = <<>>
      /\ room'.pending = room.pending
  BY <1>1 DEF HandleRematch, Room
<1>4. ~TurnEnds BY <1>1 DEF TurnEnds, RoomInv, PhaseOf
<1>5. /\ board \in [Players -> Line] /\ started \in 0..MaxGames /\ drops \in 0..MaxDrops
      /\ Counting /\ WatchersScoreNothing /\ Strangers
  BY DEF ScoreInv
<1>6. ASSUME NEW q \in Players
      PROVE  /\ board'[q] \in Line /\ board'[q] = Rematched(board'[q])
             /\ board'[q].games = board[q].games /\ board'[q].wins = board[q].wins
             /\ board[q] = Fresh => board'[q] = Fresh
             /\ [board[q] EXCEPT !.score = 0] = Fresh => [board'[q] EXCEPT !.score = 0] = Fresh
  <2>1. board[q] \in Line /\ board'[q] = Rematched(board[q]) BY <1>2, <1>5
  <2>2. /\ board'[q] \in Line /\ board'[q].score = 0 /\ board'[q].streak = 0
        /\ board'[q].best = 0 /\ board'[q].hits = 0
        /\ board'[q].games = board[q].games /\ board'[q].wins = board[q].wins
    BY <2>1, LineIs
  <2>3. board'[q] = Rematched(board'[q]) BY <2>2, LineIs
  <2>4. board[q] = Fresh => board'[q] = Fresh BY <2>1, FreshIs
  <2>5. [board[q] EXCEPT !.score = 0] = Fresh => [board'[q] EXCEPT !.score = 0] = Fresh
    BY <2>1, <2>2, LineIs
  <2>6. QED BY <2>2, <2>3, <2>4, <2>5
<1>7. board' \in [Players -> Line] BY <1>2, <1>6
<1>8. Members(room') = Members(room) BY <1>3 DEF Members
<1>9. TurnBook'
  <2>1. <<>> \in Seq(Times) /\ DOMAIN <<>> = {} /\ Len(<<>>) = 0 OBVIOUS
  <2>2. QED BY <1>2, <1>3, <2>1 DEF TurnBook
<1>10. Strangers' BY <1>5, <1>6, <1>8 DEF Strangers
<1>11. Counting'
  <2>1. Countable' => Countable BY <1>3 DEF Countable
  <2>2. QED BY <1>2, <1>5, <1>6, <2>1 DEF Counting
<1>12. LobbyIsEven' BY <1>6 DEF LobbyIsEven, Rematched
<1>13. WatchersScoreNothing'
  <2>1. Members(room) \subseteq Players BY <1>1, MembersArePlayers
  <2>2. QED BY <1>3, <1>5, <1>6, <1>8, <2>1 DEF WatchersScoreNothing
<1>14. QED BY <1>2, <1>4, <1>5, <1>7, <1>9, <1>10, <1>11, <1>12, <1>13 DEF ScoreInv

\* start_game.
LEMMA GameStartsKeeps ==
    ASSUME BooksInv, ScoreInv, NEW p \in Players, GameStarts(p)
    PROVE  ScoreInv' /\ ~TurnEnds
<1>1. /\ StartGame(p) /\ started < MaxGames /\ started' = started + 1
      /\ board' = board /\ times' = times /\ drops' = drops
  BY DEF GameStarts
<1>2. room \in Room /\ RoomInv(room) /\ room.state = "LOBBY"
  BY <1>1 DEF BooksInv, InductiveInv, RoomInv, Seating, StartGame
<1>3. /\ room'.players = room.players /\ room'.spectators = room.spectators
      /\ room'.alive = room.alive /\ room'.turnDrawer = room.turnDrawer
      /\ room'.guessOrder = room.guessOrder /\ room'.state = "WORD_SELECTION"
  BY <1>1, <1>2 DEF StartGame, StartTurn, Room
<1>4. ~TurnEnds BY <1>3 DEF TurnEnds
<1>5. Members(room') = Members(room) BY <1>3 DEF Members
<1>6. TurnBook' BY <1>1, <1>3 DEF TurnBook, ScoreInv
<1>7. started' \in 0..MaxGames /\ drops' \in 0..MaxDrops BY <1>1, MatchAssumption DEF ScoreInv
<1>8. ScoreInv' BY <1>1, <1>2, <1>3, <1>5, <1>6, <1>7, SameKeeps
<1>9. QED BY <1>4, <1>8

\* A right guess keeps the board fair: it ends the turn or goes on file.
LEMMA GuessKeeps ==
    ASSUME BooksInv, ScoreInv, NEW p \in Players, NEW t \in Times, GuessAt(p, t)
    PROVE  ScoreInv'
<1> DEFINE h == Append(room.guessOrder, p)
           v == Append(times, t)
<1>1. room \in Room /\ RoomInv(room) BY DEF BooksInv, InductiveInv, RoomInv, Seating
<1>2. Filed(h, v) BY OneMoreFiled DEF GuessAt
<1>3. CASE EndsWith(h, v, FALSE)
  <2> HIDE DEF h, v
  <2>1. QED BY <1>1, <1>3, EndingKeeps DEF EndsWith, Filed
<1>4. CASE /\ room'.guessOrder = h /\ times' = v
           /\ room'.turnDrawer = room.turnDrawer /\ room'.pending = room.pending
           /\ room'.players = room.players /\ room'.spectators = room.spectators
           /\ room'.alive = room.alive /\ room'.state = "PLAYING" /\ room.turnDrawer # NoPlayer
           /\ board' = board /\ started' = started /\ drops' = drops
  <2> HIDE DEF h, v
  <2>1. TurnBook' BY <1>2, <1>4 DEF TurnBook, Filed, Timed
  <2>2. Members(room') = Members(room) BY <1>4 DEF Members
  <2>3. Countable' => Countable BY <1>4 DEF Countable
  <2>4. started' \in 0..MaxGames /\ drops' \in 0..MaxDrops BY <1>4 DEF ScoreInv
  <2>5. QED BY <1>1, <1>4, <2>1, <2>2, <2>3, <2>4, SameKeeps
<1>5. QED BY <1>3, <1>4, GuessIs

\* So does a player who drops out.
LEMMA DropKeeps ==
    ASSUME BooksInv, ScoreInv, NEW p \in Players, PlayerDrops(p)
    PROVE  ScoreInv'
<1>1. room \in Room BY DEF BooksInv, InductiveInv, RoomInv, Seating
<1>2. drops' \in 0..MaxDrops /\ started' = started BY PlayerDropsIs
<1>3. CASE EndsWith(room.guessOrder, times, p = room.turnDrawer)
  BY <1>1, <1>3, EndingKeeps DEF EndsWith, Filed
<1>4. CASE /\ Quietly(room, room') /\ Members(room') = Members(room)
           /\ board' = board /\ times' = times
  <2>1. TurnBook' BY <1>4 DEF TurnBook, Quietly, Still, ScoreInv
  <2>2. Countable' => Countable BY <1>4 DEF Countable, Quietly, Still
  <2>3. /\ (room'.alive => room.alive) /\ room'.state = room.state
        /\ room'.spectators \cap Members(room) \subseteq room.spectators
    BY <1>4 DEF Quietly, Still
  <2>4. started' \in 0..MaxGames BY <1>2 DEF ScoreInv
  <2>5. QED BY <1>1, <1>2, <1>4, <2>1, <2>2, <2>3, <2>4, SameKeeps
<1>5. QED BY <1>3, <1>4, PlayerDropsIs

\* Every step of a match is one of the room.
LEMMA MatchIsRoom ==
    ASSUME [MNext]_mvars
    PROVE  [Next]_vars
<1>1. ASSUME MNext PROVE Next
  <2>1. ASSUME NEW p \in Players, NEW t \in Times, GuessAt(p, t) PROVE Next
    BY <2>1 DEF GuessAt, Next, Clients
  <2>2. CASE TurnTimeUp BY <2>2 DEF TurnTimeUp, Next, Tasks
  <2>3. ASSUME NEW p \in Players, PlayerDrops(p) PROVE Next
    BY <2>3 DEF PlayerDrops, Next, Network
  <2>4. ASSUME NEW p \in Players, Rematch(p) PROVE Next
    BY <2>4 DEF Rematch, Next, Clients
  <2>5. ASSUME NEW p \in Players, GameStarts(p) PROVE Next
    BY <2>5 DEF GameStarts, Next, Clients
  <2>6. CASE OtherStep BY <2>6 DEF OtherStep, Next, Clients, Network, Tasks
  <2>7. QED BY <1>1, <2>1, <2>2, <2>3, <2>4, <2>5, <2>6 DEF MNext
<1>2. UNCHANGED mvars => UNCHANGED vars BY DEF mvars
<1>3. QED BY <1>1, <1>2

\* Every step of a match keeps the board fair.
LEMMA MatchStep ==
    ASSUME BooksInv, ScoreInv, [MNext]_mvars
    PROVE  BooksInv' /\ ScoreInv'
<1>1. BooksInv' BY MatchIsRoom, BooksStep
<1> SUFFICES ScoreInv' BY <1>1
<1>2. room \in Room /\ room' \in Room BY <1>1 DEF BooksInv, InductiveInv, RoomInv, Seating
<1>3. CASE TurnTimeUp
  BY <1>2, <1>3, TimeUpIs, EndingKeeps DEF EndsWith, Filed
<1>4. CASE OtherStep
  <2>1. Calm(room, room') BY <1>4, OtherIsCalm
  <2>2. drops' \in 0..MaxDrops BY <1>4 DEF OtherStep, ScoreInv
  <2>3. QED BY <1>2, <1>4, <2>1, <2>2, CalmKeeps DEF OtherStep
<1>5. CASE MNext
  BY <1>3, <1>4, <1>5, GuessKeeps, DropKeeps, RematchKeeps, GameStartsKeeps DEF MNext
<1>6. CASE UNCHANGED mvars
  BY <1>6 DEF mvars, vars, ScoreInv, TurnBook, Strangers, Counting, Countable, LobbyIsEven,
              WatchersScoreNothing
<1>7. QED BY <1>1, <1>5, <1>6

\* The board of a new room.
LEMMA InitMatch == MInit => BooksInv /\ ScoreInv
<1> SUFFICES ASSUME MInit PROVE BooksInv /\ ScoreInv OBVIOUS
<1>1. Init /\ board = [p \in Players |-> Fresh] /\ times = <<>> /\ started = 0 /\ drops = 0
  BY DEF MInit
<1>2. BooksInv BY <1>1, InitBooks
<1>3. room.turnDrawer = NoPlayer /\ room.guessOrder = <<>> /\ ~room.pending /\ room \in Room
  BY <1>1, <1>2 DEF Init, BooksInv, InductiveInv, RoomInv, Seating
<1>4. ASSUME NEW p \in Players PROVE board[p] = Fresh BY <1>1
<1>5. board \in [Players -> Line] BY <1>1, FreshIs
<1>6. started \in 0..MaxGames /\ drops \in 0..MaxDrops BY <1>1, MatchAssumption
<1>7. TurnBook
  <2>1. <<>> \in Seq(Times) /\ DOMAIN <<>> = {} OBVIOUS
  <2>2. QED BY <1>1, <1>3, <2>1 DEF TurnBook
<1>8. Strangers BY <1>4 DEF Strangers
<1>9. Counting
  <2>1. Fresh.wins = 0 /\ Fresh.games = 0 BY DEF Fresh
  <2>2. QED BY <1>1, <1>3, <1>4, <2>1 DEF Counting, Countable
<1>10. LobbyIsEven BY <1>4, FreshIs DEF LobbyIsEven
<1>11. WatchersScoreNothing
  <2>1. [Fresh EXCEPT !.score = 0] = Fresh BY DEF Fresh
  <2>2. Members(room) \subseteq Players BY <1>3, MembersArePlayers
  <2>3. QED BY <1>4, <2>1, <2>2 DEF WatchersScoreNothing
<1>12. QED BY <1>2, <1>5, <1>6, <1>7, <1>8, <1>9, <1>10, <1>11 DEF ScoreInv

\* The books of the room and those of the session, together, are inductive.
THEOREM MatchIsInductive == MSpec => [](BooksInv /\ ScoreInv)
<1> DEFINE I == BooksInv /\ ScoreInv
<1>1. MInit => I BY InitMatch
<1>2. I /\ [MNext]_mvars => I' BY MatchStep
<1> QED BY <1>1, <1>2, PTL DEF MSpec

\* However a game ends, the next one begins even; the session counts every game
\* at most once for a player, a win only in a counted game, and nothing for who
\* only watches.
THEOREM BoardAlwaysFair == MSpec => []BoardIsFair
<1>1. BooksInv /\ ScoreInv => BoardIsFair
  <2> SUFFICES ASSUME BooksInv, ScoreInv PROVE BoardIsFair OBVIOUS
  <2>1. TypeOK BY BooksTyped
  <2>2. MTypeOK BY <2>1 DEF MTypeOK, ScoreInv, TurnBook
  <2>3. CountedOnce BY DEF CountedOnce, ScoreInv, Counting
  <2>4. QED BY <2>2, <2>3 DEF BoardIsFair, ScoreInv
<1> QED BY <1>1, MatchIsInductive, PTL
-----------------------------------------------------------------------------
(* What the end of a turn pays.                                            *)

\* A set of numbers below a bound has a least and a greatest member.
LEMMA Extremes ==
    ASSUME NEW T \in SUBSET Nat, T # {}, NEW b \in Nat, \A y \in T : y <= b
    PROVE  /\ Min(T) \in T /\ Max(T) \in T
           /\ \A y \in T : Min(T) <= y /\ y <= Max(T)
<1>1. Min(T) \in T /\ \A y \in T : Min(T) <= y
  <2>1. \E x \in T : \A y \in T : x =< y BY LeastNat
  <2>2. QED BY <2>1 DEF Min
<1>2. Max(T) \in T /\ \A y \in T : y <= Max(T)
  <2> DEFINE U == {n \in Nat : \A y \in T : y <= n}
  <2>1. U \in SUBSET Nat /\ U # {} OBVIOUS
  <2>2. PICK n \in U : \A m \in U : n <= m BY <2>1, LeastNat
  <2>3. n \in T
    <3> SUFFICES ASSUME n \notin T PROVE FALSE OBVIOUS
    <3>1. ASSUME NEW y \in T PROVE y <= n /\ y # n /\ y \in Nat /\ n \in Nat BY <2>2
    <3>2. \A y \in T : y < n BY <3>1
    <3>3. PICK z \in T : TRUE OBVIOUS
    <3>4. n \in Nat /\ z \in Nat /\ z < n BY <2>2, <3>2, <3>3
    <3>5. n - 1 \in Nat /\ \A y \in T : y <= n - 1 BY <3>2, <3>4
    <3>6. n <= n - 1 BY <2>2, <3>5
    <3>7. QED BY <3>4, <3>6
  <2>4. \A y \in T : n >= y BY <2>2
  <2>5. \E x \in T : \A y \in T : x >= y BY <2>3, <2>4
  <2>6. Max(T) \in T /\ \A y \in T : Max(T) >= y BY <2>5 DEF Max
  <2>7. QED BY <2>6
<1>3. QED BY <1>1, <1>2

\* What a player of the room gains when the turn ends.
LEMMA EndsPay ==
    ASSUME room \in Room, ScoreInv, NEW order, NEW at, NEW ab, EndsWith(order, at, ab),
           NEW p \in Members(room)
    PROVE  /\ Gain(p) \in Nat
           /\ ab => Gain(p) = 0
           /\ ~ab => Earns(order, at, room.turnDrawer, Members(room), p, Gain(p))
<1>1. p \in Players /\ board[p] \in Line BY MembersArePlayers DEF ScoreInv
<1>2. Timed(order, at) /\ Single(order) /\ board' = Settled(order, at, ab) BY DEF EndsWith, Filed
<1>3. PICK x \in Nat : /\ board'[p].score = board[p].score + x
                       /\ ab => x = 0
                       /\ ~ab => Earns(order, at, room.turnDrawer, Members(room), p, x)
  BY <1>1, <1>2, SettledIs
<1>4. Gain(p) = x BY <1>1, <1>3 DEF Gain, Line
<1>5. QED BY <1>3, <1>4

\* The guesses a turn ends with continue those on file.
Continues(order, g) ==
    \A i \in DOMAIN g : i \in DOMAIN order /\ order[i] = g[i]

\* Of two guessers the earlier one gains at least as much.
LEMMA EndsInOrder ==
    ASSUME room \in Room, ScoreInv, NEW order, NEW at, EndsWith(order, at, FALSE),
           room.guessOrder \in Seq(Players), Continues(order, room.guessOrder)
    PROVE  OrderPays
<1> DEFINE g == room.guessOrder
           d == room.turnDrawer
           M == Members(room)
<1>1. Members(room') = M BY DEF EndsWith, Ended, Members
<1> SUFFICES ASSUME NEW p \in M \ {d}, NEW q \in M \ {d}, GuessedBefore(p, q)
             PROVE  Gain(p) >= Gain(q)
  BY <1>1 DEF OrderPays
<1>2. /\ Timed(order, at) /\ Single(order) /\ \A i, j \in DOMAIN at : i <= j => at[i] <= at[j]
  BY DEF EndsWith, Filed
<1>3. /\ Gain(p) \in Nat /\ Earns(order, at, d, M, p, Gain(p))
      /\ Gain(q) \in Nat /\ Earns(order, at, d, M, q, Gain(q))
  BY EndsPay
<1>4. PICK i \in DOMAIN g :
          g[i] = p /\ (q \in {g[j] : j \in (i + 1)..Len(g)} \/ q \notin ToSet(g))
  BY DEF GuessedBefore
<1>5. i \in DOMAIN order /\ order[i] = p BY <1>4 DEF Continues
<1>6. Gain(p) = GuesserScore(at[i], i) BY <1>3, <1>5 DEF Earns
<1>7. CASE q \notin ToSet(order)
  <2>1. Gain(q) = 0 BY <1>3, <1>7 DEF Earns
  <2>2. QED BY <1>3, <2>1
<1>8. CASE q \in ToSet(order)
  <2>1. PICK j \in DOMAIN order : order[j] = q BY <1>8 DEF ToSet
  <2>2. i < j
    <3>1. DOMAIN g = 1..Len(g) /\ Len(g) \in Nat OBVIOUS
    <3>2. CASE q \in {g[k] : k \in (i + 1)..Len(g)}
      <4>1. PICK k \in (i + 1)..Len(g) : g[k] = q BY <3>2
      <4>2. k \in DOMAIN g /\ i < k BY <3>1, <4>1
      <4>3. k \in DOMAIN order /\ order[k] = q BY <4>1, <4>2 DEF Continues
      <4>4. k = j BY <1>2, <2>1, <4>3 DEF Single
      <4>5. QED BY <4>2, <4>4
    <3>3. CASE q \notin ToSet(g)
      <4>1. j \notin DOMAIN g
        <5>1. j \in DOMAIN g => g[j] = q BY <2>1 DEF Continues
        <5>2. QED BY <3>3, <5>1 DEF ToSet
      <4>2. j \in Nat \ {0} BY <1>2, <2>1, TimedIs
      <4>3. QED BY <3>1, <4>1, <4>2
    <3>4. QED BY <1>4, <3>2, <3>3
  <2>3. Gain(q) = GuesserScore(at[j], j) BY <1>3, <2>1 DEF Earns
  <2>4. /\ i \in Nat \ {0} /\ i \in DOMAIN at /\ at[i] \in 0..Duration
        /\ j \in Nat \ {0} /\ j \in DOMAIN at /\ at[j] \in 0..Duration
    BY <1>2, <1>5, <2>1, TimedIs
  <2>5. i <= j BY <2>2, <2>4
  <2>6. at[i] <= at[j] BY <1>2, <2>4, <2>5
  <2>7. GuesserScore(at[j], j) <= GuesserScore(at[i], i) BY <2>4, <2>5, <2>6, GuesserScoreIs
  <2>8. QED BY <1>3, <1>6, <2>3, <2>7
<1>9. QED BY <1>7, <1>8

\* The drawer gains between the least and the most that a guesser gains.
LEMMA EndsShared ==
    ASSUME room \in Room, ScoreInv, NEW order, NEW at, EndsWith(order, at, FALSE)
    PROVE  DrawerShares
<1> DEFINE d == room.turnDrawer
           M == Members(room)
           paid == {Gain(p) : p \in M \ {d}} \ {0}
           P == Paid(order, M)
           top == GuesserScore(0, 1)
<1>1. Members(room') = M BY DEF EndsWith, Ended, Members
<1> SUFFICES ASSUME d \in M
             PROVE  IF paid = {} THEN Gain(d) = 0
                    ELSE Min(paid) <= Gain(d) /\ Gain(d) <= Max(paid)
  BY <1>1 DEF DrawerShares
<1>2. Timed(order, at) /\ Single(order) /\ d \notin ToSet(order) BY DEF EndsWith, Filed
<1>3. ASSUME NEW p \in M PROVE Gain(p) \in Nat /\ Earns(order, at, d, M, p, Gain(p)) BY <1>3, EndsPay
<1>4. ASSUME NEW i \in P PROVE GuesserScore(at[i], i) \in paid
  <2>1. i \in DOMAIN order /\ order[i] \in M BY <1>4 DEF Paid
  <2>2. order[i] # d BY <1>2, <2>1 DEF ToSet
  <2>3. Gain(order[i]) = GuesserScore(at[i], i) BY <1>3, <2>1, <2>2 DEF Earns
  <2>4. GuesserScore(at[i], i) \in Nat /\ 0 < GuesserScore(at[i], i) BY <1>2, <2>1, TimedIs
  <2>5. QED BY <2>1, <2>2, <2>3, <2>4
<1>5. ASSUME NEW y \in paid PROVE \E i \in P : y = GuesserScore(at[i], i)
  <2>1. PICK p \in M \ {d} : y = Gain(p) BY <1>5
  <2>2. y # 0 BY <1>5
  <2>3. p \in ToSet(order) BY <1>3, <2>1, <2>2 DEF Earns
  <2>4. PICK i \in DOMAIN order : order[i] = p BY <2>3 DEF ToSet
  <2>5. Gain(p) = GuesserScore(at[i], i) BY <1>3, <2>1, <2>4 DEF Earns
  <2>6. i \in P BY <2>1, <2>4 DEF Paid
  <2>7. QED BY <2>1, <2>5, <2>6
<1>6. top \in Nat /\ Ranging(order, at, M, 0, top) BY <1>2, RangingAll
<1>7. Gain(d) = DrawerBonus(Collected(order, at, M), Cardinality(P)) BY <1>3 DEF Earns
<1>8. paid \in SUBSET Nat BY <1>3
<1> HIDE DEF paid, top
<1>9. CASE paid = {}
  <2>1. P = {} BY <1>4, <1>9
  <2>2. 0 \in Nat OBVIOUS
  <2>3. Gain(d) = 0 BY <1>2, <1>6, <1>7, <2>1, <2>2, BonusIs
  <2>4. QED BY <1>9, <2>3
<1>10. CASE paid # {}
  <2>1. ASSUME NEW y \in paid PROVE y <= top
    <3>1. PICK i \in P : y = GuesserScore(at[i], i) BY <1>5, <2>1
    <3>2. QED BY <1>6, <3>1 DEF Ranging
  <2>2. /\ Min(paid) \in paid /\ Max(paid) \in paid
        /\ \A y \in paid : Min(paid) <= y /\ y <= Max(paid)
    BY <1>6, <1>8, <1>10, <2>1, Extremes
  <2>3. Min(paid) \in Nat /\ Max(paid) \in Nat BY <1>8, <2>2
  <2>4. Ranging(order, at, M, Min(paid), Max(paid)) BY <1>4, <2>2 DEF Ranging
  <2>5. P # {} BY <1>5, <1>10
  <2>6. Min(paid) <= Gain(d) /\ Gain(d) <= Max(paid) BY <1>2, <1>7, <2>3, <2>4, <2>5, BonusIs
  <2>7. QED BY <1>10, <2>6
<1>11. QED BY <1>9, <1>10

\* A step in which nobody gains is fair.
LEMMA NothingIsFair ==
    ASSUME \A p \in Members(room') : Gain(p) = 0
    PROVE  OrderPays /\ DrawerShares
<1>1. OrderPays
  <2> SUFFICES ASSUME NEW p \in Members(room'), NEW q \in Members(room') PROVE Gain(p) >= Gain(q)
    BY DEF OrderPays
  <2>1. Gain(p) = 0 /\ Gain(q) = 0 OBVIOUS
  <2>2. QED BY <2>1
<1>2. DrawerShares
  <2> DEFINE d == room.turnDrawer
             paid == {Gain(p) : p \in Members(room') \ {d}} \ {0}
  <2> SUFFICES ASSUME d \in Members(room')
               PROVE  IF paid = {} THEN Gain(d) = 0
                      ELSE Min(paid) <= Gain(d) /\ Gain(d) <= Max(paid)
    BY DEF DrawerShares
  <2>1. paid = {} OBVIOUS
  <2>2. Gain(d) = 0 OBVIOUS
  <2>3. QED BY <2>1, <2>2
<1>3. QED BY <1>1, <1>2

\* However the turn ends, it pays fairly.
LEMMA EndsFairly ==
    ASSUME room \in Room, ScoreInv, NEW order, NEW at, NEW ab \in BOOLEAN, EndsWith(order, at, ab),
           Continues(order, room.guessOrder)
    PROVE  OrderPays /\ DrawerShares
<1>1. CASE ab = FALSE
  <2>1. EndsWith(order, at, FALSE) BY <1>1
  <2>2. room.guessOrder \in Seq(Players) BY DEF Room
  <2>3. QED BY <2>1, <2>2, EndsInOrder, EndsShared
<1>2. CASE ab = TRUE
  <2>1. Members(room') = Members(room) BY DEF EndsWith, Ended, Members
  <2>2. \A p \in Members(room') : Gain(p) = 0 BY <1>2, <2>1, EndsPay
  <2>3. QED BY <2>2, NothingIsFair
<1>3. QED BY <1>1, <1>2

\* Every step that ends a turn pays fairly.
LEMMA PayStep ==
    ASSUME BooksInv, ScoreInv, MNext, TurnEnds
    PROVE  OrderPays /\ DrawerShares
<1>1. BooksInv' BY MatchIsRoom, BooksStep
<1>2. room \in Room /\ room' \in Room /\ room.guessOrder \in Seq(Players)
  BY <1>1 DEF BooksInv, InductiveInv, RoomInv, Seating, Room
<1>3. Continues(room.guessOrder, room.guessOrder) BY DEF Continues
<1>4. ASSUME NEW p \in Players, NEW t \in Times, GuessAt(p, t)
      PROVE  OrderPays /\ DrawerShares
  <2>1. EndsWith(Append(room.guessOrder, p), Append(times, t), FALSE) BY <1>4, GuessIs DEF TurnEnds
  <2>2. Continues(Append(room.guessOrder, p), room.guessOrder) BY <1>2, <1>4 DEF Continues
  <2>3. QED BY <1>2, <2>1, <2>2, EndsFairly
<1>5. CASE TurnTimeUp BY <1>2, <1>3, <1>5, TimeUpIs, EndsFairly
<1>6. ASSUME NEW p \in Players, PlayerDrops(p)
      PROVE  OrderPays /\ DrawerShares
  <2> DEFINE ab == p = room.turnDrawer
  <2>1. EndsWith(room.guessOrder, times, ab)
    BY <1>6, PlayerDropsIs DEF TurnEnds, Quietly, Still
  <2>2. ab \in BOOLEAN OBVIOUS
  <2> HIDE DEF ab
  <2>3. QED BY <1>2, <1>3, <2>1, <2>2, EndsFairly
<1>7. ASSUME NEW p \in Players, Rematch(p) \/ GameStarts(p)
      PROVE  OrderPays /\ DrawerShares
  BY <1>7, RematchKeeps, GameStartsKeeps
<1>8. CASE OtherStep
  <2>1. ASSUME NEW p \in Members(room') PROVE Gain(p) = 0
    <3>1. p \in Players /\ board[p] \in Line BY <1>2, <2>1, MembersArePlayers DEF ScoreInv
    <3>2. board'[p] = board[p] BY <1>8, <2>1, <3>1 DEF OtherStep
    <3>3. QED BY <3>1, <3>2 DEF Gain, Line
  <2>2. QED BY <2>1, NothingIsFair
<1>9. QED BY <1>4, <1>5, <1>6, <1>7, <1>8 DEF MNext

\* Whichever step ends a turn, the earlier of two guessers still in the room
\* never gets less, and the drawer never more than the best nor less than the
\* worst paid guesser.
THEOREM TurnsPayFairly == MSpec => TurnPaysFairly
<1>1. BooksInv /\ ScoreInv /\ [MNext]_mvars => [TurnEnds => OrderPays /\ DrawerShares]_mvars
  BY PayStep
<1> QED BY <1>1, MatchIsInductive, PTL DEF MSpec, TurnPaysFairly
=============================================================================
