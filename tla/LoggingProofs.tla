---------------------------- MODULE LoggingProofs ----------------------------
(***************************************************************************)
(* Proofs about LogFilters, for every limit of the counters, any           *)
(* statements, texts and command lines, any alphabet and suffixes, and any *)
(* number of hits and calls, and about LogConfiguration, for any levels,   *)
(* ids and files, whichever of them cannot be opened, and any number of    *)
(* calls.  Spec is that of LogFilters, ConfSpec that of LogConfiguration.  *)
(***************************************************************************)
EXTENDS LogFilters, LogConfiguration, FiniteSetTheorems, SequenceTheorems, WellFoundedInduction, TLAPS

(* Statements that count their hits *)

\* What is divided and with remainder is determined by both.
LEMMA Quotient ==
  ASSUME NEW h \in Nat, NEW n \in Nat \ {0}, NEW q \in Nat, NEW r \in 0..n-1, h = n * q + r
  PROVE  h \div n = q /\ h % n = r
  <1>1. h \div n \in Int /\ h % n \in 0..n-1 /\ h = n * (h \div n) + (h % n)
    OBVIOUS
  <1>2. ASSUME NEW a \in Int, NEW b \in Int, NEW s \in 0..n-1, NEW t \in 0..n-1,
               n * a + s = n * b + t, a < b
        PROVE  FALSE
    <2>1. n * (b - a) = s - t
      BY <1>2
    <2>2. n * (b - a) >= n
      BY <1>2
    <2> QED
      BY <1>2, <2>1, <2>2
  <1>3. ~(h \div n < q) /\ ~(q < h \div n)
    BY <1>1, <1>2
  <1>4. h \div n = q
    BY <1>1, <1>3
  <1> QED
    BY <1>1, <1>4

\* Dividing the next number: the remainder goes up by one, or back to zero.
LEMMA NextQuotient ==
  ASSUME NEW h \in Nat, NEW n \in Nat \ {0}
  PROVE  IF h % n = n - 1
         THEN (h + 1) % n = 0 /\ (h + 1) \div n = h \div n + 1
         ELSE (h + 1) % n = (h % n) + 1 /\ (h + 1) \div n = h \div n
  <1> DEFINE q == h \div n
             r == h % n
  <1>1. q \in Nat /\ r \in 0..n-1 /\ h = n * q + r
    OBVIOUS
  <1> HIDE DEF q, r
  <1>2. CASE r = n - 1
    <2>1. h + 1 = n * (q + 1) + 0
      BY <1>1, <1>2
    <2>2. (h + 1) \div n = q + 1 /\ (h + 1) % n = 0
      BY ONLY <1>1, <2>1, h + 1 \in Nat, q + 1 \in Nat, 0 \in 0..n-1, Quotient
    <2> QED
      BY <1>2, <2>2 DEF q, r
  <1>3. CASE r # n - 1
    <2>1. h + 1 = n * q + (r + 1) /\ r + 1 \in 0..n-1
      BY <1>1, <1>3
    <2>2. (h + 1) \div n = q /\ (h + 1) % n = r + 1
      BY ONLY <1>1, <2>1, h + 1 \in Nat, Quotient
    <2> QED
      BY <1>3, <2>2 DEF q, r
  <1> QED
    BY <1>2, <1>3

LEMMA QuotientGrows ==
  ASSUME NEW h \in Nat, NEW n \in Nat \ {0}
  PROVE  (h + 1) \div n = IF (h + 1) % n = 0 THEN (h \div n) + 1 ELSE h \div n
  <1>1. h % n \in 0..n-1
    OBVIOUS
  <1>2. IF h % n = n - 1
        THEN (h + 1) % n = 0 /\ (h + 1) \div n = (h \div n) + 1
        ELSE (h + 1) % n = (h % n) + 1 /\ (h + 1) \div n = h \div n
    BY NextQuotient
  <1> QED
    BY <1>1, <1>2

LEMMA SmallQuotient ==
  ASSUME NEW h \in Nat, NEW n \in Nat, h < n
  PROVE  h % n = h /\ h \div n = 0
  <1>1. h = n * 0 + h
    OBVIOUS
  <1> QED
    BY <1>1, Quotient

\* What the counter holds: it stops at n, or counts all hits, or follows the hits
\* modulo n, and does so across its reset as long as n is within the limit.
Counting ==
  LET n == statement.n
      max == MaxLogPerCounter
  IN
  /\ statement \in Statements /\ hits \in Nat
  /\ statement.kind = "after" =>
       count = (IF hits < n THEN hits ELSE n) /\ logged = Over(hits, n)
  /\ statement.kind = "times" => count = hits /\ logged = hits - Over(hits, n)
  /\ statement.kind = "every" =>
       IF n = 0 \/ n > max + 1 THEN count \in 0..max + 1 /\ logged = 0
       ELSE IF n = max + 1
       THEN count = (IF hits <= max THEN hits ELSE max + 1) /\ logged = Over(hits, max)
       ELSE count \in 0..max /\ count % n = hits % n /\ logged = hits \div n

LEMMA CountingIsOccasional == Counting => Occasional
  BY FiltersAssumption DEF Counting, Occasional, Kind

LEMMA InitCounting == Init => Counting
  <1> SUFFICES ASSUME Init PROVE Counting
    OBVIOUS
  <1>1. statement \in Statements /\ statement.n \in Nat /\ MaxLogPerCounter \in Nat
    BY FiltersAssumption DEF Init
  <1>2. count = 0 /\ hits = 0 /\ logged = 0
    BY DEF Init
  <1>3. statement.n # 0 => 0 % statement.n = 0 /\ 0 \div statement.n = 0
    BY <1>1, SmallQuotient
  <1> QED
    BY <1>1, <1>2, <1>3 DEF Counting, Over

\* A hit of a statement that counts modulo n, at the reset of the counter and not.
LEMMA SameRemainder ==
  ASSUME NEW g \in Nat, NEW h \in Nat, NEW n \in Nat \ {0}, g % n = h % n
  PROVE  (g + 1) % n = (h + 1) % n
  <1>1. IF g % n = n - 1 THEN (g + 1) % n = 0 ELSE (g + 1) % n = (g % n) + 1
    BY NextQuotient
  <1>2. IF h % n = n - 1 THEN (h + 1) % n = 0 ELSE (h + 1) % n = (h % n) + 1
    BY NextQuotient
  <1> QED
    BY <1>1, <1>2

LEMMA EveryCounts ==
  ASSUME NEW n \in 1..MaxLogPerCounter, NEW c \in 0..MaxLogPerCounter,
         NEW h \in Nat, c % n = h % n
  PROVE  /\ ValidateHitCounts(c, n) \in 1..MaxLogPerCounter
         /\ ValidateHitCounts(c, n) % n = (h + 1) % n
  <1>1. MaxLogPerCounter \in Nat
    BY FiltersAssumption
  <1>2. CASE c < MaxLogPerCounter
    <2>1. ValidateHitCounts(c, n) = c + 1
      BY <1>1, <1>2 DEF ValidateHitCounts
    <2>2. c \in Nat /\ n \in Nat \ {0} /\ c % n = h % n
      BY <1>1
    <2>3. (c + 1) % n = (h + 1) % n
      BY ONLY <2>2, h \in Nat, SameRemainder
    <2> QED
      BY <1>1, <1>2, <2>1, <2>3
  <1>3. CASE c = MaxLogPerCounter
    <2> DEFINE r == MaxLogPerCounter % n
    <2>1. r \in 0..n-1 /\ r = h % n /\ n \in Nat \ {0}
      BY <1>1, <1>3
    <2>2. ValidateHitCounts(c, n) = r + 1
      BY <1>1, <1>3 DEF ValidateHitCounts
    <2> HIDE DEF r
    <2>3. r % n = r
      BY <2>1, SmallQuotient
    <2>4. (r + 1) % n = (h + 1) % n
      BY ONLY <2>1, <2>3, h \in Nat, r \in Nat, SameRemainder
    <2> QED
      BY <1>1, <2>1, <2>2, <2>4
  <1> QED
    BY <1>1, <1>2, <1>3

LEMMA ReachCounts == Counting /\ Reach => Counting'
  <1> SUFFICES ASSUME Counting, Reach PROVE Counting'
    OBVIOUS
  <1> DEFINE n == statement.n
             max == MaxLogPerCounter
             v == Validated(statement.kind, count, n)
             d == ValidateHitCounts(count, n)
  <1>1. /\ n \in Nat /\ max \in Nat /\ hits \in Nat
        /\ statement \in Statements /\ statement.kind \in Kind
    BY FiltersAssumption DEF Counting
  <1>2. /\ count' = v.count /\ hits' = hits + 1 /\ statement' = statement
        /\ logged' = IF v.result THEN logged + 1 ELSE logged
    BY DEF Reach
  <1>3. CASE statement.kind = "after"
    <2>1. count = (IF hits < n THEN hits ELSE n) /\ logged = Over(hits, n)
      BY <1>3 DEF Counting
    <2>2. v = IF count >= n THEN [count |-> count, result |-> TRUE]
              ELSE [count |-> count + 1, result |-> FALSE]
      BY <1>3 DEF Validated
    <2> HIDE DEF v
    <2>3. count' = (IF hits' < n THEN hits' ELSE n) /\ logged' = Over(hits', n)
      BY <1>1, <1>2, <2>1, <2>2 DEF Over
    <2> QED
      BY <1>1, <1>2, <1>3, <2>3 DEF Counting
  <1>4. CASE statement.kind = "times"
    <2>1. count = hits /\ logged = hits - Over(hits, n)
      BY <1>4 DEF Counting
    <2>2. v.count = count + 1 /\ (v.result <=> count + 1 <= n)
      BY <1>4 DEF Validated
    <2> HIDE DEF v
    <2>3. count' = hits' /\ logged' = hits' - Over(hits', n)
      BY <1>1, <1>2, <2>1, <2>2 DEF Over
    <2> QED
      BY <1>1, <1>2, <1>4, <2>3 DEF Counting
  <1>5. CASE statement.kind = "every"
    <2>1. v.count = d /\ (v.result <=> n >= 1 /\ d % n = 0)
      BY <1>5 DEF Validated
    <2> HIDE DEF v
    <2>2. n > max => max % n = max
      BY <1>1, SmallQuotient
    <2>3. CASE n \in 1..max
      <3>1. count \in 0..max /\ count % n = hits % n /\ logged = hits \div n
        BY <1>1, <1>5, <2>3 DEF Counting
      <3>2. d \in 1..max /\ d % n = (hits + 1) % n
        BY <1>1, <2>3, <3>1, EveryCounts
      <3>3. (hits + 1) \div n = IF (hits + 1) % n = 0 THEN (hits \div n) + 1 ELSE hits \div n
        <4>1. n \in Nat \ {0} /\ hits % n \in 0..n-1
          BY <1>1, <2>3
        <4> HIDE DEF n
        <4> QED
          BY ONLY <1>1, <4>1, QuotientGrows
      <3> HIDE DEF d, n
      <3>4. count' \in 0..max /\ count' % n = hits' % n /\ logged' = hits' \div n
        BY <1>1, <1>2, <2>1, <2>3, <3>1, <3>2, <3>3
      <3> QED
        BY <1>1, <1>2, <1>5, <2>3, <3>4 DEF Counting, n
    <2>4. CASE n = max + 1
      <3>1. count = (IF hits <= max THEN hits ELSE max + 1) /\ logged = Over(hits, max)
        BY <1>1, <1>5, <2>4 DEF Counting
      <3>2. d = IF hits >= max THEN max + 1 ELSE hits + 1
        BY <1>1, <2>2, <2>4, <3>1 DEF ValidateHitCounts
      <3> HIDE DEF d
      <3>3. d % n = 0 <=> hits >= max
        <4>1. n % n = 0
          BY <1>1, <2>4, n = n * 1 + 0, Quotient
        <4>2. hits < max => (hits + 1) % n = hits + 1
          BY <1>1, <2>4, SmallQuotient
        <4> QED
          BY <1>1, <2>4, <3>2, <4>1, <4>2
      <3> HIDE DEF n
      <3>4. count' = (IF hits' <= max THEN hits' ELSE max + 1) /\ logged' = Over(hits', max)
        BY <1>1, <1>2, <2>1, <2>4, <3>1, <3>2, <3>3 DEF Over
      <3> QED
        BY <1>1, <1>2, <1>5, <2>4, <3>4 DEF Counting, n
    <2>5. CASE n = 0 \/ n > max + 1
      <3>1. count \in 0..max + 1 /\ logged = 0
        BY <1>1, <1>5, <2>5 DEF Counting
      <3>2. d \in 1..max + 1
        BY <1>1, <2>2, <2>5, <3>1 DEF ValidateHitCounts
      <3> HIDE DEF d
      <3>3. n # 0 => d % n # 0
        BY <1>1, <2>5, <3>2, SmallQuotient
      <3>4. count' \in 0..max + 1 /\ logged' = 0
        BY <1>1, <1>2, <2>1, <3>1, <3>2, <3>3
      <3> QED
        BY <1>1, <1>2, <1>5, <2>5, <3>4 DEF Counting
    <2> QED
      BY <1>1, <2>3, <2>4, <2>5
  <1> QED
    BY <1>1, <1>3, <1>4, <1>5 DEF Kind

LEMMA NextCounting == Counting /\ [Next]_vars => Counting'
  <1> SUFFICES ASSUME Counting, [Next]_vars PROVE Counting'
    OBVIOUS
  <1>1. CASE Reach
    BY <1>1, ReachCounts
  <1>2. CASE UNCHANGED counter
    BY <1>2 DEF Counting, counter
  <1>3. Reach \/ UNCHANGED counter
    BY DEF Next, vars, Call, SetVerboseLevel, SetVModules, ClearVModules, ChangeFlag,
           SetFromArgs
  <1> QED
    BY <1>1, <1>2, <1>3

\* LOG_EVERY_N, LOG_AFTER_N and LOG_N_TIMES come through as often as their names say,
\* for every n, every limit of the counter and any number of hits, apart from the two
\* cases of an n above the limit.
THEOREM ComesThrough == Spec => []Occasional
  BY InitCounting, NextCounting, CountingIsOccasional, PTL DEF Spec
-----------------------------------------------------------------------------
(* Numbers and recursions *)

\* Some numbers have a lowest.
LEMMA Lowest ==
  ASSUME NEW T, T \subseteq Nat, T # {}
  PROVE  \E l \in T : \A m \in T : l <= m
  <1> DEFINE R == OpToRel(<, Nat)
  <1>1. IsWellFoundedOn(R, Nat)
    BY NatLessThanWellFounded
  <1>2. \A x, y \in Nat : x < y => <<x, y>> \in R
    BY DEF OpToRel
  <1> HIDE DEF R
  <1>3. PICK l \in T : \A m \in T : <<m, l>> \notin R
    BY <1>1, WFMin
  <1>4. \A m \in T : ~(m < l)
    BY <1>2, <1>3
  <1> QED
    BY <1>4

\* Induction over the members of a set
LEMMA Induct ==
  ASSUME NEW T, 0 \in T, \A n \in Nat : n \in T => n + 1 \in T
  PROVE  \A n \in Nat : n \in T
  <1> DEFINE N == Nat \ T
  <1>1. ASSUME N # {} PROVE FALSE
    <2>1. PICK n \in N : \A m \in N : n <= m
      BY <1>1, Lowest
    <2>2. n \in Nat /\ n # 0 /\ n \notin T
      OBVIOUS
    <2>3. n - 1 \in Nat /\ n - 1 \notin N
      BY <2>1, <2>2
    <2> QED
      BY <2>2, <2>3
  <1> QED
    BY <1>1

\* A recursion over the first n numbers, with values in S, has a solution.
Stepwise(step, n, S) == \A k \in 1..n : \A x \in S : step[k][x] \in S
Solves(f, n, S, a, step) ==
  /\ f = [k \in 0..n |-> f[k]] /\ f[0] = a
  /\ \A k \in 1..n : f[k] = step[k][f[k - 1]]
  /\ \A k \in 0..n : f[k] \in S

LEMMA Recursion ==
  ASSUME NEW n \in Nat, NEW S, NEW a \in S, NEW step, Stepwise(step, n, S)
  PROVE  \E f : Solves(f, n, S, a, step)
  <1> DEFINE Good(f, m) == /\ f \in [0..n -> S]
                           /\ f[0] = a
                           /\ \A k \in 1..n : k <= m => f[k] = step[k][f[k - 1]]
             T == {m \in Nat : \E f : Good(f, m)}
  <1>1. 0 \in T
    <2>1. Good([k \in 0..n |-> a], 0)
      OBVIOUS
    <2> QED
      BY <2>1
  <1>2. ASSUME NEW m \in Nat, m \in T PROVE m + 1 \in T
    <2>1. PICK f : Good(f, m)
      BY <1>2
    <2> DEFINE g == IF m + 1 \in 1..n THEN [f EXCEPT ![m + 1] = step[m + 1][f[m]]] ELSE f
    <2>2. Good(g, m + 1)
      <3>1. CASE m + 1 \in 1..n
        <4>1. g \in [0..n -> S] /\ g[m + 1] = step[m + 1][f[m]]
          BY <2>1, <3>1 DEF Stepwise
        <4>2. \A k \in 0..n : k # m + 1 => g[k] = f[k]
          BY <2>1, <3>1
        <4> HIDE DEF g
        <4>3. ASSUME NEW k \in 1..n, k <= m + 1 PROVE g[k] = step[k][g[k - 1]]
          BY <2>1, <4>1, <4>2, <4>3
        <4> QED
          BY <2>1, <4>1, <4>2, <4>3
      <3>2. CASE m + 1 \notin 1..n
        BY <2>1, <3>2
      <3> QED
        BY <3>1, <3>2
    <2> HIDE DEF g
    <2> QED
      BY <2>2
  <1>3. n \in T
    <2> HIDE DEF T
    <2> QED
      BY <1>1, <1>2, Induct
  <1> QED
    BY <1>3 DEF Solves

-----------------------------------------------------------------------------
(* Wild cards *)

\* The places that the two pointers of wildCardMatch can reach, how far the two ends
\* are, and what the recursion says of one.
Places(str, pattern) == (1..Len(str) + 1) \X (1..Len(pattern) + 1)
Away(str, pattern, i, j) == (Len(str) - i) + (Len(pattern) - j) + 2

Here(f, str, pattern, i, j) ==
  IF j > Len(pattern) THEN i > Len(str)
  ELSE IF pattern[j] = "*" THEN f[<<i, j + 1>>] \/ (i <= Len(str) /\ f[<<i + 1, j>>])
  ELSE /\ i <= Len(str)
       /\ pattern[j] \in {"?", str[i]}
       /\ f[<<i + 1, j + 1>>]

Recurses(f, str, pattern) ==
  f = [at \in Places(str, pattern) |-> Here(f, str, pattern, at[1], at[2])]

LEMMA WildCardRecurses ==
  ASSUME NEW str, NEW pattern
  PROVE  WildCardMatch(str, pattern) = (CHOOSE f : Recurses(f, str, pattern))[<<1, 1>>]
  BY DEF WildCardMatch, Recurses, Here, Places

LEMMA HereAgrees ==
  ASSUME NEW C, NEW str \in Seq(C), NEW pattern \in Seq(C), NEW f, NEW g,
         NEW i \in 1..Len(str) + 1, NEW j \in 1..Len(pattern) + 1,
         \A k \in 1..Len(str) + 1, l \in 1..Len(pattern) + 1 :
           k + l > i + j => (f[<<k, l>>] <=> g[<<k, l>>])
  PROVE  Here(f, str, pattern, i, j) <=> Here(g, str, pattern, i, j)
  <1>1. Len(str) \in Nat /\ Len(pattern) \in Nat
    OBVIOUS
  <1>2. j <= Len(pattern) => (f[<<i, j + 1>>] <=> g[<<i, j + 1>>])
    BY <1>1
  <1>3. i <= Len(str) => (f[<<i + 1, j>>] <=> g[<<i + 1, j>>])
    BY <1>1
  <1>4. ASSUME i <= Len(str), j <= Len(pattern) PROVE f[<<i + 1, j + 1>>] <=> g[<<i + 1, j + 1>>]
    <2>1. i + 1 \in 1..Len(str) + 1 /\ j + 1 \in 1..Len(pattern) + 1 /\ (i + 1) + (j + 1) > i + j
      BY <1>1, <1>4
    <2> QED
      BY <2>1
  <1> QED
    BY <1>1, <1>2, <1>3, <1>4 DEF Here

\* A function that does so within a distance of the ends
Within(f, str, pattern, n) ==
  \A i \in 1..Len(str) + 1, j \in 1..Len(pattern) + 1 :
    Away(str, pattern, i, j) < n => (f[<<i, j>>] <=> Here(f, str, pattern, i, j))

LEMMA WildCardExists ==
  ASSUME NEW C, NEW str \in Seq(C), NEW pattern \in Seq(C)
  PROVE  \E f : Recurses(f, str, pattern)
  <1> DEFINE next(f) == [at \in Places(str, pattern) |-> Here(f, str, pattern, at[1], at[2])]
             T == {n \in Nat : \E f : Within(f, str, pattern, n)}
             all == Len(str) + Len(pattern) + 1
  <1>1. Len(str) \in Nat /\ Len(pattern) \in Nat
    OBVIOUS
  <1>2. \A f : \A i \in 1..Len(str) + 1, j \in 1..Len(pattern) + 1 :
          next(f)[<<i, j>>] <=> Here(f, str, pattern, i, j)
    BY DEF Places
  <1> HIDE DEF next
  <1>3. ASSUME NEW f, NEW n \in Nat, Within(f, str, pattern, n)
        PROVE  \A i \in 1..Len(str) + 1, j \in 1..Len(pattern) + 1 :
                 Away(str, pattern, i, j) < n + 1 =>
                   (Here(next(f), str, pattern, i, j) <=> Here(f, str, pattern, i, j))
    <2> SUFFICES ASSUME NEW i \in 1..Len(str) + 1, NEW j \in 1..Len(pattern) + 1,
                        Away(str, pattern, i, j) < n + 1
                 PROVE  Here(next(f), str, pattern, i, j) <=> Here(f, str, pattern, i, j)
      OBVIOUS
    <2>1. ASSUME NEW k \in 1..Len(str) + 1, NEW l \in 1..Len(pattern) + 1, k + l > i + j
          PROVE  next(f)[<<k, l>>] <=> f[<<k, l>>]
      <3>1. Away(str, pattern, k, l) < n
        BY <1>1, <2>1 DEF Away
      <3> QED
        BY <1>2, <1>3, <3>1 DEF Within
    <2> QED
      BY <2>1, HereAgrees
  <1>4. all \in T
    <2>1. 0 \in T
      <3>1. Within(<<>>, str, pattern, 0)
        BY <1>1 DEF Within, Away
      <3> QED
        BY <3>1
    <2>2. ASSUME NEW n \in Nat, n \in T PROVE n + 1 \in T
      <3>1. PICK f : Within(f, str, pattern, n)
        BY <2>2
      <3>2. Within(next(f), str, pattern, n + 1)
        BY <1>2, <1>3, <3>1 DEF Within
      <3> QED
        BY <3>2
    <2> HIDE DEF T
    <2> QED
      BY <1>1, <2>1, <2>2, Induct
  <1>5. PICK f : Within(f, str, pattern, all)
    BY <1>4
  <1>6. \A i \in 1..Len(str) + 1, j \in 1..Len(pattern) + 1 :
          Here(next(f), str, pattern, i, j) <=> Here(f, str, pattern, i, j)
    <2>1. \A i \in 1..Len(str) + 1, j \in 1..Len(pattern) + 1 :
            Away(str, pattern, i, j) < all + 1
      BY <1>1 DEF Away
    <2>2. all \in Nat
      BY <1>1
    <2> HIDE DEF all
    <2> QED
      BY <1>3, <1>5, <2>1, <2>2
  <1>7. \A at \in Places(str, pattern) :
          Here(next(f), str, pattern, at[1], at[2]) = Here(f, str, pattern, at[1], at[2])
    <2>1. ASSUME NEW g, NEW i, NEW j,
                 Here(g, str, pattern, i, j) <=> Here(f, str, pattern, i, j)
          PROVE  Here(g, str, pattern, i, j) = Here(f, str, pattern, i, j)
      BY <2>1 DEF Here
    <2> QED
      BY <1>6, <2>1 DEF Places
  <1>8. next(f) = [at \in Places(str, pattern) |-> Here(next(f), str, pattern, at[1], at[2])]
    <2> DEFINE g == next(f)
    <2>1. g = [at \in Places(str, pattern) |-> Here(f, str, pattern, at[1], at[2])]
      BY DEF next
    <2> HIDE DEF g
    <2> QED
      BY <1>7, <2>1 DEF g
  <1> QED
    BY <1>8 DEF Recurses

LEMMA WildCardHere ==
  ASSUME NEW C, NEW str \in Seq(C), NEW pattern \in Seq(C)
  PROVE  \E f : /\ WildCardMatch(str, pattern) <=> f[<<1, 1>>]
               /\ \A i \in 1..Len(str) + 1, j \in 1..Len(pattern) + 1 :
                    f[<<i, j>>] <=> Here(f, str, pattern, i, j)
  <1> DEFINE f == CHOOSE f : Recurses(f, str, pattern)
  <1>1. Recurses(f, str, pattern)
    BY WildCardExists
  <1>2. WildCardMatch(str, pattern) = f[<<1, 1>>]
    BY WildCardRecurses
  <1> HIDE DEF f
  <1>3. f = [at \in Places(str, pattern) |-> Here(f, str, pattern, at[1], at[2])]
    BY <1>1 DEF Recurses
  <1>4. \A i \in 1..Len(str) + 1, j \in 1..Len(pattern) + 1 :
          f[<<i, j>>] = Here(f, str, pattern, i, j)
    BY <1>3 DEF Places
  <1> QED
    BY <1>2, <1>4

\* The next places from some, in Matching
Onward(str, c, places) ==
  IF c = "*" THEN {j \in 0..Len(str) : \E i \in places : i <= j}
  ELSE {j \in 1..Len(str) : j - 1 \in places /\ c \in {"?", str[j]}}

MatchesBy(to, str, pattern) ==
  /\ Matching(str, pattern) <=> Len(str) \in to[Len(pattern)]
  /\ to[0] = {0}
  /\ \A k \in 1..Len(pattern) : to[k] = Onward(str, pattern[k], to[k - 1])

LEMMA MatchingOnward ==
  ASSUME NEW C, NEW str \in Seq(C), NEW pattern \in Seq(C)
  PROVE  \E to : MatchesBy(to, str, pattern)
  <1> DEFINE m == Len(pattern)
             S == SUBSET (0..Len(str))
             step == [k \in 1..m |-> [places \in S |-> Onward(str, pattern[k], places)]]
             Rec(f) == f = [k \in 0..m |->
                              IF k = 0 THEN {0} ELSE Onward(str, pattern[k], f[k - 1])]
  <1>1. m \in Nat /\ Len(str) \in Nat
    OBVIOUS
  <1>2. \A k \in 1..m : \A places \in S : Onward(str, pattern[k], places) \in S
    BY <1>1 DEF Onward
  <1>3. Stepwise(step, m, S) /\ {0} \in S
    <2>1. {0} \in S
      BY <1>1
    <2> HIDE DEF S
    <2> QED
      BY <1>2, <2>1 DEF Stepwise
  <1>4. PICK f : Solves(f, m, S, {0}, step)
    <2> HIDE DEF step, S, m
    <2> QED
      BY <1>1, <1>3, Recursion
  <1>5. \A k \in 1..m : f[k] = Onward(str, pattern[k], f[k - 1])
    <2>1. \A k \in 1..m : f[k - 1] \in S
      BY <1>1, <1>4 DEF Solves
    <2> HIDE DEF S
    <2> QED
      BY <1>4, <2>1 DEF Solves
  <1>6. Rec(f)
    <2>1. f = [k \in 0..m |-> f[k]] /\ f[0] = {0}
      BY <1>4 DEF Solves
    <2>2. \A k \in 0..m :
            f[k] = IF k = 0 THEN {0} ELSE Onward(str, pattern[k], f[k - 1])
      BY <1>1, <1>5, <2>1
    <2> HIDE DEF m
    <2> QED
      BY <2>1, <2>2
  <1> DEFINE to == CHOOSE g : Rec(g)
  <1>7. Rec(to)
    BY <1>6
  <1>8. Matching(str, pattern) <=> Len(str) \in to[m]
    BY DEF Matching, Onward
  <1> HIDE DEF to
  <1>9. to = [k \in 0..m |-> IF k = 0 THEN {0} ELSE Onward(str, pattern[k], to[k - 1])]
    BY <1>7
  <1> HIDE DEF m
  <1>10. to[0] = {0}
    BY <1>1, <1>9
  <1>11. ASSUME NEW k \in 1..m PROVE to[k] = Onward(str, pattern[k], to[k - 1])
    <2>1. k \in 0..m /\ k # 0
      BY <1>1
    <2>2. to[k] = IF k = 0 THEN {0} ELSE Onward(str, pattern[k], to[k - 1])
      BY ONLY <1>9, <2>1
    <2> QED
      BY <2>1, <2>2
  <1> QED
    BY <1>8, <1>10, <1>11 DEF MatchesBy, m

\* The places of the string from which each place of the pattern leads to the ends
LEMMA WildCardSources ==
  ASSUME NEW C, NEW str \in Seq(C), NEW pattern \in Seq(C)
  PROVE  \E from :
           /\ WildCardMatch(str, pattern) <=> 0 \in from[0]
           /\ \A j \in 0..Len(pattern) : from[j] \subseteq 0..Len(str)
           /\ from[Len(pattern)] = {Len(str)}
           /\ \A j \in 1..Len(pattern), i \in 0..Len(str) :
                /\ pattern[j] = "*" =>
                     (i \in from[j - 1] <=> i \in from[j] \/ (i < Len(str) /\ i + 1 \in from[j - 1]))
                /\ pattern[j] # "*" =>
                     (i \in from[j - 1] <=> /\ i < Len(str) /\ pattern[j] \in {"?", str[i + 1]}
                                          /\ i + 1 \in from[j])
  <1>1. PICK f : /\ WildCardMatch(str, pattern) <=> f[<<1, 1>>]
                 /\ \A i \in 1..Len(str) + 1, j \in 1..Len(pattern) + 1 :
                      f[<<i, j>>] <=> Here(f, str, pattern, i, j)
    BY WildCardHere
  <1> DEFINE from == [j \in 0..Len(pattern) |-> {i \in 0..Len(str) : f[<<i + 1, j + 1>>]}]
  <1>2. Len(str) \in Nat /\ Len(pattern) \in Nat
    OBVIOUS
  <1>3. \A j \in 0..Len(pattern), i \in 0..Len(str) :
          i \in from[j] <=> Here(f, str, pattern, i + 1, j + 1)
    <2> SUFFICES ASSUME NEW j \in 0..Len(pattern), NEW i \in 0..Len(str)
                 PROVE  i \in from[j] <=> Here(f, str, pattern, i + 1, j + 1)
      OBVIOUS
    <2>1. f[<<i + 1, j + 1>>] <=> Here(f, str, pattern, i + 1, j + 1)
      BY <1>1, <1>2
    <2> QED
      BY <2>1
  <1>4. \A j \in 0..Len(pattern), i \in 0..Len(str) :
          i \in from[j] <=> f[<<i + 1, j + 1>>]
    OBVIOUS
  <1>5. \A j \in 0..Len(pattern) : from[j] \subseteq 0..Len(str)
    OBVIOUS
  <1> HIDE DEF from
  <1>6. WildCardMatch(str, pattern) <=> 0 \in from[0]
    <2>1. f[<<0 + 1, 0 + 1>>] <=> f[<<1, 1>>]
      OBVIOUS
    <2>2. 0 \in from[0] <=> f[<<0 + 1, 0 + 1>>]
      BY <1>2, <1>4
    <2> QED
      BY <1>1, <2>1, <2>2
  <1>7. from[Len(pattern)] = {Len(str)}
    <2>1. ASSUME NEW i \in 0..Len(str) PROVE i \in from[Len(pattern)] <=> i = Len(str)
      <3>1. i \in from[Len(pattern)] <=> Here(f, str, pattern, i + 1, Len(pattern) + 1)
        BY <1>2, <1>3
      <3> QED
        BY <1>2, <3>1 DEF Here
    <2> QED
      BY <1>2, <1>5, <2>1
  <1>8. ASSUME NEW j \in 1..Len(pattern), NEW i \in 0..Len(str)
        PROVE  /\ pattern[j] = "*" =>
                    (i \in from[j - 1] <=> i \in from[j] \/ (i < Len(str) /\ i + 1 \in from[j - 1]))
               /\ pattern[j] # "*" =>
                    (i \in from[j - 1] <=> /\ i < Len(str) /\ pattern[j] \in {"?", str[i + 1]}
                                         /\ i + 1 \in from[j])
    <2>1. i \in from[j - 1] <=> Here(f, str, pattern, i + 1, (j - 1) + 1)
      BY <1>2, <1>3
    <2>2. i \in from[j] <=> f[<<i + 1, j + 1>>]
      BY <1>4
    <2>3. i < Len(str) => (i + 1 \in from[j - 1] <=> f[<<(i + 1) + 1, (j - 1) + 1>>])
      BY <1>2, <1>4
    <2>4. i < Len(str) => (i + 1 \in from[j] <=> f[<<(i + 1) + 1, j + 1>>])
      BY <1>2, <1>4
    <2>5. (j - 1) + 1 = j
      OBVIOUS
    <2>6. i \in from[j - 1] <=> Here(f, str, pattern, i + 1, j)
      BY <2>1, <2>5
    <2>7. i < Len(str) => (i + 1 \in from[j - 1] <=> f[<<(i + 1) + 1, j>>])
      BY <2>3, <2>5
    <2> QED
      BY <1>2, <2>2, <2>4, <2>6, <2>7 DEF Here
  <1> QED
    BY <1>5, <1>6, <1>7, <1>8

\* A '*' leads to every later place.
LEMMA Later ==
  ASSUME NEW n \in Nat, NEW X, NEW Y, Y \subseteq 0..n,
         \A i \in 0..n : i \in X <=> i \in Y \/ (i < n /\ i + 1 \in X)
  PROVE  \A i \in 0..n : i \in X <=> \E k \in Y : i <= k
  <1> DEFINE T == {d \in Nat : \A i \in 0..n : n - i = d => (i \in X <=> \E k \in Y : i <= k)}
  <1>1. 0 \in T
    BY Z3
  <1>2. ASSUME NEW d \in Nat, d \in T PROVE d + 1 \in T
    <2> SUFFICES ASSUME NEW i \in 0..n, n - i = d + 1
                 PROVE  i \in X <=> \E k \in Y : i <= k
      OBVIOUS
    <2>1. i + 1 \in 0..n /\ n - (i + 1) = d /\ i < n
      OBVIOUS
    <2>2. i + 1 \in X <=> \E k \in Y : i + 1 <= k
      BY <1>2, <2>1
    <2>3. (\E k \in Y : i <= k) <=> i \in Y \/ \E k \in Y : i + 1 <= k
      OBVIOUS
    <2> QED
      BY <2>1, <2>2, <2>3
  <1>3. ASSUME NEW i \in 0..n PROVE i \in X <=> \E k \in Y : i <= k
    <2>1. n - i \in Nat
      OBVIOUS
    <2>2. n - i \in T
      <3> HIDE DEF T
      <3> QED
        BY <1>1, <1>2, <2>1, Induct
    <2> QED
      BY <2>2
  <1> QED
    BY <1>3

\* The recursion of wildCardMatch, with its early returns, is the match by places, for
\* all strings and all patterns.
THEOREM WildCardIsMatching ==
  ASSUME NEW C, NEW str \in Seq(C), NEW pattern \in Seq(C)
  PROVE  WildCardMatch(str, pattern) <=> Matching(str, pattern)
  <1>1. PICK from :
           /\ WildCardMatch(str, pattern) <=> 0 \in from[0]
           /\ \A j \in 0..Len(pattern) : from[j] \subseteq 0..Len(str)
           /\ from[Len(pattern)] = {Len(str)}
           /\ \A j \in 1..Len(pattern), i \in 0..Len(str) :
                /\ pattern[j] = "*" =>
                     (i \in from[j - 1] <=> i \in from[j] \/ (i < Len(str) /\ i + 1 \in from[j - 1]))
                /\ pattern[j] # "*" =>
                     (i \in from[j - 1] <=> /\ i < Len(str) /\ pattern[j] \in {"?", str[i + 1]}
                                          /\ i + 1 \in from[j])
    BY WildCardSources
  <1>2. PICK to : MatchesBy(to, str, pattern)
    BY MatchingOnward
  <1>3. Len(str) \in Nat /\ Len(pattern) \in Nat
    OBVIOUS
  <1> DEFINE Ok(k) == to[k] \subseteq 0..Len(str) /\ (0 \in from[0] <=> to[k] \cap from[k] # {})
             T == {k \in Nat : k <= Len(pattern) => Ok(k)}
  <1>4. 0 \in T
    <2>1. Ok(0)
      BY <1>2, <1>3 DEF MatchesBy
    <2> QED
      BY <2>1
  <1>5. ASSUME NEW k \in Nat, k \in T PROVE k + 1 \in T
    <2> SUFFICES ASSUME k + 1 <= Len(pattern) PROVE Ok(k + 1)
      OBVIOUS
    <2>1. Ok(k) /\ k + 1 \in 1..Len(pattern) /\ k \in 0..Len(pattern) /\ (k + 1) - 1 = k
      BY <1>3, <1>5
    <2>2. to[k + 1] = Onward(str, pattern[k + 1], to[k])
      BY <1>2, <2>1 DEF MatchesBy
    <2>3. from[k] \subseteq 0..Len(str) /\ from[k + 1] \subseteq 0..Len(str)
      BY <1>1, <1>3, <2>1
    <2>4. to[k + 1] \subseteq 0..Len(str)
      BY <1>3, <2>2 DEF Onward
    <2>5. CASE pattern[k + 1] = "*"
      <3>1. \A i \in 0..Len(str) : i \in from[k] <=> i \in from[k + 1] \/ (i < Len(str) /\ i + 1 \in from[k])
        BY <1>1, <2>1, <2>5
      <3>2. \A i \in 0..Len(str) : i \in from[k] <=> \E j \in from[k + 1] : i <= j
        <4> DEFINE n == Len(str)
                   X == from[k]
                   Y == from[k + 1]
        <4>1. n \in Nat /\ Y \subseteq 0..n
          BY <1>3, <2>3
        <4>2. \A i \in 0..n : i \in X <=> i \in Y \/ (i < n /\ i + 1 \in X)
          BY <3>1
        <4> HIDE DEF n, X, Y
        <4>3. \A i \in 0..n : i \in X <=> \E j \in Y : i <= j
          BY ONLY <4>1, <4>2, Later
        <4> QED
          BY <4>3 DEF n, X, Y
      <3>3. to[k + 1] = {j \in 0..Len(str) : \E i \in to[k] : i <= j}
        BY <2>2, <2>5 DEF Onward
      <3>4. to[k] \cap from[k] # {} <=> to[k + 1] \cap from[k + 1] # {}
        BY <2>1, <2>3, <3>2, <3>3
      <3> QED
        BY <2>1, <2>4, <3>4
    <2>6. CASE pattern[k + 1] # "*"
      <3>1. \A i \in 0..Len(str) :
              i \in from[k] <=> /\ i < Len(str) /\ pattern[k + 1] \in {"?", str[i + 1]}
                               /\ i + 1 \in from[k + 1]
        BY <1>1, <2>1, <2>6
      <3>2. to[k + 1] = {j \in 1..Len(str) : j - 1 \in to[k] /\ pattern[k + 1] \in {"?", str[j]}}
        BY <2>2, <2>6 DEF Onward
      <3>3. ASSUME NEW i \in to[k], i \in from[k] PROVE to[k + 1] \cap from[k + 1] # {}
        <4>1. i + 1 \in to[k + 1] /\ i + 1 \in from[k + 1]
          BY <1>3, <2>1, <3>1, <3>2, <3>3
        <4> QED
          BY <4>1
      <3>4. ASSUME NEW j \in to[k + 1], j \in from[k + 1] PROVE to[k] \cap from[k] # {}
        <4>1. /\ j - 1 \in to[k] /\ j - 1 \in 0..Len(str) /\ j - 1 < Len(str)
              /\ (j - 1) + 1 = j /\ pattern[k + 1] \in {"?", str[j]}
          BY <1>3, <3>2
        <4>2. j - 1 \in from[k]
          BY <3>1, <3>4, <4>1
        <4> QED
          BY <4>1, <4>2
      <3> QED
        BY <2>1, <2>4, <3>3, <3>4
    <2> QED
      BY <2>5, <2>6
  <1>6. Ok(Len(pattern))
    <2>1. Len(pattern) \in T
      <3> HIDE DEF T
      <3> QED
        BY <1>3, <1>4, <1>5, Induct
    <2> HIDE DEF Ok
    <2> QED
      BY <1>3, <2>1
  <1> QED
    BY <1>1, <1>2, <1>6 DEF MatchesBy

-----------------------------------------------------------------------------
(* The order of the names *)

\* Every character has a rank of its own.
LEMMA Ranks ==
  /\ \A c \in Char : Rank(c) \in Nat
  /\ \A c, d \in Char : Rank(c) = Rank(d) => c = d
  <1>1. \A c \in Char : \E k \in DOMAIN Alphabet : Alphabet[k] = c
    BY DEF Char, ToSet
  <1>2. DOMAIN Alphabet \subseteq Nat
    BY TextAssumption
  <1>3. \A c \in Char : Rank(c) \in DOMAIN Alphabet /\ Alphabet[Rank(c)] = c
    BY <1>1 DEF Rank
  <1> QED
    BY <1>2, <1>3

\* The first place where two texts differ, b being the one that is after
DiffersAt(a, b, k) ==
  /\ k \in 1..Len(b) /\ k <= Len(a) + 1
  /\ \A j \in 1..k-1 : a[j] = b[j]
  /\ k <= Len(a) => Rank(a[k]) < Rank(b[k])

LEMMA BeforeDiffers ==
  ASSUME NEW a \in Seq(Char), NEW b \in Seq(Char)
  PROVE  Before(a, b) <=> \E k \in Nat : DiffersAt(a, b, k)
  <1>1. /\ Len(a) \in Nat /\ Len(b) \in Nat
        /\ DOMAIN a = 1..Len(a) /\ DOMAIN b = 1..Len(b)
        /\ \A k \in 1..Len(a) : a[k] \in Char
        /\ \A k \in 1..Len(b) : b[k] \in Char
    BY LenProperties, ElementOfSeq
  <1>2. IsStrictPrefix(a, b) <=> Len(a) < Len(b) /\ \A j \in 1..Len(a) : a[j] = b[j]
    <2>1. SubSeq(a, 1, Len(a)) = a
      BY SubSeqFull
    <2>2. CASE Len(a) > Len(b)
      BY <1>1, <2>2 DEF IsStrictPrefix, IsPrefix
    <2>3. CASE Len(a) <= Len(b)
      <3> DEFINE s == SubSeq(b, 1, Len(a))
      <3>1. s \in Seq(Char) /\ Len(s) = Len(a) /\ \A j \in 1..Len(a) : s[j] = b[j]
        BY <1>1, <2>3
      <3>2. IsPrefix(a, b) <=> a = s
        BY <2>1, <2>3 DEF IsPrefix
      <3> HIDE DEF s
      <3>3. a = s <=> \A j \in 1..Len(a) : a[j] = b[j]
        BY <3>1, SeqEqual
      <3>4. (\A j \in 1..Len(a) : a[j] = b[j]) => (a = b <=> Len(a) = Len(b))
        BY SeqEqual
      <3>5. IsStrictPrefix(a, b) <=> IsPrefix(a, b) /\ a # b
        BY DEF IsStrictPrefix
      <3>6. a = b => Len(a) = Len(b)
        OBVIOUS
      <3>7. Len(a) < Len(b) <=> Len(a) # Len(b)
        BY ONLY <2>3, Len(a) \in Nat, Len(b) \in Nat
      <3> QED
        BY ONLY <3>2, <3>3, <3>4, <3>5, <3>6, <3>7
    <2> QED
      BY <1>1, <2>2, <2>3
  <1>3. ASSUME Before(a, b) PROVE \E k \in Nat : DiffersAt(a, b, k)
    <2>1. CASE IsStrictPrefix(a, b)
      <3>1. DiffersAt(a, b, Len(a) + 1)
        BY <1>1, <1>2, <2>1 DEF DiffersAt
      <3> QED
        BY <1>1, <3>1
    <2>2. CASE ~IsStrictPrefix(a, b)
      <3>1. PICK k \in DOMAIN a \cap DOMAIN b :
              (\A j \in 1..k-1 : a[j] = b[j]) /\ Rank(a[k]) < Rank(b[k])
        BY <1>3, <2>2 DEF Before
      <3>2. DiffersAt(a, b, k)
        BY <1>1, <3>1 DEF DiffersAt
      <3> QED
        BY <1>1, <3>1, <3>2
    <2> QED
      BY <2>1, <2>2
  <1>4. ASSUME NEW k \in Nat, DiffersAt(a, b, k) PROVE Before(a, b)
    BY <1>1, <1>2, <1>4 DEF DiffersAt, Before
  <1> QED
    BY <1>3, <1>4

LEMMA BeforeTransitive ==
  ASSUME NEW a \in Seq(Char), NEW b \in Seq(Char), NEW c \in Seq(Char),
         Before(a, b), Before(b, c)
  PROVE  Before(a, c)
  <1>1. PICK k \in Nat : DiffersAt(a, b, k)
    BY BeforeDiffers
  <1>2. PICK l \in Nat : DiffersAt(b, c, l)
    BY BeforeDiffers
  <1>3. /\ Len(a) \in Nat /\ Len(b) \in Nat /\ Len(c) \in Nat
        /\ \A n \in 1..Len(a) : Rank(a[n]) \in Nat
        /\ \A n \in 1..Len(b) : Rank(b[n]) \in Nat
        /\ \A n \in 1..Len(c) : Rank(c[n]) \in Nat
    BY LenProperties, ElementOfSeq, Ranks
  <1>4. CASE k < l
    <2>1. DiffersAt(a, c, k)
      BY <1>1, <1>2, <1>3, <1>4 DEF DiffersAt
    <2> QED
      BY <2>1, BeforeDiffers
  <1>5. CASE l < k
    <2>1. DiffersAt(a, c, l)
      BY <1>1, <1>2, <1>3, <1>5 DEF DiffersAt
    <2> QED
      BY <2>1, BeforeDiffers
  <1>6. CASE k = l
    <2>1. DiffersAt(a, c, k)
      BY <1>1, <1>2, <1>3, <1>6 DEF DiffersAt
    <2> QED
      BY <2>1, BeforeDiffers
  <1> QED
    BY <1>4, <1>5, <1>6

LEMMA BeforeTotal ==
  ASSUME NEW a \in Seq(Char), NEW b \in Seq(Char), a # b
  PROVE  Before(a, b) \/ Before(b, a)
  <1>1. /\ Len(a) \in Nat /\ Len(b) \in Nat
        /\ \A k \in 1..Len(a) : a[k] \in Char
        /\ \A k \in 1..Len(b) : b[k] \in Char
    BY LenProperties, ElementOfSeq
  <1> DEFINE D == {k \in Nat : k >= 1 /\ \/ k > Len(a) \/ k > Len(b) \/ a[k] # b[k]}
  <1>2. D # {}
    <2>1. Len(a) + 1 \in D
      BY <1>1
    <2> QED
      BY <2>1
  <1>3. PICK k \in D : \A j \in D : k <= j
    <2>1. D \subseteq Nat
      OBVIOUS
    <2> HIDE DEF D
    <2> QED
      BY <1>2, <2>1, Lowest
  <1>4. ASSUME NEW j \in 1..k-1 PROVE j <= Len(a) /\ j <= Len(b) /\ a[j] = b[j]
    <2>1. j \in Nat /\ j >= 1 /\ j \notin D
      BY <1>3
    <2> QED
      BY <1>1, <2>1
  <1>5. k \in Nat /\ k >= 1 /\ k <= Len(a) + 1 /\ k <= Len(b) + 1
    <2>1. k > 1 => k - 1 <= Len(a) /\ k - 1 <= Len(b)
      BY <1>1, <1>4
    <2> QED
      BY <1>1, <2>1
  <1>6. k <= Len(a) \/ k <= Len(b)
    <2> SUFFICES ASSUME k > Len(a), k > Len(b) PROVE FALSE
      BY <1>1
    <2>1. Len(a) = Len(b) /\ \A j \in 1..Len(a) : a[j] = b[j]
      BY <1>1, <1>4, <1>5
    <2> QED
      BY <2>1, SeqEqual
  <1>7. k <= Len(a) /\ k <= Len(b) => Rank(a[k]) < Rank(b[k]) \/ Rank(b[k]) < Rank(a[k])
    BY <1>1, <1>5, Ranks
  <1>8. DiffersAt(a, b, k) \/ DiffersAt(b, a, k)
    BY <1>1, <1>4, <1>5, <1>6, <1>7 DEF DiffersAt
  <1> QED
    BY <1>5, <1>8, BeforeDiffers

\* A map has a first name.
First(S, m) == m \in S /\ \A o \in S \ {m} : Before(m, o)

LEMMA FirstExists ==
  ASSUME NEW S, IsFiniteSet(S), S \subseteq Seq(Char), S # {}
  PROVE  \E m : First(S, m)
  <1> DEFINE Endless == {s \in SUBSET S : s # {} /\ ~ \E m : First(s, m)}
             N == {Cardinality(s) : s \in Endless}
  <1>1. \A s \in SUBSET S : IsFiniteSet(s) /\ Cardinality(s) \in Nat
    BY FS_Subset, FS_CardinalityType
  <1> SUFFICES ASSUME N # {} PROVE FALSE
    OBVIOUS
  <1>2. PICK n \in N : \A k \in N : n <= k
    <2>1. N \subseteq Nat
      BY <1>1
    <2> HIDE DEF N
    <2> QED
      BY <2>1, Lowest
  <1>3. PICK s \in Endless : Cardinality(s) = n
    BY <1>2
  <1>4. PICK x : x \in s
    BY <1>3
  <1>5. s \ {x} \notin Endless
    <2>1. Cardinality(s \ {x}) = Cardinality(s) - 1 /\ Cardinality(s) \in Nat
      BY <1>1, <1>4, FS_RemoveElement
    <2> HIDE DEF Endless
    <2>2. s \ {x} \in Endless => Cardinality(s \ {x}) \in N
      OBVIOUS
    <2> HIDE DEF N
    <2> QED
      BY ONLY <1>2, <1>3, <2>1, <2>2
  <1>6. x \in Seq(Char) /\ s \subseteq Seq(Char)
    BY <1>4
  <1>7. CASE s \ {x} = {}
    <2>1. First(s, x)
      BY <1>4, <1>7 DEF First
    <2> QED
      BY <1>3, <2>1
  <1>8. CASE s \ {x} # {}
    <2>1. PICK m : First(s \ {x}, m)
      BY <1>5, <1>8
    <2>2. m \in Seq(Char) /\ m # x /\ m \in s
      BY <1>6, <2>1 DEF First
    <2>3. CASE Before(m, x)
      <3>1. First(s, m)
        BY <2>1, <2>2, <2>3 DEF First
      <3> QED
        BY <1>3, <3>1
    <2>4. CASE Before(x, m)
      <3>1. \A o \in s \ {x} : Before(x, o)
        BY <1>6, <2>1, <2>2, <2>4, BeforeTransitive DEF First
      <3>2. First(s, x)
        BY <1>4, <3>1 DEF First
      <3> QED
        BY <1>3, <3>2
    <2> QED
      BY <1>6, <2>2, <2>3, <2>4, BeforeTotal
  <1> QED
    BY <1>7, <1>8

-----------------------------------------------------------------------------
(* What the texts and the command lines make of the modules *)

\* The values of a function on 1..n are finitely many.
LEMMA FiniteImage ==
  ASSUME NEW n \in Nat, NEW f
  PROVE  IsFiniteSet({f[k] : k \in 1..n})
  <1> DEFINE S == {f[k] : k \in 1..n}
             g == [k \in 1..n |-> f[k]]
  <1>1. g \in Surjection(1..n, S)
    BY DEF Surjection
  <1>2. IsFiniteSet(1..n)
    BY FS_Interval
  <1> HIDE DEF g, S
  <1>3. IsFiniteSet(S)
    BY <1>1, <1>2, FS_Surjection
  <1> QED
    BY <1>3 DEF S

\* What Entries makes of a text, and the state of its loop
Entry == [names : {s \in SUBSET Seq(Char) : IsFiniteSet(s)}, level : Int]
Loop == [isLevel : BOOLEAN, name : Seq(Char), level : Int, entries : Seq(Entry)]

Suffixed(name, k, last) ==
  LET bare == IF k = 1 THEN name ELSE Without(last, SuffixList[k - 1]) IN
  Without(bare, SuffixList[k]) \o SuffixList[k]

LEMMA WithoutTyped ==
  ASSUME NEW s \in Seq(Char), NEW t \in Seq(Char)
  PROVE  Without(s, t) \in Seq(Char)
  <1>1. Len(s) \in Nat /\ Len(t) \in Nat
    OBVIOUS
  <1>2. SubSeq(s, 1, Len(s) - Len(t)) \in Seq(Char)
    <2>1. ASSUME NEW m \in Int, m <= Len(s) PROVE SubSeq(s, 1, m) \in Seq(Char)
      BY <2>1, SubSeqProperties
    <2> QED
      BY <1>1, <2>1
  <1> QED
    BY <1>2 DEF Without

LEMMA VariantsTyped ==
  ASSUME NEW name \in Seq(Char)
  PROVE  Variants(name) \in {s \in SUBSET Seq(Char) : IsFiniteSet(s)}
  <1> DEFINE n == Len(SuffixList)
             S == Seq(Char)
             step == [k \in 1..n |-> [last \in S |-> Suffixed(name, k, last)]]
             Rec(v) == v = [k \in 0..n |-> IF k = 0 THEN name ELSE Suffixed(name, k, v[k - 1])]
  <1>1. n \in Nat /\ DOMAIN SuffixList = 1..n /\ \A k \in 1..n : SuffixList[k] \in Seq(Char)
    BY TextAssumption
  <1>2. \A k \in 1..n : \A last \in S : Suffixed(name, k, last) \in S
    <2> SUFFICES ASSUME NEW k \in 1..n, NEW last \in S PROVE Suffixed(name, k, last) \in S
      OBVIOUS
    <2>1. k # 1 => k - 1 \in 1..n
      BY <1>1
    <2> DEFINE bare == IF k = 1 THEN name ELSE Without(last, SuffixList[k - 1])
    <2>2. bare \in Seq(Char)
      BY <1>1, <2>1, WithoutTyped
    <2> HIDE DEF bare
    <2>3. Without(bare, SuffixList[k]) \in Seq(Char) /\ SuffixList[k] \in Seq(Char)
      BY <1>1, <2>2, WithoutTyped
    <2>4. Without(bare, SuffixList[k]) \o SuffixList[k] \in Seq(Char)
      BY <2>3, ConcatProperties
    <2> QED
      BY <2>4 DEF Suffixed, bare
  <1>3. Stepwise(step, n, S)
    <2> HIDE DEF S
    <2> QED
      BY <1>2 DEF Stepwise
  <1>4. PICK f : Solves(f, n, S, name, step)
    <2> HIDE DEF step, n
    <2> QED
      BY <1>1, <1>3, Recursion
  <1>5. Rec(f)
    <2>1. f = [k \in 0..n |-> f[k]] /\ f[0] = name
      BY <1>4 DEF Solves
    <2>2. \A k \in 1..n : f[k] = Suffixed(name, k, f[k - 1])
      <3>1. \A k \in 1..n : f[k - 1] \in S
        BY <1>1, <1>4 DEF Solves
      <3> HIDE DEF S
      <3> QED
        BY <1>4, <3>1 DEF Solves
    <2>3. ASSUME NEW k \in 0..n
          PROVE  f[k] = IF k = 0 THEN name ELSE Suffixed(name, k, f[k - 1])
      <3>1. k = 0 \/ k \in 1..n
        BY <1>1
      <3> QED
        BY <2>1, <2>2, <3>1
    <2> HIDE DEF n
    <2> QED
      BY <2>1, <2>3
  <1> DEFINE v == CHOOSE g : Rec(g)
  <1>6. Rec(v)
    BY <1>5
  <1>7. Variants(name) = IF "DisableVModulesExtensions" \in flags THEN {name}
                         ELSE {v[k] : k \in DOMAIN SuffixList}
    BY DEF Variants, Suffixed
  <1> HIDE DEF v
  <1>8. v = [k \in 0..n |-> IF k = 0 THEN name ELSE Suffixed(name, k, v[k - 1])]
    BY <1>6
  <1> HIDE DEF n, S, step
  <1> DEFINE T == {k \in Nat : k <= n => v[k] \in S}
  <1>9. 0 \in T
    <2>1. v[0] = name /\ name \in S
      BY <1>1, <1>8 DEF S
    <2> QED
      BY <2>1
  <1>10. ASSUME NEW k \in Nat, k \in T PROVE k + 1 \in T
    <2> SUFFICES ASSUME k + 1 <= n PROVE v[k + 1] \in S
      OBVIOUS
    <2>1. k + 1 \in 0..n /\ k + 1 # 0 /\ k + 1 \in 1..n /\ (k + 1) - 1 = k /\ v[k] \in S
      BY <1>1, <1>10
    <2>2. v[k + 1] = IF k + 1 = 0 THEN name ELSE Suffixed(name, k + 1, v[(k + 1) - 1])
      BY ONLY <1>8, <2>1
    <2> QED
      BY <1>2, <2>1, <2>2
  <1>11. \A k \in 1..n : v[k] \in S
    <2>1. \A k \in Nat : k \in T
      <3> HIDE DEF T
      <3> QED
        BY <1>9, <1>10, Induct
    <2> QED
      BY <1>1, <2>1
  <1>12. IsFiniteSet({v[k] : k \in 1..n})
    BY <1>1, FiniteImage
  <1>13. IsFiniteSet({name})
    BY FS_Singleton
  <1> QED
    BY <1>1, <1>7, <1>11, <1>12, <1>13 DEF S

LEMMA EnterTyped ==
  ASSUME NEW r \in Loop
  PROVE  Enter(r) \in Loop
  <1>1. [names |-> Variants(r.name), level |-> r.level] \in Entry
    BY VariantsTyped DEF Loop, Entry
  <1>2. Append(r.entries, [names |-> Variants(r.name), level |-> r.level]) \in Seq(Entry)
    BY <1>1 DEF Loop
  <1>3. <<>> \in Seq(Char) /\ -1 \in Int
    OBVIOUS
  <1> QED
    BY <1>2, <1>3 DEF Enter, Loop

LEMMA ReadTyped ==
  ASSUME NEW r \in Loop, NEW c \in Char
  PROVE  Read(r, c) \in Loop
  <1>1. CASE c = "="
    BY <1>1 DEF Read, Loop
  <1>2. CASE c = ","
    <2>1. Read(r, c) = [Enter(r) EXCEPT !.isLevel = FALSE]
      BY <1>2 DEF Read
    <2> QED
      BY <2>1, EnterTyped DEF Loop
  <1>3. CASE c \notin {"=", ","} /\ ~r.isLevel
    <2>1. Read(r, c) = [r EXCEPT !.name = Append(@, c)]
      BY <1>3 DEF Read
    <2>2. Append(r.name, c) \in Seq(Char)
      BY DEF Loop
    <2> QED
      BY <2>1, <2>2 DEF Loop
  <1>4. CASE c \notin {"=", ","} /\ r.isLevel
    <2>1. Read(r, c) = IF Digit(c) \in 0..9 THEN [r EXCEPT !.level = Digit(c)] ELSE r
      BY <1>4 DEF Read
    <2> QED
      BY <2>1 DEF Loop
  <1> QED
    BY <1>1, <1>2, <1>3, <1>4

LEMMA EntriesTyped ==
  ASSUME NEW text \in Seq(Char)
  PROVE  Entries(text) \in Seq(Entry)
  <1> DEFINE n == Len(text)
             start == [isLevel |-> FALSE, name |-> <<>>, level |-> -1, entries |-> <<>>]
             step == [k \in 1..n |-> [r \in Loop |-> Read(r, text[k])]]
             Rec(read) == read = [k \in 0..n |-> IF k = 0 THEN start ELSE Read(read[k - 1], text[k])]
  <1>1. n \in Nat /\ \A k \in 1..n : text[k] \in Char
    OBVIOUS
  <1>2. start \in Loop
    BY DEF Loop
  <1>3. Stepwise(step, n, Loop)
    BY <1>1, ReadTyped DEF Stepwise
  <1>4. PICK f : Solves(f, n, Loop, start, step)
    <2> HIDE DEF step, n, start
    <2> QED
      BY <1>1, <1>2, <1>3, Recursion
  <1> HIDE DEF start
  <1>5. Rec(f)
    <2>1. f = [k \in 0..n |-> f[k]] /\ f[0] = start
      BY <1>4 DEF Solves
    <2>2. \A k \in 1..n : f[k] = Read(f[k - 1], text[k])
      <3>1. \A k \in 1..n : f[k - 1] \in Loop
        BY <1>1, <1>4 DEF Solves
      <3> QED
        BY <1>4, <3>1 DEF Solves
    <2>3. \A k \in 0..n : f[k] = IF k = 0 THEN start ELSE Read(f[k - 1], text[k])
      BY <1>1, <2>1, <2>2
    <2> HIDE DEF n
    <2> QED
      BY <2>1, <2>3
  <1> DEFINE read == CHOOSE g : Rec(g)
  <1>6. Rec(read)
    BY <1>5
  <1>7. Entries(text) = Enter(read[n]).entries
    BY DEF Entries, start
  <1> HIDE DEF read
  <1>8. read = [k \in 0..n |-> IF k = 0 THEN start ELSE Read(read[k - 1], text[k])]
    BY <1>6
  <1> HIDE DEF n, step
  <1> DEFINE T == {k \in Nat : k <= n => read[k] \in Loop}
  <1>9. 0 \in T
    <2>1. read[0] = start
      BY <1>1, <1>8
    <2> QED
      BY <1>2, <2>1
  <1>10. ASSUME NEW k \in Nat, k \in T PROVE k + 1 \in T
    <2> SUFFICES ASSUME k + 1 <= n PROVE read[k + 1] \in Loop
      OBVIOUS
    <2>1. k + 1 \in 0..n /\ k + 1 # 0 /\ k + 1 \in 1..n /\ (k + 1) - 1 = k /\ read[k] \in Loop
      BY <1>1, <1>10
    <2>2. read[k + 1] = IF k + 1 = 0 THEN start ELSE Read(read[(k + 1) - 1], text[k + 1])
      BY ONLY <1>8, <2>1
    <2> QED
      BY <1>1, <2>1, <2>2, ReadTyped
  <1>11. read[n] \in Loop
    <2>1. n \in T
      <3> HIDE DEF T
      <3> QED
        BY <1>1, <1>9, <1>10, Induct
    <2> QED
      BY <1>1, <2>1
  <1> QED
    BY <1>7, <1>11, EnterTyped DEF Loop

\* The names are texts and the levels are numbers, and the map is finite.
Typed(map) ==
  /\ IsFiniteSet(DOMAIN map) /\ DOMAIN map \subseteq Seq(Char)
  /\ \A m \in DOMAIN map : map[m] \in Int

LEMMA InsertTyped ==
  ASSUME NEW map, Typed(map), NEW entries \in Seq(Entry)
  PROVE  Typed(Insert(map, entries))
  <1> DEFINE n == Len(entries)
             N == {entries[k].names : k \in 1..n}
             given(m) == {k \in DOMAIN entries : m \in entries[k].names}
             names == UNION {e.names : e \in ToSet(entries)}
  <1>1. n \in Nat /\ DOMAIN entries = 1..n /\ \A k \in 1..n : entries[k] \in Entry
    OBVIOUS
  <1>2. names = UNION N
    BY <1>1 DEF ToSet
  <1>3. IsFiniteSet(UNION N) /\ UNION N \subseteq Seq(Char)
    <2>1. IsFiniteSet(N)
      <3> DEFINE f == [k \in 1..n |-> entries[k].names]
      <3>1. N = {f[k] : k \in 1..n}
        OBVIOUS
      <3> HIDE DEF f, N
      <3> QED
        BY <1>1, <3>1, FiniteImage
    <2>2. \A s \in N : IsFiniteSet(s) /\ s \subseteq Seq(Char)
      BY <1>1 DEF Entry
    <2> HIDE DEF N
    <2> QED
      BY <2>1, <2>2, FS_UNION
  <1>4. IsFiniteSet(DOMAIN map \cup UNION N)
    BY <1>3, FS_Union DEF Typed
  <1>5. ASSUME NEW m \in UNION N
        PROVE  entries[CHOOSE k \in given(m) : \A j \in given(m) : k <= j].level \in Int
    <2>1. given(m) # {} /\ given(m) \subseteq 1..n
      BY <1>1
    <2>2. 1..n \subseteq Nat
      BY <1>1
    <2> HIDE DEF given, n
    <2>3. \E k \in given(m) : \A j \in given(m) : k <= j
      BY <2>1, <2>2, Lowest
    <2>4. (CHOOSE k \in given(m) : \A j \in given(m) : k <= j) \in 1..n
      BY <2>1, <2>3
    <2> QED
      BY <1>1, <2>4 DEF Entry
  <1>6. Insert(map, entries) =
          [m \in DOMAIN map \cup UNION N |->
             IF m \in DOMAIN map THEN map[m]
             ELSE entries[CHOOSE k \in given(m) : \A j \in given(m) : k <= j].level]
    BY <1>2 DEF Insert
  <1> HIDE DEF N, given, n
  <1> QED
    BY <1>3, <1>4, <1>5, <1>6 DEF Typed

LEMMA ParamTyped ==
  ASSUME NEW args \in Arguments, NEW key \in {"-vmodule", "-VMODULE"},
         HasParamWithValue(args, key)
  PROVE  GetParamValue(args, key) \in Seq(Char)
  <1> DEFINE given == {k \in DOMAIN args : args[k].key = key /\ args[k].value # NoValue}
  <1>1. given # {} /\ given \subseteq Nat
    BY TextAssumption DEF HasParamWithValue
  <1>2. \A k \in given : args[k].value \in Seq(Char)
    BY TextAssumption
  <1>3. GetParamValue(args, key) = args[CHOOSE k \in given : \A j \in given : k <= j].value
    BY DEF GetParamValue
  <1> HIDE DEF given
  <1>4. \E k \in given : \A j \in given : k <= j
    BY <1>1, Lowest
  <1> QED
    BY <1>2, <1>3, <1>4

LEMMA InitTyped == Init => Typed(modules)
  <1>1. DOMAIN <<>> = {} /\ IsFiniteSet({})
    BY FS_EmptySet
  <1> QED
    BY <1>1 DEF Init, Typed

LEMMA NextTyped == Typed(modules) /\ [Next]_vars => Typed(modules)'
  <1> SUFFICES ASSUME Typed(modules), [Next]_vars PROVE Typed(modules')
    BY DEF Typed
  <1>1. ASSUME NEW text \in Seq(Char), modules' = SetModules(text) PROVE Typed(modules')
    BY <1>1, EntriesTyped, InsertTyped DEF SetModules
  <1>2. CASE modules' = modules
    BY <1>2
  <1>3. CASE Reach
    BY <1>2, <1>3 DEF Reach
  <1>4. ASSUME NEW l \in Levels, SetVerboseLevel(l) PROVE Typed(modules')
    BY <1>2, <1>4 DEF SetVerboseLevel
  <1>5. ASSUME NEW t \in Texts, SetVModules(t) PROVE Typed(modules')
    BY <1>1, <1>5, TextAssumption DEF SetVModules
  <1>6. CASE ClearVModules
    <2>1. modules' = <<>>
      BY <1>6 DEF ClearVModules
    <2>2. DOMAIN <<>> = {} /\ IsFiniteSet({})
      BY FS_EmptySet
    <2> QED
      BY <2>1, <2>2 DEF Typed
  <1>7. ASSUME NEW f \in Flag, ChangeFlag(f) PROVE Typed(modules')
    BY <1>2, <1>7 DEF ChangeFlag
  <1>8. ASSUME NEW args \in Arguments, SetFromArgs(args) PROVE Typed(modules')
    <2>1. \/ modules' = modules
          \/ /\ HasParamWithValue(args, "-vmodule")
             /\ modules' = SetModules(GetParamValue(args, "-vmodule"))
          \/ /\ HasParamWithValue(args, "-VMODULE")
             /\ modules' = SetModules(GetParamValue(args, "-VMODULE"))
      BY <1>8 DEF SetFromArgs
    <2> QED
      BY <1>1, <1>2, <2>1, ParamTyped
  <1>9. CASE UNCHANGED vars
    BY <1>2, <1>9 DEF vars
  <1> QED
    BY <1>3, <1>4, <1>5, <1>6, <1>7, <1>8, <1>9 DEF Next

-----------------------------------------------------------------------------
(* Verbose statements *)

LEMMA TypedMatches == Typed(modules) => MatchesAsDefined
  <1> SUFFICES ASSUME Typed(modules) PROVE MatchesAsDefined
    OBVIOUS
  <1>1. WildCards
    <2> DEFINE C == {"a", "b", "?", "*"}
    <2>1. \A n \in 0..4 : [1..n -> {"a", "b"}] \subseteq Seq(C) /\ [1..n -> C] \subseteq Seq(C)
      <3>1. ASSUME NEW n \in 0..4, NEW D, D \subseteq C PROVE [1..n -> D] \subseteq Seq(C)
        <4> HIDE DEF C
        <4>1. n \in Nat
          OBVIOUS
        <4>2. [1..n -> C] \subseteq Seq(C)
          BY <4>1, SeqDef
        <4>3. [1..n -> D] \subseteq [1..n -> C]
          BY <3>1, Zenon
        <4> QED
          BY <4>2, <4>3
      <3> QED
        BY <3>1
    <2> SUFFICES ASSUME NEW str \in UNION {[1..n -> {"a", "b"}] : n \in 0..4},
                        NEW pattern \in UNION {[1..n -> C] : n \in 0..4}
                 PROVE  WildCardMatch(str, pattern) <=> Matching(str, pattern)
      BY DEF WildCards
    <2>2. str \in Seq(C) /\ pattern \in Seq(C)
      BY <2>1
    <2> HIDE DEF C
    <2> QED
      BY <2>2, WildCardIsMatching
  <1>2. ASSUME NEW file \in {s.file : s \in Statements}, NEW l \in Levels
        PROVE  LET match == {m \in DOMAIN modules : Matching(file, m)} IN
               /\ match # {} /\ (\A m \in match : l <= modules[m]) => Allowed(l, file)
               /\ match # {} /\ (\A m \in match : l > modules[m]) => ~Allowed(l, file)
               /\ match = {} /\ modules # <<>> =>
                    (Allowed(l, file) <=> "AllowVerboseIfModuleNotSpecified" \in flags)
    <2> DEFINE match == {m \in DOMAIN modules : Matching(file, m)}
               first == CHOOSE m \in match : \A o \in match \ {m} : Before(m, o)
    <2>1. file \in Seq(Char) /\ l \in Int
      BY FiltersAssumption
    <2>2. match = {m \in DOMAIN modules : WildCardMatch(file, m)}
      BY <2>1, WildCardIsMatching DEF Typed
    <2>3. Allowed(l, file) <=>
            IF modules = <<>> THEN l <= level
            ELSE IF match = {} THEN "AllowVerboseIfModuleNotSpecified" \in flags
            ELSE l <= modules[first]
      BY <2>2 DEF Allowed
    <2>4. match \subseteq DOMAIN modules /\ IsFiniteSet(match) /\ match \subseteq Seq(Char)
      <3>1. match \subseteq DOMAIN modules
        OBVIOUS
      <3> HIDE DEF match
      <3> QED
        BY <3>1, FS_Subset DEF Typed
    <2> HIDE DEF match
    <2>5. match # {} => first \in match
      BY <2>4, FirstExists DEF First
    <2>6. match # {} => modules # <<>>
      BY <2>4
    <2> HIDE DEF first
    <2>7. match # {} => modules[first] \in Int /\ (Allowed(l, file) <=> l <= modules[first])
      BY <2>3, <2>4, <2>5, <2>6 DEF Typed
    <2>8. match # {} /\ (\A m \in match : l > modules[m]) => ~Allowed(l, file)
      BY <2>1, <2>5, <2>7
    <2>9. match # {} /\ (\A m \in match : l <= modules[m]) => Allowed(l, file)
      BY <2>5, <2>7
    <2> QED
      BY <2>3, <2>8, <2>9 DEF match
  <1> QED
    BY <1>1, <1>2 DEF MatchesAsDefined

\* After any texts, command lines and changes of flags, a file finds exactly the modules
\* that it matches: they decide if a level is allowed where they agree, and a flag does
\* when there are none.
THEOREM FindsItsModules == Spec => []MatchesAsDefined
  BY InitTyped, NextTyped, TypedMatches, PTL DEF Spec

-----------------------------------------------------------------------------
(* Lists of settings *)

Setting == {s \in [level : Level, type : Type, value : File \cup BOOLEAN] : s.value \in Value(s.type)}
List == Seq(Setting)

LEMMA LevelsAreLevels ==
  /\ LevelList \in Seq(Level) /\ Global \in Level /\ <<Global>> \o LevelList \in Seq(Level)
  /\ \A l \in Level : l = Global \/ \E k \in 1..Len(LevelList) : LevelList[k] = l
  <1>1. LevelList \in Seq(ToSet(LevelList)) /\ ToSet(LevelList) \subseteq Level /\ Global \in Level
    BY ConfigurationAssumption DEF Level
  <1>2. ToSet(LevelList) = {LevelList[k] : k \in DOMAIN LevelList}
    BY DEF ToSet
  <1>3. LevelList \in Seq(Level)
    BY <1>1
  <1>4. <<Global>> \o LevelList \in Seq(Level)
    BY <1>1, <1>3
  <1> QED
    BY <1>1, <1>2, <1>3, <1>4 DEF Level

LEMMA UnsafeSetTyped ==
  ASSUME NEW c \in List, NEW l \in Level, NEW t \in Type, NEW v \in Value(t)
  PROVE  UnsafeSet(c, l, t, v) \in List
  <1>1. [level |-> l, type |-> t, value |-> v] \in Setting
    BY DEF Setting, Value
  <1>2. ASSUME NEW k \in DOMAIN c, c[k].type = t PROVE [c[k] EXCEPT !.value = v] \in Setting
    BY <1>2 DEF Setting, Value, List
  <1>3. Len(c) \in Nat /\ DOMAIN c = 1..Len(c) /\ \A k \in DOMAIN c : c[k] \in Setting
    BY DEF List
  <1>4. CASE Matches(c, l, t) = {}
    BY <1>1, <1>4 DEF UnsafeSet, List
  <1>5. CASE Matches(c, l, t) # {}
    <2> DEFINE e == [k \in DOMAIN c |-> IF k \in Matches(c, l, t) THEN [c[k] EXCEPT !.value = v] ELSE c[k]]
    <2>1. e \in [1..Len(c) -> Setting]
      BY <1>2, <1>3 DEF Matches
    <2> HIDE DEF e
    <2>2. e \in Seq(Setting)
      BY <1>3, <2>1, SeqDef
    <2> QED
      BY <1>5, <2>2 DEF UnsafeSet, e, List
  <1> QED
    BY <1>4, <1>5

\* A level and type have one setting at most, and that of Global comes before the
\* others of its type: what the maps of TypedConfigurations rely on.
Sound(c) ==
  /\ c \in List
  /\ \A j, k \in DOMAIN c : c[j].level = c[k].level /\ c[j].type = c[k].type => j = k
  /\ \A k \in DOMAIN c : \E j \in 1..k : c[j].level = Global /\ c[j].type = c[k].type

Has(c, l, t) == Matches(c, l, t) # {}
Grows(c, d) == \A l \in Level, t \in Type : Has(c, l, t) => Has(d, l, t)
Complete(c) == Sound(c) /\ \A l \in Level, t \in Type : Has(c, l, t)

LEMMA UnsafeSetIs ==
  ASSUME NEW c \in List, NEW l \in Level, NEW t \in Type, NEW v \in Value(t)
  PROVE  LET d == UnsafeSet(c, l, t, v) IN
         /\ DOMAIN d = 1..Len(d) /\ Len(d) = IF Has(c, l, t) THEN Len(c) ELSE Len(c) + 1
         /\ \A k \in 1..Len(c) : d[k].level = c[k].level /\ d[k].type = c[k].type
         /\ ~Has(c, l, t) => d[Len(c) + 1].level = l /\ d[Len(c) + 1].type = t
  <1>1. Len(c) \in Nat /\ DOMAIN c = 1..Len(c) /\ \A k \in DOMAIN c : c[k] \in Setting
    BY DEF List
  <1>2. CASE ~Has(c, l, t)
    BY <1>1, <1>2 DEF UnsafeSet, Has, List
  <1>3. CASE Has(c, l, t)
    <2> DEFINE e == [k \in 1..Len(c) |-> IF k \in Matches(c, l, t) THEN [c[k] EXCEPT !.value = v] ELSE c[k]]
    <2>1. UnsafeSet(c, l, t, v) = e
      BY <1>1, <1>3 DEF UnsafeSet, Has
    <2>2. \A k \in 1..Len(c) : e[k].level = c[k].level /\ e[k].type = c[k].type
      BY <1>1 DEF Setting
    <2>3. UnsafeSet(c, l, t, v) \in Seq(Setting)
      BY UnsafeSetTyped DEF List
    <2>4. DOMAIN e = 1..Len(c) /\ Len(e) = Len(c)
      BY <1>1, <2>1, <2>3
    <2> HIDE DEF e
    <2> QED
      BY <1>3, <2>1, <2>2, <2>4
  <1> QED
    BY <1>2, <1>3

LEMMA UnsafeSetGrows ==
  ASSUME NEW c \in List, NEW l \in Level, NEW t \in Type, NEW v \in Value(t)
  PROVE  Grows(c, UnsafeSet(c, l, t, v)) /\ Has(UnsafeSet(c, l, t, v), l, t)
  <1> DEFINE d == UnsafeSet(c, l, t, v)
  <1>1. Len(c) \in Nat /\ DOMAIN c = 1..Len(c)
    BY DEF List
  <1>2. /\ DOMAIN d = 1..Len(d) /\ Len(d) = IF Has(c, l, t) THEN Len(c) ELSE Len(c) + 1
        /\ \A k \in 1..Len(c) : d[k].level = c[k].level /\ d[k].type = c[k].type
        /\ ~Has(c, l, t) => d[Len(c) + 1].level = l /\ d[Len(c) + 1].type = t
    BY UnsafeSetIs
  <1> HIDE DEF d
  <1>3. ASSUME NEW m \in Level, NEW u \in Type, Has(c, m, u) PROVE Has(d, m, u)
    <2>1. PICK k \in 1..Len(c) : c[k].level = m /\ c[k].type = u
      BY <1>1, <1>3 DEF Has, Matches
    <2>2. k \in DOMAIN d /\ d[k].level = m /\ d[k].type = u
      BY <1>1, <1>2, <2>1
    <2> QED
      BY <2>2 DEF Has, Matches
  <1>4. Has(d, l, t)
    <2>1. CASE Has(c, l, t)
      BY <1>3, <2>1
    <2>2. CASE ~Has(c, l, t)
      BY <1>1, <1>2, <2>2 DEF Has, Matches
    <2> QED
      BY <2>1, <2>2
  <1> QED
    BY <1>3, <1>4 DEF d, Grows

LEMMA UnsafeSetSound ==
  ASSUME NEW c, Sound(c), NEW l \in Level, NEW t \in Type, NEW v \in Value(t),
         l = Global \/ Has(c, Global, t)
  PROVE  Sound(UnsafeSet(c, l, t, v))
  <1> DEFINE d == UnsafeSet(c, l, t, v)
  <1>1. c \in List /\ Len(c) \in Nat /\ DOMAIN c = 1..Len(c)
    BY DEF List, Sound
  <1>2. /\ DOMAIN d = 1..Len(d) /\ Len(d) = IF Has(c, l, t) THEN Len(c) ELSE Len(c) + 1
        /\ \A k \in 1..Len(c) : d[k].level = c[k].level /\ d[k].type = c[k].type
        /\ ~Has(c, l, t) => d[Len(c) + 1].level = l /\ d[Len(c) + 1].type = t
    BY <1>1, UnsafeSetIs
  <1>3. d \in List
    BY <1>1, UnsafeSetTyped
  <1> HIDE DEF d
  <1>4. ASSUME NEW j \in DOMAIN d, NEW k \in DOMAIN d, d[j].level = d[k].level,
               d[j].type = d[k].type
        PROVE  j = k
    <2>1. CASE j \in 1..Len(c) /\ k \in 1..Len(c)
      BY <1>1, <1>2, <1>4, <2>1 DEF Sound
    <2>2. CASE ~Has(c, l, t)
      BY <1>1, <1>2, <1>4, <2>1, <2>2 DEF Has, Matches
    <2> QED
      BY <1>1, <1>2, <2>1, <2>2
  <1>5. ASSUME NEW k \in DOMAIN d PROVE \E j \in 1..k : d[j].level = Global /\ d[j].type = d[k].type
    <2>1. CASE k \in 1..Len(c)
      <3>1. PICK j \in 1..k : c[j].level = Global /\ c[j].type = c[k].type
        BY <1>1, <2>1 DEF Sound
      <3> QED
        BY <1>1, <1>2, <2>1, <3>1
    <2>2. CASE k = Len(c) + 1 /\ ~Has(c, l, t) /\ l = Global
      BY <1>1, <1>2, <2>2
    <2>3. CASE k = Len(c) + 1 /\ ~Has(c, l, t) /\ l # Global
      <3>1. PICK j \in 1..Len(c) : c[j].level = Global /\ c[j].type = t
        BY <1>1, <2>3 DEF Has, Matches
      <3> QED
        BY <1>1, <1>2, <2>3, <3>1
    <2> QED
      BY <1>1, <1>2, <2>1, <2>2, <2>3
  <1> QED
    BY <1>3, <1>4, <1>5 DEF Sound, d

\* The list after each of the levels
LEMMA SetLevelsSteps ==
  ASSUME NEW c \in List, NEW levels \in Seq(Level), NEW t \in Type, NEW v \in Value(t)
  PROVE  \E f : /\ SetLevels(c, levels, t, v) = f[Len(levels)]
               /\ f[0] = c
               /\ \A k \in 1..Len(levels) : f[k] = UnsafeSet(f[k - 1], levels[k], t, v)
  <1> DEFINE n == Len(levels)
             start == c
             next(x, k) == UnsafeSet(x, levels[k], t, v)
             step == [k \in 1..n |-> [x \in List |-> next(x, k)]]
             Rec(f) == f = [k \in 0..n |-> IF k = 0 THEN start ELSE next(f[k - 1], k)]
  <1>1. n \in Nat
    OBVIOUS
  <1>2. start \in List
    OBVIOUS
  <1>3. \A k \in 1..n : \A x \in List : next(x, k) \in List
    BY UnsafeSetTyped
  <1>4. SetLevels(c, levels, t, v) = (CHOOSE f : Rec(f))[n]
    BY DEF SetLevels
  <1> HIDE DEF n, start, next
  <1>5. PICK f : Solves(f, n, List, start, step)
    <2>1. Stepwise(step, n, List)
      BY <1>3 DEF Stepwise
    <2> HIDE DEF step
    <2> QED
      BY <1>1, <1>2, <2>1, Recursion
  <1>6. Rec(f)
    <2>1. f = [k \in 0..n |-> f[k]] /\ f[0] = start
      BY <1>5 DEF Solves
    <2>2. ASSUME NEW k \in 1..n PROVE f[k - 1] \in List /\ f[k] = step[k][f[k - 1]]
      <3>1. k - 1 \in 0..n
        BY <1>1
      <3> QED
        BY <1>5, <3>1 DEF Solves
    <2>3. \A k \in 1..n : f[k] = next(f[k - 1], k)
      BY <2>2
    <2>4. ASSUME NEW k \in 0..n PROVE f[k] = IF k = 0 THEN start ELSE next(f[k - 1], k)
      <3>1. f[0] = start /\ (k = 0 \/ (k # 0 /\ k \in 1..n))
        BY <1>1, <2>1
      <3> QED
        BY ONLY <2>3, <3>1
    <2> QED
      BY <2>1, <2>4
  <1> HIDE DEF step
  <1> DEFINE h == CHOOSE g : Rec(g)
  <1>7. h = [k \in 0..n |-> IF k = 0 THEN start ELSE next(h[k - 1], k)]
    <2>1. Rec(h)
      BY <1>6
    <2> HIDE DEF h
    <2> QED
      BY <2>1
  <1>8. SetLevels(c, levels, t, v) = h[n]
    BY <1>4
  <1> HIDE DEF h
  <1>9. h[0] = start
    BY <1>1, <1>7
  <1>10. ASSUME NEW k \in 1..n PROVE h[k] = next(h[k - 1], k)
    <2>1. k \in 0..n /\ k # 0
      BY <1>1
    <2>2. h[k] = IF k = 0 THEN start ELSE next(h[k - 1], k)
      BY ONLY <1>7, <2>1
    <2> QED
      BY <2>1, <2>2
  <1> QED
    BY <1>8, <1>9, <1>10 DEF n, start, next


LEMMA SetLevelsTyped ==
  ASSUME NEW c \in List, NEW levels \in Seq(Level), NEW t \in Type, NEW v \in Value(t)
  PROVE  SetLevels(c, levels, t, v) \in List
  <1>1. PICK f : /\ SetLevels(c, levels, t, v) = f[Len(levels)]
                 /\ f[0] = c
                 /\ \A k \in 1..Len(levels) : f[k] = UnsafeSet(f[k - 1], levels[k], t, v)
    BY SetLevelsSteps
  <1> DEFINE T == {k \in Nat : k <= Len(levels) => f[k] \in List}
  <1>2. 0 \in T
    BY <1>1
  <1>3. ASSUME NEW k \in Nat, k \in T PROVE k + 1 \in T
    <2> SUFFICES ASSUME k + 1 <= Len(levels) PROVE f[k + 1] \in List
      OBVIOUS
    <2>1. k + 1 \in 1..Len(levels) /\ (k + 1) - 1 = k /\ f[k] \in List /\ levels[k + 1] \in Level
      BY <1>3
    <2> QED
      BY <1>1, <2>1, UnsafeSetTyped
  <1> HIDE DEF T
  <1>4. Len(levels) \in T
    BY <1>2, <1>3, Induct
  <1> QED
    BY <1>1, <1>4 DEF T

\* When Global comes first, or was set before, the list stays sound.
LEMMA SetLevelsSound ==
  ASSUME NEW c, Sound(c), NEW levels \in Seq(Level), NEW t \in Type, NEW v \in Value(t),
         Has(c, Global, t) \/ (levels # <<>> /\ levels[1] = Global)
  PROVE  LET d == SetLevels(c, levels, t, v) IN
         /\ Sound(d) /\ Grows(c, d)
         /\ \A k \in 1..Len(levels) : Has(d, levels[k], t)
  <1>1. c \in List
    BY DEF Sound
  <1>2. PICK f : /\ SetLevels(c, levels, t, v) = f[Len(levels)]
                 /\ f[0] = c
                 /\ \A k \in 1..Len(levels) : f[k] = UnsafeSet(f[k - 1], levels[k], t, v)
    BY <1>1, SetLevelsSteps
  <1> DEFINE Good(k) == /\ Sound(f[k]) /\ Grows(c, f[k])
                        /\ \A j \in 1..k : Has(f[k], levels[j], t)
             T == {k \in Nat : k <= Len(levels) => Good(k)}
  <1>3. 0 \in T
    BY <1>2 DEF Grows
  <1>4. ASSUME NEW k \in Nat, k \in T PROVE k + 1 \in T
    <2> SUFFICES ASSUME k + 1 <= Len(levels) PROVE Good(k + 1)
      OBVIOUS
    <2>1. /\ k + 1 \in 1..Len(levels) /\ (k + 1) - 1 = k /\ Good(k) /\ levels[k + 1] \in Level
          /\ \A j \in 1..k : levels[j] \in Level
      BY <1>4
    <2>2. f[k + 1] = UnsafeSet(f[k], levels[k + 1], t, v)
      BY <1>2, <2>1
    <2>3. Global \in Level
      BY LevelsAreLevels
    <2>4. levels[k + 1] = Global \/ Has(f[k], Global, t)
      <3>1. CASE Has(c, Global, t)
        BY <2>1, <2>3, <3>1 DEF Grows
      <3>2. CASE levels[1] = Global /\ k = 0
        BY <3>2
      <3>3. CASE levels[1] = Global /\ k # 0
        BY <2>1, <3>3
      <3> QED
        BY <3>1, <3>2, <3>3
    <2>5. f[k] \in List
      BY <2>1 DEF Sound
    <2>6. Sound(f[k + 1])
      BY <2>1, <2>2, <2>4, UnsafeSetSound
    <2>7. Grows(f[k], f[k + 1]) /\ Has(f[k + 1], levels[k + 1], t)
      BY <2>1, <2>2, <2>5, UnsafeSetGrows
    <2>8. Grows(c, f[k + 1])
      BY <2>1, <2>7 DEF Grows
    <2>9. ASSUME NEW j \in 1..(k + 1) PROVE Has(f[k + 1], levels[j], t)
      BY <2>1, <2>7 DEF Grows
    <2> QED
      BY <2>6, <2>8, <2>9
  <1> HIDE DEF Good
  <1>5. Len(levels) \in T
    <2> HIDE DEF T
    <2> QED
      BY <1>3, <1>4, Induct
  <1> QED
    BY <1>2, <1>5 DEF Good

LEMMA SetTyped ==
  ASSUME NEW c \in List, NEW l \in Level, NEW t \in Type, NEW v \in Value(t)
  PROVE  Set(c, l, t, v) \in List
  <1>1. <<l>> \in Seq(Level) /\ <<Global>> \o LevelList \in Seq(Level)
    BY LevelsAreLevels
  <1> QED
    BY <1>1, SetLevelsTyped DEF Set

LEMMA SetSound ==
  ASSUME NEW c, Sound(c), NEW l \in Level, NEW t \in Type, NEW v \in Value(t),
         Has(c, Global, t) \/ l = Global
  PROVE  LET d == Set(c, l, t, v) IN
         /\ Sound(d) /\ Grows(c, d) /\ Has(d, l, t)
         /\ l = Global => \A m \in Level : Has(d, m, t)
  <1> DEFINE levels == IF l = Global THEN <<l>> \o LevelList ELSE <<l>>
             d == Set(c, l, t, v)
  <1>1. /\ levels \in Seq(Level) /\ levels # <<>> /\ levels[1] = l /\ 1 \in 1..Len(levels)
        /\ l = Global => \A m \in Level : \E k \in 1..Len(levels) : levels[k] = m
    <2>1. CASE l # Global
      BY <2>1
    <2>2. CASE l = Global
      <3>1. LevelList \in Seq(Level) /\ levels = <<Global>> \o LevelList /\ levels \in Seq(Level)
        BY <2>2, LevelsAreLevels
      <3>2. /\ Len(levels) = Len(LevelList) + 1 /\ Len(LevelList) \in Nat /\ levels[1] = Global
            /\ \A k \in 1..Len(LevelList) : levels[k + 1] = LevelList[k]
        BY <3>1
      <3> HIDE DEF levels
      <3>3. \A m \in Level : m = Global \/ \E k \in 1..Len(LevelList) : LevelList[k] = m
        BY LevelsAreLevels
      <3>4. ASSUME NEW m \in Level PROVE \E k \in 1..Len(levels) : levels[k] = m
        <4>1. CASE m = Global
          BY <3>2, <4>1
        <4>2. CASE m # Global
          <5>1. PICK k \in 1..Len(LevelList) : LevelList[k] = m
            BY <3>3, <4>2
          <5>2. k + 1 \in 1..Len(levels) /\ levels[k + 1] = m
            BY <3>2, <5>1
          <5> QED
            BY <5>2
        <4> QED
          BY <4>1, <4>2
      <3>5. levels # <<>>
        BY <3>2
      <3> QED
        BY <2>2, <3>1, <3>2, <3>4, <3>5
    <2> QED
      BY <2>1, <2>2
  <1>2. d = SetLevels(c, levels, t, v)
    BY DEF Set
  <1> HIDE DEF levels, d
  <1>3. Sound(d) /\ Grows(c, d) /\ \A k \in 1..Len(levels) : Has(d, levels[k], t)
    BY <1>1, <1>2, SetLevelsSound
  <1>4. Has(d, l, t)
    BY <1>1, <1>3
  <1>5. l = Global => \A m \in Level : Has(d, m, t)
    BY <1>1, <1>3
  <1> QED
    BY <1>3, <1>4, <1>5 DEF d

LEMMA SettingsOf ==
  ASSUME NEW c \in List
  PROVE  /\ Len(c) \in Nat /\ DOMAIN c = 1..Len(c)
         /\ \A k \in 1..Len(c) : /\ c[k].level \in Level /\ c[k].type \in Type
                                 /\ c[k].value \in Value(c[k].type)
  <1>1. Len(c) \in Nat /\ DOMAIN c = 1..Len(c) /\ \A k \in 1..Len(c) : c[k] \in Setting
    BY DEF List
  <1> QED
    BY <1>1 DEF Setting

\* The list after each setting of base
LEMMA SetFromBaseSteps ==
  ASSUME NEW c \in List, NEW base \in List
  PROVE  \E f : /\ SetFromBase(c, base) = f[Len(base)]
               /\ f[0] = c
               /\ \A k \in 1..Len(base) : f[k] = Set(f[k - 1], base[k].level, base[k].type, base[k].value)
  <1> DEFINE n == Len(base)
             start == c
             next(x, k) == Set(x, base[k].level, base[k].type, base[k].value)
             step == [k \in 1..n |-> [x \in List |-> next(x, k)]]
             Rec(f) == f = [k \in 0..n |-> IF k = 0 THEN start ELSE next(f[k - 1], k)]
  <1>1. n \in Nat
    BY DEF List
  <1>2. start \in List
    OBVIOUS
  <1>3. \A k \in 1..n : \A x \in List : next(x, k) \in List
    BY SettingsOf, SetTyped
  <1>4. SetFromBase(c, base) = (CHOOSE f : Rec(f))[n]
    BY DEF SetFromBase
  <1> HIDE DEF n, start, next
  <1>5. PICK f : Solves(f, n, List, start, step)
    <2>1. Stepwise(step, n, List)
      BY <1>3 DEF Stepwise
    <2> HIDE DEF step
    <2> QED
      BY <1>1, <1>2, <2>1, Recursion
  <1>6. Rec(f)
    <2>1. f = [k \in 0..n |-> f[k]] /\ f[0] = start
      BY <1>5 DEF Solves
    <2>2. ASSUME NEW k \in 1..n PROVE f[k - 1] \in List /\ f[k] = step[k][f[k - 1]]
      <3>1. k - 1 \in 0..n
        BY <1>1
      <3> QED
        BY <1>5, <3>1 DEF Solves
    <2>3. \A k \in 1..n : f[k] = next(f[k - 1], k)
      BY <2>2
    <2>4. ASSUME NEW k \in 0..n PROVE f[k] = IF k = 0 THEN start ELSE next(f[k - 1], k)
      <3>1. f[0] = start /\ (k = 0 \/ (k # 0 /\ k \in 1..n))
        BY <1>1, <2>1
      <3> QED
        BY ONLY <2>3, <3>1
    <2> QED
      BY <2>1, <2>4
  <1> HIDE DEF step
  <1> DEFINE h == CHOOSE g : Rec(g)
  <1>7. h = [k \in 0..n |-> IF k = 0 THEN start ELSE next(h[k - 1], k)]
    <2>1. Rec(h)
      BY <1>6
    <2> HIDE DEF h
    <2> QED
      BY <2>1
  <1>8. SetFromBase(c, base) = h[n]
    BY <1>4
  <1> HIDE DEF h
  <1>9. h[0] = start
    BY <1>1, <1>7
  <1>10. ASSUME NEW k \in 1..n PROVE h[k] = next(h[k - 1], k)
    <2>1. k \in 0..n /\ k # 0
      BY <1>1
    <2>2. h[k] = IF k = 0 THEN start ELSE next(h[k - 1], k)
      BY ONLY <1>7, <2>1
    <2> QED
      BY <2>1, <2>2
  <1> QED
    BY <1>8, <1>9, <1>10 DEF n, start, next


LEMMA SetFromBaseTyped ==
  ASSUME NEW c \in List, NEW base \in List
  PROVE  SetFromBase(c, base) \in List
  <1>1. PICK f : /\ SetFromBase(c, base) = f[Len(base)]
                 /\ f[0] = c
                 /\ \A k \in 1..Len(base) :
                      f[k] = Set(f[k - 1], base[k].level, base[k].type, base[k].value)
    BY SetFromBaseSteps
  <1> DEFINE T == {k \in Nat : k <= Len(base) => f[k] \in List}
  <1>2. 0 \in T
    BY <1>1
  <1>3. ASSUME NEW k \in Nat, k \in T PROVE k + 1 \in T
    <2> SUFFICES ASSUME k + 1 <= Len(base) PROVE f[k + 1] \in List
      OBVIOUS
    <2>1. k + 1 \in 1..Len(base) /\ (k + 1) - 1 = k /\ f[k] \in List
      BY <1>3, SettingsOf
    <2>2. f[k + 1] = Set(f[k], base[k + 1].level, base[k + 1].type, base[k + 1].value)
      BY <1>1, <2>1
    <2> QED
      BY <2>1, <2>2, SetTyped, SettingsOf
  <1> HIDE DEF T
  <1>4. Len(base) \in T
    BY <1>2, <1>3, Induct, SettingsOf
  <1> QED
    BY <1>1, <1>4, SettingsOf DEF T

\* What is set one by one is in the list afterwards.  The list stays sound when it has
\* a setting of Global for each type, or gets one from base before the others.
LEMMA SetFromBaseSound ==
  ASSUME NEW c, Sound(c), NEW base \in List,
         \A k \in 1..Len(base) :
           \/ Has(c, Global, base[k].type)
           \/ \E j \in 1..k : base[j].level = Global /\ base[j].type = base[k].type
  PROVE  LET d == SetFromBase(c, base) IN
         /\ Sound(d) /\ Grows(c, d)
         /\ \A k \in 1..Len(base) : Has(d, base[k].level, base[k].type)
  <1>1. c \in List
    BY DEF Sound
  <1>2. PICK f : /\ SetFromBase(c, base) = f[Len(base)]
                 /\ f[0] = c
                 /\ \A k \in 1..Len(base) :
                      f[k] = Set(f[k - 1], base[k].level, base[k].type, base[k].value)
    BY <1>1, SetFromBaseSteps
  <1> DEFINE Good(k) == /\ Sound(f[k]) /\ Grows(c, f[k])
                        /\ \A j \in 1..k : Has(f[k], base[j].level, base[j].type)
             T == {k \in Nat : k <= Len(base) => Good(k)}
  <1>3. 0 \in T
    BY <1>2 DEF Grows
  <1>4. ASSUME NEW k \in Nat, k \in T PROVE k + 1 \in T
    <2> SUFFICES ASSUME k + 1 <= Len(base) PROVE Good(k + 1)
      OBVIOUS
    <2> DEFINE s == base[k + 1]
    <2>1. k + 1 \in 1..Len(base) /\ (k + 1) - 1 = k /\ Good(k)
      BY <1>4, SettingsOf
    <2>2. f[k + 1] = Set(f[k], s.level, s.type, s.value)
      BY <1>2, <2>1
    <2>3. /\ s.level \in Level /\ s.type \in Type /\ s.value \in Value(s.type) /\ Global \in Level
          /\ \A j \in 1..k : base[j].level \in Level /\ base[j].type \in Type
      BY <2>1, SettingsOf, LevelsAreLevels
    <2>4. s.level = Global \/ Has(f[k], Global, s.type)
      <3>1. CASE Has(c, Global, s.type)
        BY <2>1, <2>3, <3>1 DEF Grows
      <3>2. CASE ~Has(c, Global, s.type)
        <4>1. PICK j \in 1..(k + 1) : base[j].level = Global /\ base[j].type = s.type
          BY <2>1, <3>2
        <4>2. CASE j = k + 1
          BY <4>1, <4>2
        <4>3. CASE j # k + 1
          <5>1. j \in 1..k
            BY <4>3
          <5> QED
            BY <2>1, <4>1, <5>1
        <4> QED
          BY <4>2, <4>3
      <3> QED
        BY <3>1, <3>2
    <2> HIDE DEF s
    <2>5. Sound(f[k + 1]) /\ Grows(f[k], f[k + 1]) /\ Has(f[k + 1], s.level, s.type)
      BY <2>1, <2>2, <2>3, <2>4, SetSound
    <2>6. Grows(c, f[k + 1])
      BY <2>1, <2>5 DEF Grows
    <2>7. ASSUME NEW j \in 1..(k + 1) PROVE Has(f[k + 1], base[j].level, base[j].type)
      <3>1. CASE j = k + 1
        BY <2>5, <3>1 DEF s
      <3>2. CASE j # k + 1
        <4>1. j \in 1..k
          BY <3>2
        <4> QED
          BY <2>1, <2>3, <2>5, <4>1 DEF Grows
      <3> QED
        BY <3>1, <3>2
    <2> QED
      BY <2>5, <2>6, <2>7
  <1> HIDE DEF Good
  <1>5. Len(base) \in T
    <2> HIDE DEF T
    <2> QED
      BY <1>3, <1>4, Induct, SettingsOf
  <1> QED
    BY <1>2, <1>5, SettingsOf DEF Good

LEMMA EmptySound == Sound(<<>>)
  <1>1. <<>> \in List /\ DOMAIN <<>> = {}
    BY DEF List
  <1> QED
    BY <1>1 DEF Sound

\* A new logger, with the defaults
LEMMA CopyComplete ==
  ASSUME NEW base, Complete(base)
  PROVE  Complete(SetFromBase(<<>>, base))
  <1> DEFINE d == SetFromBase(<<>>, base)
  <1>1. base \in List /\ Sound(base) /\ DOMAIN base = 1..Len(base)
    BY SettingsOf DEF Complete, Sound
  <1>2. Sound(d) /\ \A k \in 1..Len(base) : Has(d, base[k].level, base[k].type)
    BY <1>1, EmptySound, SetFromBaseSound DEF Sound
  <1> HIDE DEF d
  <1>3. ASSUME NEW l \in Level, NEW t \in Type PROVE Has(d, l, t)
    <2>1. PICK k \in 1..Len(base) : base[k].level = l /\ base[k].type = t
      BY <1>1 DEF Complete, Has, Matches
    <2> QED
      BY <1>2, <2>1
  <1> QED
    BY <1>2, <1>3 DEF Complete, d

\* A logger that is there, and the defaults, with any settings
LEMMA ChangeComplete ==
  ASSUME NEW c, Complete(c), NEW base \in List
  PROVE  Complete(SetFromBase(c, base))
  <1> DEFINE d == SetFromBase(c, base)
  <1>1. Sound(c) /\ Global \in Level /\ \A k \in 1..Len(base) : base[k].type \in Type
    BY SettingsOf, LevelsAreLevels DEF Complete
  <1>2. Sound(d) /\ Grows(c, d)
    BY <1>1, SetFromBaseSound DEF Complete
  <1> HIDE DEF d
  <1> QED
    BY <1>2 DEF Complete, Grows, d

LEMMA SetDefaultTyped ==
  ASSUME NEW c \in List, NEW t \in Type
  PROVE  SetDefault(c, t) \in List
  <1>1. Global \in Level /\ Default(t) \in Value(t)
    BY LevelsAreLevels, ConfigurationAssumption DEF Default, Value
  <1> QED
    BY <1>1, SetTyped DEF SetDefault

LEMMA DefaultsTyped ==
  ASSUME NEW c \in List
  PROVE  SetToDefault(c) \in List /\ SetRemainingToDefault(c) \in List
  <1>1. {"Filename", "ToFile", "PerformanceTracking"} \subseteq Type
    BY DEF Type
  <1>2. SetToDefault(c) \in List
    BY <1>1, SetDefaultTyped DEF SetToDefault
  <1>3. ASSUME NEW d \in List, NEW t \in Type PROVE SetIfNotExist(d, t) \in List
    BY SetDefaultTyped DEF SetIfNotExist
  <1>4. SetRemainingToDefault(c) \in List
    BY <1>1, <1>3 DEF SetRemainingToDefault
  <1> QED
    BY <1>2, <1>4

LEMMA DefaultsComplete == Complete(SetToDefault(<<>>))
  <1>1. ASSUME NEW c, Sound(c), NEW t \in Type
        PROVE  /\ Sound(SetDefault(c, t)) /\ Grows(c, SetDefault(c, t))
               /\ \A l \in Level : Has(SetDefault(c, t), l, t)
    <2>1. Global \in Level /\ Default(t) \in Value(t)
      BY LevelsAreLevels, ConfigurationAssumption DEF Default, Value
    <2> QED
      BY <1>1, <2>1, SetSound DEF SetDefault
  <1> DEFINE a == SetDefault(<<>>, "Filename")
             b == SetDefault(a, "ToFile")
             c == SetDefault(b, "PerformanceTracking")
  <1>2. SetToDefault(<<>>) = c
    BY DEF SetToDefault
  <1>3. Type = {"ToFile", "Filename", "PerformanceTracking"}
    BY DEF Type
  <1>4. Sound(a) /\ \A l \in Level : Has(a, l, "Filename")
    BY <1>1, <1>3, EmptySound
  <1> HIDE DEF a
  <1>5. Sound(b) /\ Grows(a, b) /\ \A l \in Level : Has(b, l, "ToFile")
    BY <1>1, <1>3, <1>4
  <1> HIDE DEF b
  <1>6. Sound(c) /\ Grows(b, c) /\ \A l \in Level : Has(c, l, "PerformanceTracking")
    BY <1>1, <1>3, <1>5
  <1> HIDE DEF c
  <1>7. ASSUME NEW l \in Level PROVE Has(c, l, "Filename") /\ Has(c, l, "ToFile")
    BY <1>3, <1>4, <1>5, <1>6 DEF Grows
  <1> QED
    BY <1>2, <1>3, <1>6, <1>7 DEF Complete

-----------------------------------------------------------------------------
(* The maps of TypedConfigurations *)

MapOf(L, S) == UNION {[D -> S] : D \in SUBSET L}

LEMMA MapIs ==
  ASSUME NEW L, NEW S, NEW map
  PROVE  map \in MapOf(L, S) <=> map \in [DOMAIN map -> S] /\ DOMAIN map \subseteq L
  BY DEF MapOf

LEMMA EmptyMap ==
  ASSUME NEW L, NEW S
  PROVE  <<>> \in MapOf(L, S) /\ DOMAIN <<>> = {}
  <1>1. DOMAIN <<>> = {}
    OBVIOUS
  <1>2. <<>> \in [{} -> S]
    OBVIOUS
  <1> QED
    BY <1>1, <1>2, MapIs

LEMMA PutTyped ==
  ASSUME NEW L, NEW S, NEW map \in MapOf(L, S), NEW l \in L, NEW v \in S
  PROVE  Put(map, l, v) \in MapOf(L, S)
  <1>1. map \in [DOMAIN map -> S] /\ DOMAIN map \subseteq L
    BY MapIs
  <1> DEFINE g == Put(map, l, v)
  <1>2. g \in [DOMAIN map \cup {l} -> S]
    BY <1>1 DEF Put
  <1> HIDE DEF g
  <1> QED
    BY <1>1, <1>2, MapIs DEF g

LEMMA SetValueTyped ==
  ASSUME NEW map \in MapOf(Level, BOOLEAN), NEW l \in Level, NEW v \in BOOLEAN
  PROVE  SetValue(map, l, v) \in MapOf(Level, BOOLEAN)
  BY PutTyped, LevelsAreLevels DEF SetValue

BuiltValues == [toFile : MapOf(Level, BOOLEAN), tracking : MapOf(Level, BOOLEAN)]

LEMMA BuildValueTyped ==
  ASSUME NEW m \in BuiltValues, NEW s \in Setting
  PROVE  BuildValue(m, s) \in BuiltValues
  <1>1. /\ s.level \in Level /\ Global \in Level /\ s.type \in {"ToFile", "Filename", "PerformanceTracking"}
        /\ s.type # "Filename" => s.value \in BOOLEAN
    BY LevelsAreLevels DEF Setting, Type, Value
  <1>2. CASE s.type = "ToFile"
    <2>1. SetValue(m.toFile, s.level, s.value) \in MapOf(Level, BOOLEAN)
      BY <1>1, <1>2, SetValueTyped DEF BuiltValues
    <2> QED
      BY <1>2, <2>1 DEF BuildValue, BuiltValues
  <1>3. CASE s.type = "PerformanceTracking"
    <2>1. SetValue(m.tracking, Global, s.value) \in MapOf(Level, BOOLEAN)
      BY <1>1, <1>3, SetValueTyped DEF BuiltValues
    <2> QED
      BY <1>3, <2>1 DEF BuildValue, BuiltValues
  <1>4. CASE s.type = "Filename"
    BY <1>4 DEF BuildValue
  <1> QED
    BY <1>1, <1>2, <1>3, <1>4

\* The values after each setting
LEMMA ValuesSteps ==
  ASSUME NEW c \in List
  PROVE  \E f : /\ Values(c) = f[Len(c)]
               /\ f[0] = [toFile |-> <<>>, tracking |-> <<>>]
               /\ \A k \in 1..Len(c) : f[k] = BuildValue(f[k - 1], c[k])
  <1> DEFINE n == Len(c)
             start == [toFile |-> <<>>, tracking |-> <<>>]
             next(x, k) == BuildValue(x, c[k])
             step == [k \in 1..n |-> [x \in BuiltValues |-> next(x, k)]]
             Rec(f) == f = [k \in 0..n |-> IF k = 0 THEN start ELSE next(f[k - 1], k)]
  <1>1. n \in Nat
    BY DEF List
  <1>2. start \in BuiltValues
    BY EmptyMap DEF BuiltValues
  <1>3. \A k \in 1..n : \A x \in BuiltValues : next(x, k) \in BuiltValues
    BY SettingsOf, BuildValueTyped DEF List
  <1>4. Values(c) = (CHOOSE f : Rec(f))[n]
    BY DEF Values
  <1> HIDE DEF n, start, next
  <1>5. PICK f : Solves(f, n, BuiltValues, start, step)
    <2>1. Stepwise(step, n, BuiltValues)
      BY <1>3 DEF Stepwise
    <2> HIDE DEF step
    <2> QED
      BY <1>1, <1>2, <2>1, Recursion
  <1>6. Rec(f)
    <2>1. f = [k \in 0..n |-> f[k]] /\ f[0] = start
      BY <1>5 DEF Solves
    <2>2. ASSUME NEW k \in 1..n PROVE f[k - 1] \in BuiltValues /\ f[k] = step[k][f[k - 1]]
      <3>1. k - 1 \in 0..n
        BY <1>1
      <3> QED
        BY <1>5, <3>1 DEF Solves
    <2>3. \A k \in 1..n : f[k] = next(f[k - 1], k)
      BY <2>2
    <2>4. ASSUME NEW k \in 0..n PROVE f[k] = IF k = 0 THEN start ELSE next(f[k - 1], k)
      <3>1. f[0] = start /\ (k = 0 \/ (k # 0 /\ k \in 1..n))
        BY <1>1, <2>1
      <3> QED
        BY ONLY <2>3, <3>1
    <2> QED
      BY <2>1, <2>4
  <1> HIDE DEF step
  <1> DEFINE h == CHOOSE g : Rec(g)
  <1>7. h = [k \in 0..n |-> IF k = 0 THEN start ELSE next(h[k - 1], k)]
    <2>1. Rec(h)
      BY <1>6
    <2> HIDE DEF h
    <2> QED
      BY <2>1
  <1>8. Values(c) = h[n]
    BY <1>4
  <1> HIDE DEF h
  <1>9. h[0] = start
    BY <1>1, <1>7
  <1>10. ASSUME NEW k \in 1..n PROVE h[k] = next(h[k - 1], k)
    <2>1. k \in 0..n /\ k # 0
      BY <1>1
    <2>2. h[k] = IF k = 0 THEN start ELSE next(h[k - 1], k)
      BY ONLY <1>7, <2>1
    <2> QED
      BY <2>1, <2>2
  <1> QED
    BY <1>8, <1>9, <1>10 DEF n, start, next


\* What the list says of a level and type is in the one setting for them.
LEMMA SaysIs ==
  ASSUME NEW c, Sound(c), NEW k \in DOMAIN c
  PROVE  Says(c, c[k].level, c[k].type) = c[k].value
  <1>1. Matches(c, c[k].level, c[k].type) = {k}
    BY DEF Matches, Sound
  <1> QED
    BY <1>1 DEF Says

\* The values of ToFile that the first k settings leave
Reached(c, k, map) ==
  /\ \A l \in DOMAIN map : \E j \in 1..k : c[j].level = l /\ c[j].type = "ToFile"
  /\ \A j \in 1..k : c[j].type = "ToFile" =>
       Global \in DOMAIN map /\ Get(map, c[j].level) = c[j].value
  /\ \A l \in DOMAIN map \ {Global} : map[l] # map[Global]

LEMMA SetReaches ==
  ASSUME NEW c, Sound(c), NEW k \in Nat, k + 1 \in DOMAIN c, c[k + 1].type = "ToFile",
         NEW map \in MapOf(Level, BOOLEAN), Reached(c, k, map)
  PROVE  Reached(c, k + 1, SetValue(map, c[k + 1].level, c[k + 1].value))
  <1> DEFINE l == c[k + 1].level
             v == c[k + 1].value
             g == SetValue(map, l, v)
  <1>1. c \in List
    BY DEF Sound
  <1>2. l \in Level /\ v \in BOOLEAN /\ k + 1 <= Len(c) /\ DOMAIN c = 1..Len(c) /\ Len(c) \in Nat
    BY <1>1, SettingsOf DEF Value
  <1>3. \A j \in 1..k : c[j].type = "ToFile" => c[j].level # l
    BY <1>2 DEF Sound
  <1>4. l \notin DOMAIN map
    BY <1>3 DEF Reached
  <1>5. /\ DOMAIN map = {} => DOMAIN g = {Global} /\ g[Global] = v
        /\ Global \in DOMAIN map /\ map[Global] = v => g = map
        /\ Global \in DOMAIN map /\ map[Global] # v =>
             /\ DOMAIN g = DOMAIN map \cup {l} /\ g[l] = v
             /\ \A x \in DOMAIN map : x # l => g[x] = map[x]
    <2> HIDE DEF l, v
    <2> QED
      BY DEF SetValue, Put
  <1> HIDE DEF g
  <1>6. CASE DOMAIN map = {}
    <2>1. \A j \in 1..k : c[j].type # "ToFile"
      BY <1>6 DEF Reached
    <2>2. PICK i \in 1..(k + 1) : c[i].level = Global /\ c[i].type = "ToFile"
      BY DEF Sound
    <2>3. i = k + 1
      BY <2>1, <2>2
    <2>4. l = Global /\ DOMAIN g = {Global} /\ g[Global] = v
      BY <1>5, <1>6, <2>2, <2>3
    <2>5. \A j \in 1..(k + 1) : c[j].type = "ToFile" => j = k + 1
      BY <2>1
    <2> QED
      BY <2>4, <2>5 DEF Reached, g, Get
  <1>7. CASE DOMAIN map # {}
    <2>1. Global \in DOMAIN map
      BY <1>7 DEF Reached
    <2>2. l # Global
      BY <1>4, <2>1
    <2>3. CASE map[Global] = v
      <3>1. g = map
        BY <1>5, <2>1, <2>3
      <3>2. Get(map, l) = v
        BY <1>4, <2>3 DEF Get
      <3>3. \A x \in DOMAIN map : \E j \in 1..(k + 1) : c[j].level = x /\ c[j].type = "ToFile"
        BY DEF Reached
      <3>4. ASSUME NEW j \in 1..(k + 1), c[j].type = "ToFile" PROVE Get(map, c[j].level) = c[j].value
        <4>1. j = k + 1 \/ j \in 1..k
          OBVIOUS
        <4> QED
          BY <3>2, <3>4, <4>1 DEF Reached
      <3> QED
        BY <2>1, <3>1, <3>3, <3>4 DEF Reached, g
    <2>4. CASE map[Global] # v
      <3>1. DOMAIN g = DOMAIN map \cup {l} /\ g[l] = v /\ \A x \in DOMAIN map : g[x] = map[x]
        BY <1>4, <1>5, <2>1, <2>4
      <3>2. \A x \in DOMAIN g : \E j \in 1..(k + 1) : c[j].level = x /\ c[j].type = "ToFile"
        <4>1. \A x \in DOMAIN map : \E j \in 1..(k + 1) : c[j].level = x /\ c[j].type = "ToFile"
          BY DEF Reached
        <4>2. k + 1 \in 1..(k + 1)
          OBVIOUS
        <4> QED
          BY <3>1, <4>1, <4>2
      <3>3. ASSUME NEW j \in 1..(k + 1), c[j].type = "ToFile" PROVE Get(g, c[j].level) = c[j].value
        <4>1. CASE j = k + 1
          BY <3>1, <4>1 DEF Get
        <4>2. CASE j # k + 1
          <5>1. j \in 1..k
            BY <4>2
          <5>2. c[j].level # l /\ Get(map, c[j].level) = c[j].value
            BY <1>3, <3>3, <5>1 DEF Reached
          <5> QED
            BY <2>1, <3>1, <5>2 DEF Get
        <4> QED
          BY <4>1, <4>2
      <3>4. \A x \in DOMAIN g \ {Global} : g[x] # g[Global]
        BY <2>1, <2>2, <2>4, <3>1 DEF Reached
      <3> QED
        BY <2>1, <3>1, <3>2, <3>3, <3>4 DEF Reached, g
    <2> QED
      BY <2>3, <2>4
  <1> QED
    BY <1>6, <1>7

LEMMA ValuesAre ==
  ASSUME NEW c, Complete(c)
  PROVE  LET m == Values(c) IN
         /\ m.toFile \in MapOf(Level, BOOLEAN) /\ Global \in DOMAIN m.toFile
         /\ \A l \in Level : Get(m.toFile, l) = Says(c, l, "ToFile")
         /\ \A l \in DOMAIN m.toFile \ {Global} : m.toFile[l] # m.toFile[Global]
  <1>1. Sound(c) /\ c \in List
    BY DEF Complete, Sound
  <1>2. /\ Len(c) \in Nat /\ DOMAIN c = 1..Len(c) /\ Global \in Level
        /\ \A k \in 1..Len(c) : c[k] \in Setting
    BY <1>1, SettingsOf, LevelsAreLevels DEF List
  <1>3. PICK f : /\ Values(c) = f[Len(c)]
                 /\ f[0] = [toFile |-> <<>>, tracking |-> <<>>]
                 /\ \A k \in 1..Len(c) : f[k] = BuildValue(f[k - 1], c[k])
    BY <1>1, ValuesSteps
  <1> DEFINE Good(k) == /\ f[k] \in BuiltValues
                        /\ Reached(c, k, f[k].toFile)
             T == {k \in Nat : k <= Len(c) => Good(k)}
  <1>4. 0 \in T
    <2>1. f[0] \in BuiltValues /\ DOMAIN f[0].toFile = {}
      BY <1>3, EmptyMap DEF BuiltValues
    <2> QED
      BY <2>1 DEF Reached
  <1>5. ASSUME NEW k \in Nat, k \in T PROVE k + 1 \in T
    <2> SUFFICES ASSUME k + 1 <= Len(c) PROVE Good(k + 1)
      OBVIOUS
    <2> DEFINE s == c[k + 1]
    <2>1. k + 1 \in DOMAIN c /\ k + 1 \in 1..Len(c) /\ (k + 1) - 1 = k /\ Good(k)
      BY <1>2, <1>5
    <2>2. f[k + 1] = BuildValue(f[k], s)
      BY <1>3, <2>1
    <2>3. s \in Setting /\ s.type \in {"ToFile", "Filename", "PerformanceTracking"}
      BY <1>2, <2>1 DEF Setting, Type
    <2>4. f[k + 1] \in BuiltValues
      BY <2>1, <2>2, <2>3, BuildValueTyped
    <2>5. \A j \in 1..(k + 1) : j = k + 1 \/ j \in 1..k
      OBVIOUS
    <2>6. CASE s.type = "ToFile"
      <3>1. f[k + 1].toFile = SetValue(f[k].toFile, s.level, s.value)
        BY <2>1, <2>2, <2>6 DEF BuildValue, BuiltValues
      <3>2. Reached(c, k + 1, f[k + 1].toFile)
        BY <1>1, <2>1, <2>6, <3>1, SetReaches DEF BuiltValues
      <3> QED
        BY <2>4, <3>2
    <2>7. CASE s.type = "PerformanceTracking"
      <3>1. f[k + 1].toFile = f[k].toFile
        BY <2>1, <2>2, <2>7 DEF BuildValue, BuiltValues
      <3>2. Reached(c, k + 1, f[k + 1].toFile)
        BY <2>1, <2>5, <2>7, <3>1 DEF Reached
      <3> QED
        BY <2>4, <3>2
    <2>8. CASE s.type = "Filename"
      <3>1. f[k + 1] = f[k]
        BY <2>2, <2>8 DEF BuildValue
      <3>2. Reached(c, k + 1, f[k].toFile)
        BY <2>1, <2>5, <2>8 DEF Reached
      <3> QED
        BY <2>4, <3>1, <3>2
    <2> QED
      BY <2>3, <2>6, <2>7, <2>8
  <1> HIDE DEF Good
  <1>6. Len(c) \in T
    <2> HIDE DEF T
    <2> QED
      BY <1>2, <1>4, <1>5, Induct
  <1>7. Good(Len(c))
    BY <1>2, <1>6
  <1> DEFINE m == Values(c)
  <1>8. m \in BuiltValues /\ Reached(c, Len(c), m.toFile)
    BY <1>3, <1>7 DEF Good
  <1> HIDE DEF m
  <1>9. ASSUME NEW l \in Level
        PROVE  Global \in DOMAIN m.toFile /\ Get(m.toFile, l) = Says(c, l, "ToFile")
    <2>1. PICK k \in DOMAIN c : c[k].level = l /\ c[k].type = "ToFile"
      BY DEF Complete, Has, Matches, Type
    <2>2. Says(c, l, "ToFile") = c[k].value
      BY <1>1, <2>1, SaysIs
    <2> QED
      BY <1>2, <1>8, <2>1, <2>2 DEF Reached
  <1> QED
    BY <1>2, <1>8, <1>9 DEF Reached, BuiltValues, m

Streams == MapOf(File, File \cup {Null})
Opened(f) == IF f \in Bad THEN Null ELSE f
BuiltFiles == [name : MapOf(Level, File), stream : MapOf(Level, File \cup {Null}),
               streams : Streams, toFile : MapOf(Level, BOOLEAN)]

LEMMA InsertKeyTyped ==
  ASSUME NEW L, NEW S, NEW map \in MapOf(L, S), NEW l \in L, NEW v \in S
  PROVE  InsertKey(map, l, v) \in MapOf(L, S) /\ l \in DOMAIN InsertKey(map, l, v)
  <1>1. CASE l \in DOMAIN map
    BY <1>1 DEF InsertKey
  <1>2. CASE l \notin DOMAIN map
    <2>1. InsertKey(map, l, v) = Put(map, l, v) /\ Put(map, l, v) \in MapOf(L, S)
      BY <1>2, PutTyped DEF InsertKey
    <2>2. l \in DOMAIN Put(map, l, v)
      BY DEF Put
    <2> QED
      BY <2>1, <2>2
  <1> QED
    BY <1>1, <1>2

LEMMA ValueOf ==
  ASSUME NEW L, NEW S, NEW map \in MapOf(L, S), NEW l \in DOMAIN map
  PROVE  map[l] \in S /\ l \in L
  BY MapIs

LEMMA BuildFileTyped ==
  ASSUME NEW b \in BuiltFiles, NEW s \in Setting
  PROVE  BuildFile(b, s) \in BuiltFiles
  <1> SUFFICES ASSUME s.type = "Filename" PROVE InsertFile(b, s.level, s.value) \in BuiltFiles
    BY DEF BuildFile
  <1>1. s.level \in Level /\ s.value \in File /\ Global \in Level
    BY LevelsAreLevels DEF Setting, Value
  <1>2. /\ b.name \in MapOf(Level, File) /\ b.stream \in MapOf(Level, File \cup {Null})
        /\ b.streams \in MapOf(File, File \cup {Null}) /\ b.toFile \in MapOf(Level, BOOLEAN)
    BY DEF BuiltFiles, Streams
  <1> DEFINE f == s.value
             l == IF DOMAIN b.name = {} /\ DOMAIN b.stream = {} THEN Global ELSE s.level
             known == f \in DOMAIN b.streams
             got == IF known THEN b.streams[f] ELSE IF f \in Bad THEN Null ELSE f
             stream == InsertKey(b.stream, l, got)
             name == InsertKey(b.name, l, f)
             opened == IF known THEN b.streams ELSE InsertKey(b.streams, f, stream[l])
             toFile == IF got = Null THEN SetValue(b.toFile, l, FALSE) ELSE b.toFile
  <1>3. InsertFile(b, s.level, s.value)
          = [name |-> name, stream |-> stream, streams |-> opened, toFile |-> toFile]
    BY DEF InsertFile
  <1>4. l \in Level /\ got \in File \cup {Null}
    BY <1>1, <1>2, ValueOf
  <1> HIDE DEF l, got
  <1>5. name \in MapOf(Level, File)
    BY <1>1, <1>2, <1>4, InsertKeyTyped
  <1>6. stream \in MapOf(Level, File \cup {Null}) /\ l \in DOMAIN stream
    BY <1>2, <1>4, InsertKeyTyped
  <1> HIDE DEF stream
  <1>7. opened \in MapOf(File, File \cup {Null})
    BY <1>1, <1>2, <1>6, InsertKeyTyped, ValueOf
  <1>8. toFile \in MapOf(Level, BOOLEAN)
    BY <1>2, <1>4, SetValueTyped
  <1> HIDE DEF name, opened, toFile
  <1> QED
    BY <1>3, <1>5, <1>6, <1>7, <1>8 DEF BuiltFiles, Streams

\* The files and streams after each setting
LEMMA FilesSteps ==
  ASSUME NEW c, Complete(c), NEW shared \in Streams
  PROVE  \E f : /\ Files(c, shared) = f[Len(c)]
               /\ f[0] = [name |-> <<>>, stream |-> <<>>, streams |-> shared,
                               toFile |-> Values(c).toFile]
               /\ \A k \in 1..Len(c) : f[k] = BuildFile(f[k - 1], c[k])
  <1> DEFINE n == Len(c)
             start == [name |-> <<>>, stream |-> <<>>, streams |-> shared,
                               toFile |-> Values(c).toFile]
             next(x, k) == BuildFile(x, c[k])
             step == [k \in 1..n |-> [x \in BuiltFiles |-> next(x, k)]]
             Rec(f) == f = [k \in 0..n |-> IF k = 0 THEN start ELSE next(f[k - 1], k)]
  <1>1. n \in Nat
    BY SettingsOf DEF Complete, Sound
  <1>2. start \in BuiltFiles
    BY EmptyMap, ValuesAre DEF BuiltFiles
  <1>3. \A k \in 1..n : \A x \in BuiltFiles : next(x, k) \in BuiltFiles
    BY BuildFileTyped DEF List, Complete, Sound
  <1>4. Files(c, shared) = (CHOOSE f : Rec(f))[n]
    BY DEF Files
  <1> HIDE DEF n, start, next
  <1>5. PICK f : Solves(f, n, BuiltFiles, start, step)
    <2>1. Stepwise(step, n, BuiltFiles)
      BY <1>3 DEF Stepwise
    <2> HIDE DEF step
    <2> QED
      BY <1>1, <1>2, <2>1, Recursion
  <1>6. Rec(f)
    <2>1. f = [k \in 0..n |-> f[k]] /\ f[0] = start
      BY <1>5 DEF Solves
    <2>2. ASSUME NEW k \in 1..n PROVE f[k - 1] \in BuiltFiles /\ f[k] = step[k][f[k - 1]]
      <3>1. k - 1 \in 0..n
        BY <1>1
      <3> QED
        BY <1>5, <3>1 DEF Solves
    <2>3. \A k \in 1..n : f[k] = next(f[k - 1], k)
      BY <2>2
    <2>4. ASSUME NEW k \in 0..n PROVE f[k] = IF k = 0 THEN start ELSE next(f[k - 1], k)
      <3>1. f[0] = start /\ (k = 0 \/ (k # 0 /\ k \in 1..n))
        BY <1>1, <2>1
      <3> QED
        BY ONLY <2>3, <3>1
    <2> QED
      BY <2>1, <2>4
  <1> HIDE DEF step
  <1> DEFINE h == CHOOSE g : Rec(g)
  <1>7. h = [k \in 0..n |-> IF k = 0 THEN start ELSE next(h[k - 1], k)]
    <2>1. Rec(h)
      BY <1>6
    <2> HIDE DEF h
    <2> QED
      BY <2>1
  <1>8. Files(c, shared) = h[n]
    BY <1>4
  <1> HIDE DEF h
  <1>9. h[0] = start
    BY <1>1, <1>7
  <1>10. ASSUME NEW k \in 1..n PROVE h[k] = next(h[k - 1], k)
    <2>1. k \in 0..n /\ k # 0
      BY <1>1
    <2>2. h[k] = IF k = 0 THEN start ELSE next(h[k - 1], k)
      BY ONLY <1>7, <2>1
    <2> QED
      BY <2>1, <2>2
  <1> QED
    BY <1>8, <1>9, <1>10 DEF n, start, next


\* The streams that are shared
Right(shared) ==
  /\ shared \in Streams
  /\ \A f \in DOMAIN shared : shared[f] = Opened(f)

\* What insertFile does for a level that has no file yet, and not before Global has one
LEMMA InsertFileIs ==
  ASSUME NEW b \in BuiltFiles, Right(b.streams), NEW l \in Level, NEW f \in File,
         l \notin DOMAIN b.name, l \notin DOMAIN b.stream,
         DOMAIN b.name = {} => l = Global
  PROVE  InsertFile(b, l, f) =
           [name    |-> Put(b.name, l, f),
            stream  |-> Put(b.stream, l, Opened(f)),
            streams |-> IF f \in DOMAIN b.streams THEN b.streams
                        ELSE Put(b.streams, f, Opened(f)),
            toFile  |-> IF Opened(f) = Null THEN SetValue(b.toFile, l, FALSE) ELSE b.toFile]
  <1> DEFINE m == IF DOMAIN b.name = {} /\ DOMAIN b.stream = {} THEN Global ELSE l
             got == IF f \in DOMAIN b.streams THEN b.streams[f]
                    ELSE IF f \in Bad THEN Null ELSE f
             stream == InsertKey(b.stream, m, got)
  <1>1. InsertFile(b, l, f) =
          [name    |-> InsertKey(b.name, m, f),
           stream  |-> stream,
           streams |-> IF f \in DOMAIN b.streams THEN b.streams ELSE InsertKey(b.streams, f, stream[m]),
           toFile  |-> IF got = Null THEN SetValue(b.toFile, m, FALSE) ELSE b.toFile]
    BY DEF InsertFile
  <1>2. m = l /\ got = Opened(f)
    BY DEF Right, Opened
  <1> HIDE DEF m, got
  <1>3. stream = Put(b.stream, l, Opened(f)) /\ stream[m] = Opened(f)
    BY <1>2 DEF InsertKey, Put
  <1> HIDE DEF stream
  <1>4. InsertKey(b.name, m, f) = Put(b.name, l, f)
    BY <1>2 DEF InsertKey
  <1>5. f \notin DOMAIN b.streams => InsertKey(b.streams, f, stream[m]) = Put(b.streams, f, Opened(f))
    BY <1>3 DEF InsertKey
  <1> QED
    BY <1>1, <1>2, <1>3, <1>4, <1>5

\* The files and streams that the first k settings leave
Named(c, k, b) ==
  /\ DOMAIN b.stream = DOMAIN b.name
  /\ \A l \in DOMAIN b.name : \E j \in 1..k : c[j].level = l /\ c[j].type = "Filename"
  /\ \A j \in 1..k : c[j].type = "Filename" =>
       c[j].level \in DOMAIN b.name /\ b.name[c[j].level] = c[j].value
  /\ \A l \in DOMAIN b.name :
       b.stream[l] = Opened(b.name[l]) /\ b.name[l] \in DOMAIN b.streams

\* What null streams make of ToFile, which was first before: it is turned off, where
\* Global is on.
Turned(stream, toFile, first) ==
  /\ Global \in DOMAIN toFile
  /\ \A l \in Level : Get(toFile, l) = Get(first, l) \/ Get(toFile, l) = FALSE
  /\ (\A l \in DOMAIN stream : stream[l] # Null) => toFile = first
  /\ first[Global] = TRUE =>
       /\ \A l \in DOMAIN stream : stream[l] = Null => Get(toFile, l) = FALSE
       /\ \A l \in DOMAIN toFile \ {Global} : toFile[l] = FALSE

LEMMA NullTurns ==
  ASSUME NEW stream, NEW toFile, NEW first, Turned(stream, toFile, first),
         NEW l \in Level, l \notin DOMAIN stream
  PROVE  Turned(Put(stream, l, Null), SetValue(toFile, l, FALSE), first)
  <1> DEFINE after == Put(stream, l, Null)
             off == SetValue(toFile, l, FALSE)
  <1>1. DOMAIN after = DOMAIN stream \cup {l} /\ after[l] = Null /\ \A x \in DOMAIN stream : after[x] = stream[x]
    BY DEF Put
  <1>2. Global \in DOMAIN toFile
    BY DEF Turned
  <1>3. CASE toFile[Global] = FALSE
    <2>1. off = toFile
      BY <1>2, <1>3 DEF SetValue
    <2>2. first[Global] = TRUE => Get(toFile, l) = FALSE
      BY <1>2, <1>3 DEF Turned, Get
    <2> HIDE DEF after, off
    <2> QED
      BY <1>1, <2>1, <2>2 DEF Turned, after, off
  <1>4. CASE toFile[Global] # FALSE
    <2>1. /\ DOMAIN off = DOMAIN toFile \cup {l} /\ off[l] = FALSE
          /\ \A x \in DOMAIN toFile : x # l => off[x] = toFile[x]
      BY <1>2, <1>4 DEF SetValue, Put
    <2> HIDE DEF after, off
    <2>2. ASSUME NEW x PROVE Get(off, x) = Get(toFile, x) \/ Get(off, x) = FALSE
      BY <1>2, <2>1 DEF Get
    <2>3. Get(off, l) = FALSE
      BY <2>1 DEF Get
    <2>4. Global \in DOMAIN off
      BY <1>2, <2>1
    <2>5. \A x \in Level : Get(off, x) = Get(first, x) \/ Get(off, x) = FALSE
      BY <2>2 DEF Turned
    <2>6. ~ \A x \in DOMAIN after : after[x] # Null
      BY <1>1
    <2>7. ASSUME first[Global] = TRUE, NEW x \in DOMAIN after, after[x] = Null PROVE Get(off, x) = FALSE
      <3>1. CASE x = l
        BY <2>3, <3>1
      <3>2. CASE x # l
        <4>1. Get(toFile, x) = FALSE
          BY <1>1, <2>7, <3>2 DEF Turned
        <4> QED
          BY <2>2, <4>1
      <3> QED
        BY <3>1, <3>2
    <2>8. ASSUME first[Global] = TRUE, NEW x \in DOMAIN off \ {Global} PROVE off[x] = FALSE
      BY <2>1, <2>8 DEF Turned
    <2> QED
      BY <2>4, <2>5, <2>6, <2>7, <2>8 DEF Turned, after, off
  <1> QED
    BY <1>3, <1>4

LEMMA OpenTurns ==
  ASSUME NEW stream, NEW toFile, NEW first, Turned(stream, toFile, first),
         NEW l, l \notin DOMAIN stream, NEW v, v # Null
  PROVE  Turned(Put(stream, l, v), toFile, first)
  <1> DEFINE after == Put(stream, l, v)
  <1>1. DOMAIN after = DOMAIN stream \cup {l} /\ after[l] = v /\ \A x \in DOMAIN stream : after[x] = stream[x]
    BY DEF Put
  <1> HIDE DEF after
  <1> QED
    BY <1>1 DEF Turned, after

LEMMA NameReaches ==
  ASSUME NEW c, Sound(c), NEW k \in Nat, k + 1 \in DOMAIN c, c[k + 1].type = "Filename",
         NEW b \in BuiltFiles, Right(b.streams), Named(c, k, b),
         NEW first, Turned(b.stream, b.toFile, first)
  PROVE  LET d == BuildFile(b, c[k + 1]) IN
         /\ Right(d.streams) /\ DOMAIN b.streams \subseteq DOMAIN d.streams
         /\ Named(c, k + 1, d) /\ Turned(d.stream, d.toFile, first)
  <1> DEFINE l == c[k + 1].level
             v == c[k + 1].value
             d == BuildFile(b, c[k + 1])
  <1>1. c \in List
    BY DEF Sound
  <1>2. l \in Level /\ v \in File /\ k + 1 <= Len(c) /\ DOMAIN c = 1..Len(c) /\ Len(c) \in Nat
    BY <1>1, SettingsOf DEF Value
  <1>3. \A j \in 1..k : c[j].type = "Filename" => c[j].level # l
    BY <1>2 DEF Sound
  <1>4. l \notin DOMAIN b.name /\ l \notin DOMAIN b.stream
    BY <1>3 DEF Named
  <1>5. DOMAIN b.name = {} => l = Global
    <2> SUFFICES ASSUME DOMAIN b.name = {} PROVE l = Global
      OBVIOUS
    <2>1. \A j \in 1..k : c[j].type # "Filename"
      BY DEF Named
    <2>2. PICK i \in 1..(k + 1) : c[i].level = Global /\ c[i].type = "Filename"
      BY DEF Sound
    <2>3. i = k + 1
      BY <2>1, <2>2
    <2> QED
      BY <2>2, <2>3
  <1>6. d = [name    |-> Put(b.name, l, v),
             stream  |-> Put(b.stream, l, Opened(v)),
             streams |-> IF v \in DOMAIN b.streams THEN b.streams ELSE Put(b.streams, v, Opened(v)),
             toFile  |-> IF Opened(v) = Null THEN SetValue(b.toFile, l, FALSE) ELSE b.toFile]
    <2>1. d = InsertFile(b, l, v)
      BY DEF BuildFile
    <2> HIDE DEF d, l, v
    <2> QED
      BY <1>2, <1>4, <1>5, <2>1, InsertFileIs
  <1>7. Opened(v) \in File \cup {Null}
    BY <1>2 DEF Opened
  <1> HIDE DEF d
  <1>8. /\ DOMAIN d.name = DOMAIN b.name \cup {l} /\ d.name[l] = v
        /\ \A x \in DOMAIN b.name : d.name[x] = b.name[x]
        /\ DOMAIN d.stream = DOMAIN b.stream \cup {l} /\ d.stream[l] = Opened(v)
        /\ \A x \in DOMAIN b.stream : d.stream[x] = b.stream[x]
    <2> HIDE DEF l, v
    <2> QED
      BY <1>4, <1>6 DEF Put
  <1>9. /\ Right(d.streams) /\ DOMAIN b.streams \subseteq DOMAIN d.streams
        /\ v \in DOMAIN d.streams
    <2> HIDE DEF l, v
    <2>1. CASE v \in DOMAIN b.streams
      BY <1>6, <2>1
    <2>2. CASE v \notin DOMAIN b.streams
      <3>1. d.streams = Put(b.streams, v, Opened(v))
        BY <1>6, <2>2
      <3>2. d.streams \in Streams
        BY <1>2, <1>7, <3>1, PutTyped DEF Right, Streams
      <3>3. \A f \in DOMAIN d.streams : d.streams[f] = Opened(f)
        BY <3>1 DEF Put, Right
      <3>4. DOMAIN d.streams = DOMAIN b.streams \cup {v}
        BY <3>1 DEF Put
      <3> QED
        BY <3>2, <3>3, <3>4 DEF Right
    <2> QED
      BY <2>1, <2>2
  <1>10. Named(c, k + 1, d)
    <2>1. DOMAIN d.stream = DOMAIN d.name
      BY <1>8 DEF Named
    <2>2. \A x \in DOMAIN d.name : \E j \in 1..(k + 1) : c[j].level = x /\ c[j].type = "Filename"
      <3>1. \A x \in DOMAIN b.name : \E j \in 1..(k + 1) : c[j].level = x /\ c[j].type = "Filename"
        BY DEF Named
      <3>2. k + 1 \in 1..(k + 1)
        OBVIOUS
      <3> QED
        BY <1>8, <3>1, <3>2
    <2>3. ASSUME NEW j \in 1..(k + 1), c[j].type = "Filename"
          PROVE  c[j].level \in DOMAIN d.name /\ d.name[c[j].level] = c[j].value
      <3>1. CASE j = k + 1
        BY <1>8, <3>1
      <3>2. CASE j # k + 1
        <4>1. j \in 1..k
          BY <3>2
        <4> QED
          BY <1>8, <2>3, <4>1 DEF Named
      <3> QED
        BY <3>1, <3>2
    <2>4. ASSUME NEW x \in DOMAIN d.name
          PROVE  d.stream[x] = Opened(d.name[x]) /\ d.name[x] \in DOMAIN d.streams
      <3>1. CASE x = l
        <4> HIDE DEF l, v
        <4> QED
          BY <1>8, <1>9, <3>1
      <3>2. CASE x # l
        BY <1>8, <1>9, <3>2 DEF Named
      <3> QED
        BY <3>1, <3>2
    <2> QED
      BY <2>1, <2>2, <2>3, <2>4 DEF Named
  <1>11. Turned(d.stream, d.toFile, first)
    <2> HIDE DEF l, v
    <2>1. CASE Opened(v) = Null
      <3>1. d.stream = Put(b.stream, l, Null) /\ d.toFile = SetValue(b.toFile, l, FALSE)
        BY <1>6, <2>1
      <3> QED
        BY <1>2, <1>4, <3>1, NullTurns
    <2>2. CASE Opened(v) # Null
      <3>1. d.stream = Put(b.stream, l, Opened(v)) /\ d.toFile = b.toFile
        BY <1>6, <2>2
      <3> QED
        BY <1>4, <2>2, <3>1, OpenTurns
    <2> QED
      BY <2>1, <2>2
  <1> QED
    BY <1>9, <1>10, <1>11 DEF d

LEMMA FilesAre ==
  ASSUME NEW c, Complete(c), NEW shared, Right(shared)
  PROVE  LET b == Files(c, shared) IN
         /\ Right(b.streams) /\ DOMAIN shared \subseteq DOMAIN b.streams
         /\ DOMAIN b.name = Level /\ DOMAIN b.stream = Level
         /\ \A l \in Level :
              /\ b.name[l] = Says(c, l, "Filename") /\ b.name[l] \in DOMAIN b.streams
              /\ b.stream[l] = Opened(b.name[l])
         /\ Turned(b.stream, b.toFile, Values(c).toFile)
  <1>1. Sound(c) /\ c \in List
    BY DEF Complete, Sound
  <1>2. /\ Len(c) \in Nat /\ DOMAIN c = 1..Len(c) /\ \A k \in 1..Len(c) : c[k] \in Setting
    BY <1>1, SettingsOf DEF List
  <1> DEFINE first == Values(c).toFile
  <1>3. /\ first \in MapOf(Level, BOOLEAN) /\ Global \in DOMAIN first
        /\ \A l \in DOMAIN first \ {Global} : first[l] # first[Global]
    BY ValuesAre
  <1>4. PICK f : /\ Files(c, shared) = f[Len(c)]
                 /\ f[0] = [name |-> <<>>, stream |-> <<>>, streams |-> shared, toFile |-> first]
                 /\ \A k \in 1..Len(c) : f[k] = BuildFile(f[k - 1], c[k])
    <2>1. shared \in Streams
      BY DEF Right
    <2> QED
      BY <2>1, FilesSteps
  <1> HIDE DEF first
  <1> DEFINE Good(k) == /\ f[k] \in BuiltFiles
                        /\ Right(f[k].streams) /\ DOMAIN shared \subseteq DOMAIN f[k].streams
                        /\ Named(c, k, f[k]) /\ Turned(f[k].stream, f[k].toFile, first)
             T == {k \in Nat : k <= Len(c) => Good(k)}
  <1>5. 0 \in T
    <2>1. /\ f[0] \in BuiltFiles /\ DOMAIN f[0].name = {} /\ DOMAIN f[0].stream = {}
          /\ f[0].streams = shared /\ f[0].toFile = first
      BY <1>3, <1>4, EmptyMap DEF BuiltFiles, Right
    <2>2. Named(c, 0, f[0])
      BY <2>1 DEF Named
    <2>3. first[Global] = TRUE => \A l \in DOMAIN first \ {Global} : first[l] = FALSE
      <3>1. \A l \in DOMAIN first : first[l] \in BOOLEAN
        BY <1>3, ValueOf
      <3> QED
        BY <1>3, <3>1
    <2>4. Turned(f[0].stream, f[0].toFile, first)
      BY <1>3, <2>1, <2>3 DEF Turned
    <2> QED
      BY <2>1, <2>2, <2>4
  <1>6. ASSUME NEW k \in Nat, k \in T PROVE k + 1 \in T
    <2> SUFFICES ASSUME k + 1 <= Len(c) PROVE Good(k + 1)
      OBVIOUS
    <2> DEFINE s == c[k + 1]
    <2>1. k + 1 \in DOMAIN c /\ k + 1 \in 1..Len(c) /\ (k + 1) - 1 = k /\ Good(k)
      BY <1>2, <1>6
    <2>2. f[k + 1] = BuildFile(f[k], s)
      BY <1>4, <2>1
    <2>3. s \in Setting
      BY <1>2, <2>1
    <2>4. f[k + 1] \in BuiltFiles
      BY <2>1, <2>2, <2>3, BuildFileTyped
    <2>5. CASE s.type = "Filename"
      <3>1. /\ Right(f[k + 1].streams) /\ DOMAIN f[k].streams \subseteq DOMAIN f[k + 1].streams
            /\ Named(c, k + 1, f[k + 1]) /\ Turned(f[k + 1].stream, f[k + 1].toFile, first)
        BY <1>1, <2>1, <2>2, <2>5, NameReaches
      <3> QED
        BY <2>1, <2>4, <3>1
    <2>6. CASE s.type # "Filename"
      <3>1. f[k + 1] = f[k]
        BY <2>2, <2>6 DEF BuildFile
      <3>2. Named(c, k + 1, f[k])
        <4>1. \A j \in 1..(k + 1) : j = k + 1 \/ j \in 1..k
          OBVIOUS
        <4>2. \A l \in DOMAIN f[k].name : \E j \in 1..(k + 1) : c[j].level = l /\ c[j].type = "Filename"
          BY <2>1 DEF Named
        <4> QED
          BY <2>1, <2>6, <4>1, <4>2 DEF Named
      <3> QED
        BY <2>1, <3>1, <3>2
    <2> QED
      BY <2>5, <2>6
  <1> HIDE DEF Good
  <1>7. Len(c) \in T
    <2> HIDE DEF T
    <2> QED
      BY <1>2, <1>5, <1>6, Induct
  <1> DEFINE b == Files(c, shared)
  <1>8. /\ b \in BuiltFiles /\ Right(b.streams) /\ DOMAIN shared \subseteq DOMAIN b.streams
        /\ Named(c, Len(c), b) /\ Turned(b.stream, b.toFile, first)
    BY <1>2, <1>4, <1>7 DEF Good
  <1> HIDE DEF b
  <1>9. ASSUME NEW l \in Level
        PROVE  /\ l \in DOMAIN b.name /\ b.name[l] = Says(c, l, "Filename")
               /\ b.name[l] \in DOMAIN b.streams /\ b.stream[l] = Opened(b.name[l])
    <2>1. PICK k \in DOMAIN c : c[k].level = l /\ c[k].type = "Filename"
      BY DEF Complete, Has, Matches, Type
    <2>2. Says(c, l, "Filename") = c[k].value
      BY <1>1, <2>1, SaysIs
    <2> QED
      BY <1>2, <1>8, <2>1, <2>2 DEF Named
  <1>10. DOMAIN b.name = Level /\ DOMAIN b.stream = Level
    <2>1. DOMAIN b.name \subseteq Level
      BY <1>8, MapIs DEF BuiltFiles
    <2> QED
      BY <1>8, <1>9, <2>1 DEF Named
  <1> QED
    BY <1>8, <1>9, <1>10 DEF b, first

-----------------------------------------------------------------------------
(* The loggers *)

\* A logger is as its list says, and its streams are those of its files, which are open.
LoggerGood(logger, shared) ==
  /\ Complete(logger.list)
  /\ AsListed(logger.list, logger.typed)
  /\ \A l \in Level : /\ Get(logger.typed.name, l) \in DOMAIN shared
                      /\ Get(logger.typed.stream, l) = Opened(Get(logger.typed.name, l))

LEMMA BuildGood ==
  ASSUME NEW c, Complete(c), NEW shared, Right(shared)
  PROVE  LET b == Build(c, shared) IN
         /\ Right(b.streams) /\ DOMAIN shared \subseteq DOMAIN b.streams
         /\ LoggerGood(b.logger, b.streams)
  <1> DEFINE b == Files(c, shared)
             m == Values(c)
             typed == [name |-> b.name, stream |-> b.stream, toFile |-> b.toFile,
                       tracking |-> m.tracking]
             built == Build(c, shared)
  <1>1. built = [logger |-> [list |-> c, typed |-> typed], streams |-> b.streams]
    BY DEF Build
  <1>2. /\ Right(b.streams) /\ DOMAIN shared \subseteq DOMAIN b.streams
        /\ DOMAIN b.name = Level /\ DOMAIN b.stream = Level
        /\ \A l \in Level :
             /\ b.name[l] = Says(c, l, "Filename") /\ b.name[l] \in DOMAIN b.streams
             /\ b.stream[l] = Opened(b.name[l])
        /\ Turned(b.stream, b.toFile, m.toFile)
    BY FilesAre
  <1>3. /\ m.toFile \in MapOf(Level, BOOLEAN) /\ Global \in DOMAIN m.toFile
        /\ \A l \in Level : Get(m.toFile, l) = Says(c, l, "ToFile")
    BY ValuesAre
  <1> HIDE DEF b, m, built
  <1>4. /\ typed.name = b.name /\ typed.stream = b.stream /\ typed.toFile = b.toFile
    OBVIOUS
  <1> HIDE DEF typed
  <1>5. ASSUME NEW l \in Level
        PROVE  Get(typed.name, l) = b.name[l] /\ Get(typed.stream, l) = b.stream[l]
    BY <1>2, <1>4 DEF Get
  <1>6. m.toFile[Global] = Says(c, Global, "ToFile") /\ m.toFile[Global] \in BOOLEAN
    <2>1. Global \in Level
      BY LevelsAreLevels
    <2> QED
      BY <1>3, <2>1, ValueOf DEF Get
  <1>7. ASSUME NEW l \in Level
        PROVE  /\ Get(typed.name, l) = Says(c, l, "Filename")
               /\ Get(typed.toFile, l) => Says(c, l, "ToFile")
               /\ Says(c, l, "ToFile") /\ (\A k \in DOMAIN typed.stream : typed.stream[k] # Null) =>
                    Get(typed.toFile, l)
               /\ Get(typed.stream, l) = Null /\ Says(c, Global, "ToFile") => ~Get(typed.toFile, l)
    <2>1. Get(typed.toFile, l) = Says(c, l, "ToFile") \/ Get(typed.toFile, l) = FALSE
      BY <1>2, <1>3, <1>4 DEF Turned
    <2>2. (\A k \in DOMAIN typed.stream : typed.stream[k] # Null) => Get(typed.toFile, l) = Says(c, l, "ToFile")
      BY <1>2, <1>3, <1>4 DEF Turned
    <2>3. Get(typed.stream, l) = Null /\ m.toFile[Global] = TRUE => Get(typed.toFile, l) = FALSE
      BY <1>2, <1>4, <1>5 DEF Turned
    <2>4. Get(typed.name, l) = Says(c, l, "Filename")
      BY <1>2, <1>5
    <2> QED
      BY <1>6, <2>1, <2>2, <2>3, <2>4
  <1>8. AsListed(c, typed)
    BY <1>7 DEF AsListed
  <1>9. LoggerGood(built.logger, built.streams)
    <2>1. built.logger.list = c /\ built.logger.typed = typed /\ built.streams = b.streams
      BY <1>1
    <2> QED
      BY <1>2, <1>5, <1>8, <2>1 DEF LoggerGood
  <1> QED
    BY <1>1, <1>2, <1>9 DEF built

\* The defaults and the list of every logger are complete, which is why Global comes
\* first in them; a loop and a text are about registered loggers.
ConfInv ==
  /\ Complete(defaults) /\ conf \in List
  /\ Right(streams)
  /\ \A id \in DOMAIN loggers : LoggerGood(loggers[id], streams)
  /\ loop.settings \in List /\ loop.todo \subseteq DOMAIN loggers
  /\ reader \in [logger : DOMAIN loggers \cup {Null}, level : Level \cup {Unknown, Null},
                 text : BOOLEAN]

LEMMA InvIsFaithful == ConfInv => Faithful /\ OneStreamPerFile
  BY DEF ConfInv, Faithful, OneStreamPerFile, LoggerGood, Right, Opened

LEMMA InitConfInv == ConfInit => ConfInv
  <1> SUFFICES ASSUME ConfInit PROVE ConfInv
    OBVIOUS
  <1>1. Complete(defaults)
    BY DefaultsComplete DEF ConfInit
  <1>2. Right(<<>>)
    BY EmptyMap DEF Right, Streams
  <1> DEFINE b == Build(defaults, <<>>)
  <1>3. loggers = Put(<<>>, DefaultId, b.logger) /\ streams = b.streams
    BY DEF ConfInit
  <1>4. Right(b.streams) /\ LoggerGood(b.logger, b.streams)
    BY <1>1, <1>2, BuildGood
  <1> HIDE DEF b
  <1>5. DOMAIN <<>> \cup {DefaultId} = {DefaultId}
    OBVIOUS
  <1>6. DOMAIN loggers = {DefaultId} /\ loggers[DefaultId] = b.logger
    BY <1>3, <1>5 DEF Put
  <1>7. conf \in List /\ loop.settings \in List /\ loop.todo = {}
    BY DEF ConfInit, NoLoop, List
  <1>8. reader \in [logger : DOMAIN loggers \cup {Null}, level : Level \cup {Unknown, Null}, text : BOOLEAN]
    BY DEF ConfInit, Idle
  <1> QED
    BY <1>1, <1>3, <1>4, <1>6, <1>7, <1>8 DEF ConfInv

LEMMA ConfiguredGood ==
  ASSUME ConfInv, NEW id, NEW c, Complete(c), Configured(id, c)
  PROVE  /\ Right(streams') /\ DOMAIN loggers' = DOMAIN loggers \cup {id}
         /\ \A x \in DOMAIN loggers' : LoggerGood(loggers'[x], streams')
  <1> DEFINE b == Build(c, streams)
  <1>1. loggers' = Put(loggers, id, b.logger) /\ streams' = b.streams
    BY DEF Configured
  <1>2. Right(b.streams) /\ DOMAIN streams \subseteq DOMAIN b.streams /\ LoggerGood(b.logger, b.streams)
    BY BuildGood DEF ConfInv
  <1> HIDE DEF b
  <1>3. /\ DOMAIN loggers' = DOMAIN loggers \cup {id} /\ loggers'[id] = b.logger
        /\ \A x \in DOMAIN loggers : x # id => loggers'[x] = loggers[x]
    BY <1>1 DEF Put
  <1>4. ASSUME NEW x \in DOMAIN loggers, x # id PROVE LoggerGood(loggers'[x], streams')
    <2>1. LoggerGood(loggers[x], streams) /\ loggers'[x] = loggers[x] /\ DOMAIN streams \subseteq DOMAIN streams'
      BY <1>1, <1>2, <1>3, <1>4 DEF ConfInv
    <2> QED
      BY <2>1 DEF LoggerGood
  <1> QED
    BY <1>1, <1>2, <1>3, <1>4

LEMMA NextConfInv == ConfInv /\ [ConfNext]_confVars => ConfInv'
  <1> SUFFICES ASSUME ConfInv, [ConfNext]_confVars PROVE ConfInv'
    OBVIOUS
  <1> DEFINE Reader == [logger : DOMAIN loggers \cup {Null}, level : Level \cup {Unknown, Null},
                        text : BOOLEAN]
  <1>1. /\ Complete(defaults) /\ defaults \in List /\ conf \in List /\ Right(streams)
        /\ \A id \in DOMAIN loggers : LoggerGood(loggers[id], streams)
        /\ loop.settings \in List /\ loop.todo \subseteq DOMAIN loggers /\ reader \in Reader
    BY DEF ConfInv, Complete, Sound
  <1>2. Complete(SetFromBase(<<>>, defaults))
    BY <1>1, CopyComplete
  <1>3. ASSUME NEW id \in DOMAIN loggers, NEW settings \in List
        PROVE  Complete(SetFromBase(loggers[id].list, settings))
    BY <1>1, ChangeComplete DEF LoggerGood
  <1>4. \A l \in Level, t \in Type : \A v \in Value(t) : [level |-> l, type |-> t, value |-> v] \in Setting
    BY DEF Setting, Value
  <1>5. CASE EditConf
    <2>1. ASSUME NEW c \in List, Edit(c) PROVE ConfInv'
      BY <1>1, <2>1 DEF Edit, ConfInv
    <2>2. \A l \in Level, t \in Type : \A v \in Value(t) : Set(conf, l, t, v) \in List
      BY <1>1, SetTyped
    <2>3. \A t \in Type : \A v \in Value(t) : SetLevels(conf, LevelList, t, v) \in List
      BY <1>1, SetLevelsTyped, LevelsAreLevels
    <2>4. /\ <<>> \in List /\ SetToDefault(conf) \in List /\ SetRemainingToDefault(conf) \in List
          /\ SetFromBase(conf, defaults) \in List
      BY <1>1, DefaultsTyped, SetFromBaseTyped DEF List
    <2>5. \E c \in List : Edit(c)
      BY <1>5, <2>2, <2>3, <2>4 DEF EditConf
    <2> QED
      BY <2>1, <2>5
  <1>6. ASSUME NEW id, GetLogger(id) PROVE ConfInv'
    <2>1. Configured(id, SetFromBase(<<>>, defaults)) /\ UNCHANGED <<defaults, conf, reader, loop>>
      BY <1>6 DEF GetLogger
    <2>2. /\ Right(streams') /\ DOMAIN loggers' = DOMAIN loggers \cup {id}
          /\ \A x \in DOMAIN loggers' : LoggerGood(loggers'[x], streams')
      BY <1>2, <2>1, ConfiguredGood
    <2> QED
      BY <1>1, <2>1, <2>2 DEF ConfInv
  <1>7. ASSUME NEW id, UnregisterLogger(id) PROVE ConfInv'
    <2>1. /\ reader = Idle /\ loop = NoLoop
          /\ loggers' = [k \in DOMAIN loggers \ {id} |-> loggers[k]]
          /\ UNCHANGED <<defaults, streams, conf, reader, loop>>
      BY <1>7 DEF UnregisterLogger, OneCall, Turn
    <2>2. DOMAIN loggers' = DOMAIN loggers \ {id} /\ \A k \in DOMAIN loggers' : loggers'[k] = loggers[k]
      BY <2>1
    <2>3. loop.todo = {} /\ reader' \in [logger : DOMAIN loggers' \cup {Null}, level : Level \cup {Unknown, Null}, text : BOOLEAN]
      BY <2>1 DEF NoLoop, Idle
    <2> QED
      BY <1>1, <2>1, <2>2, <2>3 DEF ConfInv
  <1>8. ASSUME NEW ids, ids \subseteq DOMAIN loggers, NEW settings \in List, Reconfigure(ids, settings)
        PROVE  ConfInv'
    BY <1>1, <1>8 DEF Reconfigure, ConfInv
  <1>9. ASSUME NEW existing, SetDefaultConfigurations(existing) PROVE ConfInv'
    <2>1. Complete(SetFromBase(defaults, conf))
      BY <1>1, ChangeComplete
    <2>2. loop'.settings \in List /\ loop'.todo \subseteq DOMAIN loggers
      BY <1>1, <1>9 DEF SetDefaultConfigurations, NoLoop, List
    <2> QED
      BY <1>1, <1>9, <2>1, <2>2 DEF SetDefaultConfigurations, ConfInv
  <1>10. ASSUME NEW id, ReconfigureNext(id) PROVE ConfInv'
    <2>1. /\ id \in DOMAIN loggers /\ Configured(id, SetFromBase(loggers[id].list, loop.settings))
          /\ loop' = IF loop.todo = {id} THEN NoLoop ELSE [loop EXCEPT !.todo = @ \ {id}]
          /\ UNCHANGED <<defaults, conf, reader>>
      BY <1>1, <1>10 DEF ReconfigureNext
    <2>2. /\ Right(streams') /\ DOMAIN loggers' = DOMAIN loggers \cup {id}
          /\ \A x \in DOMAIN loggers' : LoggerGood(loggers'[x], streams')
      BY <1>1, <1>3, <2>1, ConfiguredGood
    <2>3. loop'.settings \in List /\ loop'.todo \subseteq DOMAIN loggers
      <3>1. CASE loop.todo = {id}
        BY <2>1, <3>1 DEF NoLoop, List
      <3>2. CASE loop.todo # {id}
        BY <1>1, <2>1, <3>2
      <3> QED
        BY <3>1, <3>2
    <2> QED
      BY <1>1, <2>1, <2>2, <2>3 DEF ConfInv
  <1>11. CASE OpenFile
    <2>1. <<>> \in List
      BY DEF List
    <2> QED
      BY <1>1, <1>11, <2>1 DEF OpenFile, Idle, ConfInv
  <1>12. CASE EndOfSection
    <2>1. /\ reader.logger \in DOMAIN loggers
          /\ Configured(reader.logger, SetFromBase(loggers[reader.logger].list, conf))
          /\ reader' = [reader EXCEPT !.level = Null, !.text = FALSE]
          /\ UNCHANGED <<defaults, conf, loop>>
      BY <1>1, <1>12 DEF EndOfSection, Pending
    <2>2. /\ Right(streams') /\ DOMAIN loggers' = DOMAIN loggers \cup {reader.logger}
          /\ \A x \in DOMAIN loggers' : LoggerGood(loggers'[x], streams')
      BY <1>1, <1>3, <2>1, ConfiguredGood
    <2>3. DOMAIN loggers' = DOMAIN loggers /\ reader' \in Reader
      BY <1>1, <2>1, <2>2
    <2> QED
      BY <1>1, <2>1, <2>2, <2>3 DEF ConfInv
  <1>13. ASSUME NEW id, ReadLogger(id) PROVE ConfInv'
    <2>1. /\ IF id \in {Short, Null} \cup DOMAIN loggers THEN UNCHANGED <<loggers, streams>>
             ELSE Configured(id, SetFromBase(<<>>, defaults))
          /\ reader' = [logger |-> IF id = Short THEN reader.logger ELSE id,
                        level |-> Unknown, text |-> FALSE]
          /\ conf' = <<>>
          /\ UNCHANGED <<defaults, loop>>
      BY <1>13 DEF ReadLogger
    <2>2. <<>> \in List
      BY DEF List
    <2>3. CASE id \in {Short, Null} \cup DOMAIN loggers
      <3>1. reader' \in Reader
        BY <1>1, <2>1, <2>3
      <3> QED
        BY <1>1, <2>1, <2>2, <2>3, <3>1 DEF ConfInv
    <2>4. CASE id \notin {Short, Null} \cup DOMAIN loggers
      <3>1. /\ Right(streams') /\ DOMAIN loggers' = DOMAIN loggers \cup {id}
            /\ \A x \in DOMAIN loggers' : LoggerGood(loggers'[x], streams')
        BY <1>2, <2>1, <2>4, ConfiguredGood
      <3>2. reader' \in [logger : DOMAIN loggers' \cup {Null}, level : Level \cup {Unknown, Null}, text : BOOLEAN]
        BY <2>1, <2>4, <3>1
      <3> QED
        BY <1>1, <2>1, <2>2, <3>1, <3>2 DEF ConfInv
    <2> QED
      BY <2>3, <2>4
  <1>14. ASSUME NEW l \in Level \cup {Unknown}, ReadLevel(l) PROVE ConfInv'
    <2>1. reader' \in Reader /\ UNCHANGED <<defaults, loggers, streams, conf, loop>>
      BY <1>1, <1>14 DEF ReadLevel
    <2> QED
      BY <1>1, <2>1 DEF ConfInv
  <1>15. ASSUME NEW t \in Type, NEW v \in Value(t), ReadSetting(t, v) PROVE ConfInv'
    <2>1. /\ conf' = IF reader.level = Unknown THEN conf ELSE Set(conf, reader.level, t, v)
          /\ reader.level \in Level \cup {Unknown} /\ reader' \in Reader
          /\ UNCHANGED <<defaults, loggers, streams, loop>>
      BY <1>1, <1>15 DEF ReadSetting
    <2>2. conf' \in List
      BY <1>1, <2>1, SetTyped
    <2> QED
      BY <1>1, <2>1, <2>2 DEF ConfInv
  <1>16. CASE CloseFile
    BY <1>1, <1>16 DEF CloseFile, Idle, ConfInv
  <1>17. CASE UNCHANGED confVars
    BY <1>1, <1>17 DEF confVars, ConfInv
  <1>18. ASSUME NEW l \in Level, NEW t \in Type, NEW v \in Value(t)
         PROVE  <<[level |-> l, type |-> t, value |-> v]>> \in List
    BY <1>4 DEF List
  <1>19. ASSUME NEW id \in Id \ {Short},
                GetLogger(id) \/ UnregisterLogger(id) \/ (id \in DOMAIN loggers /\ Reconfigure({id}, conf))
         PROVE  ConfInv'
    BY <1>1, <1>6, <1>7, <1>8, <1>19
  <1>20. ASSUME NEW l \in Level, NEW t \in Type, NEW v \in Value(t),
                Reconfigure(DOMAIN loggers, <<[level |-> l, type |-> t, value |-> v]>>)
         PROVE  ConfInv'
    BY <1>8, <1>18, <1>20
  <1>21. CASE ConfNext
    <2>1. CASE \/ EditConf \/ OpenFile \/ EndOfSection \/ CloseFile
               \/ \E existing \in BOOLEAN : SetDefaultConfigurations(existing)
               \/ \E id \in Id : ReconfigureNext(id)
      BY <1>5, <1>9, <1>10, <1>11, <1>12, <1>16, <2>1
    <2>2. CASE \/ \E id \in Id \cup {Null} : ReadLogger(id)
               \/ \E l \in Level \cup {Unknown} : ReadLevel(l)
               \/ \E t \in Type : \E v \in Value(t) : ReadSetting(t, v)
      BY <1>13, <1>14, <1>15, <2>2
    <2> QED
      BY <1>19, <1>20, <1>21, <2>1, <2>2 DEF ConfNext
  <1> QED
    BY <1>17, <1>21

\* Whatever settings are made, and by whichever of the calls, a logger's maps return
\* what its list says of the file and of ToFile, level by level, though most values
\* are left out of the maps; a file that cannot be opened turns ToFile off where it
\* is on for Global.
THEOREM GettersAreFaithful == ConfSpec => []Faithful
  <1>1. ConfInv => Faithful
    BY InvIsFaithful
  <1> QED
    BY <1>1, InitConfInv, NextConfInv, PTL DEF ConfSpec

\* All loggers and levels that name a file write to one stream, and a stream is never
\* entered under a file that it was not opened for.
THEOREM StreamsAreShared == ConfSpec => []OneStreamPerFile
  <1>1. ConfInv => OneStreamPerFile
    BY InvIsFaithful
  <1> QED
    BY <1>1, InitConfInv, NextConfInv, PTL DEF ConfSpec
=============================================================================
