---------------------------- MODULE BwctlProofs ----------------------------
(***************************************************************************)
(* Theorems about Bwctl, for every set of command lines, tools and window: *)
(* a test is started only when agreed on, nothing is left of one when it   *)
(* is over, and what is asked for can be done.  The inductive invariant    *)
(* says what is settled at each place of the loop of main(), whichever     *)
(* failure or signal has led there.                                        *)
(***************************************************************************)
EXTENDS Bwctl, WellFoundedInduction, TLAPS

\* Min of a non-empty set of natural numbers is its least element.
LEMMA MinNatural ==
  ASSUME NEW S, S \subseteq Nat, S # {}
  PROVE  Min(S) \in S /\ \A k \in S : Min(S) <= k
  <1>1. PICK x \in S : \A y \in S : ~(<<y, x>> \in OpToRel(<, Nat))
    BY WFMin, NatLessThanWellFounded, Zenon
  <1>2. \A y \in S : ~(y < x)
    BY <1>1 DEF OpToRel
  <1>3. \A y \in S : x <= y
    BY <1>2
  <1>4. QED
    BY <1>3, Zenon DEF Min

\* Induction over the numbers from 0 to n.
LEMMA UpTo ==
  ASSUME NEW n \in Nat, NEW P, 0 \in P, \A k \in 1..n : k - 1 \in P => k \in P
  PROVE  \A k \in 0..n : k \in P
  <1> DEFINE S == {k \in 0..n : k \notin P}
  <1>1. SUFFICES ASSUME S # {} PROVE FALSE
    OBVIOUS
  <1>2. S \subseteq Nat
    OBVIOUS
  <1>3. Min(S) \in S /\ \A k \in S : Min(S) <= k
    BY <1>1, <1>2, MinNatural, Zenon
  <1> DEFINE m == Min(S)
  <1> HIDE DEF m
  <1>4. m \in 0..n /\ m \notin P /\ \A k \in S : m <= k
    BY <1>3 DEF m
  <1>5. m # 0
    BY <1>4
  <1>6. m \in 1..n /\ m - 1 \in 0..n /\ ~(m <= m - 1)
    BY <1>4, <1>5
  <1>7. m - 1 \in P
    BY <1>4, <1>6
  <1>8. QED
    BY <1>4, <1>6, <1>7

\* f is defined by recursion up to n, from v0 with the steps G.
Recursive(f, n, V, v0, G) ==
  /\ f \in [0..n -> V]
  /\ f[0] = v0
  /\ \A k \in 1..n : f[k] = G[k][f[k - 1]]

\* A function defined by recursion up to n exists.
LEMMA RecursionUpTo ==
  ASSUME NEW n \in Nat, NEW V, NEW v0 \in V, NEW G \in [1..n -> [V -> V]]
  PROVE  \E f : Recursive(f, n, V, v0, G)
  <1> DEFINE Ok(m, f) == f[0] = v0 /\ \A k \in 1..m : f[k] = G[k][f[k - 1]]
             P == {m \in 0..n : \E f \in [0..m -> V] : Ok(m, f)}
  <1>1. 0 \in P
    <2>1. [k \in 0..0 |-> v0] \in [0..0 -> V] /\ Ok(0, [k \in 0..0 |-> v0])
      OBVIOUS
    <2>2. \E f \in [0..0 -> V] : Ok(0, f)
      BY <2>1, Zenon
    <2>3. QED
      BY <2>2
  <1>2. ASSUME NEW m \in 1..n, m - 1 \in P PROVE m \in P
    <2>1. PICK f \in [0..(m - 1) -> V] : Ok(m - 1, f)
      BY <1>2
    <2> DEFINE g == [k \in 0..m |-> IF k = m THEN G[m][f[m - 1]] ELSE f[k]]
    <2>2. f[m - 1] \in V
      OBVIOUS
    <2>3. G[m][f[m - 1]] \in V
      BY <2>2
    <2>4. g \in [0..m -> V]
      BY <2>3
    <2>5. g[0] = v0
      BY <2>1
    <2>6. ASSUME NEW k \in 1..m PROVE g[k] = G[k][g[k - 1]]
      <3>1. CASE k = m
        <4>1. g[m] = G[m][f[m - 1]] /\ m - 1 \in 0..m /\ m - 1 # m
          OBVIOUS
        <4>2. g[m - 1] = f[m - 1]
          BY <4>1
        <4>3. QED
          BY <3>1, <4>1, <4>2
      <3>2. CASE k # m
        <4>1. k \in 1..(m - 1) /\ k - 1 \in 0..m /\ k - 1 # m
          BY <3>2
        <4>2. g[k] = f[k] /\ g[k - 1] = f[k - 1]
          BY <3>2, <4>1
        <4>3. f[k] = G[k][f[k - 1]]
          BY <2>1, <4>1
        <4>4. QED
          BY <4>2, <4>3
      <3>3. QED
        BY <3>1, <3>2
    <2> HIDE DEF g
    <2>7. Ok(m, g)
      BY <2>5, <2>6
    <2> HIDE DEF Ok
    <2>8. \E h \in [0..m -> V] : Ok(m, h)
      BY <2>4, <2>7, Zenon
    <2>9. QED
      BY <2>8 DEF P
  <1>3. n \in P
    <2> HIDE DEF P
    <2>1. \A k \in 0..n : k \in P
      BY <1>1, <1>2, UpTo
    <2>2. QED
      BY <2>1
  <1>4. PICK f \in [0..n -> V] : Ok(n, f)
    BY <1>3
  <1>5. QED
    BY <1>4 DEF Recursive


-----------------------------------------------------------------------------
(***************************************************************************)
(* Products and remainders.                                                *)
(***************************************************************************)

\* Products of natural numbers.
LEMMA Products ==
  ASSUME NEW a \in Nat, NEW b \in Nat
  PROVE  /\ a * b \in Nat
         /\ a > 0 /\ b > 0 => a * b > 0 /\ a * b >= b
  OBVIOUS

\* A product is at least as great as another with a smaller factor.
LEMMA ProductsOrder ==
  ASSUME NEW d \in Nat, NEW p \in Int, NEW q \in Int, p < q
  PROVE  p * d + d <= q * d
  <1> DEFINE g == q - p - 1
  <1>1. g \in Nat /\ q = p + 1 + g
    OBVIOUS
  <1> HIDE DEF g
  <1>2. g * d \in Nat
    BY <1>1, Products
  <1>3. q * d = p * d + d + g * d
    BY <1>1
  <1>4. p * d \in Int /\ q * d \in Int
    OBVIOUS
  <1>5. QED
    BY <1>2, <1>3, <1>4

\* A quotient and a remainder are unique.
LEMMA RemainderUnique ==
  ASSUME NEW d \in Nat, NEW p \in Int, NEW q \in Int, NEW a \in 0 .. d - 1,
         NEW b \in 0 .. d - 1, p * d + a = q * d + b
  PROVE  p = q /\ a = b
  <1>1. p * d \in Int /\ q * d \in Int
    OBVIOUS
  <1>2. ~(p < q)
    BY <1>1, ProductsOrder
  <1>3. ~(q < p)
    BY <1>1, ProductsOrder
  <1>4. p = q
    BY <1>2, <1>3
  <1>5. QED
    BY <1>1, <1>4

\* A number is a multiple of d and its remainder.
LEMMA Division ==
  ASSUME NEW x \in Nat, NEW d \in Nat \ {0}
  PROVE  /\ x \div d \in Nat /\ x % d \in 0 .. d - 1
         /\ x = (x \div d) * d + (x % d)
  OBVIOUS

\* The remainder of a number that is written as a multiple and a rest.
LEMMA RemainderOf ==
  ASSUME NEW d \in Nat \ {0}, NEW q \in Nat, NEW a \in 0 .. d - 1
  PROVE  (q * d + a) % d = a
  <1> DEFINE x == q * d + a
  <1>1. x \in Nat
    BY Products
  <1> HIDE DEF x
  <1> DEFINE p == x \div d
             b == x % d
  <1>2. p \in Int /\ b \in 0 .. d - 1 /\ x = p * d + b
    BY <1>1, Division
  <1> HIDE DEF p, b
  <1>3. p * d + b = q * d + a
    BY <1>2 DEF x
  <1>4. b = a
    BY <1>2, <1>3, RemainderUnique
  <1>5. QED
    BY <1>4 DEF x, b

-----------------------------------------------------------------------------
(***************************************************************************)
(* Schedules: the times of day of the entries.                             *)
(***************************************************************************)

\* The times of day of an entry of a schedule.
TimesOf(e) ==
  IF e.every THEN {h * HourLength + e.at : h \in 0 .. Hours - 1} ELSE {e.at}

\* A day, and what an entry is.
LEMMA DayFacts ==
  /\ Hours \in Nat \ {0} /\ HourLength \in Nat \ {0} /\ Day \in Nat \ {0}
  /\ \A e \in Entries : /\ e.every \in BOOLEAN /\ e.at \in Nat /\ Slots(e) \in Nat \ {0}
                        /\ e.every => e.at < HourLength
                        /\ ~e.every => e.at < Day
  <1>1. Hours \in Nat \ {0} /\ HourLength \in Nat \ {0}
    BY SchedulersAssumption
  <1>2. Day \in Nat \ {0}
    BY <1>1, Products DEF Day
  <1>3. ASSUME NEW e \in Entries
        PROVE  /\ e.every \in BOOLEAN /\ e.at \in Nat /\ Slots(e) \in Nat \ {0}
               /\ e.every => e.at < HourLength
               /\ ~e.every => e.at < Day
    <2>1. \/ e.every = TRUE /\ e.at \in 0 .. HourLength - 1
          \/ e.every = FALSE /\ e.at \in 0 .. Day - 1
      BY DEF Entries
    <2>2. e.every \in BOOLEAN
      BY <2>1, Zenon
    <2>3. e.at \in Nat
      BY <1>1, <1>2, <2>1
    <2>4. e.every => e.at < HourLength
      BY <1>1, <2>1
    <2>5. ~e.every => e.at < Day
      BY <1>2, <2>1
    <2>6. Slots(e) \in Nat \ {0}
      BY <1>1 DEF Slots
    <2>7. QED
      BY <2>2, <2>3, <2>4, <2>5, <2>6
  <1>4. QED
    BY <1>1, <1>2, <1>3

\* The times of an entry are times of a day.
LEMMA TimesOfDay ==
  ASSUME NEW e \in Entries, NEW x \in TimesOf(e)
  PROVE  x \in 0 .. Day - 1
  <1>1. CASE ~e.every
    BY <1>1, DayFacts DEF TimesOf
  <1>2. CASE e.every
    <2>1. PICK h \in 0 .. Hours - 1 : x = h * HourLength + e.at
      BY <1>2 DEF TimesOf
    <2>2. h * HourLength \in Nat /\ h * HourLength + HourLength <= Hours * HourLength
      <3>1. h \in Nat /\ h \in Int /\ Hours \in Int /\ HourLength \in Nat /\ h < Hours
        BY DayFacts
      <3>2. QED
        BY <3>1, Products, ProductsOrder
    <2>3. e.at \in Nat /\ e.at < HourLength /\ HourLength \in Nat /\ Day \in Nat
      BY <1>2, DayFacts
    <2>4. QED
      BY <2>1, <2>2, <2>3 DEF Day
  <1>3. QED
    BY <1>1, <1>2, DayFacts

\* An entry says of a moment what its times say of the time of day.
LEMMA SaidByTime ==
  ASSUME NEW e \in Entries, NEW x \in Nat
  PROVE  (IF e.every THEN x % HourLength = e.at ELSE x % Day = e.at)
         <=> x % Day \in TimesOf(e)
  <1>1. CASE ~e.every
    BY <1>1 DEF TimesOf
  <1>2. CASE e.every
    <2> DEFINE q == x \div Day
               s == x % Day
               h == s \div HourLength
               a == s % HourLength
    <2>1. Day \in Nat \ {0} /\ Hours \in Nat \ {0} /\ HourLength \in Nat \ {0}
      BY DayFacts
    <2>2. q \in Nat /\ s \in 0 .. Day - 1 /\ x = q * Day + s
      BY <2>1, Division
    <2> HIDE DEF q, s
    <2>3. s \in Nat
      BY <2>1, <2>2
    <2>4. h \in Nat /\ a \in 0 .. HourLength - 1 /\ s = h * HourLength + a
      BY <2>1, <2>3, Division
    <2> HIDE DEF h, a
    <2>5. h < Hours
      <3>1. SUFFICES ASSUME Hours <= h PROVE FALSE
        BY <2>1, <2>4
      <3>2. Hours * HourLength <= h * HourLength
        <4>1. CASE Hours = h
          BY <2>1, <4>1
        <4>2. CASE Hours < h
          <5>1. Hours * HourLength + HourLength <= h * HourLength
            BY <2>1, <2>4, <4>2, ProductsOrder
          <5>2. Hours * HourLength \in Nat /\ h * HourLength \in Nat
            BY <2>1, <2>4, Products
          <5>3. QED
            BY <2>1, <5>1, <5>2
        <4>3. QED
          BY <2>1, <2>4, <3>1, <4>1, <4>2
      <3>3. h * HourLength \in Nat
        BY <2>1, <2>4, Products
      <3>4. QED
        BY <2>1, <2>2, <2>4, <3>2, <3>3 DEF Day
    <2>6. x % HourLength = a
      <3>1. x = (q * Hours + h) * HourLength + a
        BY <2>1, <2>2, <2>4 DEF Day
      <3> DEFINE m == q * Hours + h
      <3>2. m \in Nat
        BY <2>1, <2>2, <2>4, Products
      <3>3. x = m * HourLength + a
        BY <3>1
      <3> HIDE DEF m
      <3>4. QED
        BY <2>1, <2>4, <3>2, <3>3, RemainderOf
    <2>7. ASSUME NEW k \in 0 .. Hours - 1, s = k * HourLength + e.at PROVE a = e.at
      <3>1. e.at \in 0 .. HourLength - 1 /\ k \in Int /\ h \in Int /\ HourLength \in Nat
        BY <1>2, <2>1, <2>4, DayFacts
      <3>2. h * HourLength + a = k * HourLength + e.at
        BY <2>4, <2>7
      <3> DEFINE b == e.at
      <3>3. b \in 0 .. HourLength - 1 /\ h * HourLength + a = k * HourLength + b
        BY <3>1, <3>2
      <3> HIDE DEF b
      <3>4. a = b
        BY <2>4, <3>1, <3>3, RemainderUnique
      <3>5. QED
        BY <3>4 DEF b
    <2>8. a = e.at => s \in TimesOf(e)
      BY <1>2, <2>1, <2>4, <2>5 DEF TimesOf
    <2>9. s \in TimesOf(e) => a = e.at
      BY <1>2, <2>7 DEF TimesOf
    <2>10. QED
      BY <1>2, <2>6, <2>8, <2>9 DEF s
  <1>3. QED
    BY <1>1, <1>2, DayFacts

\* The time of day a while after now, less than a day.
LEMMA TimeAfter ==
  ASSUME NEW now \in 0 .. Day - 1, NEW k \in 0 .. Day - 1
  PROVE  (now + k) % Day = IF now + k < Day THEN now + k ELSE now + k - Day
  <1>1. Day \in Nat \ {0} /\ now \in Nat /\ k \in Nat
    BY DayFacts
  <1>2. CASE now + k < Day
    <2>1. now + k \in 0 .. Day - 1 /\ 0 * Day + (now + k) = now + k
      BY <1>1, <1>2
    <2>2. QED
      BY <1>1, <1>2, <2>1, RemainderOf
  <1>3. CASE ~(now + k < Day)
    <2>1. now + k - Day \in 0 .. Day - 1 /\ 1 * Day + (now + k - Day) = now + k
      BY <1>1, <1>3
    <2>2. QED
      BY <1>1, <1>3, <2>1, RemainderOf
  <1>4. QED
    BY <1>2, <1>3

\* The wait until a time of day: then it is that time, and not before.
LEMMA UntilFacts ==
  ASSUME NEW now \in 0 .. Day - 1, NEW t \in 0 .. Day - 1
  PROVE  /\ Until(t, now) \in 0 .. Day - 1
         /\ (now + Until(t, now)) % Day = t
         /\ \A k \in 0 .. Until(t, now) - 1 : (now + k) % Day # t
  <1> DEFINE u == Until(t, now)
  <1>1. Day \in Nat \ {0} /\ now \in Nat /\ t \in Nat /\ now < Day /\ t < Day
    BY DayFacts
  <1>2. u = IF t < now THEN t - now + Day ELSE t - now
    BY DEF Until
  <1> HIDE DEF u
  <1>3. u \in 0 .. Day - 1
    BY <1>1, <1>2
  <1>4. (now + u) % Day = t
    <2>1. (now + u) % Day = IF now + u < Day THEN now + u ELSE now + u - Day
      BY <1>3, TimeAfter
    <2>2. QED
      BY <1>1, <1>2, <2>1
  <1>5. ASSUME NEW k \in 0 .. u - 1 PROVE (now + k) % Day # t
    <2>1. k \in 0 .. Day - 1
      BY <1>1, <1>3
    <2>2. (now + k) % Day = IF now + k < Day THEN now + k ELSE now + k - Day
      BY <2>1, TimeAfter
    <2>3. QED
      BY <1>1, <1>2, <2>1, <2>2
  <1>6. QED
    BY <1>3, <1>4, <1>5 DEF u

-----------------------------------------------------------------------------
(***************************************************************************)
(* Schedules: the two passes over the entries, and the loop over the times. *)
(***************************************************************************)

\* The first pass over a schedule: how many times there are before each entry.
LEMMA CountFacts ==
  ASSUME NEW n \in Nat, NEW schedule \in [1 .. n -> Entries], Len(schedule) = n
  PROVE  \E count \in [0 .. n -> Nat] :
           /\ count[0] = 0
           /\ \A k \in 1 .. n : count[k] = count[k - 1] + Slots(schedule[k])
           /\ \A k \in 0 .. n : count[k] <= count[n]
           /\ Count(schedule) = count[n]
  <1> DEFINE IsCount(f) ==
               f = [k \in 0 .. n |-> IF k = 0 THEN 0 ELSE f[k - 1] + Slots(schedule[k])]
             G == [k \in 1 .. n |-> [m \in Nat |-> m + Slots(schedule[k])]]
  <1>1. \A k \in 1 .. n : Slots(schedule[k]) \in Nat
    BY DayFacts
  <1>2. G \in [1 .. n -> [Nat -> Nat]]
    BY <1>1
  <1>3. \E f : Recursive(f, n, Nat, 0, G)
    <2> HIDE DEF G
    <2>1. QED
      BY <1>2, RecursionUpTo
  <1>4. PICK f : Recursive(f, n, Nat, 0, G)
    BY <1>3
  <1>5. f \in [0 .. n -> Nat] /\ f[0] = 0 /\ \A k \in 1 .. n : f[k] = G[k][f[k - 1]]
    BY <1>4 DEF Recursive
  <1>6. ASSUME NEW k \in 1 .. n PROVE f[k] = f[k - 1] + Slots(schedule[k])
    <2>1. k - 1 \in 0 .. n
      OBVIOUS
    <2>2. f[k - 1] \in Nat /\ f[k] = G[k][f[k - 1]]
      BY <1>5, <2>1
    <2>3. \A m \in Nat : G[k][m] = m + Slots(schedule[k])
      OBVIOUS
    <2> HIDE DEF G
    <2>4. QED
      BY <2>2, <2>3
  <1>7. IsCount(f)
    <2>1. \A k \in 0 .. n : f[k] = IF k = 0 THEN 0 ELSE f[k - 1] + Slots(schedule[k])
      BY <1>5, <1>6
    <2>2. QED
      BY <1>5, <2>1
  <1> DEFINE count == CHOOSE g : IsCount(g)
  <1>8. IsCount(count)
    <2> HIDE DEF IsCount
    <2>1. QED
      BY <1>7, Zenon
  <1>9. Count(schedule) = count[n]
    BY DEF Count
  <1> HIDE DEF count
  <1>10. /\ count[0] = 0
         /\ \A k \in 1 .. n : count[k] = count[k - 1] + Slots(schedule[k])
    BY <1>8
  <1>11. \A k \in 0 .. n : count[k] \in Nat
    <2> DEFINE P == {k \in 0 .. n : count[k] \in Nat}
    <2>1. 0 \in P
      BY <1>10
    <2>2. ASSUME NEW k \in 1 .. n, k - 1 \in P PROVE k \in P
      BY <1>1, <1>10, <2>2
    <2> HIDE DEF P
    <2>3. \A k \in 0 .. n : k \in P
      BY <2>1, <2>2, UpTo
    <2>4. QED
      BY <2>3 DEF P
  <1>12. \A k \in 0 .. n : \A m \in 0 .. k : count[m] <= count[k]
    <2> DEFINE P == {k \in 0 .. n : \A m \in 0 .. k : count[m] <= count[k]}
    <2>1. 0 \in P
      BY <1>10, <1>11
    <2>2. ASSUME NEW k \in 1 .. n, k - 1 \in P PROVE k \in P
      <3>1. \A m \in 0 .. k - 1 : count[m] <= count[k - 1]
        BY <2>2
      <3>2. /\ k \in 0 .. n /\ k - 1 \in 0 .. n /\ Slots(schedule[k]) \in Nat
            /\ count[k] = count[k - 1] + Slots(schedule[k])
            /\ count[k] \in Nat /\ count[k - 1] \in Nat
        BY <1>1, <1>10, <1>11
      <3>3. ASSUME NEW m \in 0 .. k PROVE count[m] <= count[k]
        <4>1. CASE m = k
          BY <3>2, <4>1
        <4>2. CASE m # k
          <5>1. m \in 0 .. k - 1 /\ m \in 0 .. n
            BY <4>2
          <5>2. count[m] \in Nat /\ count[m] <= count[k - 1]
            BY <1>11, <3>1, <5>1
          <5>3. QED
            BY <3>2, <5>2
        <4>3. QED
          BY <4>1, <4>2
      <3>4. QED
        BY <3>2, <3>3
    <2> HIDE DEF P
    <2>3. \A k \in 0 .. n : k \in P
      BY <2>1, <2>2, UpTo
    <2>4. QED
      BY <2>3 DEF P
  <1>13. n \in 0 .. n
    OBVIOUS
  <1>14. \A k \in 0 .. n : count[k] <= count[n]
    BY <1>12, <1>13
  <1>15. count \in [0 .. n -> Nat]
    <2>1. count = [k \in 0 .. n |-> count[k]]
      BY <1>8
    <2>2. QED
      BY <1>11, <2>1
  <1>16. QED
    BY <1>9, <1>10, <1>14, <1>15

\* What one entry writes into the array: its own times, after those of the entries
\* before.
Added(N, c, e, times, a) ==
  /\ a = [i |-> c + Slots(e) + 1, times |-> a.times]
  /\ a.times \in [1 .. N -> Int]
  /\ \A j \in 1 .. c : a.times[j] = times[j]
  /\ \A j \in c + 1 .. c + Slots(e) : a.times[j] \in TimesOf(e)
  /\ \A x \in TimesOf(e) : \E j \in c + 1 .. c + Slots(e) : a.times[j] = x

LEMMA FillFacts ==
  ASSUME NEW N \in Nat, NEW e \in Entries, NEW c \in Nat, c + Slots(e) <= N,
         NEW times \in [1 .. N -> Int]
  PROVE  Added(N, c, e, times, Fill([i |-> c + 1, times |-> times], e))
  <1> DEFINE a == Fill([i |-> c + 1, times |-> times], e)
             new == [j \in 1 .. N |->
                       IF j \in c + 1 .. c + Slots(e)
                       THEN IF e.every THEN (j - (c + 1)) * HourLength + e.at ELSE e.at
                       ELSE times[j]]
  <1>1. /\ Hours \in Nat \ {0} /\ HourLength \in Nat \ {0} /\ e.every \in BOOLEAN
        /\ e.at \in Nat /\ Slots(e) \in Nat \ {0}
        /\ Slots(e) = IF e.every THEN Hours ELSE 1
    BY DayFacts DEF Slots
  <1>2. a = [i |-> c + Slots(e) + 1, times |-> new]
    <2>1. c + 1 + Slots(e) = c + Slots(e) + 1 /\ c + 1 + Slots(e) - 1 = c + Slots(e)
      BY <1>1
    <2>2. DOMAIN times = 1 .. N
      OBVIOUS
    <2>3. QED
      BY <2>1, <2>2 DEF Fill, Advance
  <1>3. new = [j \in 1 .. N |->
                    IF j \in c + 1 .. c + Slots(e)
                    THEN IF e.every THEN (j - (c + 1)) * HourLength + e.at ELSE e.at
                    ELSE times[j]]
    OBVIOUS
  <1> HIDE DEF a, new
  <1>4. a.times = new
    BY <1>2
  <1>5. new \in [1 .. N -> Int]
    BY <1>1, <1>3
  <1>6. \A j \in 1 .. c : new[j] = times[j]
    BY <1>1, <1>3
  <1>7. \A j \in c + 1 .. c + Slots(e) :
          new[j] = IF e.every THEN (j - (c + 1)) * HourLength + e.at ELSE e.at
    BY <1>1, <1>3
  <1>8. ASSUME NEW j \in c + 1 .. c + Slots(e) PROVE new[j] \in TimesOf(e)
    <2>1. CASE e.every
      <3> DEFINE h == j - (c + 1)
      <3>1. h \in 0 .. Hours - 1 /\ new[j] = h * HourLength + e.at
        BY <1>1, <1>7, <2>1
      <3> HIDE DEF h
      <3>2. QED
        BY <2>1, <3>1 DEF TimesOf
    <2>2. CASE ~e.every
      BY <1>7, <2>2 DEF TimesOf
    <2>3. QED
      BY <1>1, <2>1, <2>2
  <1>9. ASSUME NEW x \in TimesOf(e) PROVE \E j \in c + 1 .. c + Slots(e) : new[j] = x
    <2>1. CASE e.every
      <3>1. PICK h \in 0 .. Hours - 1 : x = h * HourLength + e.at
        BY <2>1 DEF TimesOf
      <3>2. c + 1 + h \in c + 1 .. c + Slots(e) /\ (c + 1 + h) - (c + 1) = h
        BY <1>1, <2>1
      <3>3. new[c + 1 + h] = x
        BY <1>7, <2>1, <3>1, <3>2
      <3>4. QED
        BY <3>2, <3>3
    <2>2. CASE ~e.every
      <3>1. c + 1 \in c + 1 .. c + Slots(e) /\ x = e.at
        BY <1>1, <2>2 DEF TimesOf
      <3>2. QED
        BY <1>7, <2>2, <3>1
    <2>3. QED
      BY <1>1, <2>1, <2>2
  <1>10. QED
    BY <1>2, <1>5, <1>6, <1>8, <1>9, <1>4 DEF a, Added

\* The second pass over a schedule: the times of its entries, and no others, are in
\* the array.
LEMMA ParseFacts ==
  ASSUME NEW n \in Nat, NEW schedule \in [1 .. n -> Entries], Len(schedule) = n
  PROVE  \E N \in Nat : LET times == parse_time_schedule(schedule) IN
           /\ times \in [1 .. N -> 0 .. Day - 1]
           /\ \A j \in 1 .. N : \E m \in 1 .. n : times[j] \in TimesOf(schedule[m])
           /\ \A m \in 1 .. n : \A x \in TimesOf(schedule[m]) :
                \E j \in 1 .. N : times[j] = x
  <1>1. PICK count \in [0 .. n -> Nat] :
          /\ count[0] = 0
          /\ \A k \in 1 .. n : count[k] = count[k - 1] + Slots(schedule[k])
          /\ \A k \in 0 .. n : count[k] <= count[n]
          /\ Count(schedule) = count[n]
    BY CountFacts
  <1> DEFINE N == count[n]
             empty == [i |-> 1, times |-> [j \in 1 .. N |-> 0]]
             V == [i : Nat, times : [1 .. N -> Int]]
             IsFilled(f) ==
               f = [k \in 0 .. n |-> IF k = 0 THEN empty ELSE Fill(f[k - 1], schedule[k])]
             G == [k \in 1 .. n |-> [a \in V |-> Fill(a, schedule[k])]]
  <1>2. N \in Nat /\ n \in 0 .. n
    OBVIOUS
  <1>3. \A k \in 0 .. n : count[k] \in Nat /\ count[k] <= N
    BY <1>1
  <1>4. \A k \in 1 .. n : k - 1 \in 0 .. n /\ k \in 0 .. n
    OBVIOUS
  <1>5. \A k \in 1 .. n : count[k] = count[k - 1] + Slots(schedule[k])
    BY <1>1
  <1>6. count[0] = 0 /\ Count(schedule) = N
    BY <1>1
  <1> HIDE DEF N
  <1>7. empty \in V /\ empty.i = 1 /\ empty.times \in [1 .. N -> Int]
    OBVIOUS
  <1>8. ASSUME NEW a \in V, NEW e \in Entries PROVE Fill(a, e) \in V
    <2>1. /\ a.i \in Nat /\ a.times \in [1 .. N -> Int] /\ e.at \in Nat /\ Slots(e) \in Nat
          /\ HourLength \in Nat
      BY DayFacts
    <2>2. a.i + Slots(e) \in Nat
      BY <2>1
    <2>3. \A j \in 1 .. N : (j - a.i) * HourLength + e.at \in Int
      BY <2>1
    <2> DEFINE row(j) == IF j \in a.i .. (a.i + Slots(e) - 1)
                         THEN IF e.every THEN (j - a.i) * HourLength + e.at ELSE e.at
                         ELSE a.times[j]
    <2>4. DOMAIN a.times = 1 .. N
      BY <2>1
    <2>5. \A j \in 1 .. N : row(j) \in Int
      <3> DEFINE at == e.at
                 t == a.times
      <3>1. at \in Nat /\ t \in [1 .. N -> Int]
        BY <2>1
      <3> HIDE DEF at, t
      <3>2. at \in Int /\ \A j \in 1 .. N : t[j] \in Int
        BY <3>1
      <3>3. QED
        BY <2>3, <3>2 DEF at, t
    <2>6. Fill(a, e) = [i |-> a.i + Slots(e), times |-> [j \in 1 .. N |-> row(j)]]
      BY <2>4 DEF Fill, Advance
    <2> HIDE DEF row
    <2>7. [j \in 1 .. N |-> row(j)] \in [1 .. N -> Int]
      BY <2>5
    <2>8. QED
      BY <2>2, <2>6, <2>7
  <1>9. G \in [1 .. n -> [V -> V]]
    <2> HIDE DEF V
    <2>1. QED
      BY <1>8
  <1>10. \E f : Recursive(f, n, V, empty, G)
    <2> HIDE DEF V, G, empty
    <2>1. QED
      BY <1>7, <1>9, RecursionUpTo
  <1>11. PICK f : Recursive(f, n, V, empty, G)
    BY <1>10
  <1>12. f \in [0 .. n -> V] /\ f[0] = empty /\ \A k \in 1 .. n : f[k] = G[k][f[k - 1]]
    <2> HIDE DEF V, G, empty
    <2>1. QED
      BY <1>11 DEF Recursive
  <1>13. ASSUME NEW k \in 1 .. n PROVE f[k] = Fill(f[k - 1], schedule[k])
    <2>1. f[k - 1] \in V /\ f[k] = G[k][f[k - 1]]
      <3> HIDE DEF V, G, empty
      <3>1. QED
        BY <1>4, <1>12
    <2>2. \A a \in V : G[k][a] = Fill(a, schedule[k])
      <3> HIDE DEF V
      <3>1. QED
        OBVIOUS
    <2> HIDE DEF G, V
    <2>3. QED
      BY <2>1, <2>2
  <1>14. IsFilled(f)
    <2> HIDE DEF V, G, empty
    <2>1. \A k \in 0 .. n : f[k] = IF k = 0 THEN empty ELSE Fill(f[k - 1], schedule[k])
      <3>1. ASSUME NEW k \in 0 .. n
            PROVE  f[k] = IF k = 0 THEN empty ELSE Fill(f[k - 1], schedule[k])
        <4>1. CASE k = 0
          BY <1>12, <4>1, Zenon
        <4>2. CASE k # 0
          <5>1. k \in 1 .. n
            BY <4>2
          <5>2. QED
            BY <1>13, <4>2, <5>1, Zenon
        <4>3. QED
          BY <4>1, <4>2
      <3>2. QED
        BY <3>1
    <2>2. QED
      BY <1>12, <2>1
  <1> DEFINE filled == CHOOSE g : IsFilled(g)
  <1>15. IsFilled(filled)
    <2> HIDE DEF IsFilled
    <2>1. QED
      BY <1>14, Zenon
  <1>16. parse_time_schedule(schedule) = filled[n].times
    BY <1>6 DEF parse_time_schedule
  <1> HIDE DEF filled
  <1>17. /\ filled[0] = empty
         /\ \A k \in 1 .. n : filled[k] = Fill(filled[k - 1], schedule[k])
    <2> HIDE DEF empty
    <2>1. QED
      BY <1>15
  <1> DEFINE Written(k, times) ==
               /\ times \in [1 .. N -> Int]
               /\ \A j \in 1 .. count[k] :
                    \E m \in 1 .. k : times[j] \in TimesOf(schedule[m])
               /\ \A m \in 1 .. k : \A x \in TimesOf(schedule[m]) :
                    \E j \in 1 .. count[k] : times[j] = x
             P == {k \in 0 .. n :
                     \E times : /\ filled[k] = [i |-> count[k] + 1, times |-> times]
                                /\ Written(k, times)}
  <1>18. 0 \in P
    <2>1. filled[0] = [i |-> count[0] + 1, times |-> empty.times]
      BY <1>6, <1>17
    <2>2. Written(0, empty.times)
      BY <1>6, <1>7
    <2> HIDE DEF empty, Written
    <2>3. QED
      BY <2>1, <2>2
  <1>19. ASSUME NEW k \in 1 .. n, k - 1 \in P PROVE k \in P
    <2>1. PICK old : /\ filled[k - 1] = [i |-> count[k - 1] + 1, times |-> old]
                     /\ Written(k - 1, old)
      BY <1>19
    <2> DEFINE e == schedule[k]
               c == count[k - 1]
               a == Fill([i |-> c + 1, times |-> old], e)
               new == a.times
    <2>2. /\ c \in Nat /\ count[k] = c + Slots(e) /\ count[k] \in Nat /\ count[k] <= N
          /\ e \in Entries /\ old \in [1 .. N -> Int] /\ k \in 0 .. n
      BY <1>3, <1>4, <1>5, <2>1
    <2>3. filled[k] = a
      BY <1>17, <2>1
    <2> HIDE DEF e, c
    <2>4. /\ a = [i |-> c + Slots(e) + 1, times |-> new]
          /\ new \in [1 .. N -> Int]
          /\ \A j \in 1 .. c : new[j] = old[j]
          /\ \A j \in c + 1 .. c + Slots(e) : new[j] \in TimesOf(e)
          /\ \A x \in TimesOf(e) : \E j \in c + 1 .. c + Slots(e) : new[j] = x
      <3>1. c + Slots(e) <= N
        BY <2>2
      <3>2. Added(N, c, e, old, a)
        BY <1>2, <2>2, <3>1, FillFacts
      <3> HIDE DEF a
      <3>3. QED
        BY <3>2 DEF Added
    <2> HIDE DEF a, new
    <2>5. filled[k] = [i |-> count[k] + 1, times |-> new]
      BY <2>2, <2>3, <2>4
    <2>6. Slots(e) \in Nat
      BY <2>2, DayFacts
    <2>7. ASSUME NEW j \in 1 .. count[k]
          PROVE  \E m \in 1 .. k : new[j] \in TimesOf(schedule[m])
      <3>1. CASE j <= c
        <4>1. j \in 1 .. c /\ j \in 1 .. count[k - 1]
          BY <2>2, <3>1 DEF c
        <4>2. PICK m \in 1 .. k - 1 : old[j] \in TimesOf(schedule[m])
          BY <2>1, <4>1
        <4>3. m \in 1 .. k /\ new[j] = old[j]
          BY <2>4, <4>1
        <4>4. QED
          BY <4>2, <4>3
      <3>2. CASE ~(j <= c)
        <4>1. j \in c + 1 .. c + Slots(e) /\ k \in 1 .. k
          BY <2>2, <2>6, <3>2
        <4>2. QED
          BY <2>4, <4>1 DEF e
      <3>3. QED
        BY <3>1, <3>2
    <2>8. ASSUME NEW m \in 1 .. k, NEW x \in TimesOf(schedule[m])
          PROVE  \E j \in 1 .. count[k] : new[j] = x
      <3>1. CASE m = k
        <4>1. PICK j \in c + 1 .. c + Slots(e) : new[j] = x
          BY <2>4, <3>1 DEF e
        <4>2. j \in 1 .. count[k]
          BY <2>2, <2>6
        <4>3. QED
          BY <4>1, <4>2
      <3>2. CASE m # k
        <4>1. m \in 1 .. k - 1
          BY <3>2
        <4>2. PICK j \in 1 .. count[k - 1] : old[j] = x
          BY <2>1, <4>1
        <4>3. j \in 1 .. c /\ j \in 1 .. count[k]
          BY <2>2, <2>6, <4>2 DEF c
        <4>4. QED
          BY <2>4, <4>2, <4>3
      <3>3. QED
        BY <3>1, <3>2
    <2>9. Written(k, new)
      BY <2>4, <2>7, <2>8
    <2> HIDE DEF Written
    <2>10. QED
      BY <2>2, <2>5, <2>9
  <1> HIDE DEF P
  <1>20. n \in P
    <2>1. \A k \in 0 .. n : k \in P
      BY <1>18, <1>19, UpTo
    <2>2. QED
      BY <1>2, <2>1
  <1>21. PICK times : /\ filled[n] = [i |-> count[n] + 1, times |-> times]
                      /\ Written(n, times)
    BY <1>20 DEF P
  <1>22. parse_time_schedule(schedule) = times
    BY <1>16, <1>21
  <1>23. times \in [1 .. N -> 0 .. Day - 1]
    <2>1. ASSUME NEW j \in 1 .. N PROVE times[j] \in 0 .. Day - 1
      <3>1. PICK m \in 1 .. n : times[j] \in TimesOf(schedule[m])
        BY <1>21 DEF N
      <3>2. QED
        BY <3>1, TimesOfDay
    <2>2. QED
      BY <1>21, <2>1
  <1>24. /\ \A j \in 1 .. N : \E m \in 1 .. n : times[j] \in TimesOf(schedule[m])
         /\ \A m \in 1 .. n : \A x \in TimesOf(schedule[m]) :
              \E j \in 1 .. N : times[j] = x
    BY <1>21 DEF N
  <1>25. QED
    BY <1>2, <1>22, <1>23, <1>24

\* The loop over the times finds the one that comes first.
LEMMA SoonestFacts ==
  ASSUME NEW n \in Nat \ {0}, NEW times \in [1 .. n -> 0 .. Day - 1], Len(times) = n,
         NEW now \in 0 .. Day - 1
  PROVE  /\ \E j \in 1 .. n : scheduled_wait(times, now) = Until(times[j], now)
         /\ \A j \in 1 .. n : scheduled_wait(times, now) <= Until(times[j], now)
  <1> DEFINE none == -1
             IsLoop(f) ==
               f = [k \in 0 .. n |->
                      IF k = 0 THEN none ELSE Sooner(f[k - 1], Until(times[k], now))]
             G == [k \in 1 .. n |-> [d \in Int |-> Sooner(d, Until(times[k], now))]]
  <1>1. none \in Int /\ none < 0 /\ n \in Nat /\ n \in 1 .. n /\ n \in 0 .. n
    OBVIOUS
  <1>2. \A k \in 1 .. n : Until(times[k], now) \in Nat
    <2>1. ASSUME NEW k \in 1 .. n PROVE Until(times[k], now) \in Nat
      <3>1. times[k] \in 0 .. Day - 1
        OBVIOUS
      <3>2. QED
        BY <3>1, UntilFacts
    <2>2. QED
      BY <2>1
  <1>3. G \in [1 .. n -> [Int -> Int]]
    <2>1. \A k \in 1 .. n : \A d \in Int : Sooner(d, Until(times[k], now)) \in Int
      BY <1>2 DEF Sooner
    <2>2. QED
      BY <2>1
  <1>4. \E f : Recursive(f, n, Int, none, G)
    <2> HIDE DEF G, none
    <2>1. QED
      BY <1>1, <1>3, RecursionUpTo
  <1>5. PICK f : Recursive(f, n, Int, none, G)
    BY <1>4
  <1>6. f \in [0 .. n -> Int] /\ f[0] = none /\ \A k \in 1 .. n : f[k] = G[k][f[k - 1]]
    BY <1>5 DEF Recursive
  <1>7. ASSUME NEW k \in 1 .. n PROVE f[k] = Sooner(f[k - 1], Until(times[k], now))
    <2>1. k - 1 \in 0 .. n
      OBVIOUS
    <2>2. f[k - 1] \in Int /\ f[k] = G[k][f[k - 1]]
      BY <1>6, <2>1
    <2>3. \A d \in Int : G[k][d] = Sooner(d, Until(times[k], now))
      OBVIOUS
    <2> HIDE DEF G
    <2>4. QED
      BY <2>2, <2>3
  <1>8. IsLoop(f)
    <2> HIDE DEF none
    <2>1. \A k \in 0 .. n :
            f[k] = IF k = 0 THEN none ELSE Sooner(f[k - 1], Until(times[k], now))
      BY <1>6, <1>7
    <2>2. QED
      BY <1>6, <2>1
  <1> DEFINE min_diff == CHOOSE g : IsLoop(g)
  <1>9. IsLoop(min_diff)
    <2> HIDE DEF IsLoop
    <2>1. QED
      BY <1>8, Zenon
  <1>10. scheduled_wait(times, now) = min_diff[n]
    BY DEF scheduled_wait
  <1> HIDE DEF min_diff
  <1>11. /\ min_diff[0] = none
         /\ \A k \in 1 .. n : min_diff[k] = Sooner(min_diff[k - 1], Until(times[k], now))
    <2> HIDE DEF none
    <2>1. QED
      BY <1>1, <1>9
  <1> DEFINE Least(k) == /\ \E j \in 1 .. k : min_diff[k] = Until(times[j], now)
                         /\ \A j \in 1 .. k : min_diff[k] <= Until(times[j], now)
             P == {k \in 0 .. n : IF k = 0 THEN min_diff[k] = none ELSE Least(k)}
  <1>12. 0 \in P
    BY <1>11
  <1>13. ASSUME NEW k \in 1 .. n, k - 1 \in P PROVE k \in P
    <2> DEFINE d == min_diff[k - 1]
               u == Until(times[k], now)
    <2>1. k \in 0 .. n /\ k # 0 /\ u \in Nat /\ min_diff[k] = Sooner(d, u)
      BY <1>2, <1>11
    <2>2. CASE k = 1
      <3>1. d = -1
        BY <1>13, <2>2
      <3> HIDE DEF d, u
      <3>2. min_diff[k] = u
        BY <2>1, <3>1 DEF Sooner
      <3>3. \A j \in 1 .. k : j = k
        BY <2>2
      <3>4. k \in 1 .. k
        BY <2>2
      <3>5. Least(k)
        BY <2>1, <3>2, <3>3, <3>4 DEF u
      <3>6. QED
        BY <2>1, <3>5
    <2>3. CASE k # 1
      <3>1. Least(k - 1)
        BY <1>13, <2>3
      <3>2. PICK i \in 1 .. k - 1 : d = Until(times[i], now)
        BY <3>1
      <3>3. \A j \in 1 .. k - 1 : d <= Until(times[j], now) /\ Until(times[j], now) \in Nat
        BY <1>2, <3>1
      <3>4. d \in Nat /\ i \in 1 .. k /\ k \in 1 .. k
        BY <3>2, <3>3
      <3>5. \A j \in 1 .. k : j = k \/ j \in 1 .. k - 1
        OBVIOUS
      <3> HIDE DEF d, u
      <3>6. CASE u < d
        <4>1. min_diff[k] = u
          BY <2>1, <3>6 DEF Sooner
        <4>2. \A j \in 1 .. k - 1 : u <= Until(times[j], now)
          BY <2>1, <3>3, <3>4, <3>6
        <4>3. u <= u
          BY <2>1
        <4>4. \A j \in 1 .. k : u <= Until(times[j], now)
          BY <3>5, <4>2, <4>3 DEF u
        <4>5. Least(k)
          BY <3>4, <4>1, <4>4 DEF u
        <4>6. QED
          BY <2>1, <4>5
      <3>7. CASE ~(u < d)
        <4>1. min_diff[k] = d
          BY <2>1, <3>4, <3>7 DEF Sooner
        <4>2. d <= u
          BY <2>1, <3>4, <3>7
        <4>3. \A j \in 1 .. k : d <= Until(times[j], now)
          BY <3>3, <3>5, <4>2 DEF u
        <4>4. Least(k)
          BY <3>2, <3>4, <4>1, <4>3
        <4>5. QED
          BY <2>1, <4>4
      <3>8. QED
        BY <3>6, <3>7
    <2>4. QED
      BY <2>2, <2>3
  <1> HIDE DEF P
  <1>14. n \in P
    <2>1. \A k \in 0 .. n : k \in P
      BY <1>1, <1>12, <1>13, UpTo
    <2>2. QED
      BY <1>1, <2>1
  <1>15. QED
    BY <1>10, <1>14 DEF P

\* A schedule says that a test is to start at time t.
Said(schedule, n, t) ==
  \E k \in 1 .. n : IF schedule[k].every
                    THEN t % HourLength = schedule[k].at
                    ELSE t % Day = schedule[k].at

\* A list of entries is a sequence, and so is what it is parsed to.
LEMMA LengthOf == ASSUME NEW S, NEW n \in Nat, NEW f \in [1 .. n -> S] PROVE Len(f) = n
  OBVIOUS

\* For a schedule of any length, whatever the time of day: bwctl waits until the
\* first moment, from now on, that an entry of the schedule names
\* (scheduled_times_scheduler_get_next_runtime, parse_time_schedule).
THEOREM FirstTimeNotPast ==
  ASSUME NEW n \in Nat \ {0}, NEW schedule \in [1 .. n -> Entries],
         NEW now \in 0 .. Day - 1
  PROVE  LET wait == scheduled_wait(parse_time_schedule(schedule), now) IN
           /\ wait \in 0 .. Day - 1
           /\ Said(schedule, n, now + wait)
           /\ \A k \in 0 .. wait - 1 : ~Said(schedule, n, now + k)
  <1> DEFINE times == parse_time_schedule(schedule)
             wait == scheduled_wait(times, now)
  <1>1. Day \in Nat \ {0} /\ now \in Nat /\ Len(schedule) = n /\ n \in Nat
    BY DayFacts, LengthOf
  <1>2. PICK N \in Nat :
          /\ times \in [1 .. N -> 0 .. Day - 1]
          /\ \A j \in 1 .. N : \E m \in 1 .. n : times[j] \in TimesOf(schedule[m])
          /\ \A m \in 1 .. n : \A x \in TimesOf(schedule[m]) :
               \E j \in 1 .. N : times[j] = x
    BY <1>1, ParseFacts
  <1> HIDE DEF times
  <1>3. N # 0
    <2>1. PICK x : x \in TimesOf(schedule[1])
      <3> DEFINE e == schedule[1]
      <3>1. e \in Entries
        BY <1>1
      <3> HIDE DEF e
      <3>2. e.every \in BOOLEAN /\ 0 \in 0 .. Hours - 1
        BY <3>1, DayFacts
      <3>3. \E x : x \in TimesOf(e)
        BY <3>2 DEF TimesOf
      <3>4. QED
        BY <3>3 DEF e
    <2>2. \E j \in 1 .. N : times[j] = x
      BY <1>1, <1>2, <2>1
    <2>3. QED
      BY <2>2
  <1>4. Len(times) = N /\ N \in Nat \ {0}
    BY <1>2, <1>3, LengthOf
  <1>5. /\ \E j \in 1 .. N : wait = Until(times[j], now)
        /\ \A j \in 1 .. N : wait <= Until(times[j], now)
    <2>1. times \in [1 .. N -> 0 .. Day - 1]
      BY <1>2
    <2>2. QED
      BY <1>4, <2>1, SoonestFacts
  <1> HIDE DEF wait
  <1>6. PICK j \in 1 .. N : wait = Until(times[j], now)
    BY <1>5
  <1>7. \A i \in 1 .. N : times[i] \in 0 .. Day - 1
    BY <1>2
  <1>8. wait \in 0 .. Day - 1 /\ (now + wait) % Day = times[j]
    BY <1>6, <1>7, UntilFacts
  <1>9. Said(schedule, n, now + wait)
    <2>1. PICK m \in 1 .. n : times[j] \in TimesOf(schedule[m])
      BY <1>2
    <2> DEFINE e == schedule[m]
               x == now + wait
    <2>2. e \in Entries /\ x \in Nat /\ x % Day \in TimesOf(e)
      BY <1>1, <1>8, <2>1
    <2> HIDE DEF e, x
    <2>3. IF e.every THEN x % HourLength = e.at ELSE x % Day = e.at
      BY <2>2, SaidByTime
    <2>4. QED
      BY <2>3 DEF Said, e, x
  <1>10. ASSUME NEW k \in 0 .. wait - 1, Said(schedule, n, now + k) PROVE FALSE
    <2> DEFINE x == now + k
    <2>1. x \in Nat
      BY <1>1, <1>8
    <2>2. PICK m \in 1 .. n : IF schedule[m].every
                              THEN x % HourLength = schedule[m].at
                              ELSE x % Day = schedule[m].at
      BY <1>10 DEF Said
    <2> HIDE DEF x
    <2>3. schedule[m] \in Entries
      OBVIOUS
    <2>4. x % Day \in TimesOf(schedule[m])
      BY <2>1, <2>2, <2>3, SaidByTime
    <2>5. PICK i \in 1 .. N : times[i] = x % Day
      BY <1>2, <2>4
    <2> DEFINE u == Until(times[i], now)
    <2>6. u \in 0 .. Day - 1 /\ \A l \in 0 .. u - 1 : (now + l) % Day # times[i]
      BY <1>7, UntilFacts
    <2>7. wait <= u
      BY <1>5
    <2> HIDE DEF u
    <2>8. k \in 0 .. u - 1
      BY <1>1, <1>8, <2>6, <2>7
    <2>9. QED
      BY <2>5, <2>6, <2>8 DEF x
  <1>11. QED
    BY <1>8, <1>9, <1>10 DEF wait, times

-----------------------------------------------------------------------------
(***************************************************************************)
(* Regular intervals.                                                      *)
(***************************************************************************)

\* A test of a run at regular intervals.
Timed(alpha) == [takes : Nat, off : -alpha .. alpha]

\* The time between two starts: the interval, give or take the random share, or what
\* the test in between took.
OnInterval(gap, interval, alpha, takes) ==
  \/ gap \in (interval - alpha) .. (interval + alpha)
  \/ gap = takes /\ gap > interval - alpha

\* One wait for the next test.
LEMMA NextStartFacts ==
  ASSUME NEW last \in Nat \ {0}, NEW interval \in Nat, NEW alpha \in Nat,
         NEW t \in Timed(alpha)
  PROVE  /\ NextStart(last, interval, t) \in Nat \ {0}
         /\ OnInterval(NextStart(last, interval, t) - last, interval, alpha, t.takes)
  <1> DEFINE takes == t.takes
             off == t.off
             next == NextStart(last, interval, t)
  <1>1. takes \in Nat /\ off \in -alpha .. alpha
    BY DEF Timed
  <1> HIDE DEF takes, off
  <1>2. next = last + takes + regular_wait(last + takes, last, interval, off)
    BY DEF NextStart, takes, off
  <1>3. regular_wait(last + takes, last, interval, off) =
          IF interval + off - takes <= 0 THEN 0 ELSE interval + off - takes
    <2>1. last # 0 /\ (last + takes) - last = takes
      BY <1>1
    <2>2. QED
      BY <2>1 DEF regular_wait
  <1> HIDE DEF next
  <1>4. /\ interval + off - takes <= 0 => next = last + takes
        /\ ~(interval + off - takes <= 0) => next = last + (interval + off)
    BY <1>1, <1>2, <1>3
  <1>5. next \in Nat \ {0} /\ OnInterval(next - last, interval, alpha, takes)
    <2>1. CASE interval + off - takes <= 0
      <3>1. next = last + takes
        BY <1>4, <2>1
      <3>2. QED
        BY <1>1, <2>1, <3>1 DEF OnInterval
    <2>2. CASE ~(interval + off - takes <= 0)
      <3>1. next = last + (interval + off) /\ interval + off > takes
        BY <1>1, <1>4, <2>2
      <3>2. QED
        BY <1>1, <3>1 DEF OnInterval
    <2>3. QED
      BY <2>1, <2>2
  <1>6. QED
    BY <1>5 DEF next, takes

\* For a run of any length, interval and random share: a test starts one interval
\* after the one before, give or take the share, or at once when that one took longer;
\* so the starts do not drift (regular_intervals_scheduler_get_next_runtime).
THEOREM StartsDoNotDrift ==
  ASSUME NEW n \in Nat, NEW interval \in Nat, NEW alpha \in Nat, NEW first \in Nat \ {0},
         NEW tests \in [1 .. n -> Timed(alpha)]
  PROVE  LET starts == Starts(first, interval, tests) IN
         \A k \in 1 .. n :
           OnInterval(starts[k] - starts[k - 1], interval, alpha, tests[k].takes)
  <1> DEFINE V == Nat \ {0}
             IsStarts(f) ==
               f = [k \in 0 .. n |->
                      IF k = 0 THEN first ELSE NextStart(f[k - 1], interval, tests[k])]
             G == [k \in 1 .. n |-> [v \in V |-> NextStart(v, interval, tests[k])]]
  <1>1. Len(tests) = n
    BY LengthOf
  <1>2. \A k \in 1 .. n : \A v \in V :
          /\ NextStart(v, interval, tests[k]) \in V
          /\ OnInterval(NextStart(v, interval, tests[k]) - v, interval, alpha,
                        tests[k].takes)
    BY NextStartFacts
  <1> HIDE DEF V
  <1>3. G \in [1 .. n -> [V -> V]]
    BY <1>2
  <1>4. \E f : Recursive(f, n, V, first, G)
    <2> HIDE DEF G
    <2>1. first \in V
      BY DEF V
    <2>2. QED
      BY <1>3, <2>1, RecursionUpTo
  <1>5. PICK f : Recursive(f, n, V, first, G)
    BY <1>4
  <1>6. f \in [0 .. n -> V] /\ f[0] = first /\ \A k \in 1 .. n : f[k] = G[k][f[k - 1]]
    BY <1>5 DEF Recursive
  <1>7. ASSUME NEW k \in 1 .. n PROVE f[k] = NextStart(f[k - 1], interval, tests[k])
    <2>1. k - 1 \in 0 .. n
      OBVIOUS
    <2>2. f[k - 1] \in V /\ f[k] = G[k][f[k - 1]]
      BY <1>6, <2>1
    <2>3. \A v \in V : G[k][v] = NextStart(v, interval, tests[k])
      OBVIOUS
    <2> HIDE DEF G
    <2>4. QED
      BY <2>2, <2>3
  <1>8. IsStarts(f)
    <2>1. \A k \in 0 .. n :
            f[k] = IF k = 0 THEN first ELSE NextStart(f[k - 1], interval, tests[k])
      BY <1>6, <1>7
    <2>2. QED
      BY <1>6, <2>1
  <1> DEFINE start == CHOOSE g : IsStarts(g)
  <1>9. IsStarts(start)
    <2> HIDE DEF IsStarts
    <2>1. QED
      BY <1>8, Zenon
  <1>10. Starts(first, interval, tests) = start
    BY <1>1 DEF Starts
  <1> HIDE DEF start
  <1>11. /\ start[0] = first
         /\ \A k \in 1 .. n : start[k] = NextStart(start[k - 1], interval, tests[k])
    BY <1>9
  <1>12. \A k \in 0 .. n : start[k] \in V
    <2> DEFINE P == {k \in 0 .. n : start[k] \in V}
    <2>1. 0 \in P
      BY <1>11 DEF V
    <2>2. ASSUME NEW k \in 1 .. n, k - 1 \in P PROVE k \in P
      BY <1>2, <1>11, <2>2
    <2> HIDE DEF P
    <2>3. \A k \in 0 .. n : k \in P
      BY <2>1, <2>2, UpTo
    <2>4. QED
      BY <2>3 DEF P
  <1>13. ASSUME NEW k \in 1 .. n
         PROVE  OnInterval(start[k] - start[k - 1], interval, alpha, tests[k].takes)
    <2>1. k - 1 \in 0 .. n
      OBVIOUS
    <2>2. start[k - 1] \in V /\ start[k] = NextStart(start[k - 1], interval, tests[k])
      BY <1>11, <1>12, <2>1
    <2>3. QED
      BY <1>2, <2>2
  <1>14. QED
    BY <1>10, <1>13

-----------------------------------------------------------------------------
(***************************************************************************)
(* The inductive invariant.                                                *)
(***************************************************************************)

\* The places of the loop, in the order of a test that goes well.
BetweenTests == {"top", "exited", "sleep", "asleep", "connect1"}
Asking == {"askserver", "askclient"}
Agreed == {"startserver", "startclient", "wait", "overdue", "endclient"}
BeforeTool == {"connect1", "check1", "connect2", "check2", "tool"}
InTest == BeforeTool \cup Asking \cup Agreed \cup {"endserver"}
AfterTest == {"cancelclient", "cancelserver", "next", "closeclient", "reapclient",
              "closeserver", "reapserver"}
Places == BetweenTests \cup InTest \cup AfterTest

\* What the command line gives.
OptionsOK ==
  /\ wanted \in Seq(Tools) /\ supported \subseteq Tools
  /\ kind \in [Sides -> {"local", "interface", "host"}]
  /\ receiver \in Sides

TypeOK ==
  /\ OptionsOK
  /\ pc \in Places
  /\ ip_exit \in BOOLEAN /\ alarm \in BOOLEAN /\ prev_test_failed \in BOOLEAN
  /\ cntrl \in [Sides -> {"none", "open", "failed"}]
  /\ avail_tools \in [Sides -> SUBSET Tools]
  /\ fake_daemon \in [Sides -> BOOLEAN]
  /\ fake_daemon_pid \in [Sides -> {"none", "own", "any"}]
  /\ session_requested \in [Sides -> BOOLEAN]
  /\ tspec \in [Sides -> Nat] /\ req_time \in Nat
  /\ booked \in [Sides -> Nat] /\ started \in [Sides -> BOOLEAN]
  /\ local \in [Sides -> BOOLEAN] /\ strays \in BOOLEAN /\ killed \in BOOLEAN
  /\ no_server_endpoint \in BOOLEAN

\* Which connections there are.
Connections ==
  /\ pc \in BetweenTests => \A s \in Sides : cntrl[s] = "none"
  /\ pc \in {"check1", "connect2"} => cntrl[receiver] = "open" /\ cntrl[Other(receiver)] = "none"
  /\ pc \in {"check2", "tool", "endserver"} \cup Asking \cup Agreed =>
       \A s \in Sides : cntrl[s] = "open"
  /\ pc \in {"reapclient", "closeserver"} => cntrl["client"] = "none"
  /\ pc = "reapserver" => \A s \in Sides : cntrl[s] = "none"

\* Nothing outlives its connection but the forked server that is being waited
\* for, and that is the one whose pid is kept.
Owned ==
  \A s \in Sides :
    /\ cntrl[s] = "none" => booked[s] = 0 /\ ~started[s]
    /\ local[s] => fake_daemon[s] /\ fake_daemon_pid[s] = "own"
    /\ local[s] /\ cntrl[s] = "none" =>
         pc = IF s = "client" THEN "reapclient" ELSE "reapserver"

\* A server is forked only for a side that may do without bwctld.
Spawnable ==
  \A s \in Sides : fake_daemon[s] => kind[s] = "local" \/ s \notin require_endpoint

\* A session that counts as requested holds the time last granted for it.
Negotiated ==
  /\ pc \in Asking =>
       /\ req_time \in 1 .. Latest
       /\ \A s \in Sides : session_requested[s] =>
            booked[s] = tspec[s] /\ booked[s] \in 1 .. Latest
  /\ pc = "askclient" => session_requested["server"]
  /\ pc = "endserver" => ~session_requested["client"]

\* A test counts as failed until it is known to have gone well.
FailedSoFar ==
  /\ pc \in InTest => prev_test_failed
  /\ ~prev_test_failed => ~alarm /\ \A s \in Sides : ~session_requested[s]

\* The tool is that of the interval before until one is picked.
ToolKept == pc \in {"sleep", "asleep"} \cup BeforeTool => tool = prevtool

IInv ==
  /\ TypeOK /\ Connections /\ Owned /\ Spawnable /\ Negotiated /\ FailedSoFar /\ ToolKept
  /\ StartAgreed /\ RequestFits

-----------------------------------------------------------------------------
(***************************************************************************)
(* The invariant is inductive: one lemma per action.                       *)
(***************************************************************************)

USE DEF Sides, Places, BetweenTests, Asking, Agreed, BeforeTool, InTest, AfterTest

(***************************************************************************)
(* The steps for which the definitions of the parts are all that is needed.*)
(***************************************************************************)

USE DEF IInv, TypeOK, OptionsOK, Connections, Owned, Spawnable, Negotiated,
        FailedSoFar, ToolKept, StartAgreed, RequestFits, options, loop, links, session,
        choice, servers, forked

LEMMA LoopEndsInv == ASSUME IInv, LoopEnds PROVE IInv'
  BY DEF LoopEnds, Goto

LEMMA NextIntervalInv == ASSUME IInv, NextInterval PROVE IInv'
  BY DEF NextInterval, Goto, Checked

LEMMA EnterSleepInv == ASSUME IInv, EnterSleep PROVE IInv'
  BY DEF EnterSleep, Goto

LEMMA AwakeInv == ASSUME IInv, Awake PROVE IInv'
  BY DEF Awake, Goto

LEMMA WokenUpInv == ASSUME IInv, WokenUp PROVE IInv'
  BY DEF WokenUp

LEMMA NoSourceAddressInv == ASSUME IInv, NoSourceAddress PROVE IInv'
  BY DEF NoSourceAddress, Goto, Connecting, Reset, ResetFake, Other

LEMMA OpenedInv == ASSUME IInv, Opened PROVE IInv'
  BY DEF Opened, Goto, Connecting, Reset, ResetFake, Check, Other

LEMMA TimeCheckInv == ASSUME IInv, TimeCheck PROVE IInv'
  BY DEF TimeCheck, Goto, Connecting, Connected, Checked, Other

LEMMA SpawnedInv == ASSUME IInv, Spawned PROVE IInv'
  BY DEF Spawned, Goto, Connecting, Check, MaySpawn, Other

LEMMA NotSpawnedInv == ASSUME IInv, NotSpawned PROVE IInv'
  <1> USE DEF NotSpawned, Goto, Connecting, Reset, ResetFake, Other
  <1>1. TypeOK'
    OBVIOUS
  <1>2. Connections' /\ Owned' /\ Spawnable'
    OBVIOUS
  <1>3. Negotiated' /\ FailedSoFar' /\ ToolKept'
    OBVIOUS
  <1>4. StartAgreed' /\ RequestFits'
    OBVIOUS
  <1>5. QED
    BY <1>1, <1>2, <1>3, <1>4

LEMMA UnreachableInv == ASSUME IInv, Unreachable PROVE IInv'
  BY DEF Unreachable, Goto, Connecting, Reset, ResetFake, Checked, Other

LEMMA NoAddressInv == ASSUME IInv, NoAddress PROVE IInv'
  BY DEF NoAddress, Goto

LEMMA NoToolPickedInv == ASSUME IInv, NoToolPicked PROVE IInv'
  BY DEF NoToolPicked, Goto

LEMMA NoTimeStampInv == ASSUME IInv, NoTimeStamp PROVE IInv'
  BY DEF NoTimeStamp, Goto

LEMMA RefusedInv == ASSUME IInv, Refused PROVE IInv'
  BY DEF Refused, Goto, Asked

LEMMA CancelInv == ASSUME IInv, Cancel PROVE IInv'
  BY DEF Cancel, Goto

LEMMA NoStorageInv == ASSUME IInv, NoStorage PROVE IInv'
  BY DEF NoStorage, Goto

LEMMA StartInv == ASSUME IInv, Start PROVE IInv'
  BY DEF Start, Goto, Starting, Checked

LEMMA StartFailsInv == ASSUME IInv, StartFails PROVE IInv'
  BY DEF StartFails, Goto, Starting, Break

LEMMA WaitEndsInv ==
  ASSUME IInv, pc \in {"wait", "overdue"}, NEW left \in BOOLEAN, WaitEnds(left)
  PROVE  IInv'
  <1> USE DEF WaitEnds, Goto, SetAlarm, Checked
  <1>1. TypeOK'
    OBVIOUS
  <1>2. Connections' /\ Owned' /\ Spawnable'
    OBVIOUS
  <1>3. Negotiated' /\ FailedSoFar' /\ ToolKept'
    OBVIOUS
  <1>4. StartAgreed' /\ RequestFits'
    OBVIOUS
  <1>5. QED
    BY <1>1, <1>2, <1>3, <1>4

LEMMA WaitInv == ASSUME IInv, Wait PROVE IInv'
  BY WaitEndsInv DEF Wait

LEMMA OverdueInv == ASSUME IInv, Overdue PROVE IInv'
  BY DEF Overdue, Goto

LEMMA OverdueEndsInv == ASSUME IInv, OverdueEnds PROVE IInv'
  BY WaitEndsInv DEF OverdueEnds

LEMMA ClientEndsInv == ASSUME IInv, ClientEnds PROVE IInv'
  BY DEF ClientEnds, Goto, Deliver, SetAlarm

LEMMA ServerEndsInv == ASSUME IInv, ServerEnds PROVE IInv'
  BY DEF ServerEnds, Goto, Deliver, AlarmOff

LEMMA NextTestInv == ASSUME IInv, NextTest PROVE IInv'
  <1> USE DEF NextTest, Goto, Checked
  <1>1. TypeOK'
    OBVIOUS
  <1>2. Connections' /\ Owned' /\ Spawnable'
    OBVIOUS
  <1>3. Negotiated' /\ FailedSoFar' /\ ToolKept'
    OBVIOUS
  <1>4. StartAgreed' /\ RequestFits'
    OBVIOUS
  <1>5. QED
    BY <1>1, <1>2, <1>3, <1>4

LEMMA KillInv == ASSUME IInv, Kill PROVE IInv'
  BY DEF Kill, Reaping, Goto, RUnchanged

LEMMA StutterInv == ASSUME IInv, UNCHANGED vars PROVE IInv'
  BY DEF vars

HIDE DEF IInv, TypeOK, OptionsOK, Connections, Owned, Spawnable, Negotiated,
         FailedSoFar, ToolKept, StartAgreed, RequestFits, options, loop, links, session,
         choice, servers, forked

-----------------------------------------------------------------------------
(***************************************************************************)
(* The steps that need an argument.                                        *)
(***************************************************************************)

\* A call of BWLEndSession that fails, for whatever reason.
LEMMA EndFailsInv ==
  ASSUME IInv, EndFails, ip_exit' \in BOOLEAN, alarm' \in BOOLEAN, alarm' => alarm
  PROVE  IInv'
  <1>1. PICK s \in Sides :
          /\ cntrl' = [cntrl EXCEPT ![s] = "failed"]
          /\ booked' = [booked EXCEPT ![s] = 0]
          /\ started' = [started EXCEPT ![s] = FALSE]
    BY DEF EndFails, Ending, Break
  <1>2. QED
    BY <1>1 DEF EndFails, IInv, TypeOK, OptionsOK, Connections, Owned, Spawnable,
                Negotiated, FailedSoFar, ToolKept, StartAgreed, RequestFits, options,
                loop, links, session, choice, servers, forked

LEMMA EndInterruptedInv == ASSUME IInv, EndInterrupted PROVE IInv'
  BY EndFailsInv DEF EndInterrupted, IInv, TypeOK

LEMMA EndBrokenInv == ASSUME IInv, EndBroken PROVE IInv'
  BY EndFailsInv DEF EndBroken, IInv, TypeOK

LEMMA CloseInv == ASSUME IInv, Close PROVE IInv'
  <1>1. CASE pc = "closeclient"
    <2>1. CASE cntrl["client"] = "none"
      BY <1>1, <2>1 DEF Close, Goto, Closing, Closed, IInv, TypeOK, OptionsOK,
                        Connections, Owned, Spawnable, Negotiated, FailedSoFar,
                        ToolKept, StartAgreed, RequestFits, options, loop, links,
                        session, choice, servers, forked
    <2>2. CASE cntrl["client"] # "none"
      <3>1. /\ cntrl' = [cntrl EXCEPT !["client"] = "none"]
            /\ booked' = [booked EXCEPT !["client"] = 0]
            /\ started' = [started EXCEPT !["client"] = FALSE]
            /\ UNCHANGED <<options, ip_exit, loop, avail_tools, fake_daemon, session, choice,
                           prevtool, forked>>
        BY <1>1, <2>2 DEF Close, Closing, Goto
      <3>2. /\ pc' \in {"reapclient", "closeserver"}
            /\ pc' # "reapclient" => fake_daemon_pid["client"] = "none"
        BY <1>1, <2>2 DEF Close, Closing, Closed, Waits, Goto
      <3>3. pc' # "reapclient" => ~local["client"]
        BY <3>2 DEF IInv, Owned
      <3>4. QED
        BY <1>1, <3>1, <3>2, <3>3 DEF IInv, TypeOK, OptionsOK, Connections, Owned,
                                      Spawnable, Negotiated, FailedSoFar, ToolKept,
                                      StartAgreed, RequestFits, options, loop, links,
                                      session, choice, servers, forked
    <2>3. QED
      BY <2>1, <2>2
  <1>2. CASE pc = "closeserver"
    <2>1. CASE cntrl["server"] = "none"
      BY <1>2, <2>1 DEF Close, Goto, Closing, Closed, IInv, TypeOK, OptionsOK,
                        Connections, Owned, Spawnable, Negotiated, FailedSoFar,
                        ToolKept, StartAgreed, RequestFits, options, loop, links,
                        session, choice, servers, forked
    <2>2. CASE cntrl["server"] # "none"
      <3>1. /\ cntrl' = [cntrl EXCEPT !["server"] = "none"]
            /\ booked' = [booked EXCEPT !["server"] = 0]
            /\ started' = [started EXCEPT !["server"] = FALSE]
            /\ UNCHANGED <<options, ip_exit, loop, avail_tools, fake_daemon, session, choice,
                           prevtool, forked>>
        BY <1>2, <2>2 DEF Close, Closing, Goto
      <3>2. /\ pc' \in {"reapserver", "exited", "top"}
            /\ pc' # "reapserver" => fake_daemon_pid["server"] = "none"
        BY <1>2, <2>2 DEF Close, Closing, Closed, Waits, Goto
      <3>3. pc' # "reapserver" => ~local["server"]
        BY <3>2 DEF IInv, Owned
      <3>4. QED
        BY <1>2, <3>1, <3>2, <3>3 DEF IInv, TypeOK, OptionsOK, Connections, Owned,
                                      Spawnable, Negotiated, FailedSoFar, ToolKept,
                                      StartAgreed, RequestFits, options, loop, links,
                                      session, choice, servers, forked
    <2>3. QED
      BY <2>1, <2>2
  <1>3. QED
    BY <1>1, <1>2 DEF Close

\* The wait for a forked server is over: whoever was reaped or given up, the
\* server of this connection is not among those that are left.
LEMMA ReapEnds ==
  ASSUME IInv, Reaping,
         pc' = Closed, fake_daemon_pid' = ForgetPid(Closing),
         local' \in [Sides -> BOOLEAN], ~local'[Closing],
         \A s \in Sides : local'[s] => local[s],
         strays' \in BOOLEAN, killed' \in BOOLEAN, ip_exit' \in BOOLEAN,
         alarm' \in BOOLEAN, alarm' => alarm,
         UNCHANGED <<options, prev_test_failed, links, session, choice, prevtool, servers>>
  PROVE  IInv'
  <1>1. CASE pc = "reapclient"
    <2>1. Closing = "client" /\ pc' = "closeserver"
      BY <1>1 DEF Closing, Closed
    <2>2. QED
      BY <1>1, <2>1 DEF ForgetPid, IInv, TypeOK, OptionsOK, Connections, Owned,
                        Spawnable, Negotiated, FailedSoFar, ToolKept, StartAgreed,
                        RequestFits, options, loop, links, session, choice, servers,
                        forked
  <1>2. CASE pc = "reapserver"
    <2>1. Closing = "server" /\ pc' \in {"exited", "top"}
      BY <1>2 DEF Closing, Closed
    <2>2. QED
      BY <1>2, <2>1 DEF ForgetPid, IInv, TypeOK, OptionsOK, Connections, Owned,
                        Spawnable, Negotiated, FailedSoFar, ToolKept, StartAgreed,
                        RequestFits, options, loop, links, session, choice, servers,
                        forked
  <1>3. QED
    BY <1>1, <1>2 DEF Reaping

LEMMA ClosingSide == Closing \in Sides
  BY DEF Closing

LEMMA ReapedInv == ASSUME IInv, Reaped PROVE IInv'
  <1>1. local' = [local EXCEPT ![Closing] = FALSE]
    BY DEF Reaped
  <1>2. /\ local' \in [Sides -> BOOLEAN] /\ ~local'[Closing]
        /\ \A s \in Sides : local'[s] => local[s]
    BY <1>1, ClosingSide DEF IInv, TypeOK
  <1>3. QED
    BY <1>2, ReapEnds DEF Reaped, Goto, RUnchanged, loop, IInv, TypeOK

LEMMA AnyReapedInv == ASSUME IInv, AnyReaped PROVE IInv'
  <1>1. ~local[Closing]
    BY ClosingSide DEF AnyReaped, Own, IInv, Owned
  <1>2. local' = local \/ \E s \in Sides : local' = [local EXCEPT ![s] = FALSE]
    BY DEF AnyReaped
  <1>3. /\ local' \in [Sides -> BOOLEAN] /\ ~local'[Closing]
        /\ \A s \in Sides : local'[s] => local[s]
    BY <1>1, <1>2, ClosingSide DEF IInv, TypeOK
  <1>4. strays' \in BOOLEAN
    BY DEF AnyReaped, IInv, TypeOK
  <1>5. QED
    BY <1>3, <1>4, ReapEnds DEF AnyReaped, Goto, RUnchanged, loop, IInv, TypeOK

\* A server that is given up becomes a stray; it is not waited for any more.
LEMMA GivenUpLocal ==
  ASSUME IInv, GivenUp
  PROVE  /\ local' \in [Sides -> BOOLEAN] /\ ~local'[Closing] /\ strays' \in BOOLEAN
         /\ \A s \in Sides : local'[s] => local[s]
  <1>1. CASE Own
    BY <1>1, ClosingSide DEF GivenUp, IInv, TypeOK
  <1>2. CASE ~Own
    BY <1>2, ClosingSide DEF GivenUp, Own, IInv, TypeOK, Owned
  <1>3. QED
    BY <1>1, <1>2

LEMMA GiveUpInv == ASSUME IInv, GiveUp PROVE IInv'
  BY GivenUpLocal, ReapEnds DEF GiveUp, GivenUp, RUnchanged, loop, IInv, TypeOK

\* A signal other than at the end of the test changes the flags, and may end the
\* wait for a forked server.
LEMMA InterruptedInv ==
  ASSUME IInv, Interrupted, ip_exit' \in BOOLEAN, alarm' \in BOOLEAN, alarm' => alarm
  PROVE  IInv'
  <1>1. CASE Reaping /\ Alive
    BY <1>1, GivenUpLocal, ReapEnds DEF Interrupted, GivenUp
  <1>2. CASE ~(Reaping /\ Alive)
    <2>1. UNCHANGED <<options, pc, forked, prev_test_failed, links, session, choice, prevtool,
                      servers>>
      BY <1>2 DEF Interrupted
    <2>2. QED
      BY <2>1 DEF IInv, TypeOK, OptionsOK, Connections, Owned, Spawnable, Negotiated,
                  FailedSoFar, ToolKept, StartAgreed, RequestFits, options, loop, links,
                  session, choice, servers, forked
  <1>3. QED
    BY <1>1, <1>2

LEMMA SignalInv == ASSUME IInv, Signal PROVE IInv'
  BY InterruptedInv DEF Signal, IInv, TypeOK

LEMMA ChildDiesInv == ASSUME IInv, ChildDies PROVE IInv'
  BY InterruptedInv DEF ChildDies, IInv, TypeOK

LEMMA RingInv == ASSUME IInv, Ring PROVE IInv'
  <1>1. CASE pc \in {"endclient", "endserver"}
    BY <1>1, EndFailsInv DEF Ring, IInv, TypeOK
  <1>2. CASE pc = "overdue"
    BY <1>2, WaitEndsInv DEF Ring
  <1>3. CASE pc \notin {"endclient", "endserver", "overdue"}
    BY <1>3, InterruptedInv DEF Ring, IInv, TypeOK
  <1>4. QED
    BY <1>1, <1>2, <1>3

\* The tool that is picked can do the test on both hosts, but for the two ways in
\* which none is found.
LEMMA PickToolFits ==
  ASSUME TypeOK
  PROVE  \/ PickTool \in Usable
         \/ wanted = <<>> /\ PickTool = NoTool /\ Usable = {}
         \/ wanted # <<>> /\ PickTool = tool
  <1> DEFINE fits == {k \in DOMAIN wanted : wanted[k] \in Usable}
  <1>1. CASE wanted = <<>> /\ Usable # {}
    <2>1. Usable \subseteq Nat
      BY BwctlAssumption DEF TypeOK, OptionsOK, Usable
    <2>2. Min(Usable) \in Usable
      BY <1>1, <2>1, MinNatural
    <2>3. QED
      BY <1>1, <2>2 DEF PickTool
  <1>2. CASE wanted # <<>> /\ fits # {}
    <2>1. fits \subseteq Nat
      BY DEF TypeOK, OptionsOK
    <2> HIDE DEF fits
    <2>2. Min(fits) \in fits
      BY <1>2, <2>1, MinNatural
    <2>3. wanted[Min(fits)] \in Usable
      BY <2>2 DEF fits
    <2>4. PickTool = wanted[Min(fits)]
      BY <1>2 DEF PickTool, fits
    <2>5. QED
      BY <2>3, <2>4
  <1>3. CASE (wanted = <<>> /\ Usable = {}) \/ (wanted # <<>> /\ fits = {})
    BY <1>3 DEF PickTool
  <1>4. QED
    BY <1>1, <1>2, <1>3

LEMMA PrepareInv == ASSUME IInv, Prepare PROVE IInv'
  <1>1. tool' = PickTool /\ (wanted # <<>> => PickTool # NoTool) /\ tool = prevtool
    BY DEF Prepare, IInv, ToolKept
  <1>2. {t \in supported : \A s \in Sides : t \in avail_tools[s]} = Usable
    BY DEF Usable, Common
  <1>3. /\ pc = "tool" /\ pc' = "askserver"
        /\ UNCHANGED <<options, ip_exit, loop, links, prevtool, servers, forked>>
    BY DEF Prepare, Goto
  <1>4. RequestFits'
    <2>1. LET both == {t \in supported : \A s \in Sides : t \in avail_tools[s]} IN
          \/ tool' \in both
          \/ wanted = <<>> /\ tool' = NoTool /\ both = {}
          \/ wanted # <<>> /\ tool' = prevtool /\ tool' # NoTool
      BY <1>1, <1>2, PickToolFits DEF IInv
    <2>2. local["server"] /\ kind["server"] # "local" => no_server_endpoint'
      BY DEF Prepare, OneSided, IInv, Owned
    <2>3. no_server_endpoint' => "server" \notin require_endpoint
      BY DEF Prepare, OneSided, IInv, Spawnable
    <2>4. QED
      BY <1>3, <2>1, <2>2, <2>3 DEF RequestFits, options, links, forked
  <1>5. /\ no_server_endpoint' \in BOOLEAN /\ req_time' = 1
        /\ tspec' = [s \in Sides |-> 0] /\ session_requested' = [s \in Sides |-> FALSE]
    BY DEF Prepare, OneSided, IInv, TypeOK, OptionsOK
  <1>6. 1 \in 1 .. Latest
    BY BwctlAssumption
  <1>7. QED
    BY <1>3, <1>4, <1>5, <1>6 DEF IInv, TypeOK, OptionsOK, Connections, Owned,
                                  Spawnable, Negotiated, FailedSoFar, ToolKept,
                                  StartAgreed, options, loop, links, servers, forked

\* A time is granted: the session holds it, and the loop goes on until both hold
\* the same.
LEMMA GrantedInv == ASSUME IInv, Granted PROVE IInv'
  <1> DEFINE s == Asked
  <1>1. s \in Sides /\ req_time \in 1 .. Latest /\ Latest \in Nat /\ pc \in Asking
    BY BwctlAssumption DEF Granted, Asked, IInv, Negotiated
  <1>2. PICK t \in CheckTestPolicy(s) :
          /\ booked' = [booked EXCEPT ![s] = t]
          /\ req_time' = t
          /\ tspec' = [tspec EXCEPT ![s] = IF ip_exit \/ t > Latest THEN req_time ELSE t]
          /\ session_requested' = [session_requested EXCEPT ![s] = @ \/ ~ip_exit]
          /\ Goto(IF ip_exit \/ t > Latest THEN "cancelclient"
                  ELSE IF s = "server" /\ AskClient(session_requested, tspec') THEN "askclient"
                  ELSE NextAsked(tspec'))
    BY DEF Granted
  <1>3. t \in Nat /\ t >= 1
    BY <1>1 DEF CheckTestPolicy
  <1>4. UNCHANGED <<options, ip_exit, alarm, prev_test_failed, links, tool,
                    no_server_endpoint, prevtool, started, forked>>
    BY DEF Granted, Goto
  <1>5. CASE ip_exit \/ t > Latest
    <2>1. pc' = "cancelclient"
      BY <1>2, <1>5 DEF Goto
    <2>2. QED
      BY <1>1, <1>2, <1>3, <1>4, <2>1
         DEF IInv, TypeOK, OptionsOK, Connections, Owned, Spawnable, Negotiated,
             FailedSoFar, ToolKept, StartAgreed, RequestFits, options, links, forked
  <1>6. CASE ~(ip_exit \/ t > Latest)
    <2>1. /\ t \in 1 .. Latest
          /\ booked' = [booked EXCEPT ![s] = t] /\ tspec' = [tspec EXCEPT ![s] = t]
          /\ session_requested' = [session_requested EXCEPT ![s] = TRUE]
          /\ pc' = IF s = "server" /\ AskClient(session_requested, tspec') THEN "askclient"
                   ELSE NextAsked(tspec')
      <3>1. (session_requested[s] \/ ~ip_exit) = TRUE
        BY <1>6
      <3>2. session_requested' = [session_requested EXCEPT ![s] = TRUE]
        BY <1>2, <3>1
      <3>3. t \in 1 .. Latest
        BY <1>1, <1>3, <1>6
      <3>4. booked' = [booked EXCEPT ![s] = t] /\ tspec' = [tspec EXCEPT ![s] = t]
        BY <1>2, <1>6
      <3>5. pc' = IF s = "server" /\ AskClient(session_requested, tspec') THEN "askclient"
                  ELSE NextAsked(tspec')
        BY <1>2, <1>6, Zenon DEF Goto
      <3>6. QED
        BY <3>2, <3>3, <3>4, <3>5
    <2>2. TypeOK'
      BY <1>1, <1>2, <1>3, <1>4, <2>1
         DEF NextAsked, IInv, TypeOK, OptionsOK, options, links, forked
    <2>3. pc' \in Asking \cup {"startserver"}
      BY <2>1 DEF NextAsked
    <2>4. Negotiated' /\ StartAgreed'
      <3>1. \A r \in Sides : session_requested'[r] =>
                              booked'[r] = tspec'[r] /\ booked'[r] \in 1 .. Latest
        BY <1>1, <2>1 DEF IInv, TypeOK, Negotiated
      <3>2. pc' = "askclient" => session_requested'["server"]
        BY <1>1, <2>1 DEF NextAsked, IInv, TypeOK
      <3>3. pc' = "startserver" => /\ tspec'["client"] = tspec'["server"]
                                   /\ \A r \in Sides : session_requested'[r]
        BY <1>1, <2>1 DEF NextAsked, AskClient, Asked, IInv, TypeOK, Negotiated
      <3>4. \A r \in Sides : cntrl'[r] = "open"
        BY <1>1, <1>4 DEF IInv, Connections, links
      <3>5. QED
        BY <1>2, <2>1, <2>3, <3>1, <3>2, <3>3, <3>4 DEF Negotiated, StartAgreed
    <2>5. Owned'
      BY <1>1, <1>4, <2>1, <2>3 DEF IInv, Owned, Connections, links, forked
    <2>6. QED
      BY <1>1, <1>4, <2>2, <2>3, <2>4, <2>5
         DEF IInv, Connections, Spawnable, FailedSoFar, ToolKept, RequestFits, options,
             links, forked
  <1>7. QED
    BY <1>5, <1>6

\* A signal after the grant: the session counts as requested, and is cancelled.
LEMMA GrantedThenStoppedInv == ASSUME IInv, GrantedThenStopped PROVE IInv'
  <1>1. Asked \in Sides /\ pc \in Asking /\ Latest \in Nat
    BY BwctlAssumption DEF GrantedThenStopped, Asked
  <1>2. PICK t \in 1 .. Latest :
          /\ booked' = [booked EXCEPT ![Asked] = t]
          /\ tspec' = [tspec EXCEPT ![Asked] = t]
          /\ req_time' = t
    BY DEF GrantedThenStopped
  <1>3. t \in Nat
    BY <1>1, <1>2
  <1>4. QED
    BY <1>1, <1>2, <1>3
       DEF GrantedThenStopped, IInv, TypeOK, OptionsOK, Connections, Owned, Spawnable,
           Negotiated, FailedSoFar, ToolKept, StartAgreed, RequestFits, options, links,
           forked

LEMMA InitInv == Init => IInv
  <1> SUFFICES ASSUME Init PROVE IInv
      OBVIOUS
  <1>1. OptionsOK
    <2>1. PICK o \in CommandLines :
            /\ wanted = o.wanted /\ supported = o.supported
            /\ kind = o.kind /\ receiver = o.receiver
      BY DEF Init
    <2>2. o \in CommandLine
      BY BwctlAssumption
    <2>3. QED
      BY <2>1, <2>2 DEF CommandLine, OptionsOK
  <1>2. TypeOK
    BY <1>1 DEF Init, TypeOK
  <1>3. QED
    BY <1>2 DEF Init, IInv, Connections, Owned, Spawnable, Negotiated, FailedSoFar,
                ToolKept, StartAgreed, RequestFits

LEMMA StepInv == ASSUME IInv, Step PROVE IInv'
  BY LoopEndsInv, NextIntervalInv, EnterSleepInv, AwakeInv, NoSourceAddressInv,
     OpenedInv, TimeCheckInv, SpawnedInv, NotSpawnedInv, UnreachableInv, NoAddressInv,
     NoToolPickedInv, NoTimeStampInv, PrepareInv, GrantedInv, RefusedInv, CancelInv,
     NoStorageInv, StartInv, StartFailsInv, WaitInv, EndInterruptedInv, NextTestInv,
     CloseInv, ReapedInv, AnyReapedInv, KillInv, GiveUpInv
     DEF Step

LEMMA NextInv == IInv /\ [Next]_vars => IInv'
  BY StutterInv, StepInv, GrantedThenStoppedInv, OverdueInv, OverdueEndsInv, ClientEndsInv, ServerEndsInv, EndBrokenInv, WokenUpInv,
     SignalInv, ChildDiesInv, RingInv
     DEF Next

LEMMA InvAlways == Spec => []IInv
  BY InitInv, NextInv, PTL DEF Spec

-----------------------------------------------------------------------------
(***************************************************************************)
(* The theorems.                                                           *)
(***************************************************************************)

\* start_testing is reached only when negotiate_test has brought both servers to
\* the same time inside the window, however often each has moved it, and holds
\* until the results of the first are asked for.
THEOREM StartAgreedCorrect == Spec => []StartAgreed
  <1>1. IInv => StartAgreed
    BY DEF IInv
  <1>2. QED
    BY <1>1, InvAlways, PTL

\* Whatever ends an interval, CloseSessions and close_local_server leave nothing
\* of it: no connection, reservation or forked server of its own; and only a
\* test that failed leaves the alarm or session_requested behind.
THEOREM NothingLeftCorrect == Spec => []NothingLeft
  <1>1. IInv => NothingLeft
    BY DEF IInv, TypeOK, Connections, Owned, FailedSoFar, NothingLeft
  <1>2. QED
    BY <1>1, InvAlways, PTL

\* The tool that negotiate_test asks for is one that both hosts have and that can
\* do what the options say, or one of the two cases in which there is none; and
\* the endpoint of a side that has no bwctld is never counted on.
THEOREM RequestFitsCorrect == Spec => []RequestFits
  <1>1. IInv => RequestFits
    BY DEF IInv
  <1>2. QED
    BY <1>1, InvAlways, PTL

\* A test starts at the first time of the schedule that is not past, or one interval
\* after the test before: FirstTimeNotPast and StartsDoNotDrift say so for schedules
\* and runs of any length, and StartsOnTime of those that the run enumerates.
LEMMA StartsOnTimeHolds == StartsOnTime
  <1>1. ASSUME NEW n \in 1 .. MaxEntries, NEW schedule \in [1 .. n -> Entries],
               NEW now \in 0 .. Day - 1
        PROVE  LET wait == scheduled_wait(parse_time_schedule(schedule), now) IN
                 /\ Said(schedule, n, now + wait)
                 /\ \A k \in 0 .. wait - 1 : ~Said(schedule, n, now + k)
    <2>1. n \in Nat \ {0}
      BY BwctlAssumption
    <2>2. QED
      BY <2>1, FirstTimeNotPast
  <1>2. ASSUME NEW interval \in 2 .. 3, NEW alpha \in 0 .. 1,
               NEW tests \in [1 .. MaxEntries -> [takes : 0 .. 4, off : -alpha .. alpha]],
               NEW k \in 1 .. MaxEntries
        PROVE  LET starts == Starts(1, interval, tests) IN
               OnInterval(starts[k] - starts[k - 1], interval, alpha, tests[k].takes)
    <2>1. MaxEntries \in Nat /\ interval \in Nat /\ alpha \in Nat /\ 1 \in Nat \ {0}
      BY BwctlAssumption
    <2>2. tests \in [1 .. MaxEntries -> Timed(alpha)]
      BY DEF Timed
    <2>3. QED
      BY <2>1, <2>2, StartsDoNotDrift
  <1>3. QED
    BY <1>1, <1>2 DEF StartsOnTime, Said, OnInterval

\* At every moment, and so whenever bwctl goes to sleep, what it asks the scheduler for
\* is the time the user said (wait_for_next_test).
THEOREM StartsOnTimeCorrect == Spec => []StartsOnTime
  BY StartsOnTimeHolds, PTL
=============================================================================
