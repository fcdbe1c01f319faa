--------------------------- MODULE SlotListProofs ---------------------------
(***************************************************************************)
(* Theorems about SlotList: the list of slots stays in order of time, and  *)
(* the loops of ChldReservationDemand and ResRemove over it implement the  *)
(* calendar of TimeSlots, for every value of the constants.                *)
(***************************************************************************)
EXTENDS SlotList, SequenceTheorems, WellFoundedInduction, TLAPS

(***************************************************************************)
(* Numbers: minima, induction up to a number, and recursive functions.     *)
(***************************************************************************)

\* Min of a non-empty set of natural numbers is its least element.
LEMMA MinNatural ==
  ASSUME NEW S, S \subseteq Nat, S # {}
  PROVE  Min(S) \in S /\ \A k \in S : Min(S) <= k
  <1>1. PICK x \in S : \A y \in S : ~(<<y, x>> \in OpToRel(<, Nat))
    BY WFMin, NatLessThanWellFounded, Zenon
  <1>2. \A y \in S : ~(y < x)
    BY <1>1 DEF OpToRel
  <1>3. \A y \in S : x <= y
    BY <1>2
  <1>4. QED
    BY <1>3, Zenon DEF Min

\* Induction over the numbers from 0 to n.
LEMMA UpTo ==
  ASSUME NEW n \in Nat, NEW P, 0 \in P, \A k \in 1..n : k - 1 \in P => k \in P
  PROVE  \A k \in 0..n : k \in P
  <1> DEFINE S == {k \in 0..n : k \notin P}
  <1>1. SUFFICES ASSUME S # {} PROVE FALSE
    OBVIOUS
  <1>2. S \subseteq Nat
    OBVIOUS
  <1>3. Min(S) \in S /\ \A k \in S : Min(S) <= k
    BY <1>1, <1>2, MinNatural, Zenon
  <1> DEFINE m == Min(S)
  <1> HIDE DEF m
  <1>4. m \in 0..n /\ m \notin P /\ \A k \in S : m <= k
    BY <1>3 DEF m
  <1>5. m # 0
    BY <1>4
  <1>6. m \in 1..n /\ m - 1 \in 0..n /\ ~(m <= m - 1)
    BY <1>4, <1>5
  <1>7. m - 1 \in P
    BY <1>4, <1>6
  <1>8. QED
    BY <1>4, <1>6, <1>7

\* f is defined by recursion up to n, from v0 with the steps G.
Recursive(f, n, V, v0, G) ==
  /\ f \in [0..n -> V]
  /\ f[0] = v0
  /\ \A k \in 1..n : f[k] = G[k][f[k - 1]]

\* A function defined by recursion up to n exists.
LEMMA RecursionUpTo ==
  ASSUME NEW n \in Nat, NEW V, NEW v0 \in V, NEW G \in [1..n -> [V -> V]]
  PROVE  \E f : Recursive(f, n, V, v0, G)
  <1> DEFINE Ok(m, f) == f[0] = v0 /\ \A k \in 1..m : f[k] = G[k][f[k - 1]]
             P == {m \in 0..n : \E f \in [0..m -> V] : Ok(m, f)}
  <1>1. 0 \in P
    <2>1. [k \in 0..0 |-> v0] \in [0..0 -> V] /\ Ok(0, [k \in 0..0 |-> v0])
      OBVIOUS
    <2>2. \E f \in [0..0 -> V] : Ok(0, f)
      BY <2>1, Zenon
    <2>3. QED
      BY <2>2
  <1>2. ASSUME NEW m \in 1..n, m - 1 \in P PROVE m \in P
    <2>1. PICK f \in [0..(m - 1) -> V] : Ok(m - 1, f)
      BY <1>2
    <2> DEFINE g == [k \in 0..m |-> IF k = m THEN G[m][f[m - 1]] ELSE f[k]]
    <2>2. f[m - 1] \in V
      OBVIOUS
    <2>3. G[m][f[m - 1]] \in V
      BY <2>2
    <2>4. g \in [0..m -> V]
      BY <2>3
    <2>5. g[0] = v0
      BY <2>1
    <2>6. ASSUME NEW k \in 1..m PROVE g[k] = G[k][g[k - 1]]
      <3>1. CASE k = m
        <4>1. g[m] = G[m][f[m - 1]] /\ m - 1 \in 0..m /\ m - 1 # m
          OBVIOUS
        <4>2. g[m - 1] = f[m - 1]
          BY <4>1
        <4>3. QED
          BY <3>1, <4>1, <4>2
      <3>2. CASE k # m
        <4>1. k \in 1..(m - 1) /\ k - 1 \in 0..m /\ k - 1 # m
          BY <3>2
        <4>2. g[k] = f[k] /\ g[k - 1] = f[k - 1]
          BY <3>2, <4>1
        <4>3. f[k] = G[k][f[k - 1]]
          BY <2>1, <4>1
        <4>4. QED
          BY <4>2, <4>3
      <3>3. QED
        BY <3>1, <3>2
    <2> HIDE DEF g
    <2>7. Ok(m, g)
      BY <2>5, <2>6
    <2> HIDE DEF Ok
    <2>8. \E h \in [0..m -> V] : Ok(m, h)
      BY <2>4, <2>7, Zenon
    <2>9. QED
      BY <2>8 DEF P
  <1>3. n \in P
    <2> HIDE DEF P
    <2>1. \A k \in 0..n : k \in P
      BY <1>1, <1>2, UpTo
    <2>2. QED
      BY <2>1
  <1>4. PICK f \in [0..n -> V] : Ok(n, f)
    BY <1>3
  <1>5. QED
    BY <1>4 DEF Recursive

-----------------------------------------------------------------------------
(***************************************************************************)
(* Lists of slots in order of time.                                        *)
(***************************************************************************)

\* A slot as the list keeps it: with at least a second and a user.
Used == {s \in Slot : s.start <= s.end /\ s.num # 0}

\* The slots are in order of time, and no two share a second.
Ordered(L) == \A i, j \in 1..Len(L) : i < j => L[i].end < L[j].start

\* time_slots as the loops take it to be.
ListOK(L) == L \in Seq(Used) /\ Ordered(L)

\* The slots of M end before those of N start.
Before(M, N) == \A x \in ToSet(M), y \in ToSet(N) : x.end < y.start

\* What is in a list.
LEMMA ToSetIndex ==
  ASSUME NEW S, NEW L \in Seq(S)
  PROVE  /\ Len(L) \in Nat
         /\ ToSet(L) = {L[i] : i \in 1..Len(L)}
         /\ \A i \in 1..Len(L) : L[i] \in S /\ L[i] \in ToSet(L)
         /\ ToSet(L) \subseteq S
  BY DEF ToSet

\* A function on 1..m is a list.
LEMMA FunctionList ==
  ASSUME NEW S, NEW m \in Nat, NEW f \in [1..m -> S]
  PROVE  f \in Seq(S) /\ Len(f) = m /\ \A x : x \in ToSet(f) <=> \E i \in 1..m : x = f[i]
  <1>1. f \in Seq(S) /\ Len(f) = m /\ DOMAIN f = 1..m
    OBVIOUS
  <1>2. QED
    BY <1>1 DEF ToSet

\* The slots of a list in order, by their places.
LEMMA ListSlots ==
  ASSUME NEW L, ListOK(L)
  PROVE  /\ Len(L) \in Nat /\ ToSet(L) = {L[k] : k \in 1..Len(L)}
         /\ \A k \in 1..Len(L) :
              /\ L[k] \in Used /\ L[k].start \in Nat /\ L[k].end \in Nat
              /\ L[k].start <= L[k].end
         /\ \A j, k \in 1..Len(L) : j < k => L[j].end < L[k].start
  <1>1. /\ Len(L) \in Nat /\ ToSet(L) = {L[k] : k \in 1..Len(L)}
        /\ \A k \in 1..Len(L) : L[k] \in Used
    BY ToSetIndex DEF ListOK
  <1>2. \A s \in Used : s.start \in Nat /\ s.end \in Nat /\ s.start <= s.end
    BY DEF Used, Slot
  <1>3. QED
    BY <1>1, <1>2 DEF ListOK, Ordered

\* Two lists, one before the other.
LEMMA ConcatList ==
  ASSUME NEW M, NEW N, ListOK(M), ListOK(N), Before(M, N)
  PROVE  ListOK(M \o N) /\ ToSet(M \o N) = ToSet(M) \cup ToSet(N)
  <1>1. M \in Seq(Used) /\ N \in Seq(Used)
    BY DEF ListOK
  <1>2. /\ M \o N \in Seq(Used)
        /\ Len(M \o N) = Len(M) + Len(N) /\ Len(M) \in Nat /\ Len(N) \in Nat
        /\ \A i \in 1 .. Len(M) + Len(N) :
             (M \o N)[i] = IF i <= Len(M) THEN M[i] ELSE N[i - Len(M)]
    BY <1>1, ConcatProperties, LenProperties
  <1>3. \A i \in 1..(Len(M) + Len(N)) : i > Len(M) => i - Len(M) \in 1..Len(N)
    BY <1>2
  <1>4. ToSet(M \o N) = ToSet(M) \cup ToSet(N)
    <2>1. ASSUME NEW x \in ToSet(M \o N) PROVE x \in ToSet(M) \cup ToSet(N)
      <3>1. PICK k \in 1..(Len(M) + Len(N)) : x = (M \o N)[k]
        <4>1. ToSet(M \o N) = {(M \o N)[i] : i \in 1..Len(M \o N)}
          BY <1>2, ToSetIndex, Zenon
        <4>2. QED
          BY <1>2, <4>1
      <3>2. CASE k <= Len(M)
        BY <1>1, <1>2, <3>1, <3>2, ToSetIndex
      <3>3. CASE k > Len(M)
        BY <1>1, <1>2, <1>3, <3>1, <3>3, ToSetIndex
      <3>4. QED
        BY <1>2, <3>2, <3>3
    <2>2. ASSUME NEW x \in ToSet(M) PROVE x \in ToSet(M \o N)
      <3>1. PICK j \in 1..Len(M) : x = M[j]
        BY <1>1, ToSetIndex
      <3>2. j \in 1..Len(M \o N) /\ (M \o N)[j] = M[j]
        BY <1>2
      <3>3. QED
        BY <1>2, <3>1, <3>2, ToSetIndex
    <2>3. ASSUME NEW x \in ToSet(N) PROVE x \in ToSet(M \o N)
      <3>1. PICK j \in 1..Len(N) : x = N[j]
        BY <1>1, ToSetIndex
      <3>2. j + Len(M) \in 1..(Len(M) + Len(N)) /\ (M \o N)[j + Len(M)] = N[j]
        BY <1>2
      <3>3. QED
        BY <1>1, <1>2, <3>1, <3>2, ToSetIndex
    <2>4. QED
      BY <2>1, <2>2, <2>3
  <1>5. ASSUME NEW i \in 1..Len(M \o N), NEW j \in 1..Len(M \o N), i < j
        PROVE  (M \o N)[i].end < (M \o N)[j].start
    <2>1. CASE j <= Len(M)
      <3>1. i \in 1..Len(M) /\ j \in 1..Len(M)
        BY <1>2, <1>5, <2>1
      <3>2. QED
        BY <1>2, <1>5, <3>1 DEF ListOK, Ordered
    <2>2. CASE i > Len(M)
      <3>1. i - Len(M) \in 1..Len(N) /\ j - Len(M) \in 1..Len(N) /\ i - Len(M) < j - Len(M)
        BY <1>2, <1>5, <2>2
      <3>2. N[i - Len(M)].end < N[j - Len(M)].start
        BY <3>1 DEF ListOK, Ordered
      <3>3. QED
        BY <1>2, <1>5, <2>2, <3>2
    <2>3. CASE i <= Len(M) /\ j > Len(M)
      <3>1. i \in 1..Len(M) /\ j - Len(M) \in 1..Len(N)
        BY <1>2, <2>3
      <3>2. M[i] \in ToSet(M) /\ N[j - Len(M)] \in ToSet(N)
        BY <1>1, <3>1, ToSetIndex
      <3>3. M[i].end < N[j - Len(M)].start
        BY <3>2 DEF Before
      <3>4. QED
        BY <1>2, <2>3, <3>3
    <2>4. QED
      BY <1>2, <2>1, <2>2, <2>3
  <1>6. QED
    BY <1>2, <1>4, <1>5 DEF ListOK, Ordered

\* A list of one slot.
LEMMA OneSlotList ==
  ASSUME NEW s \in Used
  PROVE  ListOK(<<s>>) /\ ToSet(<<s>>) = {s}
  BY DEF ListOK, Ordered, ToSet

\* The list the daemon starts with.
LEMMA NoSlotList == ListOK(<<>>) /\ ToSet(<<>>) = {}
  BY EmptySeq DEF ListOK, Ordered, ToSet

\* A slot after all the others.
LEMMA AppendList ==
  ASSUME NEW M, ListOK(M), NEW s \in Used, \A x \in ToSet(M) : x.end < s.start
  PROVE  ListOK(Append(M, s)) /\ ToSet(Append(M, s)) = ToSet(M) \cup {s}
  <1>1. Append(M, s) = M \o <<s>>
    BY AppendIsConcat DEF ListOK
  <1>2. Before(M, <<s>>)
    BY OneSlotList DEF Before
  <1>3. QED
    BY <1>1, <1>2, OneSlotList, ConcatList

\* A part of a list, and what is in it.
LEMMA SubList ==
  ASSUME NEW L, ListOK(L), NEW m \in 1..(Len(L) + 1), NEW n \in 0..Len(L)
  PROVE  ListOK(SubSeq(L, m, n)) /\ ToSet(SubSeq(L, m, n)) = {L[i] : i \in m..n}
  <1>1. L \in Seq(Used) /\ Len(L) \in Nat /\ \A i \in 1..Len(L) : L[i] \in Used
    BY ToSetIndex DEF ListOK
  <1>2. m \in Int /\ n \in Int /\ \A i \in m..n : i \in 1..Len(L) /\ L[i] \in Used
    BY <1>1
  <1> DEFINE K == SubSeq(L, m, n)
  <1>3. /\ K \in Seq(Used)
        /\ Len(K) = IF m <= n THEN n - m + 1 ELSE 0
        /\ \A i \in 1 .. n - m + 1 : K[i] = L[m + i - 1]
    BY <1>2, SubSeqProperties
  <1> HIDE DEF K
  <1>4. \A i \in 1..Len(K) : K[i] = L[m + i - 1] /\ m + i - 1 \in m..n
    BY <1>1, <1>3
  <1>5. ToSet(K) = {L[i] : i \in m..n}
    <2>1. ASSUME NEW i \in m..n PROVE L[i] \in ToSet(K)
      <3>1. i - m + 1 \in 1..Len(K) /\ m + (i - m + 1) - 1 = i
        BY <1>1, <1>3
      <3>2. K[i - m + 1] = L[i]
        BY <1>4, <3>1
      <3>3. QED
        BY <1>3, <3>1, <3>2, ToSetIndex
    <2>2. ASSUME NEW x \in ToSet(K) PROVE x \in {L[i] : i \in m..n}
      <3>1. K \in Seq(Used)
        BY <1>3
      <3>2. ToSet(K) = {K[k] : k \in 1..Len(K)}
        BY <3>1, ToSetIndex
      <3>3. PICK k \in 1..Len(K) : x = K[k]
        BY <2>2, <3>2
      <3>4. QED
        BY <1>4, <3>3
    <2>3. QED
      BY <2>1, <2>2
  <1>6. Ordered(K)
    <2>1. ASSUME NEW i \in 1..Len(K), NEW j \in 1..Len(K), i < j
          PROVE  K[i].end < K[j].start
      <3>1. m + i - 1 \in 1..Len(L) /\ m + j - 1 \in 1..Len(L) /\ m + i - 1 < m + j - 1
        BY <1>1, <1>4, <2>1
      <3>2. QED
        BY <1>4, <3>1 DEF ListOK, Ordered
    <2>2. QED
      BY <2>1 DEF Ordered
  <1>7. QED
    BY <1>3, <1>5, <1>6 DEF ListOK, K

-----------------------------------------------------------------------------
(***************************************************************************)
(* ResRemove.                                                              *)
(***************************************************************************)

\* The operators on records mean the same in TimeSlots.
LEMMA SameRecords ==
  /\ \A r : Calendar!ResStart(r) = ResStart(r) /\ Calendar!ResEnd(r) = ResEnd(r)
  /\ \A s, r : Calendar!TimeSlotHasReservation(s, r) <=> TimeSlotHasReservation(s, r)
  /\ \A tool, s : Calendar!ReservationCanUseSlot(tool, s) <=> ReservationCanUseSlot(tool, s)
  /\ \A tool, q, t : Calendar!ReservationAt(tool, q, t) = ReservationAt(tool, q, t)
  /\ \A time, q : Calendar!FirstStart(time, q) = FirstStart(time, q)
  /\ \A time, c, q, t : Calendar!TooLate(time, c, q, t) <=> TooLate(time, c, q, t)
  /\ \A t : Calendar!BWLNum64ToTimestamp(t) = BWLNum64ToTimestamp(t)
  /\ \A t : Calendar!BWLTimestampToNum64(t) = BWLTimestampToNum64(t)
  /\ \A s, t : Calendar!SplitBefore(s, t) = SplitBefore(s, t)
  /\ \A s, t : Calendar!SplitFrom(s, t) = SplitFrom(s, t)
  /\ \A s, tool : Calendar!TimeSlotAddReservation(s, tool) = TimeSlotAddReservation(s, tool)
  /\ \A tool, m, n : Calendar!TimeSlotCreate(tool, m, n) = TimeSlotCreate(tool, m, n)
  /\ Calendar!NoReservation = NoReservation /\ Calendar!NoGrant = NoGrant
  <1>1. /\ \A r : Calendar!ResStart(r) = ResStart(r) /\ Calendar!ResEnd(r) = ResEnd(r)
        /\ \A t : Calendar!BWLNum64ToTimestamp(t) = BWLNum64ToTimestamp(t)
        /\ \A t : Calendar!BWLTimestampToNum64(t) = BWLTimestampToNum64(t)
    BY DEF Calendar!ResStart, Calendar!ResEnd, Calendar!BWLNum64ToTimestamp,
      Calendar!BWLTimestampToNum64, ResStart, ResEnd, BWLNum64ToTimestamp,
      BWLTimestampToNum64
  <1>2. \A s, r : Calendar!TimeSlotHasReservation(s, r) <=> TimeSlotHasReservation(s, r)
    BY <1>1 DEF Calendar!TimeSlotHasReservation, TimeSlotHasReservation, Calendar!Overlaps,
      Overlaps
  <1>3. \A tool, s : Calendar!ReservationCanUseSlot(tool, s) <=> ReservationCanUseSlot(tool, s)
    BY DEF Calendar!ReservationCanUseSlot, ReservationCanUseSlot
  <1>4. \A tool, q, t : Calendar!ReservationAt(tool, q, t) = ReservationAt(tool, q, t)
    BY DEF Calendar!ReservationAt, ReservationAt
  <1>5. \A time, q : Calendar!FirstStart(time, q) = FirstStart(time, q)
    BY DEF Calendar!FirstStart, FirstStart, Calendar!MinStart, MinStart,
      Calendar!BWLNum64Less, BWLNum64Less
  <1>6. \A time, c, q, t : Calendar!TooLate(time, c, q, t) <=> TooLate(time, c, q, t)
    BY DEF Calendar!TooLate, TooLate, Calendar!LatestTime, LatestTime,
      Calendar!BWLNum64Min, BWLNum64Min, Calendar!BWLNum64Less, BWLNum64Less
  <1>7. /\ \A s, t : Calendar!SplitBefore(s, t) = SplitBefore(s, t)
        /\ \A s, t : Calendar!SplitFrom(s, t) = SplitFrom(s, t)
        /\ \A s, tool :
             Calendar!TimeSlotAddReservation(s, tool) = TimeSlotAddReservation(s, tool)
        /\ \A tool, m, n : Calendar!TimeSlotCreate(tool, m, n) = TimeSlotCreate(tool, m, n)
    BY DEF Calendar!SplitBefore, SplitBefore, Calendar!SplitFrom, SplitFrom,
      Calendar!TimeSlotAddReservation, TimeSlotAddReservation, Calendar!TimeSlotCreate,
      TimeSlotCreate, Calendar!SlotTypeAfter, SlotTypeAfter
  <1>8. Calendar!NoReservation = NoReservation /\ Calendar!NoGrant = NoGrant
    BY DEF Calendar!NoReservation, NoReservation, Calendar!NoGrant, NoGrant
  <1>9. QED
    BY <1>1, <1>2, <1>3, <1>4, <1>5, <1>6, <1>7, <1>8

\* The calendar without a reservation, slot by slot.
LEMMA ResRemoveParts ==
  ASSUME NEW r, NEW S, NEW T
  PROVE  Calendar!ResRemove(S \cup T, r)
           = Calendar!ResRemove(S, r) \cup Calendar!ResRemove(T, r)
  BY DEF Calendar!ResRemove

\* There is nothing to release from an empty calendar.
LEMMA ResRemoveNothing == \A r : Calendar!ResRemove({}, r) = {}
  BY DEF Calendar!ResRemove

\* A slot that loses a user but not its last.
LEMMA LessUsed ==
  ASSUME NEW s \in Used, s.num # 1
  PROVE  LET less == [s EXCEPT !.num = s.num - 1] IN
         less \in Used /\ less.start = s.start /\ less.end = s.end
  BY DEF Used, Slot

\* One turn of the pass: what is left of slot s comes after the slots before.
LEMMA StepList ==
  ASSUME NEW r, NEW M, ListOK(M), NEW s \in Used, \A x \in ToSet(M) : x.end < s.start
  PROVE  /\ ListOK(ResRemoveStep(r, M, s))
         /\ \A x \in ToSet(ResRemoveStep(r, M, s)) :
              x \in ToSet(M) \/ (x.start = s.start /\ x.end = s.end)
         /\ ToSet(ResRemoveStep(r, M, s)) = ToSet(M) \cup Calendar!ResRemove({s}, r)
  <1> DEFINE less == [s EXCEPT !.num = s.num - 1]
  <1>1. CASE ~TimeSlotHasReservation(s, r)
    <2>1. ResRemoveStep(r, M, s) = Append(M, s)
      BY <1>1 DEF ResRemoveStep
    <2>2. Calendar!ResRemove({s}, r) = {s}
      BY <1>1, SameRecords DEF Calendar!ResRemove
    <2>3. ListOK(Append(M, s)) /\ ToSet(Append(M, s)) = ToSet(M) \cup {s}
      BY AppendList
    <2>4. QED
      BY <2>1, <2>2, <2>3
  <1>2. CASE TimeSlotHasReservation(s, r) /\ s.num = 1
    <2>1. ResRemoveStep(r, M, s) = M
      BY <1>2 DEF ResRemoveStep
    <2>2. Calendar!ResRemove({s}, r) = {}
      BY <1>2, SameRecords DEF Calendar!ResRemove
    <2>3. QED
      BY <2>1, <2>2
  <1>3. CASE TimeSlotHasReservation(s, r) /\ s.num # 1
    <2>1. ResRemoveStep(r, M, s) = Append(M, less)
      BY <1>3 DEF ResRemoveStep
    <2>2. Calendar!ResRemove({s}, r) = {less}
      BY <1>3, SameRecords DEF Calendar!ResRemove
    <2>3. less \in Used /\ less.start = s.start /\ less.end = s.end
      BY <1>3, LessUsed
    <2> HIDE DEF less
    <2>4. \A x \in ToSet(M) : x.end < less.start
      BY <2>3
    <2>5. ListOK(Append(M, less)) /\ ToSet(Append(M, less)) = ToSet(M) \cup {less}
      BY <2>3, <2>4, AppendList
    <2>6. QED
      BY <2>1, <2>2, <2>3, <2>5
  <1>4. QED
    BY <1>1, <1>2, <1>3

\* The pass over the list: a recursive function.
LEMMA ReleasedPass ==
  ASSUME NEW r, NEW L, ListOK(L)
  PROVE  \E pass :
           /\ pass[0] = <<>>
           /\ \A k \in 1..Len(L) : pass[k] = ResRemoveStep(r, pass[k - 1], L[k])
           /\ Released(L, r) = pass[Len(L)]
  <1> DEFINE n == Len(L)
             V == Seq(Used)
             G == [k \in 1..n |-> [M \in V |-> ResRemoveStep(r, M, L[k])]]
             IsPass(f) ==
               f = [k \in 0..n |-> IF k = 0 THEN <<>> ELSE ResRemoveStep(r, f[k - 1], L[k])]
  <1>1. n \in Nat /\ <<>> \in V /\ \A k \in 1..n : L[k] \in Used
    BY ToSetIndex, EmptySeq DEF ListOK
  <1>2. G \in [1..n -> [V -> V]]
    <2>1. ASSUME NEW M \in V, NEW s \in Used PROVE ResRemoveStep(r, M, s) \in V
      <3>1. CASE ~TimeSlotHasReservation(s, r) \/ s.num = 1
        BY <3>1, AppendProperties DEF ResRemoveStep
      <3>2. CASE s.num # 1
        BY <3>2, LessUsed, AppendProperties DEF ResRemoveStep
      <3>3. QED
        BY <3>1, <3>2
    <2>2. QED
      BY <1>1, <2>1
  <1> HIDE DEF V, n
  <1>3. PICK f : /\ f \in [0..n -> V] /\ f[0] = <<>>
                 /\ \A k \in 1..n : f[k] = G[k][f[k - 1]]
    <2> DEFINE empty == <<>>
    <2>1. empty \in V
      BY <1>1
    <2> HIDE DEF G, empty
    <2>2. n \in Nat /\ G \in [1..n -> [V -> V]]
      BY <1>1, <1>2
    <2>3. PICK f : Recursive(f, n, V, empty, G)
      BY <2>1, <2>2, RecursionUpTo
    <2>4. QED
      BY <2>3 DEF empty, Recursive
  <1>4. IsPass(f)
    <2>1. ASSUME NEW k \in 1..n PROVE f[k] = ResRemoveStep(r, f[k - 1], L[k])
      <3>1. k - 1 \in 0..n
        BY <1>1
      <3>2. f[k - 1] \in V
        BY <1>3, <3>1
      <3>3. QED
        BY <1>3, <3>2
    <2>2. \A k \in 0..n : f[k] = IF k = 0 THEN <<>> ELSE ResRemoveStep(r, f[k - 1], L[k])
      <3>1. ASSUME NEW k \in 0..n
            PROVE  f[k] = IF k = 0 THEN <<>> ELSE ResRemoveStep(r, f[k - 1], L[k])
        <4>1. CASE k = 0
          BY <1>3, <4>1, Zenon
        <4>2. CASE k # 0
          <5>1. k \in 1..n
            BY <1>1, <4>2
          <5>2. QED
            BY <2>1, <4>2, <5>1, Zenon
        <4>3. QED
          BY <4>1, <4>2
      <3>2. QED
        BY <3>1
    <2>3. QED
      BY <1>3, <2>2
  <1> DEFINE pass == CHOOSE g : IsPass(g)
  <1>5. IsPass(pass)
    <2> HIDE DEF IsPass
    <2>1. QED
      BY <1>4, Zenon
  <1>6. Released(L, r) = pass[n]
    BY DEF Released, n
  <1> HIDE DEF pass
  <1>7. pass[0] = <<>> /\ \A k \in 1..n : pass[k] = ResRemoveStep(r, pass[k - 1], L[k])
    BY <1>1, <1>5
  <1>8. QED
    BY <1>6, <1>7 DEF n

\* ResRemove leaves a list in order, with the slots that the calendar is left with.
LEMMA ReleasedFacts ==
  ASSUME NEW r, NEW L, ListOK(L)
  PROVE  /\ ListOK(Released(L, r))
         /\ ToSet(Released(L, r)) = Calendar!ResRemove(ToSet(L), r)
  <1> DEFINE n == Len(L)
             First(k) == {L[i] : i \in 1..k}
  <1>1. n \in Nat /\ ToSet(L) = First(n) /\ \A k \in 1..n : L[k] \in Used
    BY ToSetIndex DEF ListOK
  <1>2. PICK pass :
           /\ pass[0] = <<>>
           /\ \A k \in 1..n : pass[k] = ResRemoveStep(r, pass[k - 1], L[k])
           /\ Released(L, r) = pass[n]
    BY ReleasedPass
  <1> DEFINE Inv(k) ==
               /\ ListOK(pass[k])
               /\ \A x \in ToSet(pass[k]) : \E s \in First(k) : x.end = s.end
               /\ ToSet(pass[k]) = Calendar!ResRemove(First(k), r)
             P == {k \in 0..n : Inv(k)}
  <1>3. 0 \in P
    <2>1. First(0) = {}
      OBVIOUS
    <2> HIDE DEF First
    <2>2. ListOK(pass[0]) /\ ToSet(pass[0]) = {}
      BY <1>2, NoSlotList
    <2>3. ToSet(pass[0]) = Calendar!ResRemove(First(0), r)
      BY <2>1, <2>2, ResRemoveNothing
    <2>4. QED
      BY <1>1, <2>2, <2>3
  <1>4. ASSUME NEW k \in 1..n, k - 1 \in P PROVE k \in P
    <2>1. Inv(k - 1) /\ L[k] \in Used /\ pass[k] = ResRemoveStep(r, pass[k - 1], L[k])
      BY <1>1, <1>2, <1>4
    <2>2. First(k) = First(k - 1) \cup {L[k]}
      <3>1. 1..k = 1..(k - 1) \cup {k}
        BY <1>1
      <3>2. QED
        BY <3>1
    <2>3. \A s \in First(k - 1) : s.end < L[k].start
      BY <1>1 DEF ListOK, Ordered
    <2> HIDE DEF First
    <2>4. \A x \in ToSet(pass[k - 1]) : x.end < L[k].start
      BY <2>1, <2>3
    <2> DEFINE M == pass[k - 1]
    <2>5. ListOK(M) /\ \A x \in ToSet(M) : x.end < L[k].start
      BY <2>1, <2>4
    <2>6. /\ ListOK(pass[k])
          /\ \A x \in ToSet(pass[k]) :
               x \in ToSet(M) \/ (x.start = L[k].start /\ x.end = L[k].end)
          /\ ToSet(pass[k]) = ToSet(M) \cup Calendar!ResRemove({L[k]}, r)
      <3> DEFINE s == L[k]
      <3>1. pass[k] = ResRemoveStep(r, M, s) /\ s \in Used
        BY <2>1
      <3>2. ListOK(M) /\ \A x \in ToSet(M) : x.end < s.start
        BY <2>5
      <3> HIDE DEF M, s
      <3>3. /\ ListOK(ResRemoveStep(r, M, s))
            /\ \A x \in ToSet(ResRemoveStep(r, M, s)) :
                 x \in ToSet(M) \/ (x.start = s.start /\ x.end = s.end)
            /\ ToSet(ResRemoveStep(r, M, s)) = ToSet(M) \cup Calendar!ResRemove({s}, r)
        BY <3>1, <3>2, StepList
      <3>4. QED
        BY <3>1, <3>3 DEF s
    <2>7. \A x \in ToSet(pass[k]) : \E s \in First(k) : x.end = s.end
      BY <2>1, <2>2, <2>6
    <2>8. ToSet(pass[k]) = Calendar!ResRemove(First(k), r)
      BY <2>1, <2>2, <2>6, ResRemoveParts
    <2>9. k \in 0..n
      BY <1>1
    <2>10. QED
      BY <2>6, <2>7, <2>8, <2>9
  <1>5. n \in P
    <2> HIDE DEF P, n
    <2>1. \A k \in 0..n : k \in P
      BY <1>1, <1>3, <1>4, UpTo
    <2>2. QED
      BY <1>1, <2>1
  <1>6. QED
    BY <1>1, <1>2, <1>5

-----------------------------------------------------------------------------
(***************************************************************************)
(* The inner loop of ChldReservationDemand.                                *)
(***************************************************************************)

\* From slot first on, the slots up to the last one reach into the seconds up to
\* re and can be used by the test; the next one cannot, or starts later.
LEMMA ReachFacts ==
  ASSUME NEW L, ListOK(L), NEW tool, NEW re \in Nat, NEW first \in 1..Len(L)
  PROVE  LET reach == Reach(L, tool, re, first) IN
         /\ reach.last \in first..Len(L)
         /\ \A k \in (first + 1)..reach.last :
              L[k].start <= re /\ ReservationCanUseSlot(tool, L[k])
         /\ reach.conflict = 0 => \A k \in (reach.last + 1)..Len(L) : re < L[k].start
         /\ reach.conflict # 0 =>
              /\ reach.conflict = reach.last + 1 /\ reach.conflict \in 2..Len(L)
              /\ L[reach.conflict].start <= re
              /\ ~ReservationCanUseSlot(tool, L[reach.conflict])
  <1> DEFINE n == Len(L)
             Covers(j) == L[j].end > re \/ j = n \/ re < L[j + 1].start
             S == {j \in first..n : Covers(j) \/ ~ReservationCanUseSlot(tool, L[j + 1])}
             last == Min(S)
  <1>1. /\ n \in Nat
        /\ \A k \in 1..n : L[k].start \in Nat /\ L[k].end \in Nat /\ L[k].start <= L[k].end
    BY ToSetIndex DEF ListOK, Used, Slot
  <1>2. last \in S /\ \A k \in S : last <= k
    <2>1. n \in S /\ S \subseteq Nat
      BY <1>1
    <2> HIDE DEF S
    <2>2. QED
      BY <2>1, MinNatural
  <1>3. Reach(L, tool, re, first)
          = [last |-> last, conflict |-> IF Covers(last) THEN 0 ELSE last + 1]
    BY DEF Reach
  <1> HIDE DEF last
  <1>4. \A k \in (first + 1)..last : L[k].start <= re /\ ReservationCanUseSlot(tool, L[k])
    <2>1. ASSUME NEW k \in (first + 1)..last
          PROVE  L[k].start <= re /\ ReservationCanUseSlot(tool, L[k])
      <3>1. k - 1 \in first..n /\ k - 1 < last /\ k - 1 # n /\ (k - 1) + 1 = k
        BY <1>1, <1>2
      <3>2. ~(last <= k - 1)
        BY <1>1, <1>2
      <3>3. k - 1 \notin S
        BY <1>2, <3>2
      <3>4. ~Covers(k - 1) /\ ReservationCanUseSlot(tool, L[k])
        BY <3>1, <3>3
      <3>5. k \in 1..n
        BY <1>1, <1>2
      <3>6. QED
        BY <1>1, <3>1, <3>4, <3>5
    <2>2. QED
      BY <2>1
  <1>5. ASSUME Covers(last), NEW k \in (last + 1)..n PROVE re < L[k].start
    <2>1. last \in 1..n /\ k \in 1..n /\ last < k /\ last # n
      BY <1>1, <1>2
    <2>2. L[last].end < L[k].start
      BY <2>1 DEF ListOK, Ordered
    <2>3. CASE L[last].end > re
      BY <1>1, <2>1, <2>2, <2>3
    <2>4. CASE re < L[last + 1].start
      <3>1. CASE k = last + 1
        BY <2>4, <3>1
      <3>2. CASE k # last + 1
        <4>1. last + 1 \in 1..n /\ last + 1 < k
          BY <1>1, <2>1, <3>2
        <4>2. L[last + 1].end < L[k].start
          BY <2>1, <4>1 DEF ListOK, Ordered
        <4>3. QED
          BY <1>1, <2>1, <2>4, <4>1, <4>2
      <3>3. QED
        BY <3>1, <3>2
    <2>5. QED
      BY <1>5, <2>1, <2>3, <2>4
  <1>6. ASSUME ~Covers(last)
        PROVE  /\ last + 1 \in 2..n /\ L[last + 1].start <= re
               /\ ~ReservationCanUseSlot(tool, L[last + 1])
    <2>1. last \in first..n /\ last # n /\ ~ReservationCanUseSlot(tool, L[last + 1])
      BY <1>2, <1>6
    <2>2. last + 1 \in 2..n
      BY <1>1, <2>1
    <2>3. QED
      BY <1>1, <1>6, <2>1, <2>2
  <1>7. last \in first..n
    BY <1>2
  <1>8. last + 1 # 0
    BY <1>1, <1>7
  <1> HIDE DEF Covers
  <1>9. QED
    BY <1>3, <1>4, <1>5, <1>6, <1>7, <1>8

-----------------------------------------------------------------------------
(***************************************************************************)
(* Inserting a reservation.                                                *)
(***************************************************************************)

\* A reservation of the seconds rs..re.
Takes(r, rs, re) ==
  /\ r.tool \in TestTypes
  /\ rs = ResStart(r) /\ re = ResEnd(r)
  /\ rs \in Nat /\ re \in Nat /\ rs <= re

\* A new slot.
LEMMA CreateUsed ==
  ASSUME NEW tool, NEW start \in Nat, NEW end \in Nat, start <= end
  PROVE  LET s == TimeSlotCreate(tool, start, end) IN
         s \in Used /\ s.start = start /\ s.end = end
  BY DEF Used, Slot, TimeSlotCreate, TimeSlotAddReservation, SlotTypeAfter, SlotTypes

\* The two halves of a slot that is split.
LEMMA SplitUsed ==
  ASSUME NEW s \in Used, NEW t \in Nat, s.start < t, t <= s.end
  PROVE  /\ SplitBefore(s, t) \in Used
         /\ SplitBefore(s, t).start = s.start /\ SplitBefore(s, t).end = t - 1
         /\ SplitFrom(s, t) \in Used
         /\ SplitFrom(s, t).start = t /\ SplitFrom(s, t).end = s.end
  BY DEF Used, Slot, SplitBefore, SplitFrom, SlotTypes

\* The part of a slot inside the reservation.
LEMMA PartUsed ==
  ASSUME NEW r, NEW rs, NEW re, Takes(r, rs, re), NEW s \in Used, s.start <= re, rs <= s.end
  PROVE  LET p == Calendar!SharedPart(s, r) IN
         /\ p \in Used
         /\ p.start = IF s.start < rs THEN rs ELSE s.start
         /\ p.end = IF s.end > re THEN re ELSE s.end
  <1> DEFINE from == IF s.start < rs THEN SplitFrom(s, rs) ELSE s
             both == IF s.end > re THEN SplitBefore(from, re + 1) ELSE from
  <1>1. Calendar!SharedPart(s, r) = TimeSlotAddReservation(both, r.tool)
    BY SameRecords DEF Calendar!SharedPart, Takes
  <1>2. /\ rs \in Nat /\ re \in Nat /\ rs <= re
        /\ s.start \in Nat /\ s.end \in Nat /\ s.start <= s.end
    BY DEF Takes, Used, Slot
  <1>3. /\ from \in Used /\ from.end = s.end
        /\ from.start = IF s.start < rs THEN rs ELSE s.start
    <2>1. CASE s.start < rs
      BY <1>2, <2>1, SplitUsed
    <2>2. CASE ~(s.start < rs)
      BY <2>2
    <2>3. QED
      BY <2>1, <2>2
  <1> HIDE DEF from
  <1>4. /\ both \in Used /\ both.start = from.start
        /\ both.end = IF s.end > re THEN re ELSE s.end
    <2>1. CASE s.end > re
      <3>1. re + 1 \in Nat /\ from.start < re + 1 /\ re + 1 <= from.end /\ (re + 1) - 1 = re
        BY <1>2, <1>3, <2>1
      <3>2. QED
        BY <1>2, <1>3, <2>1, <3>1, SplitUsed
    <2>2. CASE ~(s.end > re)
      BY <1>3, <2>2
    <2>3. QED
      BY <2>1, <2>2
  <1> HIDE DEF both
  <1>5. ASSUME NEW u \in Used
        PROVE  LET p == TimeSlotAddReservation(u, r.tool) IN
               p \in Used /\ p.start = u.start /\ p.end = u.end
    BY DEF TimeSlotAddReservation, SlotTypeAfter, Used, Slot, SlotTypes
  <1>6. QED
    BY <1>1, <1>3, <1>4, <1>5

\* A new slot before slot i.
LEMMA InsertFacts ==
  ASSUME NEW L, ListOK(L), NEW i \in 1..Len(L), NEW s \in Used,
         \A k \in 1..(i - 1) : L[k].end < s.start, s.end < L[i].start
  PROVE  /\ ListOK(InsertBefore(L, i, s))
         /\ ToSet(InsertBefore(L, i, s)) = ToSet(L) \cup {s}
  <1> DEFINE n == Len(L)
             A == SubSeq(L, 1, i - 1)
             B == SubSeq(L, i, n)
  <1>1. /\ n \in Nat /\ ToSet(L) = {L[k] : k \in 1..n}
        /\ \A k \in 1..n : L[k] \in Used /\ L[k].start \in Nat /\ L[k].end \in Nat
        /\ \A k \in 1..n : L[k].start <= L[k].end
    BY ListSlots
  <1>2. InsertBefore(L, i, s) = A \o <<s>> \o B
    BY DEF InsertBefore, InsertAt
  <1>3. ListOK(A) /\ ToSet(A) = {L[k] : k \in 1..(i - 1)}
    <2>1. 1 \in 1..(n + 1) /\ i - 1 \in 0..n
      BY <1>1
    <2>2. QED
      BY <2>1, SubList
  <1>4. ListOK(B) /\ ToSet(B) = {L[k] : k \in i..n}
    <2>1. i \in 1..(n + 1) /\ n \in 0..n
      BY <1>1
    <2>2. QED
      BY <2>1, SubList
  <1> HIDE DEF A, B
  <1>5. ListOK(A \o <<s>>) /\ ToSet(A \o <<s>>) = ToSet(A) \cup {s}
    <2>1. Before(A, <<s>>)
      BY <1>3, OneSlotList DEF Before
    <2>2. QED
      BY <1>3, <2>1, OneSlotList, ConcatList
  <1>6. Before(A \o <<s>>, B)
    <2>1. ASSUME NEW k \in i..n PROVE s.end < L[k].start
      <3>1. CASE k = i
        BY <3>1
      <3>2. CASE k # i
        <4>1. k \in 1..n /\ i < k
          BY <1>1, <3>2
        <4>2. L[i].end < L[k].start
          BY <4>1 DEF ListOK, Ordered
        <4>3. QED
          BY <1>1, <4>1, <4>2 DEF Used, Slot
      <3>3. QED
        BY <3>1, <3>2
    <2>2. ASSUME NEW j \in 1..(i - 1), NEW k \in i..n PROVE L[j].end < L[k].start
      <3>1. j \in 1..n /\ k \in 1..n /\ j < k
        BY <1>1
      <3>2. QED
        BY <3>1 DEF ListOK, Ordered
    <2>3. QED
      BY <1>3, <1>4, <1>5, <2>1, <2>2 DEF Before
  <1>7. /\ ListOK(A \o <<s>> \o B)
        /\ ToSet(A \o <<s>> \o B) = ToSet(A) \cup {s} \cup ToSet(B)
    BY <1>4, <1>5, <1>6, ConcatList
  <1>8. 1..n = 1..(i - 1) \cup i..n
    BY <1>1
  <1>9. QED
    BY <1>1, <1>2, <1>3, <1>4, <1>7, <1>8

\* The slots first..last of L are the ones that reservation r touches.
Spans(L, r, rs, re, first, last) ==
  /\ ListOK(L) /\ Takes(r, rs, re)
  /\ first \in 1..Len(L) /\ last \in first..Len(L)
  /\ \A k \in 1..(first - 1) : L[k].end < rs
  /\ \A k \in first..last : rs <= L[k].end /\ L[k].start <= re
  /\ \A k \in (last + 1)..Len(L) : re < L[k].start

\* What the slots first..last become.
InsideOf(L, r, first, last) ==
  [i \in 1..(last - first + 1) |-> Calendar!SharedPart(L[first + i - 1], r)]

\* They are in order, inside the reservation, and no further out than first and last.
LEMMA InsideFacts ==
  ASSUME NEW L, NEW r, NEW rs, NEW re, NEW first, NEW last, Spans(L, r, rs, re, first, last)
  PROVE  LET M == InsideOf(L, r, first, last) IN
         /\ ListOK(M)
         /\ ToSet(M) = {Calendar!SharedPart(L[k], r) : k \in first..last}
         /\ \A x \in ToSet(M) :
              /\ rs <= x.start /\ x.end <= re
              /\ L[first].start <= x.start /\ x.end <= L[last].end
  <1> DEFINE n == Len(L)
             M == InsideOf(L, r, first, last)
             m == last - first + 1
             Part(k) == Calendar!SharedPart(L[k], r)
  <1>1. /\ n \in Nat /\ first \in 1..n /\ last \in first..n /\ m \in Nat
        /\ rs \in Nat /\ re \in Nat /\ rs <= re
    BY ListSlots DEF Spans, Takes
  <1>2. \A k \in first..last :
          /\ k \in 1..n /\ L[k] \in Used /\ L[k].start \in Nat /\ L[k].end \in Nat
          /\ L[k].start <= L[k].end /\ L[k].start <= re /\ rs <= L[k].end
    BY <1>1, ListSlots DEF Spans
  <1>3. \A k \in first..last :
          /\ Part(k) \in Used
          /\ Part(k).start = IF L[k].start < rs THEN rs ELSE L[k].start
          /\ Part(k).end = IF L[k].end > re THEN re ELSE L[k].end
    BY <1>2, PartUsed DEF Spans
  <1> HIDE DEF Part
  <1>4. \A k \in first..last :
          /\ Part(k).start \in Nat /\ Part(k).end \in Nat
          /\ L[k].start <= Part(k).start /\ Part(k).end <= L[k].end
          /\ rs <= Part(k).start /\ Part(k).end <= re
    <2>1. ASSUME NEW k \in first..last
          PROVE  /\ Part(k).start \in Nat /\ Part(k).end \in Nat
                 /\ L[k].start <= Part(k).start /\ Part(k).end <= L[k].end
                 /\ rs <= Part(k).start /\ Part(k).end <= re
      <3> DEFINE a == L[k].start
                 b == L[k].end
                 x == Part(k).start
                 y == Part(k).end
      <3>1. /\ a \in Nat /\ b \in Nat
            /\ x = IF a < rs THEN rs ELSE a
            /\ y = IF b > re THEN re ELSE b
        BY <1>2, <1>3
      <3> HIDE DEF a, b, x, y
      <3>2. x \in Nat /\ y \in Nat /\ a <= x /\ y <= b /\ rs <= x /\ y <= re
        BY <1>1, <3>1
      <3>3. QED
        BY <3>2 DEF a, b, x, y
    <2>2. QED
      BY <2>1
  <1>5. \A j, k \in first..last : j < k => L[j].end < L[k].start
    BY <1>2, ListSlots DEF Spans
  <1>6. \A i \in 1..m : first + i - 1 \in first..last
    BY <1>1
  <1>7. /\ M \in Seq(Used) /\ Len(M) = m
        /\ \A x : x \in ToSet(M) <=> \E i \in 1..m : x = M[i]
        /\ \A i \in 1..m : M[i] = Part(first + i - 1)
    <2>1. M = [i \in 1..m |-> Part(first + i - 1)]
      BY DEF Part, InsideOf
    <2>2. M \in [1..m -> Used]
      BY <1>3, <1>6, <2>1
    <2> HIDE DEF m
    <2>3. m \in Nat
      BY <1>1
    <2>4. /\ M \in Seq(Used) /\ Len(M) = m
          /\ \A x : x \in ToSet(M) <=> \E i \in 1..m : x = M[i]
      <3>1. ASSUME NEW m0 \in Nat, NEW f \in [1..m0 -> Used]
            PROVE  /\ f \in Seq(Used) /\ Len(f) = m0
                   /\ \A x : x \in ToSet(f) <=> \E i \in 1..m0 : x = f[i]
        BY FunctionList
      <3>2. QED
        BY <2>2, <2>3, <3>1, Zenon
    <2>5. QED
      BY <2>1, <2>4
  <1> HIDE DEF M
  <1>8. ToSet(M) = {Part(k) : k \in first..last}
    <2>1. ASSUME NEW x \in ToSet(M) PROVE x \in {Part(k) : k \in first..last}
      <3>1. PICK i \in 1..m : x = M[i]
        BY <1>7
      <3>2. QED
        BY <1>6, <1>7, <3>1
    <2>2. ASSUME NEW k \in first..last PROVE Part(k) \in ToSet(M)
      <3>1. k - first + 1 \in 1..m /\ first + (k - first + 1) - 1 = k
        BY <1>1
      <3>2. M[k - first + 1] = Part(k)
        BY <1>7, <3>1
      <3>3. QED
        BY <1>7, <3>1, <3>2
    <2>3. QED
      BY <2>1, <2>2
  <1>9. Ordered(M)
    <2>1. ASSUME NEW i \in 1..m, NEW j \in 1..m, i < j PROVE M[i].end < M[j].start
      <3>1. /\ first + i - 1 \in first..last /\ first + j - 1 \in first..last
            /\ first + i - 1 < first + j - 1
        BY <1>1, <1>6, <2>1
      <3>2. L[first + i - 1].end < L[first + j - 1].start
        BY <1>5, <3>1
      <3> DEFINE a == first + i - 1
                 b == first + j - 1
      <3> HIDE DEF a, b
      <3>3. /\ a \in first..last /\ b \in first..last /\ L[a].end < L[b].start
            /\ M[i] = Part(a) /\ M[j] = Part(b)
        BY <1>7, <3>1, <3>2 DEF a, b
      <3>4. /\ L[a].end \in Nat /\ L[b].start \in Nat
            /\ Part(a).end \in Nat /\ Part(b).start \in Nat
            /\ Part(a).end <= L[a].end /\ L[b].start <= Part(b).start
        BY <1>2, <1>4, <3>3
      <3>5. QED
        BY <3>3, <3>4
    <2>2. QED
      BY <1>7, <2>1 DEF Ordered
  <1>10. ASSUME NEW k \in first..last
        PROVE  /\ rs <= Part(k).start /\ Part(k).end <= re
               /\ L[first].start <= Part(k).start /\ Part(k).end <= L[last].end
    <2>1. first \in first..last /\ last \in first..last
      BY <1>1
    <2>2. k = first \/ L[first].end < L[k].start
      BY <1>1, <1>5, <2>1
    <2>3. k = last \/ L[k].end < L[last].start
      BY <1>1, <1>5, <2>1
    <2>4. /\ L[first].start \in Nat /\ L[first].end \in Nat /\ L[first].start <= L[first].end
          /\ L[last].start \in Nat /\ L[last].end \in Nat /\ L[last].start <= L[last].end
          /\ L[k].start \in Nat /\ L[k].end \in Nat
      BY <1>2, <2>1
    <2>5. L[first].start <= L[k].start
      BY <2>2, <2>4
    <2>6. L[k].end <= L[last].end
      BY <2>3, <2>4
    <2>7. /\ Part(k).start \in Nat /\ Part(k).end \in Nat
          /\ L[k].start <= Part(k).start /\ Part(k).end <= L[k].end
          /\ rs <= Part(k).start /\ Part(k).end <= re
      BY <1>4
    <2>8. QED
      BY <2>4, <2>5, <2>6, <2>7
  <1>11. QED
    BY <1>7, <1>8, <1>9, <1>10 DEF ListOK, Part, M

\* What is put before the first slot, and after the last.
LeftOf(r, rs, f) ==
  CASE f.start < rs -> <<SplitBefore(f, rs)>>
    [] rs < f.start -> <<TimeSlotCreate(r.tool, rs, f.start - 1)>>
    [] OTHER        -> <<>>

RightOf(r, re, l) ==
  CASE re < l.end -> <<SplitFrom(l, re + 1)>>
    [] l.end < re -> <<TimeSlotCreate(r.tool, l.end + 1, re)>>
    [] OTHER      -> <<>>

\* What is put before the first slot lies left of the reservation or of that slot.
LEMMA LeftFacts ==
  ASSUME NEW r, NEW rs, NEW re, Takes(r, rs, re), NEW f \in Used, f.start <= re,
         rs <= f.end
  PROVE  /\ ListOK(LeftOf(r, rs, f))
         /\ \A x \in ToSet(LeftOf(r, rs, f)) :
              /\ f.start <= x.start \/ rs <= x.start
              /\ x.end < f.start \/ x.end < rs
         /\ ToSet(LeftOf(r, rs, f)) =
              (IF f.start < rs THEN {SplitBefore(f, rs)} ELSE {})
              \cup (IF rs < f.start THEN {TimeSlotCreate(r.tool, rs, f.start - 1)} ELSE {})
  <1>1. rs \in Nat /\ f.start \in Nat /\ f.end \in Nat /\ f.start <= f.end
    BY DEF Takes, Used, Slot
  <1>2. CASE f.start < rs
    <2> DEFINE s == SplitBefore(f, rs)
    <2>1. s \in Used /\ s.start = f.start /\ s.end = rs - 1
      BY <1>1, <1>2, SplitUsed
    <2>2. LeftOf(r, rs, f) = <<s>> /\ ~(rs < f.start)
      BY <1>1, <1>2 DEF LeftOf
    <2> HIDE DEF s
    <2>3. ListOK(<<s>>) /\ ToSet(<<s>>) = {s}
      BY <2>1, OneSlotList
    <2>4. f.start <= s.start /\ s.end < rs
      BY <1>1, <2>1
    <2>5. QED
      BY <1>2, <2>2, <2>3, <2>4 DEF s
  <1>3. CASE rs < f.start
    <2> DEFINE s == TimeSlotCreate(r.tool, rs, f.start - 1)
    <2>1. s \in Used /\ s.start = rs /\ s.end = f.start - 1
      <3>1. f.start - 1 \in Nat /\ rs <= f.start - 1
        BY <1>1, <1>3
      <3>2. QED
        BY <1>1, <3>1, CreateUsed
    <2>2. LeftOf(r, rs, f) = <<s>> /\ ~(f.start < rs)
      BY <1>1, <1>3 DEF LeftOf
    <2> HIDE DEF s
    <2>3. ListOK(<<s>>) /\ ToSet(<<s>>) = {s}
      BY <2>1, OneSlotList
    <2>4. rs <= s.start /\ s.end < f.start
      BY <1>1, <2>1
    <2>5. QED
      BY <1>3, <2>2, <2>3, <2>4 DEF s
  <1>4. CASE f.start = rs
    <2>1. LeftOf(r, rs, f) = <<>>
      BY <1>1, <1>4 DEF LeftOf
    <2>2. QED
      BY <1>1, <1>4, <2>1, NoSlotList
  <1>5. QED
    BY <1>1, <1>2, <1>3, <1>4

\* What is put after the last slot lies right of the reservation or of that slot.
LEMMA RightFacts ==
  ASSUME NEW r, NEW rs, NEW re, Takes(r, rs, re), NEW l \in Used, l.start <= re, rs <= l.end
  PROVE  /\ ListOK(RightOf(r, re, l))
         /\ \A x \in ToSet(RightOf(r, re, l)) :
              /\ x.end <= l.end \/ x.end <= re
              /\ l.end < x.start \/ re < x.start
         /\ ToSet(RightOf(r, re, l)) =
              (IF l.end > re THEN {SplitFrom(l, re + 1)} ELSE {})
              \cup (IF l.end < re THEN {TimeSlotCreate(r.tool, l.end + 1, re)} ELSE {})
  <1>1. re \in Nat /\ l.start \in Nat /\ l.end \in Nat /\ l.start <= l.end
    BY DEF Takes, Used, Slot
  <1>2. CASE re < l.end
    <2> DEFINE s == SplitFrom(l, re + 1)
    <2>1. s \in Used /\ s.start = re + 1 /\ s.end = l.end
      <3>1. re + 1 \in Nat /\ l.start < re + 1 /\ re + 1 <= l.end
        BY <1>1, <1>2
      <3>2. QED
        BY <3>1, SplitUsed
    <2>2. RightOf(r, re, l) = <<s>> /\ ~(l.end < re) /\ l.end > re
      BY <1>1, <1>2 DEF RightOf
    <2> HIDE DEF s
    <2>3. ListOK(<<s>>) /\ ToSet(<<s>>) = {s}
      BY <2>1, OneSlotList
    <2>4. s.end <= l.end /\ re < s.start
      BY <1>1, <2>1
    <2>5. QED
      BY <1>2, <2>2, <2>3, <2>4 DEF s
  <1>3. CASE l.end < re
    <2> DEFINE s == TimeSlotCreate(r.tool, l.end + 1, re)
    <2>1. s \in Used /\ s.start = l.end + 1 /\ s.end = re
      <3>1. l.end + 1 \in Nat /\ l.end + 1 <= re
        BY <1>1, <1>3
      <3>2. QED
        BY <1>1, <3>1, CreateUsed
    <2>2. RightOf(r, re, l) = <<s>> /\ ~(l.end > re)
      BY <1>1, <1>3 DEF RightOf
    <2> HIDE DEF s
    <2>3. ListOK(<<s>>) /\ ToSet(<<s>>) = {s}
      BY <2>1, OneSlotList
    <2>4. s.end <= re /\ l.end < s.start
      BY <1>1, <2>1
    <2>5. QED
      BY <1>3, <2>2, <2>3, <2>4 DEF s
  <1>4. CASE l.end = re
    <2>1. RightOf(r, re, l) = <<>>
      BY <1>1, <1>4 DEF RightOf
    <2>2. QED
      BY <1>1, <1>4, <2>1, NoSlotList
  <1>5. QED
    BY <1>1, <1>2, <1>3, <1>4

\* The list with the reservation: the slots before the first one, the ones inside,
\* those after the last, and what is left and right of the reservation.
Parts(L, r, rs, re, first, last) ==
  SubSeq(L, 1, first - 1) \o LeftOf(r, rs, L[first])
  \o InsideOf(L, r, first, last)
  \o RightOf(r, re, L[last]) \o SubSeq(L, last + 1, Len(L))

\* The model builds it from those parts.
LEMMA SharedParts ==
  ASSUME NEW L, NEW r, NEW rs, NEW re, NEW first, NEW last, Spans(L, r, rs, re, first, last)
  PROVE  Shared(L, r, first, last) = Parts(L, r, rs, re, first, last)
  <1> DEFINE m == last - first + 1
             From(i) == IF i = first /\ L[first].start < rs THEN SplitFrom(L[first], rs)
                                                            ELSE L[i]
             Inside(i) == IF i = last /\ re < L[last].end THEN SplitBefore(From(i), re + 1)
                                                         ELSE From(i)
             M == [i \in 1..m |-> TimeSlotAddReservation(Inside(first + i - 1), r.tool)]
             N == InsideOf(L, r, first, last)
  <1>1. Shared(L, r, first, last) =
           SubSeq(L, 1, first - 1) \o LeftOf(r, rs, L[first])
           \o M
           \o RightOf(r, re, L[last]) \o SubSeq(L, last + 1, Len(L))
    BY DEF Shared, LeftOf, RightOf, Spans, Takes
  <1>2. /\ Len(L) \in Nat /\ first \in 1..Len(L) /\ last \in first..Len(L)
        /\ rs = ResStart(r) /\ re = ResEnd(r) /\ rs \in Nat /\ re \in Nat
        /\ \A k \in first..last :
             /\ k \in 1..Len(L) /\ L[k].start \in Nat /\ L[k].end \in Nat
             /\ rs <= L[k].end /\ L[k].start <= re
    BY ListSlots DEF Spans, Takes
  <1>3. \A j, k \in 1..Len(L) : j < k => L[j].end < L[k].start
    BY ListSlots DEF Spans
  <1>4. ASSUME NEW k \in first..last
        PROVE  TimeSlotAddReservation(Inside(k), r.tool) = Calendar!SharedPart(L[k], r)
    <2>1. first \in first..last /\ last \in first..last
      BY <1>2
    <2>2. L[k].start < rs => k = first
      <3>1. SUFFICES ASSUME L[k].start < rs, k # first PROVE FALSE
        OBVIOUS
      <3>2. first < k
        BY <1>2, <3>1
      <3>3. L[first].end < L[k].start
        BY <1>2, <1>3, <2>1, <3>2
      <3>4. L[first].end \in Nat /\ L[k].start \in Nat /\ rs <= L[first].end
        BY <1>2, <2>1
      <3>5. QED
        BY <1>2, <3>1, <3>3, <3>4
    <2>3. L[k].end > re => k = last
      <3>1. SUFFICES ASSUME L[k].end > re, k # last PROVE FALSE
        OBVIOUS
      <3>2. k < last
        BY <1>2, <3>1
      <3>3. L[k].end < L[last].start
        BY <1>2, <1>3, <2>1, <3>2
      <3>4. L[last].start \in Nat /\ L[k].end \in Nat /\ L[last].start <= re
        BY <1>2, <2>1
      <3>5. QED
        BY <1>2, <3>1, <3>3, <3>4
    <2>4. From(k) = IF L[k].start < rs THEN SplitFrom(L[k], rs) ELSE L[k]
      BY <2>2
    <2> HIDE DEF From
    <2>5. Inside(k) = IF L[k].end > re THEN SplitBefore(From(k), re + 1) ELSE From(k)
      <3>1. re < L[k].end <=> L[k].end > re
        BY <1>2
      <3>2. QED
        BY <2>3, <3>1
    <2> HIDE DEF Inside
    <2>6. QED
      BY <1>2, <2>4, <2>5, SameRecords DEF Calendar!SharedPart
  <1>5. M = N
    <2> HIDE DEF Inside
    <2>1. \A i \in 1..m : first + i - 1 \in first..last
      BY <1>2
    <2>2. QED
      BY <1>4, <2>1 DEF InsideOf
  <1> HIDE DEF M
  <1>6. QED
    BY <1>1, <1>5 DEF Parts

\* That list is in order, and these are its slots.
LEMMA SharedFacts ==
  ASSUME NEW L, NEW r, NEW rs, NEW re, NEW first, NEW last, Spans(L, r, rs, re, first, last)
  PROVE  /\ ListOK(Shared(L, r, first, last))
         /\ ToSet(Shared(L, r, first, last)) =
              {L[k] : k \in 1..(first - 1)} \cup ToSet(LeftOf(r, rs, L[first]))
              \cup {Calendar!SharedPart(L[k], r) : k \in first..last}
              \cup ToSet(RightOf(r, re, L[last])) \cup {L[k] : k \in (last + 1)..Len(L)}
  <1> DEFINE n == Len(L)
             f == L[first]
             l == L[last]
             A == SubSeq(L, 1, first - 1)
             X == LeftOf(r, rs, f)
             M == InsideOf(L, r, first, last)
             Y == RightOf(r, re, l)
             B == SubSeq(L, last + 1, n)
  <1>1. /\ n \in Nat /\ first \in 1..n /\ last \in first..n /\ last \in 1..n
        /\ rs \in Nat /\ re \in Nat /\ rs <= re /\ ListOK(L)
        /\ f \in Used /\ f.start \in Nat /\ f.end \in Nat /\ f.start <= f.end
        /\ l \in Used /\ l.start \in Nat /\ l.end \in Nat /\ l.start <= l.end
        /\ f.start <= re /\ rs <= f.end /\ l.start <= re /\ rs <= l.end
    <2>1. /\ n \in Nat /\ first \in 1..n /\ last \in first..n
          /\ rs \in Nat /\ re \in Nat /\ rs <= re /\ ListOK(L)
      BY ListSlots DEF Spans, Takes
    <2>2. first \in 1..n /\ last \in 1..n /\ first \in first..last /\ last \in first..last
      BY <2>1
    <2>3. f.start <= re /\ rs <= f.end /\ l.start <= re /\ rs <= l.end
      BY <2>2 DEF Spans
    <2>4. QED
      BY <2>1, <2>2, <2>3, ListSlots
  <1>2. \A j, k \in 1..n : j < k => L[j].end < L[k].start
    BY ListSlots DEF Spans
  <1>3. \A k \in 1..n : L[k].start \in Nat /\ L[k].end \in Nat
    BY <1>1, ListSlots
  <1>4. /\ ListOK(A) /\ ToSet(A) = {L[k] : k \in 1..(first - 1)}
        /\ \A x \in ToSet(A) : x.end \in Nat /\ x.end < f.start /\ x.end < rs
    <2>1. ListOK(A) /\ ToSet(A) = {L[k] : k \in 1..(first - 1)}
      <3>1. 1 \in 1..(n + 1) /\ first - 1 \in 0..n
        BY <1>1
      <3>2. QED
        BY <1>1, <3>1, SubList
    <2>2. ASSUME NEW k \in 1..(first - 1)
          PROVE  L[k].end \in Nat /\ L[k].end < f.start /\ L[k].end < rs
      <3>1. k \in 1..n /\ k < first
        BY <1>1
      <3>2. L[k].end < rs
        BY DEF Spans
      <3>3. QED
        BY <1>1, <1>2, <1>3, <3>1, <3>2
    <2>3. QED
      BY <2>1, <2>2
  <1>5. /\ ListOK(B) /\ ToSet(B) = {L[k] : k \in (last + 1)..n}
        /\ \A x \in ToSet(B) : x.start \in Nat /\ l.end < x.start /\ re < x.start
    <2>1. ListOK(B) /\ ToSet(B) = {L[k] : k \in (last + 1)..n}
      <3>1. last + 1 \in 1..(n + 1) /\ n \in 0..n
        BY <1>1
      <3>2. QED
        BY <1>1, <3>1, SubList
    <2>2. ASSUME NEW k \in (last + 1)..n
          PROVE  L[k].start \in Nat /\ l.end < L[k].start /\ re < L[k].start
      <3>1. k \in 1..n /\ last < k
        BY <1>1
      <3>2. re < L[k].start
        BY DEF Spans
      <3>3. QED
        BY <1>1, <1>2, <1>3, <3>1, <3>2
    <2>3. QED
      BY <2>1, <2>2
  <1>6. /\ ListOK(M) /\ ToSet(M) = {Calendar!SharedPart(L[k], r) : k \in first..last}
        /\ \A x \in ToSet(M) :
             rs <= x.start /\ x.end <= re /\ f.start <= x.start /\ x.end <= l.end
    BY InsideFacts
  <1>7. /\ ListOK(X)
        /\ \A x \in ToSet(X) : /\ f.start <= x.start \/ rs <= x.start
                               /\ x.end < f.start \/ x.end < rs
    BY <1>1, LeftFacts DEF Spans
  <1>8. /\ ListOK(Y)
        /\ \A x \in ToSet(Y) : /\ x.end <= l.end \/ x.end <= re
                               /\ l.end < x.start \/ re < x.start
    BY <1>1, RightFacts DEF Spans
  <1>9. f.start <= l.end /\ f.start <= re /\ rs <= l.end
    <2>1. first = last \/ f.end < l.start
      BY <1>1, <1>2
    <2>2. QED
      BY <1>1, <2>1
  <1>10. \A K : ListOK(K) =>
           \A x \in ToSet(K) : x.start \in Nat /\ x.end \in Nat /\ x.start <= x.end
    BY ListSlots
  <1>11. Shared(L, r, first, last) = A \o X \o M \o Y \o B
    <2>1. Shared(L, r, first, last) = Parts(L, r, rs, re, first, last)
      BY SharedParts
    <2>2. QED
      BY <2>1 DEF Parts
  <1> HIDE DEF n, f, l, A, X, M, Y, B
  <1>12. ListOK(A \o X) /\ ToSet(A \o X) = ToSet(A) \cup ToSet(X)
    <2>1. Before(A, X)
      BY <1>1, <1>4, <1>7, <1>10 DEF Before
    <2>2. QED
      BY <1>4, <1>7, <2>1, ConcatList
  <1>13. ListOK(A \o X \o M) /\ ToSet(A \o X \o M) = ToSet(A) \cup ToSet(X) \cup ToSet(M)
    <2>1. Before(A \o X, M)
      <3>1. ASSUME NEW x \in ToSet(A) \cup ToSet(X), NEW y \in ToSet(M) PROVE x.end < y.start
        <4>1. x.end \in Nat /\ y.start \in Nat
          BY <1>4, <1>6, <1>7, <1>10
        <4>2. x.end < f.start \/ x.end < rs
          BY <1>4, <1>7
        <4>3. rs <= y.start /\ f.start <= y.start
          BY <1>6
        <4>4. QED
          BY <1>1, <4>1, <4>2, <4>3
      <3>2. QED
        BY <1>12, <3>1 DEF Before
    <2>2. QED
      BY <1>6, <1>12, <2>1, ConcatList
  <1>14. /\ ListOK(A \o X \o M \o Y)
         /\ ToSet(A \o X \o M \o Y) = ToSet(A) \cup ToSet(X) \cup ToSet(M) \cup ToSet(Y)
    <2>1. Before(A \o X \o M, Y)
      <3>1. ASSUME NEW x \in ToSet(A) \cup ToSet(X) \cup ToSet(M), NEW y \in ToSet(Y)
            PROVE  x.end < y.start
        <4>1. x.end \in Nat /\ y.start \in Nat
          BY <1>4, <1>6, <1>7, <1>8, <1>10
        <4>2. x.end <= l.end /\ x.end <= re
          <5>1. CASE x \in ToSet(A) \cup ToSet(X)
            <6>1. x.end < f.start \/ x.end < rs
              BY <1>4, <1>7, <5>1
            <6>2. QED
              BY <1>1, <1>9, <4>1, <6>1
          <5>2. CASE x \in ToSet(M)
            BY <1>6, <5>2
          <5>3. QED
            BY <5>1, <5>2
        <4>3. l.end < y.start \/ re < y.start
          BY <1>8
        <4>4. QED
          BY <1>1, <4>1, <4>2, <4>3
      <3>2. QED
        BY <1>13, <3>1 DEF Before
    <2>2. QED
      BY <1>8, <1>13, <2>1, ConcatList
  <1>15. /\ ListOK(A \o X \o M \o Y \o B)
         /\ ToSet(A \o X \o M \o Y \o B)
              = ToSet(A) \cup ToSet(X) \cup ToSet(M) \cup ToSet(Y) \cup ToSet(B)
    <2>1. Before(A \o X \o M \o Y, B)
      <3>1. ASSUME NEW x \in ToSet(A) \cup ToSet(X) \cup ToSet(M) \cup ToSet(Y),
                   NEW y \in ToSet(B)
            PROVE  x.end < y.start
        <4>1. x.end \in Nat /\ y.start \in Nat
          BY <1>4, <1>5, <1>6, <1>7, <1>8, <1>10
        <4>2. x.end <= l.end \/ x.end <= re
          <5>1. CASE x \in ToSet(A) \cup ToSet(X)
            <6>1. x.end < f.start \/ x.end < rs
              BY <1>4, <1>7, <5>1
            <6>2. QED
              BY <1>1, <1>9, <4>1, <6>1
          <5>2. CASE x \in ToSet(M) \cup ToSet(Y)
            BY <1>6, <1>8, <5>2
          <5>3. QED
            BY <5>1, <5>2
        <4>3. l.end < y.start /\ re < y.start
          BY <1>5
        <4>4. QED
          BY <1>1, <4>1, <4>2, <4>3
      <3>2. QED
        BY <1>14, <3>1 DEF Before
    <2>2. QED
      BY <1>5, <1>14, <2>1, ConcatList
  <1>16. QED
    BY <1>4, <1>5, <1>6, <1>11, <1>15 DEF n, f, l, A, X, M, Y, B

\* The calendar with a reservation that only some slots of the calendar are touched
\* by, f the first and l the last of them.
LEMMA BookTouched ==
  ASSUME NEW S, NEW T, NEW r, NEW rs, NEW re, Takes(r, rs, re),
         T = Calendar!Touched(S, r), NEW f \in T, NEW l \in T,
         \A x \in T : x.start \in Nat /\ x.end \in Nat /\ rs <= x.end /\ x.start <= re,
         \A x \in T : x = f \/ f.end < x.start, \A x \in T : x = l \/ x.end < l.start,
         \A x \in T : x.start <= x.end
  PROVE  Calendar!Book(S, r) =
           (S \ T)
           \cup (IF f.start < rs THEN {SplitBefore(f, rs)} ELSE {})
           \cup {Calendar!SharedPart(s, r) : s \in T}
           \cup (IF l.end > re THEN {SplitFrom(l, re + 1)} ELSE {})
           \cup (IF rs < f.start THEN {TimeSlotCreate(r.tool, rs, f.start - 1)} ELSE {})
           \cup (IF l.end < re THEN {TimeSlotCreate(r.tool, l.end + 1, re)} ELSE {})
  <1> DEFINE B1 == {Calendar!SplitBefore(s, rs) : s \in {x \in T : x.start < rs}}
             B2 == {Calendar!SplitFrom(s, re + 1) : s \in {x \in T : x.end > re}}
             B3 == {Calendar!TimeSlotCreate(r.tool, rs, s.start - 1) :
                      s \in {x \in T : \A y \in T : rs < x.start /\ x.start <= y.start}}
             B4 == {Calendar!TimeSlotCreate(r.tool, s.end + 1, re) :
                      s \in {x \in T : \A y \in T : x.end < re /\ y.end <= x.end}}
             C1 == IF f.start < rs THEN {SplitBefore(f, rs)} ELSE {}
             C2 == IF l.end > re THEN {SplitFrom(l, re + 1)} ELSE {}
             C3 == IF rs < f.start THEN {TimeSlotCreate(r.tool, rs, f.start - 1)} ELSE {}
             C4 == IF l.end < re THEN {TimeSlotCreate(r.tool, l.end + 1, re)} ELSE {}
             P == {Calendar!SharedPart(s, r) : s \in T}
  <1>1. /\ rs = Calendar!ResStart(r) /\ re = Calendar!ResEnd(r)
        /\ rs \in Nat /\ re \in Nat
    BY SameRecords DEF Takes
  <1>2. Calendar!Book(S, r) = (S \ T) \cup B1 \cup P \cup B2 \cup B3 \cup B4
    <2>1. T # {}
      OBVIOUS
    <2>2. QED
      BY <1>1, <2>1 DEF Calendar!Book
  <1>3. \A x \in T : x.start < rs \/ x.start <= f.start => x = f
    <2>1. ASSUME NEW x \in T, f.end < x.start PROVE ~(x.start < rs) /\ ~(x.start <= f.start)
      <3>1. /\ x.start \in Nat /\ f.end \in Nat /\ f.start \in Nat
            /\ rs <= f.end /\ f.start <= f.end
        OBVIOUS
      <3>2. QED
        BY <1>1, <2>1, <3>1
    <2>2. QED
      BY <2>1
  <1>4. \A x \in T : x.end > re \/ l.end <= x.end => x = l
    <2>1. ASSUME NEW x \in T, x.end < l.start PROVE ~(x.end > re) /\ ~(l.end <= x.end)
      <3>1. /\ x.end \in Nat /\ l.end \in Nat /\ l.start \in Nat
            /\ l.start <= re /\ l.start <= l.end
        OBVIOUS
      <3>2. QED
        BY <1>1, <2>1, <3>1
    <2>2. QED
      BY <2>1
  <1>5. \A x \in T : f.start <= x.start /\ x.end <= l.end
    <2>1. ASSUME NEW x \in T PROVE f.start <= x.start
      <3>1. /\ x.start \in Nat /\ f.end \in Nat /\ f.start \in Nat /\ f.start <= f.end
            /\ x = f \/ f.end < x.start
        OBVIOUS
      <3>2. CASE x = f
        BY <3>1, <3>2
      <3>3. CASE f.end < x.start
        BY <3>1, <3>3
      <3>4. QED
        BY <3>1, <3>2, <3>3
    <2>2. ASSUME NEW x \in T PROVE x.end <= l.end
      <3>1. /\ x.end \in Nat /\ l.end \in Nat /\ l.start \in Nat /\ l.start <= l.end
            /\ x = l \/ x.end < l.start
        OBVIOUS
      <3>2. CASE x = l
        BY <3>1, <3>2
      <3>3. CASE x.end < l.start
        BY <3>1, <3>3
      <3>4. QED
        BY <3>1, <3>2, <3>3
    <2>3. QED
      BY <2>1, <2>2
  <1>6. B1 = C1
    <2>1. \A x : x \in B1 <=> \E s \in T : s.start < rs /\ x = SplitBefore(s, rs)
      BY SameRecords
    <2>2. \A x : x \in B1 <=> f.start < rs /\ x = SplitBefore(f, rs)
      BY <1>3, <2>1
    <2> HIDE DEF B1
    <2>3. \A x : x \in C1 <=> f.start < rs /\ x = SplitBefore(f, rs)
      OBVIOUS
    <2> HIDE DEF C1
    <2>4. QED
      BY <2>2, <2>3
  <1>7. B2 = C2
    <2>1. \A x : x \in B2 <=> \E s \in T : s.end > re /\ x = SplitFrom(s, re + 1)
      BY SameRecords
    <2>2. \A x : x \in B2 <=> l.end > re /\ x = SplitFrom(l, re + 1)
      BY <1>4, <2>1
    <2> HIDE DEF B2
    <2>3. \A x : x \in C2 <=> l.end > re /\ x = SplitFrom(l, re + 1)
      OBVIOUS
    <2> HIDE DEF C2
    <2>4. QED
      BY <2>2, <2>3
  <1>8. B3 = C3
    <2> DEFINE IsFirst(x) == \A y \in T : rs < x.start /\ x.start <= y.start
    <2>1. \A x : x \in B3 <=>
            \E s \in T : IsFirst(s) /\ x = TimeSlotCreate(r.tool, rs, s.start - 1)
      BY SameRecords
    <2>2. \A s \in T : IsFirst(s) <=> s = f /\ rs < f.start
      BY <1>3, <1>5
    <2> HIDE DEF IsFirst
    <2>3. \A x : x \in B3 <=> rs < f.start /\ x = TimeSlotCreate(r.tool, rs, f.start - 1)
      BY <2>1, <2>2
    <2> HIDE DEF B3
    <2>4. \A x : x \in C3 <=> rs < f.start /\ x = TimeSlotCreate(r.tool, rs, f.start - 1)
      OBVIOUS
    <2> HIDE DEF C3
    <2>5. QED
      BY <2>3, <2>4
  <1>9. B4 = C4
    <2> DEFINE IsLast(x) == \A y \in T : x.end < re /\ y.end <= x.end
    <2>1. \A x : x \in B4 <=>
            \E s \in T : IsLast(s) /\ x = TimeSlotCreate(r.tool, s.end + 1, re)
      BY SameRecords
    <2>2. \A s \in T : IsLast(s) <=> s = l /\ l.end < re
      BY <1>4, <1>5
    <2> HIDE DEF IsLast
    <2>3. \A x : x \in B4 <=> l.end < re /\ x = TimeSlotCreate(r.tool, l.end + 1, re)
      BY <2>1, <2>2
    <2> HIDE DEF B4
    <2>4. \A x : x \in C4 <=> l.end < re /\ x = TimeSlotCreate(r.tool, l.end + 1, re)
      OBVIOUS
    <2> HIDE DEF C4
    <2>5. QED
      BY <2>3, <2>4
  <1>10. QED
    <2> HIDE DEF B1, B2, B3, B4, P
    <2>1. Calendar!Book(S, r) = (S \ T) \cup C1 \cup P \cup C2 \cup C3 \cup C4
      BY <1>2, <1>6, <1>7, <1>8, <1>9
    <2>2. QED
      BY <2>1 DEF P

\* A slot is touched by a reservation when they share a second.
LEMMA TouchedFacts ==
  ASSUME NEW r, NEW rs, NEW re, Takes(r, rs, re), NEW S
  PROVE  \A s : s \in Calendar!Touched(S, r) <=> s \in S /\ s.start <= re /\ rs <= s.end
  BY SameRecords DEF Takes, Calendar!Touched, TimeSlotHasReservation, Overlaps

\* Adding a reservation to the slots it touches, in the list, books it in the calendar.
LEMMA BookShared ==
  ASSUME NEW L, NEW r, NEW rs, NEW re, NEW first, NEW last, Spans(L, r, rs, re, first, last)
  PROVE  /\ ListOK(Shared(L, r, first, last))
         /\ ToSet(Shared(L, r, first, last)) = Calendar!Book(ToSet(L), r)
  <1> DEFINE n == Len(L)
             f == L[first]
             l == L[last]
             T == Calendar!Touched(ToSet(L), r)
  <1>1. /\ n \in Nat /\ first \in 1..n /\ last \in first..n /\ last \in 1..n
        /\ first \in first..last /\ last \in first..last
        /\ rs \in Nat /\ re \in Nat /\ rs <= re /\ ListOK(L)
        /\ Takes(r, rs, re) /\ ToSet(L) = {L[k] : k \in 1..n}
    <2>1. /\ n \in Nat /\ first \in 1..n /\ last \in first..n
          /\ rs \in Nat /\ re \in Nat /\ rs <= re /\ ListOK(L)
          /\ Takes(r, rs, re) /\ ToSet(L) = {L[k] : k \in 1..n}
      BY ListSlots DEF Spans, Takes
    <2>2. QED
      BY <2>1
  <1>2. /\ \A j, k \in 1..n : j < k => L[j].end < L[k].start
        /\ \A k \in 1..n : /\ L[k].start \in Nat /\ L[k].end \in Nat /\ L[k] \in Used
                           /\ L[k].start <= L[k].end
    BY <1>1, ListSlots
  <1>3. /\ \A k \in 1..(first - 1) : L[k].end < rs
        /\ \A k \in first..last : rs <= L[k].end /\ L[k].start <= re
        /\ \A k \in (last + 1)..n : re < L[k].start
    BY DEF Spans
  <1> HIDE DEF n, T
  <1>4. \A k \in 1..n : L[k].start <= re /\ rs <= L[k].end <=> k \in first..last
    <2>1. ASSUME NEW k \in 1..n
          PROVE  L[k].start <= re /\ rs <= L[k].end <=> k \in first..last
      <3>1. CASE k < first
        <4>1. k \in 1..(first - 1) /\ k \notin first..last
          BY <1>1, <3>1
        <4>2. L[k].end < rs /\ L[k].end \in Nat
          BY <1>2, <1>3, <4>1
        <4>3. QED
          BY <1>1, <4>1, <4>2
      <3>2. CASE k \in first..last
        BY <1>3, <3>2
      <3>3. CASE k > last
        <4>1. k \in (last + 1)..n /\ k \notin first..last
          BY <1>1, <3>3
        <4>2. re < L[k].start /\ L[k].start \in Nat
          BY <1>2, <1>3, <4>1
        <4>3. QED
          BY <1>1, <4>1, <4>2
      <3>4. QED
        BY <1>1, <3>1, <3>2, <3>3
    <2>2. QED
      BY <2>1
  <1>5. \A k \in first..last : k \in 1..n
    BY <1>1
  <1>6. \A s : s \in T <=> \E k \in first..last : s = L[k]
    <2>1. \A s : s \in T <=> s \in ToSet(L) /\ s.start <= re /\ rs <= s.end
      BY <1>1, TouchedFacts DEF T
    <2>2. QED
      BY <1>1, <1>4, <1>5, <2>1
  <1>7. \A s : s \in ToSet(L) \ T <=>
          (\E k \in 1..(first - 1) : s = L[k]) \/ (\E k \in (last + 1)..n : s = L[k])
    <2>1. \A s : s \in T <=> s \in ToSet(L) /\ s.start <= re /\ rs <= s.end
      BY <1>1, TouchedFacts DEF T
    <2>2. \A k \in 1..n : L[k] \in T <=> k \in first..last
      BY <1>1, <1>4, <2>1
    <2>3. \A k \in 1..n : k \notin first..last <=> k \in 1..(first - 1) \/ k \in (last + 1)..n
      BY <1>1
    <2>4. \A k : k \in 1..(first - 1) \/ k \in (last + 1)..n => k \in 1..n
      BY <1>1
    <2>5. \A s : s \in ToSet(L) \ T <=> \E k \in 1..n : s = L[k] /\ k \notin first..last
      BY <1>1, <2>2
    <2>6. QED
      BY <2>3, <2>4, <2>5
  <1>8. Calendar!Book(ToSet(L), r) =
           (ToSet(L) \ T)
           \cup (IF f.start < rs THEN {SplitBefore(f, rs)} ELSE {})
           \cup {Calendar!SharedPart(s, r) : s \in T}
           \cup (IF l.end > re THEN {SplitFrom(l, re + 1)} ELSE {})
           \cup (IF rs < f.start THEN {TimeSlotCreate(r.tool, rs, f.start - 1)} ELSE {})
           \cup (IF l.end < re THEN {TimeSlotCreate(r.tool, l.end + 1, re)} ELSE {})
    <2>1. f \in T /\ l \in T
      BY <1>1, <1>6
    <2>2. \A x \in T : /\ x.start \in Nat /\ x.end \in Nat /\ rs <= x.end /\ x.start <= re
                       /\ x.start <= x.end
      BY <1>2, <1>3, <1>5, <1>6
    <2>3. \A x \in T : x = f \/ f.end < x.start
      <3>1. \A k \in first..last : k = first \/ first < k
        BY <1>1
      <3>2. QED
        BY <1>1, <1>2, <1>5, <1>6, <3>1
    <2>4. \A x \in T : x = l \/ x.end < l.start
      <3>1. \A k \in first..last : k = last \/ k < last
        BY <1>1
      <3>2. QED
        BY <1>1, <1>2, <1>5, <1>6, <3>1
    <2> DEFINE S == ToSet(L)
    <2>5. T = Calendar!Touched(S, r)
      BY DEF T
    <2> HIDE DEF S, f, l
    <2>6. Calendar!Book(S, r) =
           (S \ T)
           \cup (IF f.start < rs THEN {SplitBefore(f, rs)} ELSE {})
           \cup {Calendar!SharedPart(s, r) : s \in T}
           \cup (IF l.end > re THEN {SplitFrom(l, re + 1)} ELSE {})
           \cup (IF rs < f.start THEN {TimeSlotCreate(r.tool, rs, f.start - 1)} ELSE {})
           \cup (IF l.end < re THEN {TimeSlotCreate(r.tool, l.end + 1, re)} ELSE {})
      BY <1>1, <2>1, <2>2, <2>3, <2>4, <2>5, BookTouched
    <2>7. QED
      BY <2>6 DEF S
  <1>9. /\ ListOK(Shared(L, r, first, last))
        /\ ToSet(Shared(L, r, first, last)) =
              {L[k] : k \in 1..(first - 1)} \cup ToSet(LeftOf(r, rs, L[first]))
              \cup {Calendar!SharedPart(L[k], r) : k \in first..last}
              \cup ToSet(RightOf(r, re, L[last])) \cup {L[k] : k \in (last + 1)..n}
    BY SharedFacts DEF n
  <1>10. ToSet(L) \ T = {L[k] : k \in 1..(first - 1)} \cup {L[k] : k \in (last + 1)..n}
    BY <1>7
  <1>11. {Calendar!SharedPart(s, r) : s \in T}
           = {Calendar!SharedPart(L[k], r) : k \in first..last}
    BY <1>6
  <1>12. /\ f \in Used /\ f.start <= re /\ rs <= f.end
         /\ l \in Used /\ l.start <= re /\ rs <= l.end
    BY <1>1, <1>2, <1>3
  <1>13. ToSet(LeftOf(r, rs, f)) =
              (IF f.start < rs THEN {SplitBefore(f, rs)} ELSE {})
              \cup (IF rs < f.start THEN {TimeSlotCreate(r.tool, rs, f.start - 1)} ELSE {})
    BY <1>1, <1>12, LeftFacts
  <1>14. ToSet(RightOf(r, re, l)) =
              (IF l.end > re THEN {SplitFrom(l, re + 1)} ELSE {})
              \cup (IF l.end < re THEN {TimeSlotCreate(r.tool, l.end + 1, re)} ELSE {})
    BY <1>1, <1>12, RightFacts
  <1>15. QED
    BY <1>8, <1>9, <1>10, <1>11, <1>13, <1>14

\* A reservation that touches no slot gets one of its own.
LEMMA BookNew ==
  ASSUME NEW S, NEW r, NEW rs, NEW re, Takes(r, rs, re),
         \A s \in S : ~(s.start <= re /\ rs <= s.end)
  PROVE  Calendar!Book(S, r) = S \cup {TimeSlotCreate(r.tool, rs, re)}
  <1>1. Calendar!Touched(S, r) = {}
    BY TouchedFacts
  <1>2. rs = Calendar!ResStart(r) /\ re = Calendar!ResEnd(r)
    BY SameRecords DEF Takes
  <1>3. Calendar!TimeSlotCreate(r.tool, rs, re) = TimeSlotCreate(r.tool, rs, re)
    BY SameRecords
  <1>4. QED
    BY <1>1, <1>2, <1>3 DEF Calendar!Book

-----------------------------------------------------------------------------
(***************************************************************************)
(* The search of ChldReservationDemand.                                    *)
(***************************************************************************)

\* The two time scales: a tick lies in one second, and a second has a first tick.
LEMMA TimeScales ==
  /\ \A t \in Nat : BWLNum64ToTimestamp(t) \in Nat
  /\ \A t, u \in Nat : t <= u => BWLNum64ToTimestamp(t) <= BWLNum64ToTimestamp(u)
  /\ \A s \in Nat : BWLTimestampToNum64(s) \in Nat
  /\ \A s \in Nat : BWLNum64ToTimestamp(BWLTimestampToNum64(s)) = s
  /\ \A s, t \in Nat : t < BWLTimestampToNum64(s) <=> BWLNum64ToTimestamp(t) < s
  /\ \A s, u \in Nat : BWLTimestampToNum64(s) < BWLTimestampToNum64(u) => s < u
  <1>1. TicksPerSecond \in Nat /\ TicksPerSecond > 0
    BY TicksAssumption
  <1>2. \A t \in Nat : BWLNum64ToTimestamp(t) \in Nat
    BY <1>1 DEF BWLNum64ToTimestamp
  <1>3. \A t, u \in Nat : t <= u => BWLNum64ToTimestamp(t) <= BWLNum64ToTimestamp(u)
    BY <1>1 DEF BWLNum64ToTimestamp
  <1>4. \A s \in Nat : BWLTimestampToNum64(s) \in Nat
    BY <1>1 DEF BWLTimestampToNum64
  <1>5. \A s \in Nat : BWLNum64ToTimestamp(BWLTimestampToNum64(s)) = s
    BY <1>1 DEF BWLTimestampToNum64, BWLNum64ToTimestamp
  <1>6. \A s, t \in Nat : t < BWLTimestampToNum64(s) <=> BWLNum64ToTimestamp(t) < s
    BY <1>1 DEF BWLTimestampToNum64, BWLNum64ToTimestamp
  <1>7. \A s, u \in Nat : BWLTimestampToNum64(s) < BWLTimestampToNum64(u) => s < u
    BY <1>1 DEF BWLTimestampToNum64
  <1>8. QED
    BY <1>2, <1>3, <1>4, <1>5, <1>6, <1>7

\* The reservation of a request, wherever the search puts it.
LEMMA ReservationTimes ==
  ASSUME NEW tool \in TestTypes, NEW q \in Requests, NEW t \in Nat
  PROVE  LET r == ReservationAt(tool, q, t) IN
         /\ r \in Reservation /\ r.tool = tool
         /\ ResStart(r) = BWLNum64ToTimestamp(t)
         /\ Takes(r, ResStart(r), ResEnd(r))
  <1> DEFINE r == ReservationAt(tool, q, t)
  <1>1. q \in Request /\ q.fuzz \in Nat /\ q.duration * TicksPerSecond \in Nat
    BY RequestsAssumption, TicksAssumption DEF Request, Ticks
  <1>2. /\ r \in Reservation /\ r.tool = tool /\ r.start = t
        /\ r.end \in Nat /\ t <= r.end
    BY <1>1 DEF Request, ReservationAt, Reservation, Ticks
  <1> HIDE DEF r
  <1>3. /\ BWLNum64ToTimestamp(t) \in Nat /\ BWLNum64ToTimestamp(r.end) \in Nat
        /\ BWLNum64ToTimestamp(t) <= BWLNum64ToTimestamp(r.end)
    BY <1>2, TimeScales
  <1>4. ResStart(r) = BWLNum64ToTimestamp(t) /\ ResEnd(r) = BWLNum64ToTimestamp(r.end) + 1
    BY <1>2 DEF ResStart, ResEnd
  <1>5. Takes(r, ResStart(r), ResEnd(r))
    BY <1>2, <1>3, <1>4 DEF Takes
  <1>6. QED
    BY <1>2, <1>4, <1>5 DEF r

\* The first start is a tick.
LEMMA FirstStartType ==
  ASSUME now \in 0..MaxTime, NEW q \in Requests
  PROVE  FirstStart(now, q) \in Nat
  <1>1. /\ q.rtime \in Nat /\ q.fuzz \in Nat /\ q.rtt \in Nat /\ now \in Nat
        /\ TicksPerSecond \in Nat
    BY RequestsAssumption, MaxTimeAssumption, TicksAssumption DEF Request, Ticks
  <1>2. MinStart(now, q) \in Nat /\ MinStart(now, q) < Zero64 /\ Zero64 \in Nat
    BY <1>1, MaxTimeAssumption, Zero64Assumption DEF MinStart
  <1>3. QED
    BY <1>1, <1>2 DEF FirstStart, BWLNum64Less

\* What the candidates are, in terms of the list.
LEMMA CandidatesOf ==
  ASSUME now \in 0..MaxTime, NEW L, ListOK(L), NEW tool, NEW q \in Requests, NEW u
  PROVE  u \in Calendar!CandidateStarts(ToSet(L), tool, q) <=>
           \/ u = FirstStart(now, q)
           \/ \E k \in 1..Len(L) : /\ ~ReservationCanUseSlot(tool, L[k])
                                   /\ L[k].end >= BWLNum64ToTimestamp(FirstStart(now, q))
                                   /\ u = BWLTimestampToNum64(L[k].end + 1)
  <1>1. u \in Calendar!CandidateStarts(ToSet(L), tool, q) <=>
           \/ u = FirstStart(now, q)
           \/ \E s \in ToSet(L) : /\ ~ReservationCanUseSlot(tool, s)
                                  /\ s.end >= BWLNum64ToTimestamp(FirstStart(now, q))
                                  /\ u = BWLTimestampToNum64(s.end + 1)
    BY SameRecords DEF Calendar!CandidateStarts
  <1>2. ToSet(L) = {L[k] : k \in 1..Len(L)}
    BY ListSlots
  <1>3. QED
    BY <1>1, <1>2

\* What the loop knows of its cursor: the slots behind it end before the start it is
\* at, and no earlier candidate is the one to find.
Cursor(L, c, tool, q, at) ==
  /\ at.i \in 1..(Len(L) + 1) /\ at.prev \in 0..(at.i - 1) /\ at.t \in Nat
  /\ at.t \in Calendar!CandidateStarts(ToSet(L), tool, q)
  /\ FirstStart(now, q) <= at.t
  /\ \A k \in 1..(at.i - 1) : L[k].end < BWLNum64ToTimestamp(at.t)
  /\ \A u \in Calendar!CandidateStarts(ToSet(L), tool, q) :
       u < at.t => ~Calendar!Fits(ToSet(L), tool, q, u) /\ ~TooLate(now, c, q, u)

\* A slot in the way of the reservation that no test can use with it: the search goes
\* on after that slot, and misses no candidate.
LEMMA PastConflict ==
  ASSUME now \in 0..MaxTime, NEW L, ListOK(L), NEW c, NEW tool \in TestTypes, NEW q \in Requests,
         NEW at, Cursor(L, c, tool, q, at), ~TooLate(now, c, q, at.t),
         NEW j \in at.i..Len(L), ~ReservationCanUseSlot(tool, L[j]),
         L[j].end >= BWLNum64ToTimestamp(at.t),
         L[j].start <= ResEnd(ReservationAt(tool, q, at.t)),
         \A k \in at.i..(j - 1) : ReservationCanUseSlot(tool, L[k]),
         NEW prev \in 0..at.i
  PROVE  Cursor(L, c, tool, q,
           [i |-> at.i + 1, prev |-> prev, t |-> BWLTimestampToNum64(L[j].end + 1)])
  <1> DEFINE n == Len(L)
             C == Calendar!CandidateStarts(ToSet(L), tool, q)
             t == at.t
             i == at.i
             e == L[j].end
             new == BWLTimestampToNum64(e + 1)
             first == FirstStart(now, q)
  <1>1. /\ n \in Nat /\ i \in 1..(n + 1) /\ t \in Nat /\ first \in Nat /\ first <= t
        /\ j \in 1..n /\ i <= j /\ i <= n
    BY ListSlots, FirstStartType DEF Cursor
  <1>2. /\ \A k \in 1..n : L[k].start \in Nat /\ L[k].end \in Nat /\ L[k].start <= L[k].end
        /\ \A k, m \in 1..n : k < m => L[k].end < L[m].start
    BY ListSlots
  <1>3. e \in Nat /\ new \in Nat /\ t < new /\ BWLNum64ToTimestamp(new) = e + 1
    <2>1. e \in Nat /\ e + 1 \in Nat
      BY <1>1, <1>2
    <2>2. BWLNum64ToTimestamp(t) \in Nat /\ BWLNum64ToTimestamp(t) < e + 1
      <3> DEFINE b == BWLNum64ToTimestamp(t)
      <3>1. b \in Nat
        BY <1>1, TimeScales
      <3>2. e >= b
        OBVIOUS
      <3> HIDE DEF b, e
      <3>3. b < e + 1
        BY <2>1, <3>1, <3>2
      <3>4. QED
        BY <3>1, <3>3 DEF b
    <2>3. QED
      BY <1>1, <2>1, <2>2, TimeScales
  <1>4. new \in C
    <2>1. BWLNum64ToTimestamp(first) <= BWLNum64ToTimestamp(t)
      BY <1>1, TimeScales
    <2>2. BWLNum64ToTimestamp(first) \in Nat /\ BWLNum64ToTimestamp(t) \in Nat
      BY <1>1, TimeScales
    <2>3. e >= BWLNum64ToTimestamp(first)
      BY <1>3, <2>1, <2>2
    <2>4. QED
      BY <1>1, <2>3, CandidatesOf
  <1>5. \A k \in 1..((i + 1) - 1) : L[k].end < BWLNum64ToTimestamp(new)
    <2>1. ASSUME NEW k \in 1..((i + 1) - 1) PROVE L[k].end < e + 1
      <3>1. k \in 1..n /\ (k = j \/ k < j)
        BY <1>1
      <3>2. CASE k = j
        BY <1>3, <3>2
      <3>3. CASE k < j
        <4>1. /\ L[k].end < L[j].start /\ L[j].start <= e
              /\ L[k].end \in Nat /\ L[j].start \in Nat
          BY <1>1, <1>2, <3>1, <3>3
        <4>2. e \in Nat
          BY <1>3
        <4> DEFINE a == L[k].end
                   b == L[j].start
        <4>3. a \in Nat /\ b \in Nat /\ a < b /\ b <= e
          BY <4>1
        <4> HIDE DEF a, b, e
        <4>4. a < e + 1
          BY <4>2, <4>3
        <4>5. QED
          BY <4>4 DEF a
      <3>4. QED
        BY <3>1, <3>2, <3>3
    <2>2. QED
      BY <1>3, <2>1
  <1>6. ~Calendar!Fits(ToSet(L), tool, q, t)
    <2> DEFINE r == ReservationAt(tool, q, t)
    <2>1. L[j] \in ToSet(L)
      BY <1>1, ListSlots
    <2>2. TimeSlotHasReservation(L[j], r)
      BY <1>1, ReservationTimes DEF TimeSlotHasReservation, Overlaps
    <2>3. Calendar!Fits(ToSet(L), tool, q, t) =>
            \A s \in ToSet(L) : TimeSlotHasReservation(s, r) => ReservationCanUseSlot(tool, s)
      BY SameRecords DEF Calendar!Fits
    <2>4. QED
      BY <2>1, <2>2, <2>3
  <1>7. ASSUME NEW u \in C, u < new
        PROVE  u = t \/ u < t
    <2>1. CASE u = first
      BY <1>1, <2>1
    <2>2. CASE u # first
      <3>1. PICK k \in 1..n : /\ ~ReservationCanUseSlot(tool, L[k])
                              /\ u = BWLTimestampToNum64(L[k].end + 1)
        BY <1>7, <2>2, CandidatesOf
      <3> DEFINE b == L[k].end + 1
      <3>2. L[k].end \in Nat /\ b \in Nat /\ u = BWLTimestampToNum64(b) /\ u \in Nat
        <4>1. L[k].end \in Nat /\ b \in Nat /\ u = BWLTimestampToNum64(b)
          BY <1>2, <3>1
        <4> HIDE DEF b
        <4>2. QED
          BY <4>1, TimeScales
      <3>3. SUFFICES ASSUME t < u PROVE FALSE
        BY <1>1, <3>2
      <3>4. L[k].end < e
        <4> DEFINE d == e + 1
        <4>1. d \in Nat /\ new = BWLTimestampToNum64(d)
          BY <1>3
        <4> HIDE DEF b, d, new
        <4>2. b < d
          BY <1>7, <3>2, <4>1, TimeScales
        <4>3. e \in Nat /\ L[k].end \in Nat /\ L[k].end + 1 < e + 1
          BY <1>3, <3>2, <4>2 DEF b, d
        <4> HIDE DEF e
        <4>4. QED
          BY <4>3
      <3>5. k < j
        <4>1. SUFFICES ASSUME ~(k < j) PROVE FALSE
          OBVIOUS
        <4>2. j = k \/ j < k
          BY <1>1, <4>1
        <4>3. j = k \/ (e < L[k].start /\ L[k].start <= L[k].end)
          BY <1>1, <1>2, <4>2
        <4>4. L[k].start \in Nat /\ L[k].end \in Nat /\ e \in Nat
          BY <1>2, <1>3
        <4>5. j = k => L[k].end = e
          OBVIOUS
        <4> HIDE DEF e
        <4>6. QED
          BY <3>4, <4>3, <4>4, <4>5
      <3>6. ~(L[k].end < BWLNum64ToTimestamp(t))
        <4>1. BWLNum64ToTimestamp(t) < L[k].end + 1
          BY <1>1, <3>1, <3>2, <3>3, TimeScales
        <4>2. BWLNum64ToTimestamp(t) \in Nat
          BY <1>1, TimeScales
        <4>3. QED
          BY <3>2, <4>1, <4>2
      <3>7. k \notin 1..(i - 1)
        BY <3>6 DEF Cursor
      <3>8. k \in i..(j - 1)
        BY <1>1, <3>5, <3>7
      <3>9. QED
        BY <3>1, <3>8
    <2>3. QED
      BY <2>1, <2>2
  <1>8. \A u \in C : u < new => ~Calendar!Fits(ToSet(L), tool, q, u) /\ ~TooLate(now, c, q, u)
    BY <1>6, <1>7 DEF Cursor
  <1>9. i + 1 \in 1..(n + 1) /\ prev \in 0..((i + 1) - 1) /\ first <= new
    <2>1. prev \in 0..i /\ n \in Nat /\ i \in 1..n
      BY <1>1
    <2>2. first \in Nat /\ t \in Nat /\ new \in Nat /\ first <= t /\ t < new
      BY <1>1, <1>3
    <2> HIDE DEF n, i, t, e, new, first
    <2>3. i + 1 \in 1..(n + 1) /\ prev \in 0..((i + 1) - 1)
      BY <2>1
    <2>4. first <= new
      BY <2>2
    <2>5. QED
      BY <2>3, <2>4
  <1> HIDE DEF n, C, i, new, first
  <1> DEFINE to == [i |-> i + 1, prev |-> prev, t |-> new]
  <1>10. to.i = i + 1 /\ to.prev = prev /\ to.t = new
    OBVIOUS
  <1> HIDE DEF to
  <1>11. Cursor(L, c, tool, q, to)
    BY <1>3, <1>4, <1>5, <1>8, <1>9, <1>10 DEF Cursor, n, C, first
  <1>12. QED
    BY <1>11 DEF to, i, new

\* A turn of the loop that does not leave it goes to the next slot.
LEMMA AdvancedCursor ==
  ASSUME now \in 0..MaxTime, NEW L, ListOK(L), NEW c, NEW tool \in TestTypes, NEW q \in Requests,
         NEW at, Cursor(L, c, tool, q, at), ~Left(L, c, tool, q, at)
  PROVE  /\ Cursor(L, c, tool, q, Advanced(L, tool, q, at))
         /\ Advanced(L, tool, q, at).i = at.i + 1
  <1> DEFINE n == Len(L)
             t == at.t
             i == at.i
             r == ReservationAt(tool, q, t)
             rs == ResStart(r)
             re == ResEnd(r)
             reach == Reach(L, tool, re, i)
             to == Advanced(L, tool, q, at)
  <1>1. /\ n \in Nat /\ i \in 1..n /\ t \in Nat /\ ~TooLate(now, c, q, t)
        /\ i + 1 \in 1..(n + 1) /\ at.prev \in 0..(i - 1) /\ at.prev \in 0..i /\ i \in 0..i
    <2>1. /\ n \in Nat /\ i \in 1..(n + 1) /\ t \in Nat /\ at.prev \in 0..(i - 1)
          /\ ~TooLate(now, c, q, t) /\ ~(i > n)
      BY ListSlots DEF Cursor, Left
    <2>2. QED
      BY <2>1
  <1>2. /\ \A k \in 1..n : L[k].start \in Nat /\ L[k].end \in Nat /\ L[k].start <= L[k].end
        /\ \A k, m \in 1..n : k < m => L[k].end < L[m].start
    BY ListSlots
  <1>3. /\ rs = BWLNum64ToTimestamp(t) /\ rs \in Nat /\ re \in Nat
    BY <1>1, ReservationTimes DEF Takes
  <1>4. /\ Passed(L, r, i) \/ (~InGap(L, r, i, at.prev)
                               /\ ~(ReservationCanUseSlot(tool, L[i]) /\ reach.conflict = 0))
    BY <1>1 DEF Left
  <1>5. CASE Passed(L, r, i)
    <2>1. L[i].end < rs
      BY <1>5 DEF Passed
    <2>2. \A k \in 1..((i + 1) - 1) : L[k].end < BWLNum64ToTimestamp(t)
      <3>1. \A k \in 1..((i + 1) - 1) : k = i \/ k \in 1..(i - 1)
        BY <1>1
      <3>2. QED
        BY <1>3, <2>1, <3>1 DEF Cursor
    <2>3. to.i = i + 1 /\ to.prev = i /\ to.t = t
      BY <1>5 DEF Advanced
    <2>4. i \in 0..((i + 1) - 1)
      BY <1>1
    <2> HIDE DEF to
    <2>5. Cursor(L, c, tool, q, to)
      BY <1>1, <2>2, <2>3, <2>4 DEF Cursor
    <2>6. QED
      BY <2>3, <2>5 DEF to
  <1>6. CASE ~Passed(L, r, i)
    <2>1. L[i].end \in Nat /\ L[i].start \in Nat /\ L[i].end >= rs
      <3>1. L[i].end \in Nat /\ L[i].start \in Nat /\ rs \in Nat
        BY <1>1, <1>2, <1>3
      <3>2. ~(L[i].end < rs)
        BY <1>6 DEF Passed
      <3> HIDE DEF rs, i
      <3>3. QED
        BY <3>1, <3>2
    <2>2. L[i].start <= re
      <3>1. at.prev = 0 \/ L[at.prev].end < rs
        <4>1. at.prev = 0 \/ at.prev \in 1..(i - 1)
          BY <1>1
        <4>2. QED
          BY <1>3, <4>1 DEF Cursor
      <3>2. at.prev = 0 \/ Passed(L, r, at.prev)
        BY <3>1 DEF Passed
      <3>3. ~(re < L[i].start)
        BY <1>4, <1>6, <3>2 DEF InGap
      <3>4. QED
        BY <1>3, <2>1, <3>3
    <2>3. CASE ~ReservationCanUseSlot(tool, L[i])
      <3>1. to = [i |-> i + 1, prev |-> i, t |-> BWLTimestampToNum64(L[i].end + 1)]
        BY <1>6, <2>3 DEF Advanced
      <3>2. i \in i..n /\ \A k \in i..(i - 1) : ReservationCanUseSlot(tool, L[k])
        BY <1>1
      <3>3. Cursor(L, c, tool, q,
              [i |-> i + 1, prev |-> i, t |-> BWLTimestampToNum64(L[i].end + 1)])
        <4>1. L[i].end >= BWLNum64ToTimestamp(t)
          BY <1>3, <2>1
        <4> HIDE DEF n
        <4>2. QED
          BY <1>1, <2>2, <2>3, <3>2, <4>1, PastConflict DEF n
      <3>4. QED
        BY <3>1, <3>3
    <2>4. CASE ReservationCanUseSlot(tool, L[i])
      <3> DEFINE j == reach.conflict
      <3>1. j # 0
        BY <1>4, <1>6, <2>4
      <3>2. /\ reach.last \in i..n
            /\ \A k \in (i + 1)..reach.last :
                 L[k].start <= re /\ ReservationCanUseSlot(tool, L[k])
            /\ j = reach.last + 1 /\ j \in 2..n
            /\ L[j].start <= re /\ ~ReservationCanUseSlot(tool, L[j])
        <4> HIDE DEF re, i, n
        <4>1. /\ reach.last \in i..Len(L)
              /\ \A k \in (i + 1)..reach.last :
                   L[k].start <= re /\ ReservationCanUseSlot(tool, L[k])
              /\ reach.conflict # 0 =>
                   /\ reach.conflict = reach.last + 1 /\ reach.conflict \in 2..Len(L)
                   /\ L[reach.conflict].start <= re
                   /\ ~ReservationCanUseSlot(tool, L[reach.conflict])
          BY <1>1, <1>3, ReachFacts DEF n
        <4>2. QED
          BY <3>1, <4>1 DEF n
      <3>3. to = [i |-> i + 1, prev |-> at.prev, t |-> BWLTimestampToNum64(L[j].end + 1)]
        BY <1>6, <2>4 DEF Advanced
      <3> HIDE DEF j, reach
      <3>4. j \in i..n /\ j \in 1..n /\ i < j
        BY <1>1, <3>2
      <3>5. \A k \in i..(j - 1) : ReservationCanUseSlot(tool, L[k])
        <4>1. \A k \in i..(j - 1) : k = i \/ k \in (i + 1)..reach.last
          <5> HIDE DEF n, i
          <5>1. n \in Nat /\ i \in 1..n /\ reach.last \in i..n /\ j = reach.last + 1
            BY <1>1, <3>2
          <5>2. QED
            BY <5>1
        <4>2. QED
          BY <2>4, <3>2, <4>1
      <3>6. L[j].end >= BWLNum64ToTimestamp(t)
        <4>1. /\ L[i].end < L[j].start /\ L[j].start <= L[j].end
              /\ L[j].start \in Nat /\ L[j].end \in Nat
          BY <1>1, <1>2, <3>4
        <4>2. QED
          BY <1>3, <2>1, <4>1
      <3>7. Cursor(L, c, tool, q,
              [i |-> i + 1, prev |-> at.prev, t |-> BWLTimestampToNum64(L[j].end + 1)])
        <4> HIDE DEF n
        <4>1. QED
          BY <1>1, <3>2, <3>4, <3>5, <3>6, PastConflict DEF n
      <3>8. QED
        BY <3>3, <3>7
    <2>5. QED
      BY <2>3, <2>4
  <1>7. QED
    BY <1>5, <1>6

\* Where the loop is left is the start to find, and a reservation that is not too late
\* can be inserted there.
LEMMA LeftFound ==
  ASSUME now \in 0..MaxTime, NEW L, ListOK(L), NEW c, NEW tool \in TestTypes, NEW q \in Requests,
         NEW at, Cursor(L, c, tool, q, at), Left(L, c, tool, q, at)
  PROVE  LET r == ReservationAt(tool, q, at.t) IN
         /\ Calendar!IsFoundStart(ToSet(L), c, tool, q, at.t)
         /\ ~TooLate(now, c, q, at.t) =>
              /\ ListOK(Inserted(L, r, at))
              /\ ToSet(Inserted(L, r, at)) = Calendar!Book(ToSet(L), r)
  <1> DEFINE n == Len(L)
             S == ToSet(L)
             t == at.t
             i == at.i
             r == ReservationAt(tool, q, t)
             rs == ResStart(r)
             re == ResEnd(r)
             reach == Reach(L, tool, re, i)
             slot == TimeSlotCreate(r.tool, rs, re)
             Clear == /\ Calendar!Fits(S, tool, q, t)
                      /\ ListOK(Inserted(L, r, at))
                      /\ ToSet(Inserted(L, r, at)) = Calendar!Book(S, r)
  <1>1. /\ n \in Nat /\ i \in 1..(n + 1) /\ t \in Nat /\ at.prev \in 0..(i - 1)
    BY ListSlots DEF Cursor
  <1>2. /\ \A k \in 1..n : L[k].start \in Nat /\ L[k].end \in Nat /\ L[k].start <= L[k].end
        /\ \A k, m \in 1..n : k < m => L[k].end < L[m].start
        /\ S = {L[k] : k \in 1..n}
    BY ListSlots
  <1>3. /\ rs = BWLNum64ToTimestamp(t) /\ rs \in Nat /\ re \in Nat /\ rs <= re
        /\ Takes(r, rs, re) /\ r.tool = tool
    BY <1>1, ReservationTimes DEF Takes
  <1>4. \A k \in 1..(i - 1) : L[k].end < rs
    BY <1>3 DEF Cursor
  <1>5. Calendar!Fits(S, tool, q, t) <=>
          \A s \in S : s.start <= re /\ rs <= s.end => ReservationCanUseSlot(tool, s)
    BY SameRecords DEF Calendar!Fits, TimeSlotHasReservation, Overlaps
  <1>6. slot \in Used /\ slot.start = rs /\ slot.end = re
    BY <1>3, CreateUsed
  <1>7. at.prev = 0 \/ Passed(L, r, at.prev)
    <2>1. at.prev = 0 \/ at.prev \in 1..(i - 1)
      BY <1>1
    <2>2. QED
      BY <1>4, <2>1 DEF Passed
  <1>8. ASSUME i > n PROVE Clear
    <2>1. \A s \in S : s.end < rs /\ s.end \in Nat
      <3>1. \A k \in 1..n : k \in 1..(i - 1)
        BY <1>1, <1>8
      <3>2. QED
        BY <1>2, <1>4, <3>1
    <2>2. \A s \in S : ~(s.start <= re /\ rs <= s.end)
      BY <1>3, <2>1
    <2>3. Inserted(L, r, at) = Append(L, slot)
      BY <1>8 DEF Inserted
    <2> HIDE DEF slot, S, rs, re, r
    <2>4. ListOK(Append(L, slot)) /\ ToSet(Append(L, slot)) = S \cup {slot}
      BY <1>6, <2>1, AppendList DEF S
    <2>5. Calendar!Book(S, r) = S \cup {slot}
      BY <1>3, <2>2, BookNew DEF slot
    <2>6. Calendar!Fits(S, tool, q, t)
      BY <1>5, <2>2
    <2>7. QED
      BY <2>3, <2>4, <2>5, <2>6
  <1>9. ASSUME i <= n, ~Passed(L, r, i), InGap(L, r, i, at.prev) PROVE Clear
    <2>1. i \in 1..n /\ re < L[i].start
      BY <1>1, <1>9 DEF InGap
    <2>2. \A s \in S : ~(s.start <= re /\ rs <= s.end)
      <3>1. ASSUME NEW k \in 1..n PROVE ~(L[k].start <= re /\ rs <= L[k].end)
        <4>1. CASE k < i
          <5>1. k \in 1..(i - 1)
            BY <1>1, <4>1
          <5>2. L[k].end < rs /\ L[k].end \in Nat
            BY <1>2, <1>4, <5>1
          <5>3. QED
            BY <1>3, <5>2
        <4>2. CASE k = i
          BY <1>2, <1>3, <2>1, <4>2
        <4>3. CASE i < k
          <5>1. /\ L[i].end < L[k].start /\ L[i].start <= L[i].end
                /\ L[i].start \in Nat /\ L[i].end \in Nat /\ L[k].start \in Nat
            BY <1>2, <2>1, <4>3
          <5>2. QED
            BY <1>3, <2>1, <5>1
        <4>4. QED
          BY <1>1, <4>1, <4>2, <4>3
      <3>2. QED
        BY <1>2, <3>1
    <2>3. Inserted(L, r, at) = InsertBefore(L, i, slot)
      <3>1. ~(i > n)
        BY <1>1, <1>9
      <3>2. QED
        BY <1>9, <3>1 DEF Inserted
    <2> HIDE DEF slot, S, rs, re, r, i, n
    <2>4. ListOK(InsertBefore(L, i, slot)) /\ ToSet(InsertBefore(L, i, slot)) = S \cup {slot}
      BY <1>4, <1>6, <2>1, InsertFacts DEF S, n
    <2>5. Calendar!Book(S, r) = S \cup {slot}
      BY <1>3, <2>2, BookNew DEF slot
    <2>6. Calendar!Fits(S, tool, q, t)
      BY <1>5, <2>2
    <2>7. QED
      BY <2>3, <2>4, <2>5, <2>6
  <1>10. ASSUME i <= n, ~Passed(L, r, i), ~InGap(L, r, i, at.prev),
                ReservationCanUseSlot(tool, L[i]), reach.conflict = 0
         PROVE  Clear
    <2> DEFINE last == reach.last
    <2>1. i \in 1..n /\ ~(i > n)
      BY <1>1, <1>10
    <2>2. L[i].start <= re /\ rs <= L[i].end
      <3>1. ~(re < L[i].start) /\ ~(L[i].end < rs)
        BY <1>7, <1>10 DEF InGap, Passed
      <3>2. QED
        BY <1>2, <1>3, <2>1, <3>1
    <2>3. /\ last \in i..n
          /\ \A k \in (i + 1)..last : L[k].start <= re /\ ReservationCanUseSlot(tool, L[k])
          /\ \A k \in (last + 1)..n : re < L[k].start
      BY <1>3, <1>10, <2>1, ReachFacts
    <2>4. Inserted(L, r, at) = Shared(L, r, i, last)
      BY <1>3, <1>10, <2>1 DEF Inserted
    <2> HIDE DEF reach, last
    <2>5. \A k \in i..last : k \in 1..n /\ (k = i \/ (k \in (i + 1)..last /\ i < k))
      BY <1>1, <2>3
    <2>6. ASSUME NEW k \in i..last
          PROVE  rs <= L[k].end /\ L[k].start <= re /\ ReservationCanUseSlot(tool, L[k])
      <3>1. CASE k = i
        BY <1>10, <2>2, <3>1
      <3>2. CASE k \in (i + 1)..last /\ i < k
        <4>1. /\ L[i].end < L[k].start /\ L[k].start <= L[k].end
              /\ L[i].end \in Nat /\ L[k].start \in Nat /\ L[k].end \in Nat
          BY <1>2, <2>1, <2>5, <3>2
        <4>2. QED
          BY <1>3, <2>2, <2>3, <3>2, <4>1
      <3>3. QED
        BY <2>5, <3>1, <3>2
    <2>7. Spans(L, r, rs, re, i, last)
      <3> HIDE DEF rs, re, r
      <3>1. QED
        BY <1>3, <1>4, <2>1, <2>3, <2>6 DEF Spans
    <2>8. Calendar!Fits(S, tool, q, t)
      <3>1. ASSUME NEW k \in 1..n, L[k].start <= re, rs <= L[k].end PROVE k \in i..last
        <4>1. ~(k \in 1..(i - 1))
          <5>1. SUFFICES ASSUME k \in 1..(i - 1) PROVE FALSE
            OBVIOUS
          <5>2. L[k].end < rs /\ L[k].end \in Nat
            BY <1>2, <1>4, <5>1
          <5>3. QED
            BY <1>3, <3>1, <5>2
        <4>2. ~(k \in (last + 1)..n)
          <5>1. SUFFICES ASSUME k \in (last + 1)..n PROVE FALSE
            OBVIOUS
          <5>2. re < L[k].start /\ L[k].start \in Nat
            BY <1>2, <2>3, <5>1
          <5>3. QED
            BY <1>3, <3>1, <5>2
        <4>3. QED
          BY <1>1, <2>3, <4>1, <4>2
      <3>2. QED
        BY <1>2, <1>5, <2>6, <3>1
    <2>9. QED
      BY <2>4, <2>7, <2>8, BookShared
  <1>11. TooLate(now, c, q, t) \/ Clear
    <2>1. \/ TooLate(now, c, q, t)
          \/ i > n
          \/ i <= n /\ ~Passed(L, r, i) /\ InGap(L, r, i, at.prev)
          \/ /\ i <= n /\ ~Passed(L, r, i) /\ ~InGap(L, r, i, at.prev)
             /\ ReservationCanUseSlot(tool, L[i]) /\ reach.conflict = 0
      <3>1. i > n \/ i <= n
        BY <1>1
      <3>2. QED
        BY <3>1 DEF Left
    <2> HIDE DEF Clear
    <2>2. QED
      BY <1>8, <1>9, <1>10, <2>1
  <1>12. Calendar!IsFoundStart(S, c, tool, q, t)
    <2>1. Calendar!Fits(S, tool, q, t) \/ Calendar!TooLate(now, c, q, t)
      BY <1>11, SameRecords
    <2>2. QED
      BY <2>1, SameRecords DEF Calendar!IsFoundStart, Cursor
  <1>13. QED
    BY <1>11, <1>12

\* The turns of the search: what the cursor is after each, and what comes of the last.
WalkOf(L, c, tool, q, walk) ==
  /\ walk[0] = [i |-> 1, prev |-> 0, t |-> FirstStart(now, q)]
  /\ \A k \in 0..Len(L) : Cursor(L, c, tool, q, walk[k])
  /\ \A k \in 1..Len(L) : walk[k] = Turn(L, c, tool, q, walk[k - 1])
  /\ LET at == walk[Len(L)]
         r == ReservationAt(tool, q, at.t)
     IN  Search(L, c, tool, q, FirstStart(now, q)) =
           IF TooLate(now, c, q, at.t)
             THEN [granted |-> FALSE, res |-> r, list |-> L]
             ELSE [granted |-> TRUE, res |-> r, list |-> Inserted(L, r, at)]

\* The walk of the search, as the recursive function of its cursors.
LEMMA SearchWalk ==
  ASSUME now \in 0..MaxTime, NEW L, ListOK(L), NEW c, NEW tool \in TestTypes, NEW q \in Requests
  PROVE  \E walk : WalkOf(L, c, tool, q, walk)
  <1> DEFINE n == Len(L)
             V == {at \in [i : Nat, prev : Nat, t : Nat] : Cursor(L, c, tool, q, at)}
             start == [i |-> 1, prev |-> 0, t |-> FirstStart(now, q)]
             turn == [at \in V |-> Turn(L, c, tool, q, at)]
             G == [k \in 1..n |-> turn]
             IsWalk(f) ==
               f = [k \in 0..n |-> IF k = 0 THEN start ELSE Turn(L, c, tool, q, f[k - 1])]
  <1>1. n \in Nat /\ FirstStart(now, q) \in Nat
    BY ListSlots, FirstStartType
  <1>2. start \in V
    <2>1. /\ start.i = 1 /\ start.prev = 0 /\ start.t = FirstStart(now, q)
          /\ start \in [i : Nat, prev : Nat, t : Nat]
      BY <1>1
    <2> HIDE DEF start
    <2>2. \A u \in Calendar!CandidateStarts(ToSet(L), tool, q) : ~(u < start.t)
      <3>1. ASSUME NEW u \in Calendar!CandidateStarts(ToSet(L), tool, q) PROVE ~(u < start.t)
        <4>1. CASE u = FirstStart(now, q)
          BY <1>1, <2>1, <4>1
        <4>2. CASE u # FirstStart(now, q)
          <5>1. PICK k \in 1..n : /\ L[k].end >= BWLNum64ToTimestamp(FirstStart(now, q))
                                  /\ u = BWLTimestampToNum64(L[k].end + 1)
            BY <4>2, CandidatesOf
          <5> DEFINE e == L[k].end + 1
                     s == FirstStart(now, q)
          <5>2. BWLNum64ToTimestamp(s) \in Nat /\ L[k].end \in Nat
            BY <1>1, ListSlots, TimeScales
          <5>3. e \in Nat /\ BWLNum64ToTimestamp(s) < e /\ u = BWLTimestampToNum64(e)
            <6> DEFINE b == BWLNum64ToTimestamp(s)
            <6>1. b \in Nat /\ L[k].end >= b
              BY <5>1, <5>2
            <6> HIDE DEF b
            <6>2. e \in Nat /\ b < e
              BY <5>2, <6>1
            <6>3. QED
              BY <5>1, <6>2 DEF b
          <5> HIDE DEF e, s
          <5>4. s \in Nat /\ s = start.t
            BY <1>1, <2>1 DEF s
          <5>5. s < u /\ u \in Nat
            BY <5>3, <5>4, TimeScales
          <5>6. QED
            BY <5>4, <5>5
        <4>3. QED
          BY <4>1, <4>2
      <3>2. QED
        BY <3>1
    <2>3. start.t \in Calendar!CandidateStarts(ToSet(L), tool, q)
      BY <2>1, CandidatesOf
    <2>4. start.i \in 1..(n + 1) /\ start.prev \in 0..(start.i - 1) /\ start.t \in Nat
      BY <1>1, <2>1
    <2>5. FirstStart(now, q) <= start.t
      BY <1>1, <2>1
    <2>6. \A k \in 1..(start.i - 1) : FALSE
      BY <2>1
    <2>7. Cursor(L, c, tool, q, start)
      BY <2>2, <2>3, <2>4, <2>5, <2>6 DEF Cursor
    <2>8. QED
      BY <2>1, <2>7
  <1>3. turn \in [V -> V]
    <2>1. ASSUME NEW at \in V PROVE Turn(L, c, tool, q, at) \in V
      <3>1. Cursor(L, c, tool, q, at)
        OBVIOUS
      <3>2. CASE Left(L, c, tool, q, at)
        BY <3>2 DEF Turn
      <3>3. CASE ~Left(L, c, tool, q, at)
        <4> DEFINE to == Advanced(L, tool, q, at)
        <4>1. Turn(L, c, tool, q, at) = to
          BY <3>3 DEF Turn
        <4>2. Cursor(L, c, tool, q, to)
          BY <3>1, <3>3, AdvancedCursor
        <4>3. to.i \in Nat /\ to.prev \in Nat /\ to.t \in Nat
          <5> HIDE DEF to
          <5>1. to.i \in 1..(n + 1) /\ to.prev \in 0..(to.i - 1) /\ to.t \in Nat
            BY <4>2 DEF Cursor
          <5>2. QED
            BY <1>1, <5>1
        <4>4. to = [i |-> to.i, prev |-> to.prev, t |-> to.t]
          BY DEF Advanced
        <4> HIDE DEF to
        <4>5. to \in [i : Nat, prev : Nat, t : Nat]
          BY <4>3, <4>4
        <4>6. QED
          BY <4>1, <4>2, <4>5
      <3>4. QED
        BY <3>2, <3>3
    <2> HIDE DEF V
    <2>2. QED
      BY <2>1
  <1>4. G \in [1..n -> [V -> V]]
    <2> HIDE DEF V, turn
    <2>1. QED
      BY <1>3
  <1> HIDE DEF n, start
  <1>5. PICK f : /\ f \in [0..n -> V] /\ f[0] = start
                 /\ \A k \in 1..n : f[k] = G[k][f[k - 1]]
    <2> HIDE DEF V, G
    <2>1. PICK f : Recursive(f, n, V, start, G)
      BY <1>1, <1>2, <1>4, RecursionUpTo
    <2>2. QED
      BY <2>1 DEF Recursive
  <1>6. \A k \in 1..n : f[k] = Turn(L, c, tool, q, f[k - 1])
    <2> HIDE DEF V
    <2>1. \A k \in 1..n : k - 1 \in 0..n
      BY <1>1
    <2>2. \A k \in 1..n : f[k - 1] \in V
      BY <1>5, <2>1
    <2>3. QED
      BY <1>5, <2>2
  <1>7. IsWalk(f)
    <2>1. \A k \in 0..n : f[k] = IF k = 0 THEN start ELSE Turn(L, c, tool, q, f[k - 1])
      <3>1. ASSUME NEW k \in 0..n
            PROVE  f[k] = IF k = 0 THEN start ELSE Turn(L, c, tool, q, f[k - 1])
        <4>1. CASE k = 0
          BY <1>5, <4>1, Zenon
        <4>2. CASE k # 0
          <5>1. k \in 1..n
            BY <1>1, <4>2
          <5>2. QED
            BY <1>6, <4>2, <5>1, Zenon
        <4>3. QED
          BY <4>1, <4>2
      <3>2. QED
        BY <3>1
    <2> HIDE DEF V
    <2>2. QED
      BY <1>5, <2>1
  <1> DEFINE walk == CHOOSE g : IsWalk(g)
             at == walk[n]
             r == ReservationAt(tool, q, at.t)
  <1>8. IsWalk(walk)
    <2> HIDE DEF IsWalk
    <2>1. QED
      BY <1>7, Zenon
  <1>9. Search(L, c, tool, q, FirstStart(now, q)) =
          IF TooLate(now, c, q, at.t)
            THEN [granted |-> FALSE, res |-> r, list |-> L]
            ELSE [granted |-> TRUE, res |-> r, list |-> Inserted(L, r, at)]
    BY DEF Search, n, start
  <1> HIDE DEF walk
  <1>10. walk[0] = start /\ \A k \in 1..n : walk[k] = Turn(L, c, tool, q, walk[k - 1])
    BY <1>1, <1>8
  <1>11. \A k \in 0..n : walk[k] \in V
    <2> DEFINE P == {k \in 0..n : walk[k] \in V}
    <2> HIDE DEF V
    <2>1. 0 \in P
      BY <1>1, <1>2, <1>10
    <2>2. ASSUME NEW k \in 1..n, k - 1 \in P PROVE k \in P
      <3>1. walk[k - 1] \in V /\ k \in 0..n
        BY <1>1, <2>2
      <3>2. turn[walk[k - 1]] \in V
        <4> HIDE DEF turn
        <4>1. QED
          BY <1>3, <3>1
      <3>3. QED
        BY <1>10, <3>1, <3>2
    <2> HIDE DEF P
    <2>3. \A k \in 0..n : k \in P
      BY <1>1, <2>1, <2>2, UpTo
    <2>4. QED
      BY <2>3 DEF P
  <1>12. \A k \in 0..n : Cursor(L, c, tool, q, walk[k])
    BY <1>11
  <1>13. WalkOf(L, c, tool, q, walk)
    BY <1>9, <1>10, <1>12 DEF n, start, WalkOf
  <1>14. QED
    BY <1>13

\* The search finds the start that TimeSlots defines, and books the reservation there
\* unless it is too late.
LEMMA SearchFacts ==
  ASSUME now \in 0..MaxTime, NEW L, ListOK(L), NEW c, NEW tool \in TestTypes, NEW q \in Requests
  PROVE  LET d == Search(L, c, tool, q, FirstStart(now, q)) IN
         \E t \in Nat :
           /\ Calendar!IsFoundStart(ToSet(L), c, tool, q, t)
           /\ d.res = ReservationAt(tool, q, t)
           /\ d.granted <=> ~TooLate(now, c, q, t)
           /\ d.granted => /\ ListOK(d.list)
                           /\ ToSet(d.list) = Calendar!Book(ToSet(L), d.res)
           /\ ~d.granted => d.list = L
  <1> DEFINE n == Len(L)
             d == Search(L, c, tool, q, FirstStart(now, q))
  <1>1. n \in Nat
    BY ListSlots
  <1>walk. PICK walk : WalkOf(L, c, tool, q, walk)
    BY SearchWalk
  <1>2. /\ walk[0] = [i |-> 1, prev |-> 0, t |-> FirstStart(now, q)]
        /\ \A k \in 0..n : Cursor(L, c, tool, q, walk[k])
        /\ \A k \in 1..n : walk[k] = Turn(L, c, tool, q, walk[k - 1])
        /\ d = IF TooLate(now, c, q, walk[n].t)
                 THEN [granted |-> FALSE, res |-> ReservationAt(tool, q, walk[n].t),
                       list |-> L]
                 ELSE [granted |-> TRUE, res |-> ReservationAt(tool, q, walk[n].t),
                       list |-> Inserted(L, ReservationAt(tool, q, walk[n].t), walk[n])]
    BY <1>walk DEF WalkOf
  <1> HIDE DEF n, d
  <1>3. \A k \in 0..n : Left(L, c, tool, q, walk[k]) \/ walk[k].i = k + 1
    <2> DEFINE P == {k \in 0..n : Left(L, c, tool, q, walk[k]) \/ walk[k].i = k + 1}
    <2>1. 0 \in P
      BY <1>1, <1>2
    <2>2. ASSUME NEW k \in 1..n, k - 1 \in P PROVE k \in P
      <3>1. /\ k \in 0..n /\ k - 1 \in 0..n
            /\ Left(L, c, tool, q, walk[k - 1]) \/ walk[k - 1].i = (k - 1) + 1
        BY <1>1, <2>2
      <3>2. Cursor(L, c, tool, q, walk[k - 1])
        BY <1>2, <3>1
      <3>3. CASE Left(L, c, tool, q, walk[k - 1])
        BY <1>2, <3>1, <3>3 DEF Turn
      <3>4. CASE ~Left(L, c, tool, q, walk[k - 1])
        <4>1. walk[k] = Advanced(L, tool, q, walk[k - 1])
          BY <1>2, <3>4 DEF Turn
        <4> DEFINE at == walk[k - 1]
        <4>2. Cursor(L, c, tool, q, at) /\ ~Left(L, c, tool, q, at)
          BY <3>2, <3>4
        <4> HIDE DEF at
        <4>3. Advanced(L, tool, q, at).i = at.i + 1
          BY <4>2, AdvancedCursor
        <4>4. walk[k].i = k + 1
          BY <1>1, <3>1, <3>4, <4>1, <4>3 DEF at
        <4>5. QED
          BY <3>1, <4>4
      <3>5. QED
        BY <3>3, <3>4
    <2> HIDE DEF P
    <2>3. \A k \in 0..n : k \in P
      BY <1>1, <2>1, <2>2, UpTo
    <2>4. QED
      BY <2>3 DEF P
  <1> DEFINE at == walk[n]
             t == at.t
             r == ReservationAt(tool, q, t)
  <1>4. Cursor(L, c, tool, q, at) /\ Left(L, c, tool, q, at)
    <2>1. n \in 0..n
      BY <1>1
    <2>2. at.i = n + 1 => Left(L, c, tool, q, at)
      BY <1>1 DEF Left, n
    <2>3. QED
      BY <1>2, <1>3, <2>1, <2>2
  <1> HIDE DEF at
  <1>5. /\ Calendar!IsFoundStart(ToSet(L), c, tool, q, t)
        /\ ~TooLate(now, c, q, t) =>
              /\ ListOK(Inserted(L, r, at))
              /\ ToSet(Inserted(L, r, at)) = Calendar!Book(ToSet(L), r)
    BY <1>4, LeftFound
  <1>6. t \in Nat
    BY <1>4 DEF Cursor
  <1>7. /\ TooLate(now, c, q, t) => d.granted = FALSE /\ d.res = r /\ d.list = L
        /\ ~TooLate(now, c, q, t) =>
             d.granted = TRUE /\ d.res = r /\ d.list = Inserted(L, r, at)
    BY <1>2 DEF at
  <1> HIDE DEF t, r
  <1>8. /\ Calendar!IsFoundStart(ToSet(L), c, tool, q, t)
        /\ d.res = ReservationAt(tool, q, t)
        /\ d.granted <=> ~TooLate(now, c, q, t)
        /\ d.granted => /\ ListOK(d.list)
                        /\ ToSet(d.list) = Calendar!Book(ToSet(L), d.res)
        /\ ~d.granted => d.list = L
    BY <1>5, <1>7 DEF r
  <1>9. QED
    BY <1>6, <1>8 DEF d

-----------------------------------------------------------------------------
(***************************************************************************)
(* The invariant, and the steps of the calendar.                           *)
(***************************************************************************)

\* What the loops need of the state they start from.
IInv ==
  /\ now \in 0..MaxTime
  /\ ListOK(time_slots)
  /\ res \in [Children -> Reservation \cup {NoReservation}]

\* Nothing is booked when the daemon starts.
LEMMA InvInit == Init => IInv /\ Calendar!Init
  <1> SUFFICES ASSUME Init PROVE IInv /\ Calendar!Init
    OBVIOUS
  <1>1. IInv
    BY NoSlotList, MaxTimeAssumption DEF Init, IInv
  <1>2. Calendar!Init
    BY NoSlotList, SameRecords DEF Init, Calendar!Init
  <1>3. QED
    BY <1>1, <1>2

\* The list without the reservation of child c.
LEMMA OthersFacts ==
  ASSUME IInv, NEW c \in Children
  PROVE  LET L == IF res[c] = NoReservation THEN time_slots
                                            ELSE Released(time_slots, res[c])
         IN
         ListOK(L) /\ ToSet(L) = Calendar!Others(c)
  <1>1. CASE res[c] = NoReservation
    BY <1>1, SameRecords DEF IInv, Calendar!Others
  <1>2. CASE res[c] # NoReservation
    BY <1>2, ReleasedFacts, SameRecords DEF IInv, Calendar!Others
  <1>3. QED
    BY <1>1, <1>2

\* DeleteReservation of child c.
LEMMA DeleteFacts ==
  ASSUME IInv, NEW c \in Children, DeleteReservation(c)
  PROVE  /\ ListOK(time_slots') /\ ToSet(time_slots') = Calendar!Others(c)
         /\ res' = [res EXCEPT ![c] = Calendar!NoReservation]
         /\ grant' = [grant EXCEPT ![c] = Calendar!NoGrant]
         /\ res' \in [Children -> Reservation \cup {NoReservation}]
  <1>1. res' = [res EXCEPT ![c] = NoReservation] /\ grant' = [grant EXCEPT ![c] = NoGrant]
    BY DEF DeleteReservation
  <1>2. ListOK(time_slots') /\ ToSet(time_slots') = Calendar!Others(c)
    BY OthersFacts DEF DeleteReservation
  <1>3. res' \in [Children -> Reservation \cup {NoReservation}]
    BY <1>1 DEF IInv
  <1>4. QED
    BY <1>1, <1>2, <1>3, SameRecords

\* A demand is granted or denied as the calendar grants or denies it.
LEMMA DemandStep ==
  ASSUME IInv, NEW c \in Children, NEW q \in Requests, Demand(c, q)
  PROVE  IInv' /\ (Calendar!DemandGranted(c, q) \/ Calendar!DemandDenied(c, q))
  <1> DEFINE L == IF res[c] = NoReservation THEN time_slots
                                            ELSE Released(time_slots, res[c])
             tool == IF res[c] = NoReservation THEN q.tool ELSE res[c].tool
             d == Search(L, c, tool, q, FirstStart(now, q))
  <1>1. ListOK(L) /\ ToSet(L) = Calendar!Others(c) /\ now \in 0..MaxTime
    BY OthersFacts DEF IInv
  <1>2. tool \in TestTypes /\ tool = Calendar!ToolOf(c, q)
    <2>1. q.tool \in TestTypes
      BY RequestsAssumption DEF Request
    <2>2. res[c] # NoReservation => res[c].tool \in TestTypes
      BY DEF IInv, Reservation
    <2>3. QED
      BY <2>1, <2>2, SameRecords DEF Calendar!ToolOf
  <1>3. ChldReservationDemand(c, q) = d
    BY DEF ChldReservationDemand
  <1>4. /\ chld[c] = "live" /\ now' = now /\ chld' = chld
        /\ Calendar!MayDemand(c, q)
        /\ \/ /\ d.granted
              /\ time_slots' = d.list
              /\ res' = [res EXCEPT ![c] = d.res]
              /\ grant' = [grant EXCEPT ![c] = [req |-> q, at |-> now]]
           \/ /\ ~d.granted
              /\ time_slots' = Released(d.list, d.res)
              /\ res' = [res EXCEPT ![c] = Calendar!NoReservation]
              /\ grant' = [grant EXCEPT ![c] = Calendar!NoGrant]
    BY <1>3, SameRecords DEF Demand, Calendar!MayDemand
  <1> HIDE DEF L, tool
  <1>5. PICK t \in Nat :
           /\ Calendar!IsFoundStart(ToSet(L), c, tool, q, t)
           /\ d.res = ReservationAt(tool, q, t)
           /\ d.granted <=> ~TooLate(now, c, q, t)
           /\ d.granted => /\ ListOK(d.list)
                           /\ ToSet(d.list) = Calendar!Book(ToSet(L), d.res)
           /\ ~d.granted => d.list = L
    BY <1>1, <1>2, SearchFacts
  <1> HIDE DEF d
  <1> DEFINE r == Calendar!ReservationAt(tool, q, t)
             C == Calendar!CandidateStarts(ToSet(L), tool, q)
  <1>6. /\ d.res = r /\ r \in Reservation
        /\ d.granted <=> ~Calendar!TooLate(now, c, q, t)
    BY <1>2, <1>5, ReservationTimes, SameRecords
  <1>7. t \in C
    BY <1>5 DEF Calendar!IsFoundStart
  <1> HIDE DEF r, C
  <1>8. CASE d.granted
    <2>1. /\ ListOK(time_slots') /\ ToSet(time_slots') = Calendar!Book(ToSet(L), r)
          /\ res' = [res EXCEPT ![c] = r]
          /\ grant' = [grant EXCEPT ![c] = [req |-> q, at |-> now]]
      BY <1>4, <1>5, <1>6, <1>8
    <2>2. IInv'
      BY <1>1, <1>4, <1>6, <2>1 DEF IInv
    <2>3. /\ Calendar!IsFoundStart(ToSet(L), c, tool, q, t)
          /\ ~Calendar!TooLate(now, c, q, t)
      BY <1>5, <1>6, <1>8
    <2>4. Calendar!DemandGranted(c, q)
      BY <1>1, <1>2, <1>4, <1>7, <2>1, <2>3 DEF Calendar!DemandGranted, r, C
    <2>5. QED
      BY <2>2, <2>4
  <1>9. CASE ~d.granted
    <2>1. /\ ListOK(time_slots') /\ ToSet(time_slots') = Calendar!ResRemove(ToSet(L), r)
          /\ res' = [res EXCEPT ![c] = Calendar!NoReservation]
          /\ grant' = [grant EXCEPT ![c] = Calendar!NoGrant]
      <3>1. time_slots' = Released(L, r)
        BY <1>4, <1>5, <1>6, <1>9
      <3>2. QED
        BY <1>1, <1>4, <1>9, <3>1, ReleasedFacts
    <2>2. IInv'
      BY <1>1, <1>4, <2>1, SameRecords DEF IInv
    <2>3. /\ Calendar!IsFoundStart(ToSet(L), c, tool, q, t)
          /\ Calendar!TooLate(now, c, q, t)
      BY <1>5, <1>6, <1>9
    <2>4. Calendar!DemandDenied(c, q)
      BY <1>1, <1>2, <1>4, <1>7, <2>1, <2>3 DEF Calendar!DemandDenied, r, C
    <2>5. QED
      BY <2>2, <2>4
  <1>10. QED
    BY <1>8, <1>9

\* Every step keeps the invariant, and is a step of the calendar.
LEMMA InvNext == IInv /\ [Next]_vars => IInv' /\ [Calendar!Next]_(Calendar!vars)
  <1> SUFFICES ASSUME IInv, [Next]_vars PROVE IInv' /\ [Calendar!Next]_(Calendar!vars)
    OBVIOUS
  <1>1. CASE Tick
    BY <1>1, MaxTimeAssumption DEF Tick, IInv, Calendar!Next, Calendar!Tick
  <1>2. ASSUME NEW c \in Children, AllocChldState(c) PROVE IInv' /\ Calendar!Next
    <2>1. IInv'
      BY <1>2 DEF AllocChldState, IInv
    <2>2. Calendar!AllocChldState(c)
      BY <1>2 DEF AllocChldState, Calendar!AllocChldState
    <2>3. QED
      BY <2>1, <2>2 DEF Calendar!Next
  <1>3. ASSUME NEW c \in Children, DemandFails(c) PROVE IInv' /\ Calendar!Next
    <2>1. DeleteReservation(c)
      BY <1>3 DEF DemandFails
    <2>2. IInv'
      BY <1>3, <2>1, DeleteFacts DEF DemandFails, IInv
    <2>3. Calendar!DemandFails(c)
      BY <1>3, <2>1, DeleteFacts DEF DemandFails, Calendar!DemandFails
    <2>4. QED
      BY <2>2, <2>3 DEF Calendar!Next
  <1>4. ASSUME NEW c \in Children, Complete(c) PROVE IInv' /\ Calendar!Next
    <2>1. DeleteReservation(c) /\ res[c] # Calendar!NoReservation
      BY <1>4, SameRecords DEF Complete
    <2>2. IInv'
      BY <1>4, <2>1, DeleteFacts DEF Complete, IInv
    <2>3. Calendar!Complete(c)
      BY <1>4, <2>1, DeleteFacts DEF Complete, Calendar!Complete, Calendar!Others
    <2>4. QED
      BY <2>2, <2>3 DEF Calendar!Next
  <1>5. ASSUME NEW c \in Children, FreeChldState(c) PROVE IInv' /\ Calendar!Next
    <2>1. DeleteReservation(c)
      BY <1>5 DEF FreeChldState
    <2>2. IInv'
      BY <1>5, <2>1, DeleteFacts DEF FreeChldState, IInv
    <2>3. Calendar!FreeChldState(c)
      BY <1>5, <2>1, DeleteFacts DEF FreeChldState, Calendar!FreeChldState
    <2>4. QED
      BY <2>2, <2>3 DEF Calendar!Next
  <1>6. ASSUME NEW c \in Children, NEW q \in Requests, Demand(c, q)
        PROVE  IInv' /\ Calendar!Next
    BY <1>6, DemandStep DEF Calendar!Next
  <1>7. CASE UNCHANGED vars
    BY <1>7 DEF vars, Calendar!vars, IInv
  <1>8. QED
    BY <1>1, <1>2, <1>3, <1>4, <1>5, <1>6, <1>7 DEF Next

-----------------------------------------------------------------------------
\* The invariant holds of every behaviour.
LEMMA InvAlways == Spec => []IInv
  <1>1. Init => IInv
    BY InvInit
  <1>2. IInv /\ [Next]_vars => IInv'
    BY InvNext
  <1>3. QED
    BY <1>1, <1>2, PTL DEF Spec

\* Whatever ChldReservationDemand inserts and ResRemove takes out, the list stays in
\* order of time, as the loops that walk it assume.
THEOREM ListOrderedCorrect == Spec => []ListOrdered
  <1>1. IInv => ListOrdered
    <2> SUFFICES ASSUME IInv, NEW i \in 1..(Len(time_slots) - 1)
                 PROVE  time_slots[i].end < time_slots[i + 1].start
      BY DEF ListOrdered
    <2>1. Len(time_slots) \in Nat
      BY ListSlots DEF IInv
    <2>2. i \in 1..Len(time_slots) /\ i + 1 \in 1..Len(time_slots) /\ i < i + 1
      BY <2>1
    <2>3. QED
      BY <2>2 DEF IInv, ListOK, Ordered
  <1>2. QED
    BY <1>1, InvAlways, PTL

\* The loops over the linked list implement the calendar: the search finds the start
\* that TimeSlots defines as the earliest, insertion leaves the slots that Book says,
\* and the pass of ResRemove those that ResRemove says.
THEOREM ImplementsCalendarCorrect == Spec => ImplementsCalendar
  <1>1. Init => Calendar!Init
    BY InvInit
  <1>2. IInv /\ [Next]_vars => [Calendar!Next]_(Calendar!vars)
    BY InvNext
  <1>3. QED
    BY <1>1, <1>2, InvAlways, PTL DEF Spec, ImplementsCalendar, Calendar!Spec
=============================================================================
