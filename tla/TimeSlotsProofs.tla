--------------------------- MODULE TimeSlotsProofs ---------------------------
(***************************************************************************)
(* Proofs about the reservation calendar, for every set of children, every *)
(* workload and every resolution of the clock.                             *)
(***************************************************************************)
EXTENDS TimeSlots, FiniteSetTheorems, WellFoundedInduction, TLAPS

-----------------------------------------------------------------------------
(* Arithmetic of the two time scales. *)

\* A tick lies in one second, and later ticks lie in no earlier one.
LEMMA SecondsType == \A t \in Nat : BWLNum64ToTimestamp(t) \in Nat
  BY TicksAssumption DEF BWLNum64ToTimestamp

LEMMA SecondsMonotone ==
  \A t, u \in Nat : t <= u => BWLNum64ToTimestamp(t) <= BWLNum64ToTimestamp(u)
  BY TicksAssumption DEF BWLNum64ToTimestamp

\* The first tick of a second.
LEMMA TicksType == \A s \in Nat : BWLTimestampToNum64(s) \in Nat
  BY TicksAssumption DEF BWLTimestampToNum64

\* A tick before the first tick of second s lies in an earlier second.
LEMMA SecondsOfTicks ==
  \A s, t \in Nat : BWLTimestampToNum64(s) > t => BWLNum64ToTimestamp(t) < s
  BY TicksAssumption DEF BWLNum64ToTimestamp, BWLTimestampToNum64

-----------------------------------------------------------------------------
(* Reservations. *)

\* The reservation of a request is one, wherever the search puts it.
LEMMA ReservationAtType ==
  ASSUME NEW tool \in TestTypes, NEW q \in Requests, NEW t \in Nat
  PROVE  /\ ReservationAt(tool, q, t) \in Reservation
         /\ ReservationAt(tool, q, t).start = t
         /\ ReservationAt(tool, q, t).restime = t + q.fuzz
         /\ ReservationAt(tool, q, t).start <= ReservationAt(tool, q, t).end
         /\ ReservationAt(tool, q, t).tool = tool
  <1>1. q \in Request
    BY RequestsAssumption
  <1>2. q.duration * TicksPerSecond \in Nat
    BY <1>1, TicksAssumption DEF Request
  <1>3. QED
    BY <1>1, <1>2 DEF Request, ReservationAt, Reservation, Ticks

\* No reservation is the empty one.
LEMMA NoReservationDistinct == NoReservation \notin Reservation
  BY DEF NoReservation, Reservation, TestTypes

\* A reservation's seconds are a non-empty range.
ProperReservation(r) ==
  /\ r \in Reservation
  /\ ResStart(r) \in Nat
  /\ ResEnd(r) \in Nat
  /\ ResStart(r) < ResEnd(r)

LEMMA SecondsOfReservation ==
  ASSUME NEW r \in Reservation, r.start <= r.end
  PROVE  ProperReservation(r)
  <1>1. r.start \in Nat /\ r.end \in Nat
    BY DEF Reservation, Ticks
  <1>2. QED
    BY <1>1, SecondsType, SecondsMonotone DEF ProperReservation, ResStart, ResEnd

\* The first start is a tick, and no earlier than the round trips allow.
LEMMA FirstStartType ==
  ASSUME NEW time \in 0..MaxTime, NEW q \in Requests
  PROVE  /\ FirstStart(time, q) \in Nat
         /\ MinStart(time, q) \in Nat
         /\ FirstStart(time, q) >= MinStart(time, q)
  <1>1. /\ q.rtime \in Nat /\ q.fuzz \in Nat /\ q.rtt \in Nat /\ time \in Nat
        /\ TicksPerSecond \in Nat
    BY RequestsAssumption, MaxTimeAssumption, TicksAssumption DEF Request, Ticks
  <1>2. MinStart(time, q) \in Nat /\ MinStart(time, q) < Zero64 /\ Zero64 \in Nat
    BY <1>1, MaxTimeAssumption, Zero64Assumption DEF MinStart
  <1>3. CASE BWLNum64Less(q.rtime - q.fuzz, MinStart(time, q))
    BY <1>1, <1>2, <1>3 DEF FirstStart
  <1>4. CASE ~BWLNum64Less(q.rtime - q.fuzz, MinStart(time, q))
    <2>1. q.rtime - q.fuzz >= MinStart(time, q)
      BY <1>1, <1>2, <1>4 DEF BWLNum64Less
    <2>2. QED
      BY <1>1, <1>2, <1>4, <2>1 DEF FirstStart
  <1>5. QED
    BY <1>3, <1>4

-----------------------------------------------------------------------------
(* Slots. *)

\* The type a slot takes from a test is one.
LEMMA SlotTypeAfterType ==
  ASSUME NEW type \in SlotTypes, NEW tool \in TestTypes
  PROVE  SlotTypeAfter(type, tool) \in SlotTypes
  BY DEF SlotTypes, TestTypes, SlotTypeAfter

\* The shape of a calendar, as a property of a set of slots.
Shape(S) ==
  /\ S \subseteq Slot
  /\ \A s \in S : s.start <= s.end /\ s.num \in 1..MaxReservations
  /\ \A s, u \in S : s # u => s.end < u.start \/ u.end < s.start

\* ResRemove keeps the shape, of whatever reservation.
LEMMA ResRemoveShape ==
  ASSUME NEW S, Shape(S), NEW r
  PROVE  Shape(ResRemove(S, r))
  <1> DEFINE Kept == {s \in S : ~TimeSlotHasReservation(s, r)}
             Less(s) == [s EXCEPT !.num = s.num - 1]
             Shared == {x \in S : TimeSlotHasReservation(x, r) /\ x.num # 1}
  <1>1. ResRemove(S, r) = Kept \cup {Less(s) : s \in Shared}
    BY DEF ResRemove
  <1>2. ASSUME NEW s \in Shared
        PROVE  /\ Less(s) \in Slot
               /\ Less(s).start = s.start
               /\ Less(s).end = s.end
               /\ Less(s).num \in 1..MaxReservations
    BY MaxReservationsAssumption DEF Shape, Slot
  <1> DEFINE From(v, s) == /\ v.start = s.start
                           /\ v.end = s.end
                           /\ v = IF s \in Kept THEN s ELSE Less(s)
  <1>3. ASSUME NEW v \in ResRemove(S, r)
        PROVE  /\ v \in Slot
               /\ v.num \in 1..MaxReservations
               /\ \E s \in S : From(v, s)
    <2>1. CASE v \in Kept
      BY <2>1 DEF Shape
    <2>2. CASE \E s \in Shared : v = Less(s)
      BY <2>2, <1>2
    <2>3. QED
      BY <2>1, <2>2, <1>1
  <1> HIDE DEF Kept, Less, Shared
  <1>4. ASSUME NEW v \in ResRemove(S, r), NEW w \in ResRemove(S, r), v # w
        PROVE  v.end < w.start \/ w.end < v.start
    <2>1. PICK s \in S : From(v, s)
      BY <1>3
    <2>2. PICK u \in S : From(w, u)
      BY <1>3
    <2>3. s # u
      BY <2>1, <2>2, <1>4
    <2>4. QED
      BY <2>1, <2>2, <2>3 DEF Shape
  <1>5. ASSUME NEW v \in ResRemove(S, r)
        PROVE  v.start <= v.end
    BY <1>3 DEF Shape
  <1>6. QED
    BY <1>3, <1>4, <1>5 DEF Shape

\* The kinds of slot a booking leaves: a slot not touched, the parts of a
\* touched one before, inside and after the reservation, and new slots.
Untouched(S, r, v) == v \in S /\ ~TimeSlotHasReservation(v, r)
PartBefore(S, r, v, s) ==
  s \in Touched(S, r) /\ s.start < ResStart(r) /\ v = SplitBefore(s, ResStart(r))
PartInside(S, r, v, s) ==
  s \in Touched(S, r) /\ v = SharedPart(s, r)
PartAfter(S, r, v, s) ==
  s \in Touched(S, r) /\ s.end > ResEnd(r) /\ v = SplitFrom(s, ResEnd(r) + 1)
HeadSlot(S, r, v, s) ==
  /\ s \in Touched(S, r) /\ ResStart(r) < s.start
  /\ \A y \in Touched(S, r) : s.start <= y.start
  /\ v = TimeSlotCreate(r.tool, ResStart(r), s.start - 1)
TailSlot(S, r, v, s) ==
  /\ s \in Touched(S, r) /\ s.end < ResEnd(r)
  /\ \A y \in Touched(S, r) : y.end <= s.end
  /\ v = TimeSlotCreate(r.tool, s.end + 1, ResEnd(r))
Alone(S, r, v) ==
  Touched(S, r) = {} /\ v = TimeSlotCreate(r.tool, ResStart(r), ResEnd(r))

LEMMA BookKinds ==
  ASSUME NEW S, NEW r, NEW v \in Book(S, r)
  PROVE  \/ Untouched(S, r, v)
         \/ \E s \in S : \/ PartBefore(S, r, v, s)
                        \/ PartInside(S, r, v, s)
                        \/ PartAfter(S, r, v, s)
                        \/ HeadSlot(S, r, v, s)
                        \/ TailSlot(S, r, v, s)
         \/ Alone(S, r, v)
  BY DEF Book, Untouched, PartBefore, PartInside, PartAfter, HeadSlot, TailSlot, Alone,
         Touched

\* A slot a booking may touch without overfilling it.
Bookable(S, r) ==
  \A s \in Touched(S, r) : s.num # MaxReservations

\* What the parts are, as slots and as ranges of seconds.
LEMMA PartTypes ==
  ASSUME NEW S, Shape(S), NEW r, ProperReservation(r), Bookable(S, r),
         NEW s \in Touched(S, r)
  PROVE  /\ s \in S /\ s.start \in Nat /\ s.end \in Nat
         /\ s.start <= ResEnd(r) /\ ResStart(r) <= s.end
         /\ s.start < ResStart(r) =>
              LET v == SplitBefore(s, ResStart(r)) IN
              /\ v \in Slot /\ v.num \in 1..MaxReservations
              /\ v.start = s.start /\ v.end = ResStart(r) - 1
         /\ LET v == SharedPart(s, r) IN
              /\ v \in Slot /\ v.num \in 1..MaxReservations
              /\ v.start = IF s.start < ResStart(r) THEN ResStart(r) ELSE s.start
              /\ v.end = IF s.end < ResEnd(r) THEN s.end ELSE ResEnd(r)
         /\ s.end > ResEnd(r) =>
              LET v == SplitFrom(s, ResEnd(r) + 1) IN
              /\ v \in Slot /\ v.num \in 1..MaxReservations
              /\ v.start = ResEnd(r) + 1 /\ v.end = s.end
  <1>1. /\ s \in Slot /\ s.num \in 1..MaxReservations
        /\ s.num # MaxReservations /\ s \in S
        /\ s.start <= ResEnd(r) /\ ResStart(r) <= s.end
    BY DEF Shape, Touched, Bookable, TimeSlotHasReservation, Overlaps
  <1>2. s.start \in Nat /\ s.end \in Nat /\ s.num \in Nat
    BY <1>1 DEF Slot
  <1>3. ResStart(r) \in Nat /\ ResEnd(r) \in Nat /\ r.tool \in TestTypes
    BY DEF ProperReservation, Reservation
  <1>4. s.start < ResStart(r) =>
          LET v == SplitBefore(s, ResStart(r)) IN
          /\ v \in Slot /\ v.num \in 1..MaxReservations
          /\ v.start = s.start /\ v.end = ResStart(r) - 1
    BY <1>1, <1>2, <1>3 DEF SplitBefore, Slot
  <1>5. s.end > ResEnd(r) =>
          LET v == SplitFrom(s, ResEnd(r) + 1) IN
          /\ v \in Slot /\ v.num \in 1..MaxReservations
          /\ v.start = ResEnd(r) + 1 /\ v.end = s.end
    BY <1>1, <1>2, <1>3 DEF SplitFrom, Slot, SlotTypes
  <1> DEFINE tail == IF s.start < ResStart(r) THEN SplitFrom(s, ResStart(r)) ELSE s
             both == IF s.end > ResEnd(r) THEN SplitBefore(tail, ResEnd(r) + 1)
                                          ELSE tail
  <1>6. /\ tail \in Slot /\ tail.num = s.num /\ tail.end = s.end
        /\ tail.start = IF s.start < ResStart(r) THEN ResStart(r) ELSE s.start
    BY <1>1, <1>2, <1>3 DEF SplitFrom, Slot, SlotTypes
  <1> HIDE DEF tail
  <1>7. /\ both \in Slot /\ both.num = s.num /\ both.start = tail.start
        /\ both.end = IF s.end < ResEnd(r) THEN s.end ELSE ResEnd(r)
    BY <1>1, <1>2, <1>3, <1>6 DEF SplitBefore, Slot
  <1>8. SharedPart(s, r) =
          [type |-> SlotTypeAfter(both.type, r.tool), start |-> both.start,
           end |-> both.end, num |-> both.num + 1]
    BY DEF SharedPart, TimeSlotAddReservation, tail
  <1> HIDE DEF both
  <1>9. SlotTypeAfter(both.type, r.tool) \in SlotTypes
    BY <1>3, <1>7, SlotTypeAfterType DEF Slot
  <1>10. LET v == SharedPart(s, r) IN
          /\ v \in Slot /\ v.num \in 1..MaxReservations
          /\ v.start = IF s.start < ResStart(r) THEN ResStart(r) ELSE s.start
          /\ v.end = IF s.end < ResEnd(r) THEN s.end ELSE ResEnd(r)
    BY <1>1, <1>2, <1>3, <1>6, <1>7, <1>8, <1>9, MaxReservationsAssumption DEF Slot
  <1>11. QED
    BY <1>1, <1>2, <1>4, <1>5, <1>10

\* What a new slot is.
LEMMA CreateType ==
  ASSUME NEW tool \in TestTypes, NEW a \in Nat, NEW b \in Nat
  PROVE  LET v == TimeSlotCreate(tool, a, b) IN
           v \in Slot /\ v.num = 1 /\ v.start = a /\ v.end = b
  <1>1. SlotTypeAfter("SLOT_ANY", tool) \in SlotTypes
    BY SlotTypeAfterType DEF SlotTypes
  <1>2. QED
    BY <1>1 DEF TimeSlotCreate, TimeSlotAddReservation, Slot

\* A slot of the booked calendar is a part of one slot or touches none.
PartOf(S, r, v, s) ==
  /\ s \in S /\ s.start <= v.start /\ v.end <= s.end
  /\ \/ v = s /\ ~TimeSlotHasReservation(s, r)
     \/ PartBefore(S, r, v, s)
     \/ PartInside(S, r, v, s)
     \/ PartAfter(S, r, v, s)
Fresh(S, r, v) ==
  /\ \A s \in S : v.end < s.start \/ s.end < v.start
  /\ \/ \E s \in S : HeadSlot(S, r, v, s) \/ TailSlot(S, r, v, s)
     \/ Alone(S, r, v)

LEMMA BookParts ==
  ASSUME NEW S, Shape(S), NEW r, ProperReservation(r), Bookable(S, r),
         NEW v \in Book(S, r)
  PROVE  /\ v \in Slot /\ v.num \in 1..MaxReservations
         /\ v.start \in Nat /\ v.end \in Nat /\ v.start <= v.end
         /\ (\E s \in S : PartOf(S, r, v, s)) \/ Fresh(S, r, v)
  <1> DEFINE Goal ==
               /\ v \in Slot /\ v.num \in 1..MaxReservations
               /\ v.start <= v.end
               /\ (\E s \in S : PartOf(S, r, v, s)) \/ Fresh(S, r, v)
  <1>1. /\ ResStart(r) \in Nat /\ ResEnd(r) \in Nat /\ ResStart(r) < ResEnd(r)
        /\ r.tool \in TestTypes
    BY DEF ProperReservation, Reservation
  <1>2. \A x \in S : x \in Slot /\ x.start \in Nat /\ x.end \in Nat /\ x.start <= x.end
    BY DEF Shape, Slot
  <1>3. \A x \in S : x \notin Touched(S, r) =>
                       x.end < ResStart(r) \/ ResEnd(r) < x.start
    BY <1>1, <1>2 DEF Touched, TimeSlotHasReservation, Overlaps
  <1>4. CASE Untouched(S, r, v)
    <2>1. PartOf(S, r, v, v)
      BY <1>4, <1>2 DEF PartOf, Untouched
    <2>2. QED
      BY <1>4, <2>1, <1>2 DEF Untouched, Shape
  <1>5. ASSUME NEW s \in S, PartBefore(S, r, v, s) PROVE Goal
    <2>1. /\ v \in Slot /\ v.num \in 1..MaxReservations
          /\ v.start = s.start /\ v.end = ResStart(r) - 1
          /\ s.start < ResStart(r) /\ ResStart(r) <= s.end
      BY <1>5, PartTypes DEF PartBefore
    <2>2. PartOf(S, r, v, s)
      BY <1>1, <1>2, <1>5, <2>1 DEF PartOf
    <2>3. QED
      BY <1>1, <1>2, <2>1, <2>2
  <1>6. ASSUME NEW s \in S, PartInside(S, r, v, s) PROVE Goal
    <2>1. /\ v \in Slot /\ v.num \in 1..MaxReservations
          /\ v.start = IF s.start < ResStart(r) THEN ResStart(r) ELSE s.start
          /\ v.end = IF s.end < ResEnd(r) THEN s.end ELSE ResEnd(r)
          /\ s.start <= ResEnd(r) /\ ResStart(r) <= s.end
      BY <1>6, PartTypes DEF PartInside
    <2>2. PartOf(S, r, v, s)
      BY <1>1, <1>2, <1>6, <2>1 DEF PartOf
    <2>3. QED
      BY <1>1, <1>2, <2>1, <2>2
  <1>7. ASSUME NEW s \in S, PartAfter(S, r, v, s) PROVE Goal
    <2>1. /\ v \in Slot /\ v.num \in 1..MaxReservations
          /\ v.start = ResEnd(r) + 1 /\ v.end = s.end
          /\ s.start <= ResEnd(r) /\ ResEnd(r) < s.end
      BY <1>1, <1>2, <1>7, PartTypes DEF PartAfter
    <2>2. PartOf(S, r, v, s)
      BY <1>1, <1>2, <1>7, <2>1 DEF PartOf
    <2>3. QED
      BY <1>1, <1>2, <2>1, <2>2
  <1>8. ASSUME NEW s \in S, HeadSlot(S, r, v, s) PROVE Goal
    <2>1. /\ ResStart(r) < s.start /\ s.start <= ResEnd(r)
          /\ \A y \in Touched(S, r) : s.start <= y.start
      BY <1>8, PartTypes DEF HeadSlot
    <2>2. /\ v \in Slot /\ v.num = 1 /\ v.start = ResStart(r) /\ v.end = s.start - 1
      BY <1>1, <1>2, <1>8, <2>1, CreateType DEF HeadSlot
    <2>3. \A x \in S : v.end < x.start \/ x.end < v.start
      BY <1>1, <1>2, <1>3, <2>1, <2>2
    <2>4. Fresh(S, r, v)
      BY <1>8, <2>3 DEF Fresh
    <2>5. QED
      BY <1>1, <1>2, <2>1, <2>2, <2>4, MaxReservationsAssumption
  <1>9. ASSUME NEW s \in S, TailSlot(S, r, v, s) PROVE Goal
    <2>1. /\ s.end < ResEnd(r) /\ ResStart(r) <= s.end
          /\ \A y \in Touched(S, r) : y.end <= s.end
      BY <1>9, PartTypes DEF TailSlot
    <2>2. /\ v \in Slot /\ v.num = 1 /\ v.start = s.end + 1 /\ v.end = ResEnd(r)
      BY <1>1, <1>2, <1>9, <2>1, CreateType DEF TailSlot
    <2>3. \A x \in S : v.end < x.start \/ x.end < v.start
      BY <1>1, <1>2, <1>3, <2>1, <2>2
    <2>4. Fresh(S, r, v)
      BY <1>9, <2>3 DEF Fresh
    <2>5. QED
      BY <1>1, <1>2, <2>1, <2>2, <2>4, MaxReservationsAssumption
  <1>10. CASE Alone(S, r, v)
    <2>1. /\ v \in Slot /\ v.num = 1 /\ v.start = ResStart(r) /\ v.end = ResEnd(r)
      BY <1>1, <1>10, CreateType DEF Alone
    <2>2. \A x \in S : v.end < x.start \/ x.end < v.start
      BY <1>1, <1>2, <1>3, <1>10, <2>1 DEF Alone
    <2>3. Fresh(S, r, v)
      BY <1>10, <2>2 DEF Fresh
    <2>4. QED
      BY <1>1, <2>1, <2>3, MaxReservationsAssumption
  <1>11. Goal
    BY <1>4, <1>5, <1>6, <1>7, <1>8, <1>9, <1>10, BookKinds
  <1>12. QED
    BY <1>11 DEF Slot

\* Booking keeps the shape of the calendar.
LEMMA BookShape ==
  ASSUME NEW S, Shape(S), NEW r, ProperReservation(r), Bookable(S, r)
  PROVE  Shape(Book(S, r))
  <1>1. /\ ResStart(r) \in Nat /\ ResEnd(r) \in Nat /\ ResStart(r) < ResEnd(r)
    BY DEF ProperReservation
  <1>2. \A x \in S : x.start \in Nat /\ x.end \in Nat /\ x.start <= x.end
    BY DEF Shape, Slot
  <1>3. ASSUME NEW v \in Book(S, r), NEW w \in Book(S, r), v # w
        PROVE  v.end < w.start \/ w.end < v.start
    <2>1. /\ v.start \in Nat /\ v.end \in Nat /\ v.start <= v.end
          /\ w.start \in Nat /\ w.end \in Nat /\ w.start <= w.end
      BY BookParts
    <2>2. ASSUME NEW s \in S, PartOf(S, r, v, s), NEW u \in S, PartOf(S, r, w, u)
          PROVE  v.end < w.start \/ w.end < v.start
      <3>1. CASE s # u
        <4>1. s.end < u.start \/ u.end < s.start
          BY <3>1 DEF Shape
        <4>2. QED
          BY <4>1, <1>2, <2>1, <2>2 DEF PartOf
      <3>2. CASE s = u /\ s \notin Touched(S, r)
        BY <3>2, <2>2, <1>3
           DEF PartOf, PartBefore, PartInside, PartAfter, Touched
      <3>3. CASE s = u /\ s \in Touched(S, r)
        <4> DEFINE Where(x) ==
                \/ PartBefore(S, r, x, s) /\ x.end = ResStart(r) - 1
                \/ PartInside(S, r, x, s) /\ ResStart(r) <= x.start
                                         /\ x.end <= ResEnd(r)
                \/ PartAfter(S, r, x, s) /\ x.start = ResEnd(r) + 1
        <4>1. ASSUME NEW x, PartOf(S, r, x, s) PROVE Where(x)
          BY <4>1, <3>3, <1>1, <1>2, PartTypes
             DEF PartOf, PartBefore, PartInside, PartAfter, Touched
        <4>2. Where(v) /\ Where(w)
          BY <4>1, <2>2, <3>3
        <4>3. QED
          BY <4>2, <1>1, <1>3, <2>1 DEF PartBefore, PartInside, PartAfter
      <3>4. QED
        BY <3>1, <3>2, <3>3
    <2>3. ASSUME NEW x, NEW y, NEW s \in S, PartOf(S, r, x, s), Fresh(S, r, y),
                 x.start \in Nat, x.end \in Nat, y.start \in Nat, y.end \in Nat
          PROVE  x.end < y.start \/ y.end < x.start
      BY <2>3, <1>2 DEF PartOf, Fresh
    <2>4. ASSUME Fresh(S, r, v), Fresh(S, r, w)
          PROVE  v.end < w.start \/ w.end < v.start
      <3>1. ASSUME NEW s \in S, HeadSlot(S, r, v, s), NEW u \in S, HeadSlot(S, r, w, u)
            PROVE  FALSE
        <4>1. s.start = u.start
          BY <3>1, <1>2 DEF HeadSlot
        <4>2. QED
          BY <4>1, <3>1, <1>3 DEF HeadSlot
      <3>2. ASSUME NEW s \in S, TailSlot(S, r, v, s), NEW u \in S, TailSlot(S, r, w, u)
            PROVE  FALSE
        <4>1. s.end = u.end
          BY <3>2, <1>2 DEF TailSlot
        <4>2. QED
          BY <4>1, <3>2, <1>3 DEF TailSlot
      <3>3. ASSUME NEW x, NEW y, NEW s \in S, HeadSlot(S, r, x, s),
                   NEW u \in S, TailSlot(S, r, y, u)
            PROVE  x.end < y.start
        <4>1. /\ s.start <= u.start /\ ResStart(r) < s.start /\ u.end < ResEnd(r)
              /\ x = TimeSlotCreate(r.tool, ResStart(r), s.start - 1)
              /\ y = TimeSlotCreate(r.tool, u.end + 1, ResEnd(r))
          BY <3>3 DEF HeadSlot, TailSlot
        <4>2. x.end = s.start - 1 /\ y.start = u.end + 1
          BY <4>1 DEF TimeSlotCreate, TimeSlotAddReservation
        <4>3. QED
          BY <4>1, <4>2, <1>2
      <3>4. CASE Touched(S, r) = {}
        BY <3>4, <2>4, <1>3 DEF Fresh, HeadSlot, TailSlot, Alone
      <3>5. CASE Touched(S, r) # {}
        BY <3>1, <3>2, <3>3, <3>5, <2>4, <2>1 DEF Fresh, Alone
      <3>6. QED
        BY <3>4, <3>5
    <2>5. QED
      BY <2>1, <2>2, <2>3, <2>4, BookParts
  <1>4. QED
    BY <1>3, BookParts DEF Shape

-----------------------------------------------------------------------------
(* The invariants of the specification. *)

\* TypeOK is not inductive alone: ResRemove leaves slots with num - 1 users,
\* a natural number only because no slot has 0.
IInv == TypeOK /\ CalendarShape /\ GrantInWindow

LEMMA ShapeIsInvariant == TypeOK /\ CalendarShape <=> TypeOK /\ Shape(slots)
  BY DEF TypeOK, CalendarShape, Shape

\* What a demand starts from: a well-shaped calendar and a tool.
LEMMA DemandContext ==
  ASSUME TypeOK, CalendarShape, NEW c \in Children, NEW q \in Requests
  PROVE  /\ Shape(Others(c))
         /\ ToolOf(c, q) \in TestTypes
  <1>1. Shape(slots)
    BY ShapeIsInvariant
  <1>2. Shape(Others(c))
    BY <1>1, ResRemoveShape DEF Others
  <1>3. q.tool \in TestTypes
    BY RequestsAssumption DEF Request
  <1>4. res[c] # NoReservation => res[c].tool \in TestTypes
    BY DEF TypeOK, Reservation
  <1>5. QED
    BY <1>2, <1>3, <1>4 DEF ToolOf

\* Every start the search tries is a tick no earlier than the first.
LEMMA CandidatesType ==
  ASSUME now \in 0..MaxTime, NEW S, Shape(S), NEW tool, NEW q \in Requests,
         NEW t \in CandidateStarts(S, tool, q)
  PROVE  t \in Nat /\ t >= FirstStart(now, q)
  <1>1. FirstStart(now, q) \in Nat
    BY FirstStartType
  <1>2. CASE t = FirstStart(now, q)
    BY <1>1, <1>2
  <1>3. ASSUME NEW x \in S, x.end >= BWLNum64ToTimestamp(FirstStart(now, q)),
               t = BWLTimestampToNum64(x.end + 1)
        PROVE  t \in Nat /\ t >= FirstStart(now, q)
    <2>1. x.end \in Nat
      BY DEF Shape, Slot
    <2>2. t \in Nat
      BY <1>3, <2>1, TicksType
    <2>3. t > FirstStart(now, q)
      BY <1>1, <1>3, <2>1, TicksAssumption DEF BWLTimestampToNum64, BWLNum64ToTimestamp
    <2>4. QED
      BY <1>1, <2>2, <2>3
  <1>4. QED
    BY <1>2, <1>3 DEF CandidateStarts

\* GrantInWindow for the reservation r that answers request q of child c at `at'.
InWindow(r, at, c, q) ==
  /\ r.start >= MinStart(at, q)
  /\ q.latest # Zero64 /\ r.restime < Zero64 =>
       /\ r.restime <= q.latest
       /\ EventHorizon[c] # 0 => r.restime <= at + EventHorizon[c] * TicksPerSecond

\* A granted demand leaves a well-shaped calendar and a reservation inside
\* the request's window.
LEMMA GrantedStep ==
  ASSUME TypeOK, CalendarShape, NEW c \in Children, NEW q \in Requests,
         NEW t \in CandidateStarts(Others(c), ToolOf(c, q), q),
         IsFoundStart(Others(c), c, ToolOf(c, q), q, t), ~TooLate(now, c, q, t)
  PROVE  LET r == ReservationAt(ToolOf(c, q), q, t) IN
         /\ r \in Reservation
         /\ Shape(Book(Others(c), r))
         /\ InWindow(r, now, c, q)
  <1> DEFINE r == ReservationAt(ToolOf(c, q), q, t)
  <1>1. /\ Shape(Others(c)) /\ ToolOf(c, q) \in TestTypes /\ now \in 0..MaxTime
    BY DemandContext DEF TypeOK
  <1>2. t \in Nat /\ t >= FirstStart(now, q)
    BY <1>1, CandidatesType
  <1>3. /\ r \in Reservation /\ r.start = t /\ r.restime = t + q.fuzz
        /\ r.start <= r.end /\ r.tool = ToolOf(c, q)
    BY <1>1, <1>2, ReservationAtType
  <1>4. ProperReservation(r)
    BY <1>3, SecondsOfReservation
  <1>5. Bookable(Others(c), r)
    BY DEF IsFoundStart, Fits, Bookable, Touched, ReservationCanUseSlot
  <1>6. Shape(Book(Others(c), r))
    BY <1>1, <1>4, <1>5, BookShape
  <1>7. r.start >= MinStart(now, q)
    BY <1>1, <1>2, <1>3, FirstStartType
  <1>8. ASSUME q.latest # Zero64, r.restime < Zero64
        PROVE  /\ r.restime <= q.latest
               /\ EventHorizon[c] # 0 =>
                    r.restime <= now + EventHorizon[c] * TicksPerSecond
    <2> DEFINE h == now + EventHorizon[c] * TicksPerSecond
    <2>1. /\ q.latest \in Nat /\ q.fuzz \in Nat /\ Zero64 \in Nat /\ r.restime \in Nat
          /\ EventHorizon[c] * TicksPerSecond \in Nat /\ now \in Nat
      BY <1>1, <1>2, <1>3, RequestsAssumption, HorizonAssumption, TicksAssumption,
         MaxTimeAssumption, Zero64Assumption DEF Request, Ticks, Reservation
    <2>2. h \in Nat /\ h < Zero64
      <3>1. MaxTime + EventHorizon[c] * TicksPerSecond < Zero64
        BY Zero64Assumption
      <3>2. QED
        BY <1>1, <2>1, <3>1, MaxTimeAssumption
    <2> HIDE DEF h
    <2>3. LatestTime(now, c, q) = IF EventHorizon[c] # 0 THEN BWLNum64Min(q.latest, h)
                                                        ELSE q.latest
      BY DEF LatestTime, h
    <2>4. LatestTime(now, c, q) \in Nat /\ LatestTime(now, c, q) # Zero64
      BY <1>8, <2>1, <2>2, <2>3 DEF BWLNum64Min
    <2>5. ~BWLNum64Less(LatestTime(now, c, q), r.restime)
      BY <1>3, <2>4 DEF TooLate
    <2>6. LatestTime(now, c, q) < Zero64 /\ r.restime <= LatestTime(now, c, q)
      BY <1>8, <2>1, <2>4, <2>5 DEF BWLNum64Less
    <2>7. CASE EventHorizon[c] = 0
      BY <2>3, <2>6, <2>7
    <2>8. CASE EventHorizon[c] # 0
      <3>1. r.restime <= q.latest /\ r.restime <= h
        BY <2>1, <2>2, <2>3, <2>4, <2>6, <2>8 DEF BWLNum64Min, BWLNum64Less
      <3>2. QED
        BY <3>1 DEF h
    <2>9. QED
      BY <2>7, <2>8
  <1>9. QED
    BY <1>3, <1>6, <1>7, <1>8 DEF InWindow

LEMMA InvInit == Init => IInv
  BY MaxTimeAssumption DEF Init, IInv, TypeOK, CalendarShape, GrantInWindow, Holders

\* A step that empties child c's reservation and leaves the calendar shaped.
LEMMA ReleaseStep ==
  ASSUME IInv, NEW c \in Children, Shape(slots'),
         res' = [res EXCEPT ![c] = NoReservation],
         grant' = [grant EXCEPT ![c] = NoGrant],
         now' = now,
         NEW s \in {"none", "live"}, chld' = [chld EXCEPT ![c] = s]
  PROVE  IInv'
  BY NoReservationDistinct
     DEF IInv, TypeOK, CalendarShape, GrantInWindow, Holders, Shape

LEMMA InvNext == IInv /\ [Next]_vars => IInv'
  <1> SUFFICES ASSUME IInv, [Next]_vars PROVE IInv'
    OBVIOUS
  <1>1. TypeOK /\ CalendarShape /\ GrantInWindow /\ Shape(slots)
    BY ShapeIsInvariant DEF IInv
  <1>2. CASE Tick
    BY <1>1, <1>2, MaxTimeAssumption
       DEF Tick, IInv, TypeOK, CalendarShape, GrantInWindow, Holders
  <1>3. ASSUME NEW c \in Children, AllocChldState(c) PROVE IInv'
    BY <1>1, <1>3
       DEF AllocChldState, IInv, TypeOK, CalendarShape, GrantInWindow, Holders
  <1>4. ASSUME NEW c \in Children PROVE Shape(Others(c))
    BY <1>1, ResRemoveShape DEF Others
  <1>5. ASSUME NEW c \in Children, DemandFails(c) PROVE IInv'
    <2>1. chld' = [chld EXCEPT ![c] = "live"]
      BY <1>1, <1>5 DEF DemandFails, TypeOK
    <2>2. QED
      BY <1>1, <1>4, <1>5, <2>1, ReleaseStep DEF DemandFails
  <1>6. ASSUME NEW c \in Children, FreeChldState(c) PROVE IInv'
    BY <1>1, <1>4, <1>6, ReleaseStep DEF FreeChldState
  <1>7. ASSUME NEW c \in Children, Complete(c) PROVE IInv'
    <2>1. Shape(slots')
      BY <1>1, <1>7, ResRemoveShape DEF Complete
    <2>2. chld' = [chld EXCEPT ![c] = "live"]
      BY <1>1, <1>7 DEF Complete, TypeOK
    <2>3. QED
      BY <1>7, <2>1, <2>2, ReleaseStep DEF Complete
  <1>8. ASSUME NEW c \in Children, NEW q \in Requests, DemandDenied(c, q)
        PROVE  IInv'
    <2>1. Shape(slots')
      BY <1>4, <1>8, ResRemoveShape DEF DemandDenied
    <2>2. chld' = [chld EXCEPT ![c] = "live"]
      BY <1>1, <1>8 DEF DemandDenied, MayDemand, TypeOK
    <2>3. QED
      BY <1>8, <2>1, <2>2, ReleaseStep DEF DemandDenied
  <1>9. ASSUME NEW c \in Children, NEW q \in Requests, DemandGranted(c, q)
        PROVE  IInv'
    <2>1. PICK t \in CandidateStarts(Others(c), ToolOf(c, q), q) :
            /\ IsFoundStart(Others(c), c, ToolOf(c, q), q, t)
            /\ ~TooLate(now, c, q, t)
            /\ res' = [res EXCEPT ![c] = ReservationAt(ToolOf(c, q), q, t)]
            /\ slots' = Book(Others(c), ReservationAt(ToolOf(c, q), q, t))
      BY <1>9 DEF DemandGranted
    <2> DEFINE r == ReservationAt(ToolOf(c, q), q, t)
    <2>2. r \in Reservation /\ Shape(slots') /\ InWindow(r, now, c, q)
      BY <1>1, <2>1, GrantedStep
    <2> HIDE DEF r
    <2>3. /\ res' = [res EXCEPT ![c] = r] /\ chld[c] = "live"
          /\ grant' = [grant EXCEPT ![c] = [req |-> q, at |-> now]]
          /\ now' = now /\ chld' = chld
      BY <1>9, <2>1 DEF DemandGranted, MayDemand, r
    <2>4. TypeOK'
      BY <1>1, <2>2, <2>3, NoReservationDistinct DEF TypeOK, Shape, Holders, Ticks, NoGrant
    <2>5. CalendarShape'
      BY <2>2 DEF Shape, CalendarShape
    <2>6. GrantInWindow'
      <3> SUFFICES ASSUME NEW d \in Children, res'[d] # NoReservation
                   PROVE  InWindow(res'[d], grant'[d].at, d, grant'[d].req)
        BY DEF GrantInWindow, InWindow, Holders
      <3>1. CASE d = c
        BY <1>1, <2>2, <2>3, <3>1 DEF TypeOK
      <3>2. CASE d # c
        BY <1>1, <2>3, <3>2 DEF TypeOK, GrantInWindow, InWindow, Holders
      <3>3. QED
        BY <3>1, <3>2
    <2>7. QED
      BY <2>4, <2>5, <2>6 DEF IInv
  <1>10. CASE UNCHANGED vars
    BY <1>1, <1>10 DEF vars, IInv, TypeOK, CalendarShape, GrantInWindow, Holders
  <1>11. QED
    BY <1>2, <1>3, <1>5, <1>6, <1>7, <1>8, <1>9, <1>10 DEF Next

\* bwctld's calendar keeps its types.
THEOREM TypeCorrect == Spec => []TypeOK
  <1>1. IInv => TypeOK
    BY DEF IInv
  <1>2. QED
    BY <1>1, InvInit, InvNext, PTL DEF Spec

\* Bookings, splits and releases keep the slots a partition with between 1 and
\* max_reservations users each, for every workload and any number of children.
THEOREM ShapeCorrect == Spec => []CalendarShape
  <1>1. IInv => CalendarShape
    BY DEF IInv
  <1>2. QED
    BY <1>1, InvInit, InvNext, PTL DEF Spec

\* ChldReservationDemand grants no reservation outside the request's window.
THEOREM WindowCorrect == Spec => []GrantInWindow
  <1>1. IInv => GrantInWindow
    BY DEF IInv
  <1>2. QED
    BY <1>1, InvInit, InvNext, PTL DEF Spec

-----------------------------------------------------------------------------
(* The search misses nothing. *)

\* A reservation that starts later covers no earlier second, and ends later.
LEMMA LaterReservation ==
  ASSUME NEW tool \in TestTypes, NEW q \in Requests,
         NEW t \in Nat, NEW u \in Nat, t <= u
  PROVE  /\ ResStart(ReservationAt(tool, q, t)) = BWLNum64ToTimestamp(t)
         /\ ResStart(ReservationAt(tool, q, u)) = BWLNum64ToTimestamp(u)
         /\ ResEnd(ReservationAt(tool, q, t)) \in Nat
         /\ ResEnd(ReservationAt(tool, q, u)) \in Nat
         /\ ResEnd(ReservationAt(tool, q, t)) <= ResEnd(ReservationAt(tool, q, u))
  <1>1. q \in Request /\ q.fuzz \in Nat /\ q.duration * TicksPerSecond \in Nat
    BY RequestsAssumption, TicksAssumption DEF Request, Ticks
  <1> DEFINE len == q.fuzz + q.duration * TicksPerSecond + q.fuzz
  <1>2. /\ len \in Nat
        /\ ReservationAt(tool, q, t).end = t + len
        /\ ReservationAt(tool, q, u).end = u + len
    BY <1>1 DEF ReservationAt
  <1> HIDE DEF len
  <1>3. BWLNum64ToTimestamp(t + len) <= BWLNum64ToTimestamp(u + len)
    BY <1>2, SecondsMonotone
  <1>4. QED
    BY <1>2, <1>3, SecondsType DEF ResStart, ResEnd, ReservationAt

\* A set of naturals that is not empty has a smallest member.
LEMMA LeastNat ==
  ASSUME NEW D, D \subseteq Nat, D # {}
  PROVE  \E k \in D : \A j \in D : k <= j
  <1>1. PICK k \in D : \A j \in D : ~(<<j, k>> \in OpToRel(<, Nat))
    BY WFMin, NatLessThanWellFounded, Zenon
  <1>2. \A j \in D : ~(j < k)
    BY <1>1 DEF OpToRel
  <1>3. QED
    BY <1>2

\* No start between the first and the one found fits: the last candidate
\* before such a start would be blocked by a slot that blocks it too.
LEMMA SearchComplete ==
  ASSUME now \in 0..MaxTime, NEW S, Shape(S), NEW c, NEW tool \in TestTypes,
         NEW q \in Requests, NEW t, IsFoundStart(S, c, tool, q, t),
         NEW u \in Nat, FirstStart(now, q) <= u, u < t
  PROVE  ~Fits(S, tool, q, u)
  <1> DEFINE C == CandidateStarts(S, tool, q)
             D == {k \in Nat : u - k \in C}
  <1>1. FirstStart(now, q) \in Nat /\ FirstStart(now, q) \in C
    BY FirstStartType DEF CandidateStarts
  <1>2. \A x \in C : x \in Nat /\ x >= FirstStart(now, q)
    BY CandidatesType
  <1>3. u - FirstStart(now, q) \in D
    BY <1>1
  <1>4. PICK k \in D : \A j \in D : k <= j
    <2>1. D \subseteq Nat /\ D # {}
      BY <1>3
    <2> HIDE DEF D
    <2>2. QED
      BY <2>1, LeastNat
  <1> DEFINE v == u - k
  <1>5. v \in C /\ v \in Nat /\ v <= u /\ FirstStart(now, q) <= v
    BY <1>2, <1>4
  <1>6. \A x \in C : x <= u => x <= v
    <2> SUFFICES ASSUME NEW x \in C, x <= u PROVE x <= v
      OBVIOUS
    <2>1. u - x \in D
      BY <1>2
    <2>2. QED
      BY <1>2, <1>4, <2>1
  <1> HIDE DEF C, D, v
  <1>7. t \in Nat /\ v < t
    BY <1>2, <1>5 DEF C, IsFoundStart
  <1>8. ~Fits(S, tool, q, v)
    BY <1>5, <1>7 DEF C, IsFoundStart
  <1>9. PICK s \in S : /\ TimeSlotHasReservation(s, ReservationAt(tool, q, v))
                       /\ ~ReservationCanUseSlot(tool, s)
    BY <1>8 DEF Fits
  <1>10. /\ s.start \in Nat /\ s.end \in Nat
         /\ s.start <= ResEnd(ReservationAt(tool, q, v))
         /\ BWLNum64ToTimestamp(v) <= s.end
    BY <1>5, <1>9, LaterReservation DEF Shape, Slot, TimeSlotHasReservation, Overlaps
  <1>11. BWLNum64ToTimestamp(FirstStart(now, q)) <= s.end
    BY <1>1, <1>5, <1>10, SecondsMonotone, SecondsType
  <1>12. BWLTimestampToNum64(s.end + 1) \in C
    BY <1>9, <1>10, <1>11, SecondsType DEF C, CandidateStarts
  <1>13. BWLTimestampToNum64(s.end + 1) > v
    BY <1>5, <1>10, TicksAssumption DEF BWLTimestampToNum64, BWLNum64ToTimestamp
  <1>14. BWLTimestampToNum64(s.end + 1) > u
    <2> DEFINE e == BWLTimestampToNum64(s.end + 1)
    <2>1. e \in Nat /\ e \in C /\ e > v
      BY <1>2, <1>12, <1>13
    <2> HIDE DEF e
    <2>2. e > u
      BY <2>1, <1>5, <1>6
    <2>3. QED
      BY <2>2 DEF e
  <1>15. BWLNum64ToTimestamp(u) <= s.end
    BY <1>10, <1>14, SecondsOfTicks, SecondsType
  <1>16. TimeSlotHasReservation(s, ReservationAt(tool, q, u))
    BY <1>5, <1>10, <1>15, LaterReservation DEF TimeSlotHasReservation, Overlaps
  <1>17. QED
    BY <1>9, <1>16 DEF Fits

\* ChldReservationDemand's search is complete: it grants the earliest start at
\* which the test fits.
THEOREM EarliestCorrect == Spec => NothingEarlierFits
  <1> DEFINE Step ==
        \A c \in Children :
          res'[c] # res[c] /\ res'[c] # NoReservation =>
            LET q == grant'[c].req IN
            \A u \in FirstStart(now, q)..(res'[c].start - 1) :
               ~Fits(Others(c), ToolOf(c, q), q, u)
  <1>1. IInv /\ [Next]_vars => [Step]_vars
    <2> SUFFICES ASSUME IInv, Next, NEW c \in Children,
                        res'[c] # res[c], res'[c] # NoReservation,
                        NEW u \in FirstStart(now, grant'[c].req)..(res'[c].start - 1)
                 PROVE  ~Fits(Others(c), ToolOf(c, grant'[c].req), grant'[c].req, u)
      OBVIOUS
    <2>1. TypeOK /\ CalendarShape
      BY DEF IInv
    <2>2. \A d \in Children : ~(AllocChldState(d) \/ DemandFails(d) \/ Complete(d)
                                 \/ FreeChldState(d) \/ Tick)
      BY <2>1 DEF AllocChldState, DemandFails, Complete, FreeChldState, Tick, TypeOK
    <2>3. \A d \in Children : \A q \in Requests : ~DemandDenied(d, q)
      BY <2>1 DEF DemandDenied, TypeOK
    <2>4. PICK d \in Children : \E q \in Requests : DemandGranted(d, q)
      BY <2>2, <2>3 DEF Next
    <2>5. PICK q \in Requests : DemandGranted(d, q)
      BY <2>4
    <2>6. d = c
      BY <2>1, <2>5 DEF DemandGranted, TypeOK
    <2>7. grant'[c].req = q
      BY <2>1, <2>5, <2>6 DEF DemandGranted, TypeOK
    <2>8. PICK t \in CandidateStarts(Others(c), ToolOf(c, q), q) :
            /\ IsFoundStart(Others(c), c, ToolOf(c, q), q, t)
            /\ res'[c] = ReservationAt(ToolOf(c, q), q, t)
      BY <2>1, <2>5, <2>6 DEF DemandGranted, TypeOK
    <2>9. /\ Shape(Others(c)) /\ ToolOf(c, q) \in TestTypes /\ now \in 0..MaxTime
      BY <2>1, DemandContext DEF TypeOK
    <2>10. t \in Nat /\ res'[c].start = t
      BY <2>8, <2>9, CandidatesType DEF ReservationAt
    <2>11. u \in Nat /\ FirstStart(now, q) <= u /\ u < t
      BY <2>7, <2>9, <2>10, FirstStartType
    <2>12. QED
      BY <2>7, <2>8, <2>9, <2>11, SearchComplete
  <1>2. QED
    BY <1>1, InvInit, InvNext, PTL DEF Spec, NothingEarlierFits

-----------------------------------------------------------------------------
(***************************************************************************)
(* A calendar that loses nothing.  Three kinds of step make the slots      *)
(* forget what is booked: a refused demand that releases a reservation     *)
(* never inserted, a split that drops the type of a slot, and a booking    *)
(* over slots with a gap between them, which stays a gap.  With any        *)
(* requests at all, the calendar keeps its promises until the first such   *)
(* step.                                                                   *)
(***************************************************************************)

\* Second sec is in slot s; in some slot of S.
In(sec, s) == s.start <= sec /\ sec <= s.end
Taken(S, sec) == \E s \in S : In(sec, s)

\* Booking r splits no slot of S so that a part with users of it loses its type.
KeepsTypes(S, r) ==
  \A s \in Touched(S, r) : s.type # "SLOT_ANY" =>
    /\ s.end <= ResEnd(r)
    /\ s.start < ResStart(r) => SlotTypeAfter("SLOT_ANY", r.tool) = s.type

\* The slots of S that r touches have no free second between them.
NoGap(S, r) ==
  \A x, y \in Touched(S, r) : \A sec \in x.end..y.start : Taken(S, sec)

LosesNothing ==
  \A c \in Children : \A q \in Requests :
    /\ DemandDenied(c, q) => slots' = Others(c)
    /\ DemandGranted(c, q) =>
         KeepsTypes(Others(c), res'[c]) /\ NoGap(Others(c), res'[c])

\* The children whose reservations in R have seconds in slot s.
Users(s, R) ==
  {d \in Children : R[d] # NoReservation /\ TimeSlotHasReservation(s, R[d])}

\* A user's reservation has the whole slot, and its kind shows in the type.
Uses(s, r) ==
  /\ ResStart(r) <= s.start /\ s.end <= ResEnd(r)
  /\ r.tool = "throughput" => s.type = "SLOT_BANDWIDTH"
  /\ r.tool = "latency" => s.type = "SLOT_LATENCY"

Clash(r, s) ==
  /\ r.tool = "throughput" /\ s.tool \in {"throughput", "latency"}
  /\ Collide(r, s)

\* The slots of S account for the reservations of R: each counts its users,
\* each second of a reservation is in one, and no two tests clash.
Accounts(S, R) ==
  /\ \A d \in Children : R[d] # NoReservation => ProperReservation(R[d])
  /\ \A s \in S : s.num = Cardinality(Users(s, R))
  /\ \A s \in S : \A d \in Users(s, R) : Uses(s, R[d])
  /\ \A d \in Children : R[d] # NoReservation =>
       \A sec \in ResStart(R[d])..ResEnd(R[d]) : Taken(S, sec)
  /\ \A d, e \in Children :
       d # e /\ R[d] # NoReservation /\ R[e] # NoReservation => ~Clash(R[d], R[e])

LEMMA UsersFinite ==
  ASSUME NEW s, NEW R
  PROVE  IsFiniteSet(Users(s, R))
  BY ChildrenAssumption, FS_Subset DEF Users

\* A second of a reservation in a slot makes its child a user of the slot.
LEMMA SecondOfUser ==
  ASSUME NEW S, Shape(S), NEW s \in S, NEW r, ProperReservation(r),
         NEW sec \in ResStart(r)..ResEnd(r), In(sec, s)
  PROVE  TimeSlotHasReservation(s, r)
  BY DEF Shape, Slot, ProperReservation, TimeSlotHasReservation, Overlaps, In

-----------------------------------------------------------------------------
(* Releasing a reservation. *)

LEMMA AccountsRemove ==
  ASSUME NEW S, Shape(S), NEW R, Accounts(S, R), NEW c \in Children,
         R[c] # NoReservation, NEW Q, Q[c] = NoReservation,
         \A d \in Children \ {c} : Q[d] = R[d]
  PROVE  Accounts(ResRemove(S, R[c]), Q)
  <1> DEFINE Less(s) == [s EXCEPT !.num = s.num - 1]
             New == ResRemove(S, R[c])
             From(v, s) == /\ v.start = s.start /\ v.end = s.end /\ v.type = s.type
                           /\ v.num = IF c \in Users(s, R) THEN s.num - 1 ELSE s.num
  <1>1. \A s \in S : /\ s \in Slot /\ s.num \in Nat /\ s.num # 0
                     /\ s.start \in Nat /\ s.end \in Nat /\ s.start <= s.end
    BY DEF Shape, Slot
  <1>2. \A s \in S : c \in Users(s, R) <=> TimeSlotHasReservation(s, R[c])
    BY DEF Users
  <1>3. \A v \in New : \E s \in S : From(v, s)
    BY <1>1, <1>2 DEF ResRemove, Slot
  <1>4. ASSUME NEW s \in S, c \notin Users(s, R) \/ s.num # 1
        PROVE  \E v \in New : v.start = s.start /\ v.end = s.end
    <2>1. CASE c \notin Users(s, R)
      BY <1>2, <2>1 DEF ResRemove
    <2>2. CASE c \in Users(s, R)
      <3>1. Less(s) \in New
        BY <1>2, <1>4, <2>2 DEF ResRemove
      <3>2. Less(s).start = s.start /\ Less(s).end = s.end
        BY <1>1 DEF Slot
      <3>3. QED
        BY <3>1, <3>2
    <2>3. QED
      BY <2>1, <2>2
  <1> HIDE DEF New
  <1>5. ASSUME NEW v, NEW s \in S, From(v, s)
        PROVE  Users(v, Q) = Users(s, R) \ {c}
    <2>1. \A r : TimeSlotHasReservation(v, r) <=> TimeSlotHasReservation(s, r)
      BY <1>5 DEF TimeSlotHasReservation, Overlaps
    <2>2. QED
      BY <2>1 DEF Users
  <1>6. ASSUME NEW d \in Children, Q[d] # NoReservation
        PROVE  d # c /\ Q[d] = R[d] /\ R[d] # NoReservation /\ ProperReservation(R[d])
    BY <1>6 DEF Accounts
  <1>7. ASSUME NEW v \in New PROVE v.num = Cardinality(Users(v, Q))
    <2>1. PICK s \in S : From(v, s)
      BY <1>3
    <2>2. s.num = Cardinality(Users(s, R)) /\ IsFiniteSet(Users(s, R))
      BY UsersFinite DEF Accounts
    <2>3. Users(v, Q) = Users(s, R) \ {c}
      BY <1>5, <2>1
    <2>4. Cardinality(Users(s, R) \ {c})
            = IF c \in Users(s, R) THEN Cardinality(Users(s, R)) - 1
                                   ELSE Cardinality(Users(s, R))
      BY <2>2, FS_RemoveElement
    <2>5. QED
      BY <2>1, <2>2, <2>3, <2>4
  <1>8. ASSUME NEW v \in New, NEW d \in Users(v, Q) PROVE Uses(v, Q[d])
    <2>1. PICK s \in S : From(v, s)
      BY <1>3
    <2>2. d \in Users(s, R) /\ Q[d] = R[d]
      BY <1>5, <1>6, <1>8, <2>1 DEF Users
    <2>3. QED
      BY <2>1, <2>2 DEF Accounts, Uses
  <1>9. ASSUME NEW d \in Children, Q[d] # NoReservation,
               NEW sec \in ResStart(Q[d])..ResEnd(Q[d])
        PROVE  Taken(New, sec)
    <2>1. PICK s \in S : In(sec, s)
      BY <1>6, <1>9 DEF Accounts, Taken
    <2>2. d \in Users(s, R)
      BY <1>6, <1>9, <2>1, SecondOfUser DEF Users
    <2>3. c \notin Users(s, R) \/ s.num # 1
      <3>1. s.num = Cardinality(Users(s, R)) /\ IsFiniteSet(Users(s, R))
        BY UsersFinite DEF Accounts
      <3>2. CASE c \in Users(s, R)
        <4>1. /\ Cardinality(Users(s, R) \ {c}) = Cardinality(Users(s, R)) - 1
              /\ IsFiniteSet(Users(s, R) \ {c})
          BY <3>1, <3>2, FS_RemoveElement
        <4>2. d \in Users(s, R) \ {c}
          BY <1>6, <1>9, <2>2
        <4>3. Cardinality(Users(s, R) \ {c}) # 0
          BY <4>1, <4>2, FS_EmptySet
        <4>4. QED
          BY <1>1, <3>1, <4>1, <4>3
      <3>3. QED
        BY <3>2
    <2>4. PICK v \in New : v.start = s.start /\ v.end = s.end
      BY <1>4, <2>3
    <2>5. QED
      BY <2>1, <2>4 DEF Taken, In
  <1>10. ASSUME NEW d \in Children, NEW e \in Children, d # e,
                Q[d] # NoReservation, Q[e] # NoReservation
         PROVE  ~Clash(Q[d], Q[e])
    BY <1>6, <1>10 DEF Accounts
  <1>11. QED
    BY <1>6, <1>7, <1>8, <1>9, <1>10 DEF Accounts, New

-----------------------------------------------------------------------------
(* Booking a reservation. *)

\* The type a slot has in the booked calendar, by where it comes from.
LEMMA PartTypesAfter ==
  ASSUME NEW S, Shape(S), NEW r, ProperReservation(r), NEW s \in Touched(S, r)
  PROVE  /\ SplitBefore(s, ResStart(r)).type = s.type
         /\ SplitBefore(s, ResStart(r)).num = s.num
         /\ SplitFrom(s, ResEnd(r) + 1).type = "SLOT_ANY"
         /\ SplitFrom(s, ResEnd(r) + 1).num = s.num
         /\ SharedPart(s, r).num = s.num + 1
         /\ SharedPart(s, r).type =
              SlotTypeAfter(IF s.start < ResStart(r) THEN "SLOT_ANY" ELSE s.type, r.tool)
  <1>1. s \in Slot
    BY DEF Touched, Shape
  <1> DEFINE tail == IF s.start < ResStart(r) THEN SplitFrom(s, ResStart(r)) ELSE s
             both == IF s.end > ResEnd(r) THEN SplitBefore(tail, ResEnd(r) + 1)
                                          ELSE tail
  <1>2. /\ tail.num = s.num
        /\ tail.type = IF s.start < ResStart(r) THEN "SLOT_ANY" ELSE s.type
        /\ \E a, b, m, n : tail = [type |-> a, start |-> b, end |-> m, num |-> n]
    BY <1>1 DEF SplitFrom, Slot
  <1> HIDE DEF tail
  <1>3. both.num = tail.num /\ both.type = tail.type
    BY <1>2 DEF SplitBefore
  <1>4. SharedPart(s, r) = TimeSlotAddReservation(both, r.tool)
    BY DEF SharedPart, tail
  <1> HIDE DEF both
  <1>5. QED
    BY <1>1, <1>2, <1>3, <1>4 DEF TimeSlotAddReservation, SplitBefore, SplitFrom, Slot

\* The parts of a slot have the users it had.
LEMMA PartUsers ==
  ASSUME NEW S, Shape(S), NEW R, Accounts(S, R), NEW s \in S,
         NEW v, v.start \in Nat, v.end \in Nat,
         s.start <= v.start, v.start <= v.end, v.end <= s.end, NEW d \in Children
  PROVE  d \in Users(v, R) <=> d \in Users(s, R)
  <1>1. s.start \in Nat /\ s.end \in Nat
    BY DEF Shape, Slot
  <1>2. CASE R[d] = NoReservation
    BY <1>2 DEF Users
  <1>3. CASE R[d] # NoReservation
    <2>1. ResStart(R[d]) \in Nat /\ ResEnd(R[d]) \in Nat
      BY <1>3 DEF Accounts, ProperReservation
    <2>2. d \in Users(s, R) =>
            ResStart(R[d]) <= s.start /\ s.end <= ResEnd(R[d])
      BY DEF Accounts, Uses
    <2>3. d \in Users(s, R) <=> s.start <= ResEnd(R[d]) /\ ResStart(R[d]) <= s.end
      BY <1>3 DEF Users, TimeSlotHasReservation, Overlaps
    <2>4. d \in Users(v, R) <=> v.start <= ResEnd(R[d]) /\ ResStart(R[d]) <= v.end
      BY <1>3 DEF Users, TimeSlotHasReservation, Overlaps
    <2>5. QED
      BY <1>1, <2>1, <2>2, <2>3, <2>4
  <1>4. QED
    BY <1>2, <1>3

\* A slot where there was none has no users.
LEMMA FreshUsers ==
  ASSUME NEW S, Shape(S), NEW R, Accounts(S, R),
         NEW v, v.start \in Nat, v.end \in Nat, v.start <= v.end,
         \A s \in S : v.end < s.start \/ s.end < v.start
  PROVE  Users(v, R) = {}
  <1> SUFFICES ASSUME NEW d \in Users(v, R) PROVE FALSE
    OBVIOUS
  <1> DEFINE sec == IF ResStart(R[d]) <= v.start THEN v.start ELSE ResStart(R[d])
  <1>1. /\ d \in Children /\ R[d] # NoReservation /\ ProperReservation(R[d])
        /\ v.start <= ResEnd(R[d]) /\ ResStart(R[d]) <= v.end
    BY DEF Users, Accounts, TimeSlotHasReservation, Overlaps
  <1>2. sec \in ResStart(R[d])..ResEnd(R[d]) /\ v.start <= sec /\ sec <= v.end
    BY <1>1 DEF ProperReservation
  <1> HIDE DEF sec
  <1>3. PICK s \in S : In(sec, s)
    BY <1>1, <1>2 DEF Accounts, Taken
  <1>4. s.start \in Nat /\ s.end \in Nat /\ sec \in Int
    BY <1>1, <1>2 DEF Shape, Slot, ProperReservation
  <1>5. QED
    BY <1>2, <1>3, <1>4 DEF In

\* The new user of the slots it touches comes on top of those in R.
LEMMA NewUsers ==
  ASSUME NEW R, NEW c \in Children, R[c] = NoReservation, NEW r, r # NoReservation,
         NEW Q, Q[c] = r, \A d \in Children \ {c} : Q[d] = R[d], NEW v
  PROVE  /\ c \notin Users(v, R)
         /\ Users(v, Q) = Users(v, R) \cup
                            (IF TimeSlotHasReservation(v, r) THEN {c} ELSE {})
         /\ \A d \in Users(v, R) : Q[d] = R[d]
         /\ Cardinality(Users(v, Q)) =
              Cardinality(Users(v, R)) + (IF TimeSlotHasReservation(v, r) THEN 1 ELSE 0)
  <1>1. c \notin Users(v, R)
    BY DEF Users
  <1>2. Users(v, Q) = Users(v, R) \cup
                        (IF TimeSlotHasReservation(v, r) THEN {c} ELSE {})
    BY DEF Users
  <1>3. IsFiniteSet(Users(v, R))
    BY UsersFinite
  <1>4. Cardinality(Users(v, R) \cup {c}) = Cardinality(Users(v, R)) + 1
    BY <1>1, <1>3, FS_AddElement
  <1>5. Cardinality(Users(v, R)) \in Nat
    BY <1>3, FS_CardinalityType
  <1>6. \A d \in Users(v, R) : Q[d] = R[d]
    BY <1>1 DEF Users
  <1>7. CASE TimeSlotHasReservation(v, r)
    BY <1>1, <1>2, <1>4, <1>6, <1>7
  <1>8. CASE ~TimeSlotHasReservation(v, r)
    <2>1. Users(v, Q) = Users(v, R)
      BY <1>2, <1>8
    <2>2. QED
      BY <1>1, <1>2, <1>5, <1>6, <1>8, <2>1
  <1>9. QED
    BY <1>7, <1>8

\* What one slot of the booked calendar must be: it counts its users, and
\* they use it.
Fair(v, Q) ==
  v.num = Cardinality(Users(v, Q)) /\ \A d \in Users(v, Q) : Uses(v, Q[d])

LEMMA BookFair ==
  ASSUME NEW S, Shape(S), NEW R, Accounts(S, R),
         NEW c \in Children, R[c] = NoReservation,
         NEW r, ProperReservation(r), KeepsTypes(S, r),
         \A s \in Touched(S, r) : ReservationCanUseSlot(r.tool, s),
         NEW Q, Q[c] = r, \A d \in Children \ {c} : Q[d] = R[d],
         NEW v \in Book(S, r)
  PROVE  Fair(v, Q)
  <1>1. Bookable(S, r)
    BY DEF Bookable, ReservationCanUseSlot
  <1>2. /\ v \in Slot /\ v.start \in Nat /\ v.end \in Nat /\ v.start <= v.end
        /\ (\E s \in S : PartOf(S, r, v, s)) \/ Fresh(S, r, v)
    BY <1>1, BookParts
  <1>3. r # NoReservation /\ r.tool \in TestTypes
    BY NoReservationDistinct DEF ProperReservation, Reservation
  <1>4. ResStart(r) \in Nat /\ ResEnd(r) \in Nat /\ ResStart(r) < ResEnd(r)
    BY DEF ProperReservation
  <1>5. \A s \in S : s.start \in Nat /\ s.end \in Nat /\ s.num \in Nat /\ s.type \in SlotTypes
    BY DEF Shape, Slot
  <1>6. /\ Users(v, Q) = Users(v, R) \cup
                           (IF TimeSlotHasReservation(v, r) THEN {c} ELSE {})
        /\ \A d \in Users(v, R) : Q[d] = R[d]
        /\ Cardinality(Users(v, Q)) =
             Cardinality(Users(v, R)) + (IF TimeSlotHasReservation(v, r) THEN 1 ELSE 0)
    BY <1>3, NewUsers
  <1>7. TimeSlotHasReservation(v, r) <=> v.start <= ResEnd(r) /\ ResStart(r) <= v.end
    BY DEF TimeSlotHasReservation, Overlaps
  <1>8. ASSUME NEW s \in S, PartOf(S, r, v, s) PROVE Fair(v, Q)
    <2>1. Users(v, R) = Users(s, R)
      <3>1. \A d \in Children : d \in Users(v, R) <=> d \in Users(s, R)
        BY <1>2, <1>8, PartUsers DEF PartOf
      <3>2. QED
        BY <3>1 DEF Users
    <2>2. /\ s.num = Cardinality(Users(v, R))
          /\ \A d \in Users(v, R) : Uses(s, R[d])
      BY <2>1 DEF Accounts
    <2>3. CASE ~TimeSlotHasReservation(v, r) /\ v.num = s.num /\ v.type = s.type
      <3>1. Users(v, Q) = Users(v, R) /\ v.num = Cardinality(Users(v, Q))
        BY <1>5, <1>6, <2>2, <2>3
      <3>2. ASSUME NEW d \in Users(v, Q) PROVE Uses(v, Q[d])
        <4>1. Uses(s, R[d]) /\ Q[d] = R[d]
          BY <1>6, <2>2, <3>1
        <4>2. R[d] # NoReservation /\ d \in Children
          BY <3>1 DEF Users
        <4>3. ResStart(R[d]) \in Nat /\ ResEnd(R[d]) \in Nat
          BY <4>2 DEF Accounts, ProperReservation
        <4>4. QED
          BY <1>2, <1>5, <1>8, <2>3, <4>1, <4>3 DEF Uses, PartOf
      <3>3. QED
        BY <3>1, <3>2 DEF Fair
    <2>4. CASE v = s /\ ~TimeSlotHasReservation(s, r)
      BY <2>3, <2>4
    <2>5. CASE PartBefore(S, r, v, s)
      <3>1. /\ v.num = s.num /\ v.type = s.type /\ v.end = ResStart(r) - 1
        BY <1>1, <2>5, PartTypes, PartTypesAfter DEF PartBefore
      <3>2. ~TimeSlotHasReservation(v, r)
        BY <1>4, <1>7, <3>1
      <3>3. QED
        BY <2>3, <3>1, <3>2
    <2>6. CASE PartAfter(S, r, v, s)
      <3>1. /\ v.num = s.num /\ v.type = "SLOT_ANY" /\ v.start = ResEnd(r) + 1
            /\ s \in Touched(S, r) /\ s.end > ResEnd(r)
        BY <1>1, <2>6, PartTypes, PartTypesAfter DEF PartAfter
      <3>2. ~TimeSlotHasReservation(v, r)
        BY <1>4, <1>7, <3>1
      <3>3. s.type = "SLOT_ANY"
        BY <1>4, <1>5, <3>1 DEF KeepsTypes
      <3>4. QED
        BY <2>3, <3>1, <3>2, <3>3
    <2>7. CASE PartInside(S, r, v, s)
      <3>1. /\ s \in Touched(S, r) /\ v.num = s.num + 1
            /\ v.type = SlotTypeAfter(IF s.start < ResStart(r) THEN "SLOT_ANY"
                                                               ELSE s.type, r.tool)
            /\ v.start = IF s.start < ResStart(r) THEN ResStart(r) ELSE s.start
            /\ v.end = IF s.end < ResEnd(r) THEN s.end ELSE ResEnd(r)
            /\ s.start <= ResEnd(r) /\ ResStart(r) <= s.end
        BY <1>1, <2>7, PartTypes, PartTypesAfter DEF PartInside
      <3>2. TimeSlotHasReservation(v, r)
        BY <1>4, <1>5, <1>7, <3>1
      <3>3. v.num = Cardinality(Users(v, Q))
        BY <1>6, <2>2, <3>1, <3>2
      <3>4. Uses(v, r)
        BY <1>3, <1>4, <1>5, <3>1 DEF Uses, SlotTypeAfter, TestTypes
      <3>5. ASSUME NEW d \in Users(v, R) PROVE Uses(v, R[d])
        <4>1. Uses(s, R[d])
          BY <2>2
        <4>2. R[d] # NoReservation /\ d \in Children
          BY DEF Users
        <4>3. ResStart(R[d]) \in Nat /\ ResEnd(R[d]) \in Nat
          BY <4>2 DEF Accounts, ProperReservation
        <4>4. ResStart(R[d]) <= v.start /\ v.end <= ResEnd(R[d])
          BY <1>4, <1>5, <3>1, <4>1, <4>3 DEF Uses
        <4>5. s.type # "SLOT_ANY" => v.type = s.type
          <5>1. CASE s.start < ResStart(r)
            BY <3>1, <5>1 DEF KeepsTypes
          <5>2. CASE ~(s.start < ResStart(r))
            <6>1. ReservationCanUseSlot(r.tool, s)
              BY <3>1
            <6>2. QED
              BY <1>3, <1>5, <3>1, <5>2, <6>1
                 DEF ReservationCanUseSlot, SlotTypeAfter, SlotTypes
          <5>3. QED
            BY <5>1, <5>2
        <4>6. QED
          BY <4>1, <4>4, <4>5 DEF Uses
      <3>6. QED
        BY <1>6, <3>2, <3>3, <3>4, <3>5 DEF Fair
    <2>8. QED
      BY <1>8, <2>4, <2>5, <2>6, <2>7 DEF PartOf
  <1>9. CASE Fresh(S, r, v)
    <2>1. Users(v, R) = {}
      BY <1>2, <1>9, FreshUsers DEF Fresh
    <2>2. /\ v.num = 1 /\ v.type = SlotTypeAfter("SLOT_ANY", r.tool)
          /\ ResStart(r) <= v.start /\ v.end <= ResEnd(r)
      <3>1. ASSUME NEW s \in S, HeadSlot(S, r, v, s) \/ TailSlot(S, r, v, s)
            PROVE  /\ v.num = 1 /\ v.type = SlotTypeAfter("SLOT_ANY", r.tool)
                   /\ ResStart(r) <= v.start /\ v.end <= ResEnd(r)
        BY <1>1, <1>4, <1>5, <3>1, PartTypes
           DEF HeadSlot, TailSlot, TimeSlotCreate, TimeSlotAddReservation
      <3>2. CASE Alone(S, r, v)
        BY <1>4, <3>2 DEF Alone, TimeSlotCreate, TimeSlotAddReservation
      <3>3. QED
        BY <1>9, <3>1, <3>2 DEF Fresh
    <2>3. TimeSlotHasReservation(v, r)
      BY <1>2, <1>4, <1>7, <2>2
    <2>4. Users(v, Q) = {c} /\ v.num = Cardinality(Users(v, Q))
      BY <1>6, <2>1, <2>2, <2>3, FS_EmptySet
    <2>5. Uses(v, r)
      BY <1>3, <2>2 DEF Uses, SlotTypeAfter, TestTypes
    <2>6. QED
      BY <2>4, <2>5 DEF Fair
  <1>10. QED
    BY <1>2, <1>8, <1>9

\* No second that was in a slot is lost by booking.
LEMMA BookKeeps ==
  ASSUME NEW S, Shape(S), NEW r, ProperReservation(r), Bookable(S, r),
         NEW sec \in Nat, Taken(S, sec)
  PROVE  Taken(Book(S, r), sec)
  <1>1. PICK s \in S : In(sec, s)
    BY DEF Taken
  <1>2. CASE s \notin Touched(S, r)
    BY <1>1, <1>2 DEF Book, Taken
  <1>3. CASE s \in Touched(S, r)
    <2>1. SharedPart(s, r) \in Book(S, r)
      BY <1>3 DEF Book
    <2>2. s.start < ResStart(r) => SplitBefore(s, ResStart(r)) \in Book(S, r)
      BY <1>3 DEF Book
    <2>3. s.end > ResEnd(r) => SplitFrom(s, ResEnd(r) + 1) \in Book(S, r)
      BY <1>3 DEF Book
    <2>4. /\ s.start \in Nat /\ s.end \in Nat /\ s.start <= sec /\ sec <= s.end
          /\ ResStart(r) \in Nat /\ ResEnd(r) \in Nat
      BY <1>1 DEF Shape, Slot, ProperReservation, In
    <2>5. CASE sec < ResStart(r)
      <3>1. In(sec, SplitBefore(s, ResStart(r)))
        BY <1>3, <2>4, <2>5, PartTypes DEF In
      <3>2. QED
        BY <2>2, <2>4, <2>5, <3>1 DEF Taken
    <2>6. CASE sec > ResEnd(r)
      <3>1. In(sec, SplitFrom(s, ResEnd(r) + 1))
        BY <1>3, <2>4, <2>6, PartTypes DEF In
      <3>2. QED
        BY <2>3, <2>4, <2>6, <3>1 DEF Taken
    <2>7. CASE ResStart(r) <= sec /\ sec <= ResEnd(r)
      <3>1. In(sec, SharedPart(s, r))
        BY <1>3, <2>4, <2>7, PartTypes DEF In
      <3>2. QED
        BY <2>1, <3>1 DEF Taken
    <2>8. QED
      BY <2>4, <2>5, <2>6, <2>7
  <1>4. QED
    BY <1>2, <1>3

\* Every second of the booked reservation is in a slot: in one it touches, in
\* the new slot before them or in the one after them.
LEMMA BookCovers ==
  ASSUME NEW S, Shape(S), NEW r, ProperReservation(r), Bookable(S, r), NoGap(S, r),
         NEW sec \in ResStart(r)..ResEnd(r)
  PROVE  Taken(Book(S, r), sec)
  <1> DEFINE T == Touched(S, r)
  <1>1. ResStart(r) \in Nat /\ ResEnd(r) \in Nat /\ sec \in Nat
    BY DEF ProperReservation
  <1>2. CASE Taken(S, sec)
    BY <1>1, <1>2, BookKeeps
  <1>3. CASE T = {}
    <2>1. TimeSlotCreate(r.tool, ResStart(r), ResEnd(r)) \in Book(S, r)
      BY <1>3 DEF Book
    <2>2. QED
      BY <1>1, <2>1 DEF Taken, In, TimeSlotCreate, TimeSlotAddReservation
  <1>4. CASE T # {} /\ ~Taken(S, sec)
    <2>1. \A x \in T : /\ x \in S /\ x.start \in Nat /\ x.end \in Nat /\ x.start <= x.end
                       /\ x.end < sec \/ sec < x.start
      BY <1>1, <1>4 DEF Touched, Shape, Slot, Taken, In
    <2>2. \A x, y \in T : ~(x.end < sec /\ sec < y.start)
      <3> SUFFICES ASSUME NEW x \in T, NEW y \in T, x.end < sec, sec < y.start
                   PROVE  FALSE
        OBVIOUS
      <3>1. sec \in x.end..y.start
        BY <1>1, <2>1
      <3>2. QED
        BY <1>4, <3>1 DEF NoGap
    <2>3. CASE \A x \in T : sec < x.start
      <3> DEFINE D == {x.start : x \in T}
      <3>1. D \subseteq Nat /\ D # {}
        BY <1>4, <2>1
      <3> HIDE DEF D
      <3>2. PICK k \in D : \A j \in D : k <= j
        BY <3>1, LeastNat
      <3>3. PICK s \in T : \A y \in T : s.start <= y.start
        BY <3>2 DEF D
      <3>4. ResStart(r) < s.start
        BY <1>1, <2>1, <2>3
      <3>5. TimeSlotCreate(r.tool, ResStart(r), s.start - 1) \in Book(S, r)
        <4>1. s \in {x \in T : \A y \in T : ResStart(r) < x.start /\ x.start <= y.start}
          BY <3>3, <3>4
        <4>2. QED
          BY <4>1 DEF Book
      <3>6. sec <= s.start - 1
        BY <1>1, <2>1, <2>3
      <3>7. QED
        BY <1>1, <3>5, <3>6 DEF Taken, In, TimeSlotCreate, TimeSlotAddReservation
    <2>4. CASE \A x \in T : x.end < sec
      <3> DEFINE D == {ResEnd(r) - x.end : x \in T}
      <3>1. \A x \in T : x.end < ResEnd(r)
        BY <1>1, <2>1, <2>4
      <3>2. D \subseteq Nat /\ D # {}
        BY <1>1, <1>4, <2>1, <3>1
      <3> HIDE DEF D
      <3>3. PICK k \in D : \A j \in D : k <= j
        BY <3>2, LeastNat
      <3>4. PICK s \in T : \A y \in T : ResEnd(r) - s.end <= ResEnd(r) - y.end
        BY <3>3 DEF D
      <3>5. \A y \in T : y.end <= s.end
        BY <1>1, <2>1, <3>4
      <3>6. TimeSlotCreate(r.tool, s.end + 1, ResEnd(r)) \in Book(S, r)
        <4>1. s \in {x \in T : \A y \in T : x.end < ResEnd(r) /\ y.end <= x.end}
          BY <3>1, <3>5
        <4>2. QED
          BY <4>1 DEF Book
      <3>7. s.end + 1 <= sec
        BY <1>1, <2>1, <2>4
      <3>8. QED
        BY <1>1, <3>6, <3>7 DEF Taken, In, TimeSlotCreate, TimeSlotAddReservation
    <2>5. QED
      BY <1>1, <2>1, <2>2, <2>3, <2>4
  <1>5. QED
    BY <1>2, <1>3, <1>4

\* A test that fits the slots its seconds touch clashes with no user of them.
LEMMA NoNewClash ==
  ASSUME NEW S, Shape(S), NEW R, Accounts(S, R), NEW d \in Children,
         R[d] # NoReservation, NEW r, ProperReservation(r),
         \A s \in Touched(S, r) : ReservationCanUseSlot(r.tool, s)
  PROVE  ~Clash(r, R[d]) /\ ~Clash(R[d], r)
  <1> SUFFICES ASSUME Clash(r, R[d]) \/ Clash(R[d], r) PROVE FALSE
    OBVIOUS
  <1>1. ProperReservation(R[d])
    BY DEF Accounts
  <1> DEFINE sec == IF ResStart(r) <= ResStart(R[d]) THEN ResStart(R[d]) ELSE ResStart(r)
  <1>2. sec \in ResStart(r)..ResEnd(r) /\ sec \in ResStart(R[d])..ResEnd(R[d])
    BY <1>1 DEF Clash, Collide, ProperReservation
  <1> HIDE DEF sec
  <1>3. PICK s \in S : In(sec, s)
    BY <1>2 DEF Accounts, Taken
  <1>4. d \in Users(s, R) /\ s \in Touched(S, r)
    BY <1>1, <1>2, <1>3, SecondOfUser DEF Users, Touched
  <1>5. Uses(s, R[d]) /\ ReservationCanUseSlot(r.tool, s)
    BY <1>4 DEF Accounts
  <1>6. QED
    BY <1>5 DEF Uses, Clash, ReservationCanUseSlot

LEMMA AccountsBook ==
  ASSUME NEW S, Shape(S), NEW R, Accounts(S, R),
         NEW c \in Children, R[c] = NoReservation,
         NEW r, ProperReservation(r), KeepsTypes(S, r), NoGap(S, r),
         \A s \in Touched(S, r) : ReservationCanUseSlot(r.tool, s),
         NEW Q, Q[c] = r, \A d \in Children \ {c} : Q[d] = R[d]
  PROVE  Accounts(Book(S, r), Q)
  <1>1. Bookable(S, r)
    BY DEF Bookable, ReservationCanUseSlot
  <1>2. ASSUME NEW d \in Children, Q[d] # NoReservation
        PROVE  ProperReservation(Q[d])
    BY <1>2 DEF Accounts
  <1>3. \A v \in Book(S, r) : Fair(v, Q)
    BY BookFair
  <1>4. ASSUME NEW d \in Children, Q[d] # NoReservation,
               NEW sec \in ResStart(Q[d])..ResEnd(Q[d])
        PROVE  Taken(Book(S, r), sec)
    <2>1. CASE d = c
      BY <1>1, <1>4, <2>1, BookCovers
    <2>2. CASE d # c
      <3>1. sec \in Nat
        BY <1>2, <1>4 DEF ProperReservation
      <3>2. Taken(S, sec)
        BY <1>4, <2>2 DEF Accounts
      <3>3. QED
        BY <1>1, <3>1, <3>2, BookKeeps
    <2>3. QED
      BY <2>1, <2>2
  <1>5. ASSUME NEW d \in Children, NEW e \in Children, d # e,
               Q[d] # NoReservation, Q[e] # NoReservation
        PROVE  ~Clash(Q[d], Q[e])
    <2>1. CASE d = c
      BY <1>5, <2>1, NoNewClash
    <2>2. CASE e = c
      BY <1>5, <2>2, NoNewClash
    <2>3. CASE d # c /\ e # c
      BY <1>5, <2>3 DEF Accounts
    <2>4. QED
      BY <2>1, <2>2, <2>3
  <1>6. QED
    BY <1>2, <1>3, <1>4, <1>5 DEF Accounts, Fair

-----------------------------------------------------------------------------
(* The invariant. *)

\* What a demand of child c starts from: the reservations of the others.
LEMMA AccountsOthers ==
  ASSUME TypeOK, CalendarShape, Accounts(slots, res), NEW c \in Children
  PROVE  /\ Shape(Others(c))
         /\ Accounts(Others(c), [res EXCEPT ![c] = NoReservation])
  <1> DEFINE Q == [res EXCEPT ![c] = NoReservation]
  <1>1. Q[c] = NoReservation /\ \A d \in Children \ {c} : Q[d] = res[d]
    BY DEF TypeOK
  <1>2. Shape(slots)
    BY ShapeIsInvariant
  <1>3. CASE res[c] = NoReservation
    <2>1. Q = res /\ Others(c) = slots
      BY <1>3 DEF TypeOK, Others
    <2>2. QED
      BY <1>2, <2>1
  <1>4. CASE res[c] # NoReservation
    <2>1. Others(c) = ResRemove(slots, res[c])
      BY <1>4 DEF Others
    <2> HIDE DEF Q
    <2>2. Accounts(ResRemove(slots, res[c]), Q)
      BY <1>1, <1>2, <1>4, AccountsRemove
    <2>3. QED
      BY <1>2, <2>1, <2>2, ResRemoveShape DEF Q
  <1>5. QED
    BY <1>3, <1>4

LEMMA AccountsGrant ==
  ASSUME TypeOK, CalendarShape, Accounts(slots, res), LosesNothing,
         NEW c \in Children, NEW q \in Requests, DemandGranted(c, q)
  PROVE  Accounts(slots', res')
  <1>1. PICK t \in CandidateStarts(Others(c), ToolOf(c, q), q) :
          /\ IsFoundStart(Others(c), c, ToolOf(c, q), q, t)
          /\ ~TooLate(now, c, q, t)
          /\ res' = [res EXCEPT ![c] = ReservationAt(ToolOf(c, q), q, t)]
          /\ slots' = Book(Others(c), ReservationAt(ToolOf(c, q), q, t))
    BY DEF DemandGranted
  <1> DEFINE S == Others(c)
             R == [res EXCEPT ![c] = NoReservation]
             r == ReservationAt(ToolOf(c, q), q, t)
  <1>2. Shape(S) /\ Accounts(S, R)
    BY AccountsOthers
  <1>3. ToolOf(c, q) \in TestTypes /\ t \in Nat
    BY <1>1, <1>2, DemandContext, CandidatesType DEF TypeOK
  <1>4. ProperReservation(r) /\ r.tool = ToolOf(c, q)
    BY <1>3, ReservationAtType, SecondsOfReservation
  <1>5. Fits(S, ToolOf(c, q), q, t)
    BY <1>1 DEF IsFoundStart
  <1>6. \A s \in Touched(S, r) : ReservationCanUseSlot(r.tool, s)
    BY <1>4, <1>5 DEF Fits, Touched
  <1>7. /\ R[c] = NoReservation /\ res'[c] = r
        /\ \A d \in Children \ {c} : res'[d] = R[d]
    BY <1>1 DEF TypeOK
  <1>8. KeepsTypes(S, r) /\ NoGap(S, r)
    BY <1>7 DEF LosesNothing
  <1>9. slots' = Book(S, r)
    BY <1>1
  <1> HIDE DEF S, R, r
  <1>10. Accounts(Book(S, r), res')
    BY <1>2, <1>4, <1>6, <1>7, <1>8, AccountsBook
  <1>11. QED
    BY <1>9, <1>10

LEMMA AccountsNext ==
  ASSUME IInv, Accounts(slots, res), [Next]_vars, [LosesNothing]_vars
  PROVE  Accounts(slots', res')
  <1>1. TypeOK /\ CalendarShape
    BY DEF IInv
  <1>2. CASE UNCHANGED <<slots, res>>
    BY <1>2
  <1>3. ASSUME NEW c \in Children, slots' = Others(c),
               res' = [res EXCEPT ![c] = NoReservation]
        PROVE  Accounts(slots', res')
    BY <1>1, <1>3, AccountsOthers
  <1>4. ASSUME NEW c \in Children, DemandFails(c) \/ FreeChldState(c)
        PROVE  Accounts(slots', res')
    BY <1>3, <1>4 DEF DemandFails, FreeChldState
  <1>5. ASSUME NEW c \in Children, Complete(c)
        PROVE  Accounts(slots', res')
    BY <1>3, <1>5 DEF Complete, Others
  <1>6. ASSUME NEW c \in Children, NEW q \in Requests, DemandDenied(c, q), LosesNothing
        PROVE  Accounts(slots', res')
    <2>1. slots' = Others(c)
      BY <1>6 DEF LosesNothing
    <2>2. QED
      BY <1>3, <1>6, <2>1 DEF DemandDenied
  <1>7. ASSUME NEW c \in Children, NEW q \in Requests, DemandGranted(c, q), LosesNothing
        PROVE  Accounts(slots', res')
    BY <1>1, <1>7, AccountsGrant
  <1>8. CASE UNCHANGED vars
    BY <1>2, <1>8 DEF vars
  <1>9. CASE Next /\ LosesNothing
    BY <1>2, <1>4, <1>5, <1>6, <1>7, <1>9 DEF Next, Tick, AllocChldState
  <1>10. QED
    BY <1>8, <1>9

LEMMA AccountsInvariant == Spec /\ [][LosesNothing]_vars => [](IInv /\ Accounts(slots, res))
  <1>1. Init => Accounts(slots, res)
    BY DEF Init, Accounts
  <1>2. IInv /\ Accounts(slots, res) /\ [Next]_vars /\ [LosesNothing]_vars
          => IInv' /\ Accounts(slots, res)'
    BY AccountsNext, InvNext
  <1>3. QED
    BY <1>1, <1>2, InvInit, PTL DEF Spec

\* Whatever is asked for, shared, split, moved, released or denied: as long as
\* no step loses users of a slot, their kind or a gap, no throughput test has
\* a second in common with another throughput test or a latency test.
THEOREM ExclusiveCorrect == Spec /\ [][LosesNothing]_vars => []ThroughputExclusive
  <1>1. IInv /\ Accounts(slots, res) => ThroughputExclusive
    BY DEF Accounts, Clash, ThroughputExclusive, Holders
  <1>2. QED
    BY <1>1, AccountsInvariant, PTL

\* Under the same condition every second of a held reservation is in a slot.
THEOREM AllocatedCorrect == Spec /\ [][LosesNothing]_vars => []CompletelyAllocated
  <1>1. IInv /\ Accounts(slots, res) => CompletelyAllocated
    BY DEF Accounts, Taken, In, CompletelyAllocated, Holders
  <1>2. QED
    BY <1>1, AccountsInvariant, PTL

=============================================================================
