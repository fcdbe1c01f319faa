------------------------------ MODULE SlotList ------------------------------
(***************************************************************************)
(* The calendar as bwctld keeps it: time_slots is a linked list, a sequence*)
(* here, and ChldReservationDemand walks it with a cursor, an inner loop   *)
(* over the slots a shared reservation would cover, and insertions in the  *)
(* middle.  SlotList is checked to implement TimeSlots, whose calendar is  *)
(* the set of the list's slots and whose search is a minimum over that set.*)
(***************************************************************************)
EXTENDS SlotRecords, Sequences, SequencesExt

VARIABLES now, time_slots, chld, res, grant

vars == <<now, time_slots, chld, res, grant>>

\* What ResRemove's pass over the list makes of the slots it leaves, `before',
\* when it comes to slot s.
ResRemoveStep(r, before, s) ==
  IF ~TimeSlotHasReservation(s, r) THEN Append(before, s)
  ELSE IF s.num = 1 THEN before
  ELSE Append(before, [s EXCEPT !.num = s.num - 1])

\* ResRemove: one pass over the list.
Released(L, r) ==
  LET pass[n \in 0..Len(L)] ==
        IF n = 0 THEN <<>> ELSE ResRemoveStep(r, pass[n - 1], L[n])
  IN  pass[Len(L)]

\* The inner loop: from the usable slot `first' on, the last slot that the
\* seconds up to re reach, or the first the test conflicts with.
\* Mutant: the slots after the first are not examined.
ReachFirst(L, tool, re, first) == [last |-> first, conflict |-> 0]

Reach(L, tool, re, first) ==
  LET Covers(j) == L[j].end > re \/ j = Len(L) \/ re < L[j + 1].start
      last == Min({j \in first..Len(L) :
                     Covers(j) \/ ~ReservationCanUseSlot(tool, L[j + 1])})
  IN  [last |-> last, conflict |-> IF Covers(last) THEN 0 ELSE last + 1]

\* The list with the reservation added to the slots first..last.
Shared(L, r, first, last) ==
  LET rs == ResStart(r)
      re == ResEnd(r)
      f == L[first]
      l == L[last]
      left == CASE f.start < rs -> <<SplitBefore(f, rs)>>
                [] rs < f.start -> <<TimeSlotCreate(r.tool, rs, f.start - 1)>>
                [] OTHER        -> <<>>
      right == CASE re < l.end -> <<SplitFrom(l, re + 1)>>
                 [] l.end < re -> <<TimeSlotCreate(r.tool, l.end + 1, re)>>
                 [] OTHER      -> <<>>
      FromStart(i) == IF i = first /\ f.start < rs THEN SplitFrom(f, rs) ELSE L[i]
      Inside(i) == IF i = last /\ re < l.end THEN SplitBefore(FromStart(i), re + 1)
                                             ELSE FromStart(i)
  IN  SubSeq(L, 1, first - 1) \o left
      \o [i \in 1..(last - first + 1) |->
            TimeSlotAddReservation(Inside(first + i - 1), r.tool)]
      \o right \o SubSeq(L, last + 1, Len(L))

\* Mutant: TAILQ_INSERT_AFTER.
InsertAfter(L, i, s) == InsertAt(L, i + 1, s)

\* TAILQ_INSERT_BEFORE of a new slot.
InsertBefore(L, i, s) == InsertAt(L, i, s)

(***************************************************************************)
(* The TAILQ_FOREACH.  Its cursor is the slot it looks at, i, the one it   *)
(* skipped last, prev (0 for none), and the start of the reservation, t.   *)
(***************************************************************************)
Passed(L, r, i) == L[i].end < ResStart(r)

\* The reservation fits between slot i and the one before.
InGap(L, r, i, prev) ==
  (prev = 0 \/ Passed(L, r, prev)) /\ ResEnd(r) < L[i].start

\* The loop is left: the start is too late, the list is at its end, or the
\* reservation can be inserted where the cursor is.
Left(L, c, tool, q, at) ==
  LET r == ReservationAt(tool, q, at.t) IN
  \/ TooLate(now, c, q, at.t)
  \/ at.i > Len(L)
  \/ /\ ~Passed(L, r, at.i)
     /\ \/ InGap(L, r, at.i, at.prev)
        \/ /\ ReservationCanUseSlot(tool, L[at.i])
           /\ Reach(L, tool, ResEnd(r), at.i).conflict = 0

\* The cursor at the next slot: the start has moved past the end of this slot
\* or of a later one, if the test cannot use it.
Advanced(L, tool, q, at) ==
  LET r == ReservationAt(tool, q, at.t)
      PastSlot(j) == BWLTimestampToNum64(L[j].end + 1)
  IN  IF Passed(L, r, at.i)
        THEN [i |-> at.i + 1, prev |-> at.i, t |-> at.t]
      ELSE IF ~ReservationCanUseSlot(tool, L[at.i])
        THEN [i |-> at.i + 1, prev |-> at.i, t |-> PastSlot(at.i)]
      ELSE [i |-> at.i + 1, prev |-> at.prev,
            t |-> PastSlot(Reach(L, tool, ResEnd(r), at.i).conflict)]

Turn(L, c, tool, q, at) ==
  IF Left(L, c, tool, q, at) THEN at ELSE Advanced(L, tool, q, at)

\* The list with the reservation put in where the loop was left.
Inserted(L, r, at) ==
  LET rs == ResStart(r)
      re == ResEnd(r)
  IN  IF at.i > Len(L) THEN Append(L, TimeSlotCreate(r.tool, rs, re))
      ELSE IF InGap(L, r, at.i, at.prev)
        THEN InsertBefore(L, at.i, TimeSlotCreate(r.tool, rs, re))
      ELSE Shared(L, r, at.i, Reach(L, r.tool, re, at.i).last)

\* The whole search: the loop has been left after as many turns as there are slots.
Search(L, c, tool, q, time) ==
  LET walk[n \in 0..Len(L)] ==
        IF n = 0 THEN [i |-> 1, prev |-> 0, t |-> time]
                 ELSE Turn(L, c, tool, q, walk[n - 1])
      at == walk[Len(L)]
      r == ReservationAt(tool, q, at.t)
  IN  IF TooLate(now, c, q, at.t)
        THEN [granted |-> FALSE, res |-> r, list |-> L]
        ELSE [granted |-> TRUE, res |-> r, list |-> Inserted(L, r, at)]

ChldReservationDemand(c, q) ==
  IF res[c] = NoReservation
    THEN Search(time_slots, c, q.tool, q, FirstStart(now, q))
    ELSE Search(Released(time_slots, res[c]), c, res[c].tool, q,
                FirstStart(now, q))

-----------------------------------------------------------------------------
Init ==
  /\ now = 0
  /\ time_slots = <<>>
  /\ chld = [c \in Children |-> "none"]
  /\ res = [c \in Children |-> NoReservation]
  /\ grant = [c \in Children |-> NoGrant]

AllocChldState(c) ==
  /\ chld[c] = "none"
  /\ chld' = [chld EXCEPT ![c] = "live"]
  /\ UNCHANGED <<now, time_slots, res, grant>>

\* A RESERVATION message of child c, granted or denied.
Demand(c, q) ==
  /\ chld[c] = "live"
  /\ res[c] # NoReservation => /\ q.duration = res[c].duration
                              /\ q.rtime # Zero64
  /\ LET d == ChldReservationDemand(c, q) IN
     \/ /\ d.granted
        /\ time_slots' = d.list
        /\ res' = [res EXCEPT ![c] = d.res]
        /\ grant' = [grant EXCEPT ![c] = [req |-> q, at |-> now]]
     \/ /\ ~d.granted
        /\ time_slots' = Released(d.list, d.res)
        /\ res' = [res EXCEPT ![c] = NoReservation]
        /\ grant' = [grant EXCEPT ![c] = NoGrant]
  /\ UNCHANGED <<now, chld>>

\* DeleteReservation: does nothing without a reservation.
DeleteReservation(c) ==
  /\ time_slots' = IF res[c] = NoReservation THEN time_slots
                                             ELSE Released(time_slots, res[c])
  /\ res' = [res EXCEPT ![c] = NoReservation]
  /\ grant' = [grant EXCEPT ![c] = NoGrant]

DemandFails(c) ==
  /\ chld[c] = "live"
  /\ DeleteReservation(c)
  /\ UNCHANGED <<now, chld>>

Complete(c) ==
  /\ chld[c] = "live"
  /\ res[c] # NoReservation
  /\ DeleteReservation(c)
  /\ UNCHANGED <<now, chld>>

FreeChldState(c) ==
  /\ chld[c] # "none"
  /\ DeleteReservation(c)
  /\ chld' = [chld EXCEPT ![c] = "none"]
  /\ UNCHANGED now

Tick ==
  /\ now < MaxTime
  /\ now' = now + 1
  /\ UNCHANGED <<time_slots, chld, res, grant>>

Next ==
  \/ Tick
  \/ \E c \in Children :
       \/ AllocChldState(c)
       \/ DemandFails(c)
       \/ Complete(c)
       \/ FreeChldState(c)
       \/ \E q \in Requests : Demand(c, q)

Spec == Init /\ [][Next]_vars

-----------------------------------------------------------------------------
Calendar == INSTANCE TimeSlots WITH slots <- ToSet(time_slots)

(***************************************************************************)
(* The list is what the loops of ChldReservationDemand take it to be: in   *)
(* order of time, so that the slots a reservation covers are neighbours.   *)
(***************************************************************************)
ListOrdered ==
  \A i \in 1..(Len(time_slots) - 1) : time_slots[i].end < time_slots[i + 1].start

(***************************************************************************)
(* Walking the list finds the start TimeSlots defines as the earliest one, *)
(* and leaves the slots TimeSlots says: the loops implement the calendar.  *)
(***************************************************************************)
ImplementsCalendar == Calendar!Spec

=============================================================================
