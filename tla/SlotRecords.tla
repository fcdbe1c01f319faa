----------------------------- MODULE SlotRecords -----------------------------
(***************************************************************************)
(* The records of bwctld's reservation calendar (bwctld/bwctldP.h) and the *)
(* functions of bwctld/bwctld.c on single records: what a TimeSlotRec may  *)
(* be used for, how it is created, shared and split, and the times of a    *)
(* ReservationRec.  No state: TimeSlots and SlotList keep it.              *)
(***************************************************************************)
EXTENDS Integers, FiniteSets

CONSTANTS
  Children,         \* control connections (bwctld children)
  TicksPerSecond,   \* resolution of a BWLNum64 below the second (2^32)
  MaxReservations,  \* TimeSlotRec.max_reservations (30)
  EventHorizon,     \* event_horizon limit of each child's user class, seconds
  Requests,         \* the reservation requests children may make
  Zero64,           \* the tick whose BWLNum64 is 0: 6:28:16 of 7 Feb 2036
  MaxTime           \* bound: the clock is not followed past this tick

(***************************************************************************)
(* BWLTestType of a tool (traceroute stands for every tool that is neither *)
(* a throughput nor a latency tester) and time_slot_types.                 *)
(***************************************************************************)
TestTypes == {"throughput", "latency", "traceroute"}
SlotTypes == {"SLOT_ANY", "SLOT_BANDWIDTH", "SLOT_LATENCY"}

Ticks == Nat

(***************************************************************************)
(* The arguments of ChldReservationDemand.  A tick is counted from 1970, a *)
(* BWLNum64 from 1900, modulo 2^32 seconds: the BWLNum64 0 is the tick     *)
(* Zero64.  latest = Zero64 is "no latest time" (ltime is 0), and a bwctl  *)
(* that gives up a session it could not change asks for the time 0.        *)
(***************************************************************************)
Request == [tool : TestTypes, rtime : Ticks, fuzz : Ticks, latest : Ticks,
            duration : Nat, rtt : Ticks]

ASSUME ChildrenAssumption == IsFiniteSet(Children)
ASSUME TicksAssumption == TicksPerSecond \in Nat \ {0}
ASSUME MaxReservationsAssumption == MaxReservations \in Nat \ {0}
ASSUME HorizonAssumption == EventHorizon \in [Children -> Nat]
ASSUME RequestsAssumption == Requests \subseteq Request
ASSUME MaxTimeAssumption == MaxTime \in Nat
\* The clock, the round trips and the event horizon stay before 2036.
ASSUME Zero64Assumption ==
  /\ Zero64 \in Nat
  /\ \A q \in Requests : MaxTime + q.fuzz + 2 * q.rtt < Zero64
  /\ \A c \in Children : MaxTime + EventHorizon[c] * TicksPerSecond < Zero64

Slot == [type : SlotTypes, start : Nat, end : Nat, num : Nat]

Reservation == [tool : TestTypes, start : Ticks, restime : Ticks, end : Ticks,
                fuzz : Ticks, duration : Nat]

NoReservation == [tool |-> "none"]
NoGrant == [at |-> -1]

-----------------------------------------------------------------------------
(***************************************************************************)
(* Conversions between the two time scales.                                *)
(***************************************************************************)
BWLNum64ToTimestamp(t) == t \div TicksPerSecond
BWLTimestampToNum64(s) == s * TicksPerSecond
ResStart(r) == BWLNum64ToTimestamp(r.start)
ResEnd(r) == BWLNum64ToTimestamp(r.end) + 1

\* BWLNum64Cmp(t, u) < 0: the ticks from Zero64 on have the small values.
BWLNum64Less(t, u) ==
  IF (t >= Zero64) = (u >= Zero64) THEN t < u ELSE t >= Zero64

BWLNum64Min(t, u) == IF BWLNum64Less(t, u) THEN t ELSE u

(***************************************************************************)
(* TimeSlotRecs.                                                           *)
(***************************************************************************)
SlotTypeAfter(type, tool) ==
  CASE tool = "throughput" -> "SLOT_BANDWIDTH"
    [] tool = "latency"    -> "SLOT_LATENCY"
    [] OTHER               -> type

TimeSlotAddReservation(s, tool) ==
  [type |-> SlotTypeAfter(s.type, tool), start |-> s.start, end |-> s.end,
   num |-> s.num + 1]

TimeSlotCreate(tool, start, end) ==
  TimeSlotAddReservation(
    [type |-> "SLOT_ANY", start |-> start, end |-> end, num |-> 0], tool)

\* The two halves of TimeSlotSplit(slot, time).  The new record comes from
\* calloc() and its type is never set: it is SLOT_ANY whatever slot was.
\* Mutant: the halves share a second.
SplitBeforeLate(s, time) == [s EXCEPT !.end = time]

SplitBefore(s, time) == [s EXCEPT !.end = time - 1]
SplitFrom(s, time) ==
  [type |-> "SLOT_ANY", start |-> time, end |-> s.end, num |-> s.num]

\* TimeSlotHasReservation for the seconds from..to of a reservation.
Overlaps(s, from, to) == s.start <= to /\ from <= s.end

TimeSlotHasReservation(s, r) == Overlaps(s, ResStart(r), ResEnd(r))

\* Mutant: a throughput test only looks out for latency tests.
CanUseSlotOfThroughput(tool, s) ==
  /\ tool = "throughput" => s.type # "SLOT_LATENCY"
  /\ tool = "latency" => s.type # "SLOT_BANDWIDTH"
  /\ s.num # MaxReservations

ReservationCanUseSlot(tool, s) ==
  /\ tool = "throughput" => s.type \notin {"SLOT_BANDWIDTH", "SLOT_LATENCY"}
  /\ tool = "latency" => s.type # "SLOT_BANDWIDTH"
  /\ s.num # MaxReservations

-----------------------------------------------------------------------------
(***************************************************************************)
(* ChldReservationDemand: the times of a reservation asked for at `time'.  *)
(***************************************************************************)

\* The reservation of request q when it starts at tick t.
ReservationAt(tool, q, t) ==
  [tool |-> tool, start |-> t, restime |-> t + q.fuzz,
   end |-> t + q.fuzz + q.duration * TicksPerSecond + q.fuzz,
   fuzz |-> q.fuzz, duration |-> q.duration]

\* The first start tried: the requested one, or one second after the earliest
\* that leaves room for the protocol's round trips.
MinStart(time, q) == time + q.fuzz + 2 * q.rtt
FirstStart(time, q) ==
  IF BWLNum64Less(q.rtime - q.fuzz, MinStart(time, q))
    THEN MinStart(time, q) + TicksPerSecond
    ELSE q.rtime - q.fuzz

\* Mutant: the later of the two bounds is taken (BWLNum64Max for BWLNum64Min).
LatestTimeOfLater(time, c, q) ==
  LET horizon == time + EventHorizon[c] * TicksPerSecond
  IN  IF EventHorizon[c] # 0 /\ BWLNum64Less(q.latest, horizon)
        THEN horizon ELSE q.latest

\* The latest time: the smaller of the request's and the event horizon.  A
\* request without one is 0, the smallest, and the horizon is lost.
LatestTime(time, c, q) ==
  IF EventHorizon[c] # 0
    THEN BWLNum64Min(q.latest, time + EventHorizon[c] * TicksPerSecond)
    ELSE q.latest

\* A start from 2036 on is never too late for a latest time before.
TooLate(time, c, q, t) ==
  /\ LatestTime(time, c, q) # Zero64
  /\ BWLNum64Less(LatestTime(time, c, q), t + q.fuzz)

=============================================================================
