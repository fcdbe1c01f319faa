------------------------------ MODULE TimeSlots ------------------------------
(***************************************************************************)
(* The reservation calendar of bwctld's parent process (bwctld/bwctld.c).  *)
(*                                                                         *)
(* Every control connection is served by a forked child.  A child asks the *)
(* parent for a reservation; the parent keeps one ReservationRec per child *)
(* (cstate->res) and one list of TimeSlotRecs, each a range of whole       *)
(* seconds shared by num_reservations tests.  Reservations have sub-second *)
(* resolution (BWLNum64), slots do not.                                    *)
(*                                                                         *)
(* The list is a set here: SlotList has the list itself and the loops that *)
(* walk it, and is checked to implement this module.                       *)
(***************************************************************************)
EXTENDS SlotRecords

VARIABLES
  now,      \* the daemon's clock, in ticks
  slots,    \* time_slots
  chld,     \* child -> "none" or "live" (it has a ChldState)
  res,      \* child -> cstate->res
  grant     \* child -> the request its reservation answers and when that
            \* was (a history variable: nothing reads it but the properties)

vars == <<now, slots, chld, res, grant>>

-----------------------------------------------------------------------------
\* Mutant: only the end of the reservation is compared.
ResRemoveUpTo(S, r) == {s \in S : s.start > ResEnd(r)}

\* ResRemove: every slot the reservation's seconds touch loses one user, and
\* goes when that was the last.
ResRemove(S, r) ==
  {s \in S : ~TimeSlotHasReservation(s, r)} \cup
  {[s EXCEPT !.num = s.num - 1] :
      s \in {x \in S : TimeSlotHasReservation(x, r) /\ x.num # 1}}

(***************************************************************************)
(* ChldReservationDemand: where the reservation goes.                      *)
(***************************************************************************)

\* A start fits if the test may use every slot its seconds touch.
Fits(S, tool, q, t) ==
  \A s \in S : TimeSlotHasReservation(s, ReservationAt(tool, q, t)) =>
                 ReservationCanUseSlot(tool, s)

\* Mutant: the search resumes a second after the one past the slot.
CandidateStartsLate(S, tool, q) ==
  {FirstStart(now, q)} \cup
  {BWLTimestampToNum64(s.end + 2) :
     s \in {x \in S : /\ ~ReservationCanUseSlot(tool, x)
                      /\ x.end >= BWLNum64ToTimestamp(FirstStart(now, q))}}

\* The search moves past the end of a slot the test cannot use, and nowhere
\* else; it stops at the first start that fits, or that is too late.
CandidateStarts(S, tool, q) ==
  {FirstStart(now, q)} \cup
  {BWLTimestampToNum64(s.end + 1) :
     s \in {x \in S : /\ ~ReservationCanUseSlot(tool, x)
                      /\ x.end >= BWLNum64ToTimestamp(FirstStart(now, q))}}

IsFoundStart(S, c, tool, q, t) ==
  /\ t \in CandidateStarts(S, tool, q)
  /\ Fits(S, tool, q, t) \/ TooLate(now, c, q, t)
  /\ \A u \in CandidateStarts(S, tool, q) :
        u < t => ~Fits(S, tool, q, u) /\ ~TooLate(now, c, q, u)

(***************************************************************************)
(* ChldReservationDemand: inserting it.  Slots that stick out of the       *)
(* reservation's seconds are split, the ones inside gain a user, and new   *)
(* slots cover the seconds before the first and after the last of them.    *)
(***************************************************************************)
Touched(S, r) == {s \in S : TimeSlotHasReservation(s, r)}

\* The part of a touched slot inside the reservation, with its new user.
SharedPart(s, r) ==
  LET tail == IF s.start < ResStart(r) THEN SplitFrom(s, ResStart(r)) ELSE s
      both == IF s.end > ResEnd(r) THEN SplitBefore(tail, ResEnd(r) + 1) ELSE tail
  IN  TimeSlotAddReservation(both, r.tool)

Book(S, r) ==
  LET rs == ResStart(r)
      re == ResEnd(r)
      T == Touched(S, r)
  IN  (S \ T)
      \cup {SplitBefore(s, rs) : s \in {x \in T : x.start < rs}}
      \cup {SharedPart(s, r) : s \in T}
      \cup {SplitFrom(s, re + 1) : s \in {x \in T : x.end > re}}
      \cup {TimeSlotCreate(r.tool, rs, s.start - 1) :
              s \in {x \in T : \A y \in T : rs < x.start /\ x.start <= y.start}}
      \cup {TimeSlotCreate(r.tool, s.end + 1, re) :
              s \in {x \in T : \A y \in T : x.end < re /\ y.end <= x.end}}
      \cup (IF T = {} THEN {TimeSlotCreate(r.tool, rs, re)} ELSE {})

-----------------------------------------------------------------------------
Init ==
  /\ now = 0
  /\ slots = {}
  /\ chld = [c \in Children |-> "none"]
  /\ res = [c \in Children |-> NoReservation]
  /\ grant = [c \in Children |-> NoGrant]

\* What is in the way of child c's demand: not its own earlier reservation,
\* which a demand for a new time removes first.
Others(c) == IF res[c] = NoReservation THEN slots ELSE ResRemove(slots, res[c])

\* A later demand of the same child only changes the times.
ToolOf(c, q) == IF res[c] = NoReservation THEN q.tool ELSE res[c].tool

\* AllocChldState, after NewConnection's fork.
AllocChldState(c) ==
  /\ chld[c] = "none"
  /\ chld' = [chld EXCEPT ![c] = "live"]
  /\ UNCHANGED <<now, slots, res, grant>>

\* A demand for the session the child holds changes its time only; the time 0
\* for it is a cancellation (sapi.c), and Complete.
MayDemand(c, q) ==
  /\ chld[c] = "live"
  /\ res[c] # NoReservation => /\ q.duration = res[c].duration
                              /\ q.rtime # Zero64

\* ChldReservationDemand returning True.
DemandGranted(c, q) ==
  /\ MayDemand(c, q)
  /\ \E t \in CandidateStarts(Others(c), ToolOf(c, q), q) :
       /\ IsFoundStart(Others(c), c, ToolOf(c, q), q, t)
       /\ ~TooLate(now, c, q, t)
       /\ res' = [res EXCEPT ![c] = ReservationAt(ToolOf(c, q), q, t)]
       /\ slots' = Book(Others(c), ReservationAt(ToolOf(c, q), q, t))
  /\ grant' = [grant EXCEPT ![c] = [req |-> q, at |-> now]]
  /\ UNCHANGED <<now, chld>>

\* ChldReservationDemand returning False through "denied:", which gives the
\* reservation to DeleteReservation although it was never inserted.
DemandDenied(c, q) ==
  /\ MayDemand(c, q)
  /\ \E t \in CandidateStarts(Others(c), ToolOf(c, q), q) :
       /\ IsFoundStart(Others(c), c, ToolOf(c, q), q, t)
       /\ TooLate(now, c, q, t)
       /\ slots' = ResRemove(Others(c), ReservationAt(ToolOf(c, q), q, t))
  /\ res' = [res EXCEPT ![c] = NoReservation]
  /\ grant' = [grant EXCEPT ![c] = NoGrant]
  /\ UNCHANGED <<now, chld>>

\* The error exits of ChldReservationDemand: the tool has no port to give
\* (AllocReservation) or the clock cannot be read.  CheckFD sends the child a
\* SIGTERM, which only ends the child's wait for the answer: it goes on.
DemandFails(c) ==
  /\ chld[c] = "live"
  /\ slots' = Others(c)
  /\ res' = [res EXCEPT ![c] = NoReservation]
  /\ grant' = [grant EXCEPT ![c] = NoGrant]
  /\ UNCHANGED <<now, chld>>

\* ChldReservationComplete for the reservation the child holds.
Complete(c) ==
  /\ chld[c] = "live"
  /\ res[c] # NoReservation
  /\ slots' = ResRemove(slots, res[c])
  /\ res' = [res EXCEPT ![c] = NoReservation]
  /\ grant' = [grant EXCEPT ![c] = NoGrant]
  /\ UNCHANGED <<now, chld>>

\* Mutant: the reservation of a dead child is not deleted.
FreeChldStateOnly(c) ==
  /\ chld[c] # "none"
  /\ chld' = [chld EXCEPT ![c] = "none"]
  /\ UNCHANGED <<now, slots, res, grant>>

\* FreeChldState: the child exited or crashed, and was reaped.
FreeChldState(c) ==
  /\ chld[c] # "none"
  /\ slots' = Others(c)
  /\ res' = [res EXCEPT ![c] = NoReservation]
  /\ grant' = [grant EXCEPT ![c] = NoGrant]
  /\ chld' = [chld EXCEPT ![c] = "none"]
  /\ UNCHANGED now

Tick ==
  /\ now < MaxTime
  /\ now' = now + 1
  /\ UNCHANGED <<slots, chld, res, grant>>

Next ==
  \/ Tick
  \/ \E c \in Children :
       \/ AllocChldState(c)
       \/ DemandFails(c)
       \/ Complete(c)
       \/ FreeChldState(c)
       \/ \E q \in Requests : DemandGranted(c, q) \/ DemandDenied(c, q)

Spec == Init /\ [][Next]_vars

-----------------------------------------------------------------------------
Holders == {c \in Children : res[c] # NoReservation}

\* The types of the variables; a child that is gone holds nothing.
TypeOK ==
  /\ now \in 0..MaxTime
  /\ slots \subseteq Slot
  /\ chld \in [Children -> {"none", "live"}]
  /\ res \in [Children -> Reservation \cup {NoReservation}]
  /\ grant \in [Children -> [req : Requests, at : Ticks] \cup {NoGrant}]
  /\ \A c \in Children : res[c] = NoReservation <=> grant[c] = NoGrant
  /\ \A c \in Holders : chld[c] = "live"

(***************************************************************************)
(* However bookings split, share and release the slots, the list stays a   *)
(* partition: no slot is empty or inverted, no two slots share a second,   *)
(* and every slot has between 1 and max_reservations users (the search in  *)
(* ChldReservationDemand and the counting in ResRemove rely on it).        *)
(***************************************************************************)
CalendarShape ==
  /\ \A s \in slots : s.start <= s.end /\ s.num \in 1..MaxReservations
  /\ \A s, u \in slots : s # u => s.end < u.start \/ u.end < s.start

(***************************************************************************)
(* A reservation starts late enough for the round trips of the request it  *)
(* answers and, up to 2036, no later than the latest time of that request  *)
(* and the event horizon of the child's class, however far the search of   *)
(* ChldReservationDemand had to move it.  Two cases are all that is out of *)
(* the window: a request that gives no latest time has no event horizon    *)
(* either (the 0 is the smaller of the two), and a request for the time 0, *)
(* or one moved past the end of the BWLNum64s, is booked in 2036, where    *)
(* every start compares as earlier than the latest time.                   *)
(***************************************************************************)
GrantInWindow ==
  \A c \in Holders :
    LET q == grant[c].req IN
    /\ res[c].start >= MinStart(grant[c].at, q)
    /\ q.latest # Zero64 /\ res[c].restime < Zero64 =>
         /\ res[c].restime <= q.latest
         /\ EventHorizon[c] # 0 =>
              res[c].restime <= grant[c].at + EventHorizon[c] * TicksPerSecond

(***************************************************************************)
(* The search loop misses nothing: between the first start it tries and    *)
(* the one it grants there is no tick at which the test would have fitted. *)
(***************************************************************************)
NothingEarlierFits ==
  [][\A c \in Children :
       res'[c] # res[c] /\ res'[c] # NoReservation =>
         LET q == grant'[c].req IN
         \A u \in FirstStart(now, q)..(res'[c].start - 1) :
            ~Fits(Others(c), ToolOf(c, q), q, u)]_vars

(***************************************************************************)
(* A throughput test shares no second of its reservation with another      *)
(* throughput test or a latency test, whoever holds it ("There is already  *)
(* a throughput test here", ReservationCanUseSlot).                        *)
(***************************************************************************)
Collide(r, s) == ResStart(r) <= ResEnd(s) /\ ResStart(s) <= ResEnd(r)

ThroughputExclusive ==
  \A c, d \in Holders :
    /\ c # d
    /\ res[c].tool = "throughput"
    /\ res[d].tool \in {"throughput", "latency"}
    => ~Collide(res[c], res[d])

(***************************************************************************)
(* "The time period from res->start to res->end is completely allocated to *)
(* this test" (ChldReservationDemand): every second of a reservation that  *)
(* is held is in some slot, so that a later demand finds it taken.         *)
(***************************************************************************)
CompletelyAllocated ==
  \A c \in Holders : \A sec \in ResStart(res[c])..ResEnd(res[c]) :
    \E s \in slots : s.start <= sec /\ sec <= s.end
=============================================================================
