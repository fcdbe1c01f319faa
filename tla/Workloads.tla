----------------------------- MODULE Workloads -----------------------------
(***************************************************************************)
(* The reservation requests with which TLC checks TimeSlots and SlotList.  *)
(* A tick is half a second, so starts fall inside seconds, and fuzz is one *)
(* tick.                                                                   *)
(***************************************************************************)
EXTENDS SlotRecords, TLC

Symmetry == Permutations(Children)

Ask(tool, rtime, duration, latest) ==
  [tool |-> tool, rtime |-> rtime, fuzz |-> 1, latest |-> latest,
   duration |-> duration, rtt |-> 0]

\* Throughput tests that never give a latest time: no demand is denied.
ThroughputRequests ==
  {Ask("throughput", t, d, Zero64) : t \in {3, 6}, d \in {1, 2}}

\* The same with a latest time, so that a full calendar denies.
LatestRequests ==
  {Ask("throughput", t, 1, l) : t \in {4, 9}, l \in {Zero64, 9, 10}}

\* All three kinds of test, with and without a latest time, and for the time 0.
MixedRequests ==
  {Ask("throughput", 4, 1, Zero64), Ask("throughput", 9, 1, 11),
   Ask("latency", 3, 4, Zero64), Ask("latency", 9, 0, 10),
   Ask("latency", 7, 0, Zero64), Ask("traceroute", 6, 2, 12),
   Ask("throughput", Zero64, 1, 11)}

\* Few requests that still overlap, share, split, fill a slot and are denied;
\* one is for the time 0.
SharingRequests ==
  {Ask("throughput", 4, 1, Zero64), Ask("latency", 3, 2, 9), Ask("latency", 7, 0, 12),
   Ask("traceroute", 6, 1, 10), Ask("latency", Zero64, 0, 9)}

NoHorizon == [c \in Children |-> 0]
ShortHorizon == [c \in Children |-> 4]
=============================================================================
