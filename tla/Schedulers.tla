----------------------------- MODULE Schedulers -----------------------------
(***************************************************************************)
(* When bwctl runs its next test (bwctl/bwctl.c, the schedulers): at once, *)
(* at regular intervals, or at given times of the day.  Times are whole    *)
(* seconds, as the code rounds them; an hour and a day are parameters.     *)
(***************************************************************************)
EXTENDS Integers, Sequences

CONSTANTS Hours, HourLength   \* 24 and 3600

ASSUME SchedulersAssumption == Hours \in Nat \ {0} /\ HourLength \in Nat \ {0}

Day == Hours * HourLength

-----------------------------------------------------------------------------
\* streaming_scheduler_get_next_runtime
streaming_wait(prev_test_failed) == IF prev_test_failed THEN 60 ELSE 0

\* regular_intervals_scheduler_get_next_runtime: the wait at time now, off being
\* the random share of the interval.  last is last_run_time, 0 at first; then
\* the share is added to now.
regular_wait(now, last, interval, off) ==
  IF last = 0 THEN IF off > 0 THEN off ELSE 0
  ELSE LET w == interval + off - (now - last) IN IF w <= 0 THEN 0 ELSE w

\* The start that follows one at last, of a test that takes t.takes, with the
\* share t.off drawn before the next.
NextStart(last, interval, t) ==
  LET now == last + t.takes IN now + regular_wait(now, last, interval, t.off)

\* The starts of a run: the first, and the one after each test.
Starts(first, interval, tests) ==
  LET start[k \in 0 .. Len(tests)] ==
        IF k = 0 THEN first ELSE NextStart(start[k - 1], interval, tests[k])
  IN  start

-----------------------------------------------------------------------------
(***************************************************************************)
(* parse_time_schedule.  An entry is "*:MM", every hour, or a time of day. *)
(***************************************************************************)
Entries ==
  [every : {TRUE}, at : 0 .. HourLength - 1] \cup [every : {FALSE}, at : 0 .. Day - 1]

Slots(e) == IF e.every THEN Hours ELSE 1

\* The first pass counts the times ...
Count(schedule) ==
  LET n[k \in 0 .. Len(schedule)] == IF k = 0 THEN 0 ELSE n[k - 1] + Slots(schedule[k])
  IN  n[Len(schedule)]

\* Mutant: the index is not pushed back after an entry for every hour.
NotPushedBack(i, e) == i + (IF e.every THEN Hours + 1 ELSE 1)

\* ... the second fills the array, and moves on by as many.
Advance(i, e) == i + Slots(e)

Fill(a, e) ==
  [i |-> Advance(a.i, e),
   times |-> [j \in DOMAIN a.times |->
                IF j \in a.i .. (a.i + Slots(e) - 1)
                THEN IF e.every THEN (j - a.i) * HourLength + e.at ELSE e.at
                ELSE a.times[j]]]

parse_time_schedule(schedule) ==
  LET filled[k \in 0 .. Len(schedule)] ==
        IF k = 0 THEN [i |-> 1, times |-> [j \in 1 .. Count(schedule) |-> 0]]
        ELSE Fill(filled[k - 1], schedule[k])
  IN  filled[Len(schedule)].times

\* scheduled_times_scheduler_get_next_runtime: how long it is until a time of
\* day, which is tomorrow's if it has passed; and the loop over the times, with
\* -1 for no time yet.
Until(t, now) == IF t < now THEN t - now + Day ELSE t - now

Sooner(min_diff, diff) == IF diff < min_diff \/ min_diff = -1 THEN diff ELSE min_diff

scheduled_wait(times, now) ==
  LET min_diff[k \in 0 .. Len(times)] ==
        IF k = 0 THEN -1 ELSE Sooner(min_diff[k - 1], Until(times[k], now))
  IN  min_diff[Len(times)]
=============================================================================
