# TLA+ models of bwctl

bwctl schedules network tests (iperf, owamp, traceroute, ...) between hosts.
A `bwctld` daemon on each host grants time on its network to requests, a
`bwctl` client asks two daemons for the same time, and each daemon then forks
an endpoint that runs the tool and exchanges results with the other endpoint.
This directory models the parts of that system whose correctness depends on
order, sharing and failure, checks the models with TLC and proves the most
important properties with TLAPS.

## The system

| Part | State | Operations | Talks to |
|---|---|---|---|
| Reservation calendar (`bwctld/bwctld.c`) | `time_slots`, a list of whole-second slots with a type and a count; one `ReservationRec` per child with sub-second times | `ChldReservationDemand`, `ChldReservationComplete`, `DeleteReservation`, `ResRemove` | called by `CheckFD` and `FreeChldState` |
| Class tree (`bwctld/policy.c`) | `BWLDPolicyNodeRec`: parent, `limits[]`, `used[]` | `parselimitline`, `parselimits`, `BWLDResourceDemand`, `IntegerResourceDemand` | read at start, demanded by parent and children |
| Broker (`bwctld/bwctld.c`, `bwctld/policy.c`) | per child: the socket pair, the node, the reservation; in the child: the state of its policy hooks | `CheckFD`, `ReapChildren`, `BWLDCheckControlPolicy`, `BWLDCheckTestPolicy`, `BWLDTestComplete` | one message and one answer at a time between parent and child |
| Daemon (`bwctld/bwctld.c`) | signal flags, `pidtable`, `fdtable` | select loop, `NewConnection`, `ReapChildren`, shutdown | signals, children |
| Control protocol (`bwlib/sapi.c`, `capi.c`, `protocol.c`) | `cntrl->state` bits, session list | greeting, time request, test request, start, stop | client and server over TCP |
| Endpoint (`bwlib/endpoint.c`) | tool process, peer connection, accept value | `_BWLEndpointStart`, `_BWLEndpointStatus`, `_BWLEndpointStop` | tool, peer endpoint, the child that forked it |
| Client (`bwctl/bwctl.c`) | two sessions, the time under negotiation, what is kept between intervals (tool, `fake_daemon`, its pid, `session_requested`, the alarm) | `establish_connection`, `spawn_local_server`, `negotiate_test`, `start_testing`, `wait_for_results`, `CloseSessions`, the schedulers | two servers, or one it forks itself |
| Tool drivers (`bwlib/tools.c`, `iperf.c`, ...) | port ranges | availability, initialisation, request parameters, command line | exec |
| Time (`bwlib/time.c`, `arithm64.c`) | none | conversions of 32.32 fixed point times | all |

What is hard here: children die at any moment, with messages under way and
resources in their name; a demand moves a reservation that is already in the
calendar; the calendar has another time resolution than the reservations in
it; classes share the limits of the classes above them; signals interrupt
waits, or come just before them and are missed; the client needs two
independent calendars to agree, and keeps state from one test to the next; a
request has another layout for each version of the server. The list under
`hazards` in `PROJECT.json` gives each at its line, with the properties that
would catch it.

## Modules

**The calendar**

* `SlotRecords`: the records and the functions on one of them
  (`TimeSlotCreate`, `TimeSlotSplit`, `TimeSlotHasReservation`,
  `ReservationCanUseSlot`), the two time scales, and the times of a
  reservation asked for at some moment (`FirstStart`, `LatestTime`). A tick is
  counted from 1970 and never wraps; a `BWLNum64` counts from 1900 and is 0 again
  in 2036, at the tick `Zero64`, so that `BWLNum64Less` puts the ticks from there
  on before all others, and a request for the time 0 is one for `Zero64`. No state.
* `TimeSlots`: the calendar as a set of slots. `DemandGranted`,
  `DemandDenied` and `DemandFails` are the three ways out of
  `ChldReservationDemand`, each with everything it does to the calendar, the
  removal of the reservation on the denied path included. The search is stated
  as what it finds: the first candidate start that fits or is too late.
  `grant` is a history variable for the properties.
* `SlotList`: the calendar as the code has it, a list walked by a loop with a
  cursor, a previous slot and an inner loop that looks ahead. `Turn` is one turn
  of the search loop; the loops themselves are recursive functions of the cursor
  (`pass`) and of the turns taken (`walk`). It is checked and proved to implement
  `TimeSlots` (`slots <- ToSet(time_slots)`).
* `Workloads`, `MCTimeSlots`, `MCSlotList`: the requests TLC uses. A tick is
  half a second, so that starts fall inside seconds.
* `TimeSlotsProofs`: proofs about `TimeSlots`.
* `SlotListProofs`: proofs about `SlotList`, the refinement among them.

**The broker**

* `PolicyTree`: limit lines are parsed one by one into a tree of classes
  (`above[n]` is the chain from class `n` to the root, what the parent pointers
  lead to); `Override` is inheritance; `Walk` and `Consulted` are the classes
  that `IntegerResourceDemand` visits and compares with. It compares floats:
  `AsFloat`, a constant, is what becomes of a value, any function that keeps the
  order and is exact up to `FloatExact` (2^24 in the code).
* `Broker`: extends `PolicyTree` with the parent, the children and the socket
  pairs. A child sends a message and waits (`Send`, `Receive`), the parent
  reads it and answers (`Reply`) or, on an error, sends a SIGTERM that ends the
  wait with `INVALID`. `used` counts the "pending" units. Whether the calendar
  grants a reservation is left open: every answer it could give is possible.
  Only a child in `Crashing` dies in the middle of its hooks.
* `MCBroker`: limits files and tests for TLC.
* `BrokerProofs`: proofs about `PolicyTree` and `Broker`.

**The control connection**

* `ControlState`: the bits of `cntrl->state` as a set, the modes of the
  greeting, and for each function of `protocol.c` what it does to the bits. No
  state.
* `ControlProtocol`: `bwctl`, the `bwctld` child that serves it and the process
  of the tool, over two FIFO channels. `cpc` is the library call the client is
  in: it asks, waits for the one message that answers (`Awaits`) and goes on.
  `spc` is the place of the child in its loop; around an active test the places
  are as fine as the signals need, since a SIGCHLD or SIGTERM that arrives
  before `select()` or a read is lost on it (`"armed"` and `"select"` apart).
  The modes each end is willing to speak, the policy's answer, the reasons for
  which `bwctl` asks again or gives up, the tool's success and every signal are
  choices. `result` (how the tool ended) and `fault` (a signal or timer has cut
  the connection) are history variables.
* `TestOptions`: a request, from the options of the command line to the
  `BWLTestSpec` (`TestSpec`), to bytes (`Writes`) and back (`ReadSpec`), for
  every version of the protocol. The fields, their offsets and the versions
  that have them are the code's; a byte has `Nibble * Nibble` values, 256 in the
  code and few enough for TLC, so that the edges of every field can be
  enumerated. No state.
* `RequestContent`: both, with the property that joins them and the losses it
  allows for (`Understood`). `MCControl`: the options for TLC.
* `ControlProofs`: proofs about these.

**The daemon**

* `Daemon`: the parent of `bwctld`. `pc` is its place in the loop, cut wherever
  a signal makes a difference: a handler sets a flag, and wakes the parent only
  if it is blocked already (`"entering"` and `"select"`, `"suspending"` and
  `"suspend"` apart). `pidtable`, `fdtable`, `readfds` and `maxfd` are the
  code's, and descriptors and pids are used again. What a child asks is in
  `Broker`; here it runs, asks, and ends, perhaps with a tool's process that
  still holds the socket.
* `DaemonProofs`: proofs about it.

**The test itself**

* `Endpoint`: the two endpoint processes of a test and their tools, from
  `fork` to `exit(aval & acceptval)`: connecting, comparing clocks, waiting for
  the end, making sure that the tool is dead, trading StopSession, closing. One
  side may have no peer (`alone`). A tool ends well or badly, hangs, ignores
  SIGTERM, or misses one that comes before it has set its handlers; the network may be cut
  and an endpoint be stopped, `MaxFaults` times.
* `PortRange`: `BWLPortsNext` and its two users: the search of `epssock` for a
  port that is free, against other programs that come and go, and the ports a
  tool is given when a reservation is made.
* `EndpointProofs`, `PortRangeProofs`: proofs about them.

**The client**

* `Schedulers`: when the next test is due, for a stream, for regular intervals
  and for a schedule (`parse_time_schedule` with its two indices). No state;
  hours of a day and their length are constants.
* `Bwctl`: `main` of `bwctl`, interval by interval, for a set of command lines.
  A server answers a request with any time not before the one asked for, or
  refuses, or breaks; what happens on one connection is `ControlProtocol`. A
  server that `bwctl` forks is a child that ends when its connection is closed,
  unless another child has inherited the descriptor. Everything that outlives
  an interval in the code is kept in the model.
* `BwctlProofs`: proofs about `Bwctl`.
* `MCBwctl`, `MCPortRange`: command lines and ranges for TLC.

**How they fit together.** The modules meet at the promises they make to each
other: `Broker` takes any answer of the calendar, `ControlProtocol` any answer of
the broker and any end of the tool, `Daemon` relies on a child that comes to its
end (`ConnectionEnds`), `Bwctl` on servers that answer (`ConnectionEnds` again)
and on nothing about the times they grant. `Broker` extends `PolicyTree`,
`SlotList` implements `TimeSlots`, `RequestContent` joins `ControlProtocol` and
`TestOptions`, `Bwctl` extends `Schedulers`.

Every property has next to the definition it depends on a variant marked
`Mutant`, a plausible bug; `PROJECT.json` says which property catches which.

## What the runs check

| Run | Bounds | Result |
|---|---|---|
| `slots_throughput` | 3 connections, 4 requests of two lengths and two times, clock up to 2 ticks | `ThroughputExclusive`, `CompletelyAllocated` hold |
| `slots_mixed` | 3 connections, one or two requests of each kind and one for the time 0, an event horizon of 4 seconds, slots of at most 2 users | `TypeOK`, `CalendarShape`, `GrantInWindow`, `NothingEarlierFits` hold |
| `slots_list` | 2 connections, 7 requests | `ListOrdered` and the implementation of `TimeSlots` hold |
| `slots_denied` | 3 connections, requests with latest times | `CompletelyAllocated` fails |
| `broker` | 2 children that may crash anywhere, all files of up to 3 classes over 4 limit lines, one test longer than some limits, and 5 the same as 4 to a float | `TypeOK`, `TreeShape`, `UnlimitedAbove`, `PendingBounded`, `ReleaseAccepted`, `ParentAgrees`, `AdmittedWithinLimits` hold |
| `broker_leak` | 2 children that never crash, one class | `PendingReturned` fails |
| `control` | 3 session requests, all sets of modes; options at the edges of each field, two fields at a time, all versions | `InStep`, `SessionAgreed`, `ResultsComplete`, `RequestArrives`, `ResultsDelivered`, `ConnectionEnds` hold |
| `daemon` | 3 children at a time, 1 connection waiting | `EveryChildWatched`, `NoChildLeft`, `ShutdownEnds`, `SignalObeyed`, `ChildrenServed`, `DeadReaped` hold |
| `endpoint` | 2 endpoints, 1 cut or stop | `NoToolLeft`, `ResultsFinal`, `SameVerdict`, `SuccessEarned`, `EndpointsEnd` hold |
| `ports` | ranges of 1 to 4 ports for the search, of up to 12 for tools, two low ports | `GivesUpFull`, `SuccessiveDiffer`, `SearchEnds` hold |
| `bwctl` | 3 command lines of 2 or endless intervals, 2 tools, a window of 2 times; a day of 3 hours of 2 minutes | `StartAgreed`, `NothingLeft`, `RequestFits`, `StartsOnTime`, `IntervalEnds` hold |
| `bwctl_kill` | the same | `SignalsOwnServer` fails |

Why the bounds are enough. Three connections are what it takes to have two
users in a slot and a third that meets a full, split or partly released one; two
users fill a slot (30 in the code, a constant the proofs leave open). The
requests overlap at their beginning, middle and end, with one tick of fuzz, so
that every branch of the insertion is taken. The clock moves while reservations
are held, so that the first start is sometimes the requested one and sometimes
the earliest possible. Three classes give chains and forks; the four limit
lines have a limit missing, zero, and above and below the parent's. Three
requests are a new session, an update and an update of the update, each of which
may be refused. Three children are what it takes for one to die, one to take its
descriptor and a third to stay above or below; more waiting connections only
repeat the first. One fault hits every step of an endpoint; a second one finds
it on its way out. Two intervals show what the first leaves to the second, and
the endless run what many do. Ranges of twelve ports are the first in which
every tool has room for two tests (`RoomForTwo`). The passing runs together take
every action.

Fairness, module by module, and what in the code justifies it:

* `ControlProtocol`: the client process and the child keep running when they
  can, a timer that is set goes off (`setitimer` before each request and before
  `BWLStopSession`), and a tool ends, since the process that runs it kills it
  when its time is over (`EndpointsEnd`, with its two excuses). A signal from outside, a client that
  gives up and an answer of a policy are never assumed. `BWLStopSessionWait` has
  no timer and is given none: there it is the client's clock
  (`wait_for_results`) that ends the wait. `ResultsDelivered` is excused when
  `fault` says that a signal or a timer has cut the connection;
  `ConnectionEnds` is not.
* `Daemon`: the parent runs, its alarm rings if `dieby` is not 0, a child that is not waiting for an
  answer ends at some time (strong, because it may ask again and again), and the
  end of file of a closed pipe is seen. No client is assumed to connect and no
  signal to come. `ChildrenServed` is under the condition that connections do
  not keep coming, and `DeadReaped` that children keep dying: the code gives no
  more.
* `Endpoint`: an endpoint runs, a timer that is set rings, and a tool that has
  been sent a SIGTERM it acts on, or a SIGKILL, ends. Every tool may ignore
  SIGTERM for ever. No tool is assumed to end by itself, no message to arrive
  over a network that is cut. `EndpointsEnd` excuses an endpoint whose timer was
  missed (`Missed`) and one that was stopped and waits for a tool that ignores
  its SIGTERM (`ToolHangs`); a tool that runs over its time is killed.
* `PortRange`: the process that searches runs.
* `Bwctl`: `bwctl` runs, which takes in that a server answers a request
  (`ConnectionEnds`), and the alarm rings. The results of a test need never come.
  In a wait that is overdue (below) nothing is assumed to end it: `IntervalEnds`
  is about runs that do not stay in one.

The calendar and the broker are checked for safety only.

### Findings

* A denied request damages the calendar (`slots_denied`): `denied:` calls
  `DeleteReservation`, whose `ResRemove` takes the seconds of a reservation
  that was never inserted away from the tests that hold them. The `bwctl`
  client always sends a latest time, so any full calendar does this.
* Pending units leak (`broker_leak`): a session whose reservation is denied
  keeps its unit for ever, also after its child has exited.
* `bwctl` signals everyone (`bwctl_kill`): `fake_daemon_pid` is unsigned, and
  the -1 that `close_local_server` leaves there passes for a pid at the next
  close. `waitpid(-1)` may then reap another child and, if one is still running
  after two seconds, `kill(-1, SIGTERM)` goes to every process of the user.

### What the models also show

Behaviours of the code that the models contain and no property forbids; where a
property has to step around one, its comment says so.

* A split slot loses its type: `TimeSlotSplit` (`bwctld.c:216`) does not copy
  `type`, and a throughput test can then be booked over a throughput or latency
  test. `slots_throughput` has no sharing, and so no splits; the theorems about
  sharing name the steps that lose something (`LosesNothing`).
* The event horizon does not bind a request without a latest time: the minimum
  of 0 and the horizon (`bwctld.c:575`) is 0, "no latest time".
* A request for the time 0 is booked in 2036 whatever its latest time: `0 - fuzz`
  (`bwctld.c:548`) is the largest time there is, and the time of the test, 0, is
  smaller than any latest time. `GrantInWindow` speaks of the grants before
  `Zero64`. A `bwctl` after a refused update sends such a request (below).
* Limits are compared as floats (`policy.c:1320`): from 2^24 on, a demand a little
  above the limit is admitted. `AdmittedWithinLimits` allows for what a float
  cannot tell apart and nothing else.
* An endpoint that is stopped sends its tool a SIGTERM and waits for it without a
  limit (`endpoint.c:1535`, "Should we add a timer to break out? No"): a tool
  that ignores the signal holds it for ever (`ToolHangs`).
* With `dieby` 0, which `bwctld` accepts (`bwctld.c:2009`), `alarm(0)` sets no
  alarm and the shutdown waits for the children alone (`Dieby`).
* An answer to `StartSession` that comes after the end of the test makes the
  time left wrap (`bwctl.c:3480`), and `select()` waits for years unless a socket
  becomes readable or a signal comes (`Overdue`).
* A failed tool is often reported as a success: of the three places that trade
  StopSession messages only the one at the entry of `BWLStopSessionWait` looks
  at the tool's status (`bwctld.c:1442` passes none). And the endpoint exits with
  the bitwise AND of both verdicts (`endpoint.c:1430`): a failure on one side is
  masked by success on the other, and REJECT (1) and FAILURE (2) make 0.
* After a refused update the session is gone at both ends and
  `session_requested` stays set (`bwctl.c:3286`): the "cancellation" is then a
  request for a new session at time 0, which the server may book, in 2036. It is
  gone when the connection is closed (`NothingLeft`).
* A shutdown of the daemon hangs if the alarm rings between the test of
  `ipfd_alrm` and `sigsuspend()` and no child dies any more (`AlarmMissed`), in
  spite of "Set an alarm to exit by even if graceful shutdown doesn't occur"
  (`bwctld.c:2766`). A SIGTERM between the test of `ipfd_exit` and `select()`
  waits for the next child or connection.
* An endpoint that ends between the fork of its tool and the adoption of the
  tool by the connection leaves the tool running. A timer that rings just before
  `select()` is missed (`Missed`).
* `BWLPortsRange` is `high - low`: the high port is used only if the search
  begins with it, and a search that begins there in a full range never ends; a
  test port range of fewer than four ports hangs the daemon in
  `OwampInitTest`; one of up to nine may give two successive tests the same port.
  `doc/bwctld_conf_opts.man:298` describes ranges without these limits.
* Over several intervals `bwctl` may take a host for one without a `bwctld`
  because it was one before (`fake_daemon`), use the tool of the interval before
  when `-T` finds none, ask for tool 0 when there is no `-T` and no common tool
  supports the options, and let an alarm run on after a failed
  `BWLEndSession`. A SIGTERM just before `nanosleep` is seen after the sleep. A
  server that is forked second holds the first connection's descriptor, so the
  first server does not see its end until the second has gone.
* Options are narrowed without a check: `-P` modulo 256, `-i` modulo 65.536
  seconds, `-N`, `-l` and `-t` of ping and `-l` of traceroute to their fields,
  `-O` before it is compared with 60 (`Assigned`). At a server of version 0 no
  request is readable, because the tool is written into its zero padding, which
  the comment at `protocol.c:836` says happens "only when" the server negotiates
  tools. Old servers do not learn of `no_server_endpoint`, of a wish for quiet
  output or of fractions of a second (`Understood`); a bandwidth above 32 bits
  loses low bits. The output format is written in host byte order, which loses it
  between hosts of different order (the model has a little-endian host).

## What is proved

`TimeSlotsProofs`, for every finite set of connections, every set of requests
(those for the time 0 and for dates after 2036 among them), every clock
resolution, event horizon and `max_reservations`:

* `TypeCorrect`, `ShapeCorrect`, `WindowCorrect`. The inductive invariant is
  the conjunction of the three properties; the work is in `CalendarShape`,
  preserved by `Book` (the pieces of split slots and the new ones are disjoint,
  and a slot that a test may use is not full) and by `ResRemove`.
* `EarliestCorrect`: no start before the granted one fits. If one did, take the
  last candidate before it: a slot that blocks the candidate reaches past it,
  and the second after that slot would be a later candidate.
* `ExclusiveCorrect`, `AllocatedCorrect`, for every workload, as long as no step
  loses something (`LosesNothing`). Three kinds of step do, and they are the flaws
  of the code named above: a denial that takes users from other slots, a split
  that drops the type of a slot (`KeepsTypes`), and a booking over slots with
  free seconds between them (`NoGap`). Every other denial, sharing, split, move
  and release is covered. The inductive invariant is that the slots account for
  the reservations (`Accounts`): each counts exactly its users, lies inside the
  reservation of each of them and has the type of those that have one, and every
  second of a reservation is in a slot. The count is needed because `ResRemove`
  drops a slot when it comes to 0. In the `slots_throughput` run no demand is
  denied and no slot touched, so nothing is ever lost there.

`SlotListProofs`, for the same constants:

* `ListOrderedCorrect`: `time_slots` is always in the order of its starts and no
  two slots overlap. The inductive invariant is that order (`ListOK`) with the
  types of the reservations and the clock. `ResRemove` only drops slots and
  frees units; `Book` keeps the order because it only cuts a slot in two
  (`BookTouched`, `BookShared`) or puts one into a gap or at the end (`BookNew`).
* `ImplementsCalendarCorrect`: every step of the list is a step of `TimeSlots`,
  so that what `TimeSlotsProofs` proves of the set of slots holds of the list.
  The hard part is that the loop finds the earliest start (`SearchFacts`).
  `Cursor` is its invariant: every slot behind the cursor ends before the
  candidate start, and no earlier candidate fits or is too late. When a slot is
  in the way the loop moves the start past it and never tries the seconds in
  between; `PastConflict` is why it misses nothing there. That the loops end
  follows from the cursor, which moves on at every turn (`SearchWalk`).

The loops are functions defined by recursion. `RecursionUpTo` shows that such a
function exists up to a bound, by ordinary induction on a predicate of the number;
what the loop computes is then an induction of the same form.

`BrokerProofs`, for every limits file, every tree and any finite number of
children, crashing or not:

* `TypeCorrect`, `TreeCorrect`, `UnlimitedCorrect`, `PendingCorrect`,
  `ReleaseCorrect`, `AgreementCorrect`, `AdmittedCorrect`. The inductive
  invariant `IInv` adds to these properties `Session` (which message, answer
  and reservation at the parent go with each state of a child), `Books` (for a
  class with a limit, units held <= `used` <= limit) and `Closed` (before the
  file is read there are no children). `Books` is needed because `used` also
  counts units that leaked: `PendingBounded` alone says nothing of `used`, and
  `ReleaseAccepted` needs the lower bound. `FloatWithin` is what a comparison of
  floats says of the values: below `FloatExact` everything. `WalkMeetsAll` shows that the walk,
  although it stops at a class without a record, meets every class with a
  limit.

`ControlProofs`, for any number of session requests:

* `InStepCorrect`, `SessionAgreedCorrect`, `ResultsCompleteCorrect`. None of the
  three is inductive: each speaks of what one end meets, and what it meets was
  sent by the other end some steps before. `IInv` therefore says what is under
  way. `Link` gives, for each place of `bwctl`, the places where the child of
  `bwctld` can be and the messages between them, at most one to the server and
  two to the client (`StartAck` and a `StopSession` that follows at once);
  `ToServer` says what the server finds when the client has gone, whose messages
  it still reads; `ClientBits` and `ServerBits` give `cntrl->state` at each
  place; `ServerTool` and `Results` tie the tool and how it ended to the
  StopSession messages. The part that needs an argument is the answer to a
  TestRequest (`TestAnsweredStep`): the sid the client will take from it
  (`SidTaken`) is the one the server has kept, whether the request is a new
  session, an update, a cancellation or the "cancellation" of a session that was
  refused.
* `RequestArrivesCorrect`, for every set of options a command line may have
  (`Given`), every width of a byte and every limit of the options.
  `TestSpecFits`: the fields of a `BWLTestSpec` fit into their bytes, the duration
  worked out for a ping test too, and a bandwidth has an exponent
  (`BandwidthExpFacts`). `Held` says that no later write touches the first bytes of
  one; with it the writes of each kind of test are put together (`PingCarried`,
  `TracerouteCarried`, `ThroughputCarried`: which of them overlap, and what the
  version adds). `GetReads` puts a number together again from its bytes, and
  `ReadFields` and `UnreadFields` compare each field with what was asked for.

`DaemonProofs`, for any finite number of children and any backlog:

* `EveryChildWatchedCorrect`, `NoChildLeftCorrect`. `IInv` adds that exactly the
  children that are not reaped have an entry in the tables (`TablesCurrent`),
  that outside the shutdown every pipe is open and in `readfds`, with `maxfd`
  above them all unless it is to be computed anew (`Watching`), and where
  `ReapChildren` returns to (`Returning`). `FindMaxFDHighest` is what that
  computation gives, and `NewFdFree`, a count of the pipes, that a descriptor is
  left for a new child.

`EndpointProofs`, for any number of faults:

* `NoToolLeftCorrect`, `ResultsFinalCorrect`, `SameVerdictCorrect`,
  `SuccessEarnedCorrect`. `IInv` says per endpoint from which place on it is
  connected and has adopted the tool (`Connected`), what it knows of the tool
  (`ToolKnown`) and how its verdict is made of the tool's and the peer's
  (`ResultsKnown`).

`PortRangeProofs`, for ranges that begin anywhere and have any length:

* `GivesUpFullCorrect`, `SuccessiveDifferCorrect`. `AfterFollows` takes the
  remainder out of `BWLPortsNext`; then `Searching` says that the ports between
  the first one of the search and the next are all tried, and `Drawing` and
  `Behind` where the ports of the last test lie in the cycle. That more than
  nine ports are enough for two tests of owamp is a case analysis of where the
  draw wraps around.

`BwctlProofs`, for every set of command lines, tools and times:

* `StartAgreedCorrect`, `NothingLeftCorrect`, `RequestFitsCorrect`. `IInv` says
  what is settled at each place of the loop of `main`, whichever failure or
  signal has led there: which connections are open (`Connections`), that a
  reservation and a forked server belong to a connection (`Owned`), which sides
  may be forked (`Spawnable`), how far the two times agree (`Negotiated`), what
  is left of a test that failed (`FailedSoFar`) and which tool was picked
  (`ToolKept`, with `PickToolFits`).
* `StartsOnTimeCorrect`, from two theorems about the schedulers for every length of
  an hour and a day. `FirstTimeNotPast`: for a schedule of any number of entries,
  `CountFacts` and `ParseFacts` go through the two passes over it (the array holds
  the times of its entries and no others, and the index never runs past what was
  counted), `SoonestFacts` through the loop over the array, and `SaidByTime` and
  `UntilFacts` through the remainders of the hour and the day. `StartsDoNotDrift`:
  for a run of any length, with any interval and random share.

Every inductive invariant was checked by
TLC on the instance of its component's run before it was proved.

The assumptions are the ones the modules name (`Zero64Assumption`: the clock, the
round trips and the event horizon stay before 2036; `FloatAssumption`: floats keep
the order of the values and are exact up to a bound; `DiebyAssumption`: it is a
number, 0 included; `ChildrenAssumption`: the children are finitely many and none of
them is the mark of a free entry; `ClassesAssumption`, `LinesAssumption`,
`TestsAssumption`, `BwctlAssumption`, `RangeAssumption`: the shapes of the
inputs; `TestOptionsAssumption`: the code's limits and defaults fit into their
fields, and the shift of a bandwidth into a byte; `GivenAssumption`: the options
are such as pass the checks of the command line). TLC evaluates them in every run.

Only model-checked:

* every liveness property (`ResultsDelivered`, `ConnectionEnds`, `ShutdownEnds`,
  `SignalObeyed`, `ChildrenServed`, `DeadReaped`, `EndpointsEnd`, `SearchEnds`,
  `IntervalEnds`): TLAPS does not reason about fairness.

## What is not modelled

* Tool set-up in `AllocReservation` (ports, validation) is one possible failure.
* Assign lines: a connection may map to any defined class.
* The session identifier comparisons (`sizeof` of a pointer) are taken as
  equality of sessions. A clock that itself comes within the event horizon of
  2036 is out of range.
* 0 as "no limit" for `event_horizon` and `minimum_ttl`: a class can override
  its parent's with it, and `BWLDGetFixedLimit` (`policy.c:440`) does not look
  above. For the limits that are demanded the walk meets the parent
  (`AdmittedWithinLimits`).
* A SIGTERM that somebody else sends to a child while it waits for an answer.
* Encryption: AES, the integrity blocks, the keys of the greeting. The mode
  that is agreed on is modelled, what it does to the bytes is not.
* Logging, sockets, command lines of tools, availability checks, result files,
  parsing of host names and options that do not go into a request: input and
  output without state that another part relies on.
* On the control connection: messages that arrive in part, a connection that
  is reset, and messages of a peer that is not bwctl. The alarm of the client is
  one of the signals.
* The start of `bwctld` (options, pid file, becoming a daemon) and the `ntp`
  discipline of the clock. The time an endpoint's timer is set to: a timer rings
  at some later moment, so that the models do not say whether a tool had the
  time it was promised.

## Plan

1. Action properties from the inductive invariants there are: that a session once
   started is never renewed, that a descriptor is not given away while a message
   is read from it.
2. The composition of `Broker` with the answers of the calendar.
3. The longest prefix match of `GetNodeFromAddr` and the lookup of users against
   a reference definition.
