------------------------------- MODULE Bwctl -------------------------------
(***************************************************************************)
(* The program bwctl (bwctl/bwctl.c): for every testing interval it        *)
(* connects to the two hosts, or forks a server of its own for one that    *)
(* has none, picks a tool, negotiates one time with both, starts the test, *)
(* collects the results and closes the connections.  What goes on on one   *)
(* connection is in ControlProtocol; here a server answers a request with  *)
(* a time that is not before the one it was asked for, or refuses.         *)
(*                                                                         *)
(* What outlives an interval is kept: session_requested, the tool, the     *)
(* flag fake_daemon, the pid of the forked server, and the alarm.          *)
(***************************************************************************)
EXTENDS FiniteSetsExt, Schedulers

CONSTANTS
  Tools,       \* the tools of the test type, as the bits of their ids
  Latest,      \* the last time of the window; a request is first made for time 1
  CommandLines,
  MaxEntries   \* of a schedule, and tests of a run, in StartsOnTime

Sides == {"server", "client"}

\* A command line: the number of intervals (0 for a run without end), the list
\* of -T, the tools that can do what the other options ask for, how each side
\* is named, the sides that must have a bwctld, and which side receives.
CommandLine ==
  [nIntervals : Nat, wanted : Seq(Tools), supported : SUBSET Tools,
   kind : {k \in [Sides -> {"local", "interface", "host"}] :
             ~ (k["server"] = "local" /\ k["client"] = "local")},
   require_endpoint : {Sides, {"client"}}, receiver : Sides]

ASSUME BwctlAssumption ==
  /\ Tools \subseteq Nat \ {0} /\ Latest \in Nat \ {0} /\ MaxEntries \in Nat
  /\ \A o \in CommandLines : o \in CommandLine

NoTool == 0                    \* BWL_TOOL_UNDEFINED

VARIABLES
  \* the options
  continuous, wanted,  \* app.opt.tool_ids, the list of -T
  supported,           \* the tools that can do what the options ask for
  kind,                \* of each side: no host given (is_local), an interface, a host
  require_endpoint,    \* the sides that must have a bwctld
  receiver,            \* connected to first
  \* the loop of main()
  pc, nIntervals, exit_val, ip_exit,
  alarm,               \* whether an alarm is pending
  prev_test_failed,
  \* the two sessions
  cntrl,               \* "none", "open", "failed"
  avail_tools, fake_daemon,
  fake_daemon_pid,     \* "none", "own", or "any": the -1 that close_local_server leaves
  session_requested,
  tspec,               \* tspec.req_time
  \* negotiate_test
  req_time, tool, no_server_endpoint,
  prevtool,            \* history: the tool at the start of the interval
  \* at each server: the time reserved, and whether it was told to start
  booked, started,
  \* the forked servers: of each session, and any nobody waits for any more
  local, strays,
  killed               \* the local of close_local_server: SIGTERM was sent

options == <<continuous, wanted, supported, kind, require_endpoint, receiver>>
loop == <<nIntervals, exit_val, alarm, prev_test_failed>>
links == <<cntrl, avail_tools, fake_daemon>>
session == <<session_requested, tspec>>
choice == <<req_time, tool, no_server_endpoint>>
servers == <<booked, started>>
forked == <<fake_daemon_pid, local, strays, killed>>
vars == <<options, pc, ip_exit, loop, links, session, choice, prevtool, servers, forked>>

Init ==
  /\ \E o \in CommandLines :
       /\ nIntervals = o.nIntervals /\ continuous = (o.nIntervals = 0)
       /\ wanted = o.wanted /\ supported = o.supported
       /\ kind = o.kind /\ require_endpoint = o.require_endpoint
       /\ receiver = o.receiver
  /\ pc = "top" /\ exit_val = 0 /\ ip_exit = FALSE /\ alarm = FALSE
  /\ prev_test_failed = FALSE
  /\ cntrl = [s \in Sides |-> "none"]
  /\ avail_tools = [s \in Sides |-> {}]
  /\ fake_daemon = [s \in Sides |-> FALSE]
  /\ fake_daemon_pid = [s \in Sides |-> "none"]
  /\ session_requested = [s \in Sides |-> FALSE]
  /\ tspec = [s \in Sides |-> 0]
  /\ req_time = 0 /\ tool = NoTool /\ no_server_endpoint = FALSE
  /\ prevtool = NoTool
  /\ booked = [s \in Sides |-> 0] /\ started = [s \in Sides |-> FALSE]
  /\ local = [s \in Sides |-> FALSE] /\ strays = FALSE /\ killed = FALSE

Other(s) == IF s = "server" THEN "client" ELSE "server"

\* Every step but a signal leaves ip_exit alone; where the code calls
\* sig_check() and finds it set, exit_val becomes 1.
Checked == exit_val' = IF ip_exit THEN 1 ELSE exit_val

Goto(p) == pc' = p /\ UNCHANGED <<options, ip_exit>>

-----------------------------------------------------------------------------
(***************************************************************************)
(* The loop of main().                                                     *)
(***************************************************************************)

\* The loop test and the first sig_check().  nIntervals of a continuous run
\* wraps and is not looked at.
LoopEnds ==
  /\ pc = "top" /\ ~continuous /\ nIntervals = 0
  /\ Goto("exited")
  /\ UNCHANGED <<loop, links, session, choice, prevtool, servers, forked>>

NextInterval ==
  /\ pc = "top" /\ (continuous \/ nIntervals > 0)
  /\ nIntervals' = IF continuous THEN 0 ELSE nIntervals - 1
  /\ Checked
  /\ Goto(IF ip_exit THEN "exited" ELSE "sleep")
  /\ prevtool' = tool
  /\ UNCHANGED <<alarm, prev_test_failed, links, session, choice, servers, forked>>

\* wait_for_next_test: the time to sleep is computed (Schedulers), then
\* nanosleep().  A signal before the call is not looked at.
EnterSleep ==
  /\ pc = "sleep"
  /\ Goto("asleep")
  /\ UNCHANGED <<loop, links, session, choice, prevtool, servers, forked>>

\* The sleep is over.  Without a synchronized clock the test is skipped.
Awake ==
  /\ pc = "asleep"
  /\ \E synchronized \in BOOLEAN : Goto(IF synchronized THEN "connect1" ELSE "next")
  /\ prev_test_failed' = TRUE
  /\ UNCHANGED <<nIntervals, exit_val, alarm, links, session, choice, prevtool,
                 servers, forked>>

\* The signal interrupts it, and the sig_check() that follows ends the program; that
\* of an overdue wait for the results ends the test.
WokenUp ==
  /\ pc \in {"asleep", "overdue"} /\ ~ip_exit
  /\ ip_exit' = TRUE /\ exit_val' = 1
  /\ pc' = IF pc = "asleep" THEN "exited" ELSE "next"
  /\ UNCHANGED <<options, nIntervals, alarm, prev_test_failed, links, session,
                 choice, prevtool, servers, forked>>

-----------------------------------------------------------------------------
(***************************************************************************)
(* establish_connection: the receiver first.                               *)
(***************************************************************************)
Connecting == IF pc \in {"connect1", "check1"} THEN receiver ELSE Other(receiver)
Check == IF pc = "connect1" THEN "check1" ELSE "check2"
Connected == IF pc = "check1" THEN "connect2" ELSE "tool"

\* The address to connect to is discovered for localhost and an interface;
\* only then is fake_daemon reset.
Reset(s) == kind[s] # "host"
ResetFake(s) == [fake_daemon EXCEPT ![s] = @ /\ ~Reset(s)]

NoSourceAddress ==
  /\ pc \in {"connect1", "connect2"} /\ Reset(Connecting)
  /\ fake_daemon' = ResetFake(Connecting)
  /\ Goto("next")
  /\ UNCHANGED <<loop, cntrl, avail_tools, session, choice, prevtool, servers, forked>>

\* BWLControlOpen gives a connection.
Opened ==
  /\ pc \in {"connect1", "connect2"}
  /\ LET s == Connecting IN
       /\ cntrl' = [cntrl EXCEPT ![s] = "open"]
       /\ \E ts \in SUBSET Tools : avail_tools' = [avail_tools EXCEPT ![s] = ts]
       /\ fake_daemon' = ResetFake(s)
  /\ Goto(Check)
  /\ UNCHANGED <<loop, session, choice, prevtool, servers, forked>>

\* BWLControlTimeCheck.  The connection is kept when a signal was caught or the
\* check has failed.
TimeCheck ==
  /\ pc \in {"check1", "check2"}
  /\ \E c \in {"open", "failed"} :
       /\ cntrl' = [cntrl EXCEPT ![Connecting] = c]
       /\ Goto(IF ip_exit \/ c = "failed" THEN "next" ELSE Connected)
  /\ Checked
  /\ UNCHANGED <<nIntervals, alarm, prev_test_failed, avail_tools, fake_daemon,
                 session, choice, prevtool, servers, forked>>

\* No bwctld: spawn_local_server forks one for localhost, and for a host that
\* may do without.
MaySpawn(s) == ~ip_exit /\ (kind[s] = "local" \/ s \notin require_endpoint)

Spawned ==
  /\ pc \in {"connect1", "connect2"}
  /\ LET s == Connecting IN
       /\ MaySpawn(s)
       /\ cntrl' = [cntrl EXCEPT ![s] = "open"]
       /\ \E ts \in SUBSET Tools : avail_tools' = [avail_tools EXCEPT ![s] = ts]
       /\ fake_daemon' = [fake_daemon EXCEPT ![s] = TRUE]
       /\ fake_daemon_pid' = [fake_daemon_pid EXCEPT ![s] = "own"]
       /\ local' = [local EXCEPT ![s] = TRUE]
  /\ Goto(Check)
  /\ UNCHANGED <<loop, session, choice, prevtool, servers, strays, killed>>

\* The fork fails, or bwctl cannot talk to the server and forgets it.
NotSpawned ==
  /\ pc \in {"connect1", "connect2"} /\ MaySpawn(Connecting)
  /\ fake_daemon' = ResetFake(Connecting)
  /\ strays' \in {strays, TRUE}
  /\ Goto("next")
  /\ UNCHANGED <<loop, cntrl, avail_tools, session, choice, prevtool, servers,
                 fake_daemon_pid, local, killed>>

Unreachable ==
  /\ pc \in {"connect1", "connect2"} /\ ~MaySpawn(Connecting)
  /\ fake_daemon' = ResetFake(Connecting)
  /\ Checked
  /\ Goto("next")
  /\ UNCHANGED <<nIntervals, alarm, prev_test_failed, cntrl, avail_tools, session,
                 choice, prevtool, servers, forked>>

-----------------------------------------------------------------------------
(***************************************************************************)
(* negotiate_test.  Every failure goes to error_exit, "cancelclient".      *)
(***************************************************************************)

\* get_session_address finds no address for one of the two.
NoAddress ==
  /\ pc = "tool"
  /\ exit_val' = 1
  /\ Goto("cancelclient")
  /\ UNCHANGED <<nIntervals, alarm, prev_test_failed, links, session, choice,
                 prevtool, servers, forked>>

\* Mutant: a tool that one of the two has is good enough.
AnyTools == avail_tools["client"] \cup avail_tools["server"]

\* BWLToolGetCommonTools
Common == avail_tools["client"] \cap avail_tools["server"]

\* The first tool, by its id, that both have and that can do the test; when
\* there is none the id is shifted out and is that of no tool.  With -T the
\* first of the list, and when there is none the tool stays what it was.
Usable == Common \cap supported
PickTool ==
  LET fits == {k \in DOMAIN wanted : wanted[k] \in Usable} IN
    IF wanted = <<>>
    THEN IF Usable = {} THEN NoTool ELSE Min(Usable)
    ELSE IF fits = {} THEN tool ELSE wanted[Min(fits)]

NoToolPicked ==
  /\ pc = "tool"
  /\ Common = {} \/ (wanted # <<>> /\ PickTool = NoTool)
  /\ Goto("cancelclient")
  /\ UNCHANGED <<loop, links, session, choice, prevtool, servers, forked>>

\* The clock cannot be read.
NoTimeStamp ==
  /\ pc = "tool"
  /\ Common # {} /\ (wanted # <<>> => PickTool # NoTool)
  /\ tool' = PickTool
  /\ Goto("cancelclient")
  /\ UNCHANGED <<loop, links, session, req_time, no_server_endpoint, prevtool,
                 servers, forked>>

\* The request is made up, and the sessions start afresh.
OneSided == fake_daemon["server"] /\ kind["server"] # "local"

Prepare ==
  /\ pc = "tool"
  /\ Common # {} /\ (wanted # <<>> => PickTool # NoTool)
  /\ tool' = PickTool
  /\ no_server_endpoint' = OneSided
  /\ req_time' = 1
  /\ tspec' = [s \in Sides |-> 0]
  /\ session_requested' = [s \in Sides |-> FALSE]
  /\ Goto("askserver")
  /\ UNCHANGED <<loop, links, prevtool, servers, forked>>

\* negotiate_individual_test and what follows it in the loop of negotiate_test.
Asked == IF pc = "askserver" THEN "server" ELSE "client"

\* The client is asked when it was not yet, or for another time.
AskClient(requested, times) ==
  ~requested["client"] \/ times["client"] # times["server"]

\* Mutant: the loop ends when both have granted a time.
BothGranted(times) == "startserver"

\* The loop ends when both have granted the same time.
NextAsked(times) ==
  IF times["client"] = times["server"] THEN "startserver" ELSE "askserver"

\* The times a server may grant.  Those of bwctld keep to the latest time of the
\* request; the policy of the forked one only moves a start that is too early
\* for its clock, and the time may be out of the window.
CheckTestPolicy(s) == req_time .. (IF local[s] THEN Latest + 1 ELSE Latest)

\* The server grants a time.
Granted ==
  /\ pc \in {"askserver", "askclient"}
  /\ LET s == Asked IN
     \E t \in CheckTestPolicy(s) :
       /\ booked' = [booked EXCEPT ![s] = t]
       /\ req_time' = t
       /\ tspec' = [tspec EXCEPT ![s] = IF ip_exit \/ t > Latest THEN req_time ELSE t]
       /\ session_requested' = [session_requested EXCEPT ![s] = @ \/ ~ip_exit]
       /\ Goto(IF ip_exit \/ t > Latest THEN "cancelclient"
               ELSE IF s = "server" /\ AskClient(session_requested, tspec') THEN "askclient"
               ELSE NextAsked(tspec'))
  /\ Checked
  /\ UNCHANGED <<nIntervals, alarm, prev_test_failed, links, tool,
                 no_server_endpoint, prevtool, started, forked>>

\* The signal comes when session_requested is set, and the next sig_check() sees it.
GrantedThenStopped ==
  /\ pc \in {"askserver", "askclient"} /\ ~ip_exit
  /\ \E t \in CheckTestPolicy(Asked) \cap 1 .. Latest :
       /\ booked' = [booked EXCEPT ![Asked] = t]
       /\ tspec' = [tspec EXCEPT ![Asked] = t]
       /\ req_time' = t
  /\ session_requested' = [session_requested EXCEPT ![Asked] = TRUE]
  /\ ip_exit' = TRUE /\ exit_val' = 1 /\ pc' = "cancelclient"
  /\ UNCHANGED <<options, nIntervals, alarm, prev_test_failed, links, tool,
                 no_server_endpoint, prevtool, started, forked>>

\* It refuses, and the session is gone at both ends, or the connection breaks.
Refused ==
  /\ pc \in {"askserver", "askclient"}
  /\ LET s == Asked IN
       /\ booked' = [booked EXCEPT ![s] = 0]
       /\ tspec' = [tspec EXCEPT ![s] = req_time]
       /\ \E c \in {"open", "failed"} : cntrl' = [cntrl EXCEPT ![s] = c]
  /\ req_time' = 0
  /\ Goto("cancelclient")
  /\ UNCHANGED <<loop, avail_tools, fake_daemon, session_requested, tool,
                 no_server_endpoint, prevtool, started, forked>>

\* error_exit: a request for time 0.  It cancels the session there is; when
\* there is none (it was refused, or session_requested is of an earlier
\* interval) it asks for a new one, which the server may book.
Cancel ==
  /\ pc \in {"cancelclient", "cancelserver"}
  /\ LET s == IF pc = "cancelclient" THEN "client" ELSE "server"
         then == IF pc = "cancelclient" THEN "cancelserver" ELSE "next" IN
       /\ Goto(then)
       /\ tspec' = [tspec EXCEPT ![s] = IF session_requested[s] THEN 0 ELSE @]
       /\ IF session_requested[s] /\ cntrl[s] = "open" /\ booked[s] = 0
          THEN \E t \in {0} \cup 1 .. Latest : booked' = [booked EXCEPT ![s] = t]
          ELSE booked' = [booked EXCEPT ![s] = IF session_requested[s] THEN 0 ELSE @]
  /\ UNCHANGED <<loop, links, session_requested, choice, prevtool, started, forked>>

-----------------------------------------------------------------------------
(***************************************************************************)
(* setup_results_storage, start_testing, wait_for_results, display_results *)
(***************************************************************************)
NoStorage ==
  /\ pc = "startserver"
  /\ Goto("next")
  /\ UNCHANGED <<loop, links, session, choice, prevtool, servers, forked>>

Starting == IF pc = "startserver" THEN "server" ELSE "client"

Start ==
  /\ pc \in {"startserver", "startclient"}
  /\ started' = [started EXCEPT ![Starting] = TRUE]
  /\ Checked
  /\ Goto(IF ip_exit THEN "next" ELSE IF pc = "startserver" THEN "startclient" ELSE "wait")
  /\ UNCHANGED <<nIntervals, alarm, prev_test_failed, links, session, choice,
                 prevtool, booked, forked>>

\* A call that fails leaves no session on its connection.
Break(s) ==
  /\ cntrl' = [cntrl EXCEPT ![s] = "failed"]
  /\ booked' = [booked EXCEPT ![s] = 0]
  /\ started' = [started EXCEPT ![s] = FALSE]

StartFails ==
  /\ pc \in {"startserver", "startclient"}
  /\ Break(Starting)
  /\ Goto("next")
  /\ UNCHANGED <<loop, avail_tools, fake_daemon, session, choice, prevtool, forked>>

\* Mutant: the results are waited for without a timer.
SetNoAlarm == alarm' = FALSE

SetAlarm == alarm' = TRUE

\* The select of wait_for_results ends: with the test, on a signal or on an alarm
\* that was still running.
WaitEnds(alarmLeft) ==
  /\ IF ip_exit THEN Goto("next") /\ alarm' = alarmLeft ELSE Goto("endclient") /\ SetAlarm
  /\ Checked
  /\ UNCHANGED <<nIntervals, prev_test_failed, links, session, choice, prevtool,
                 servers, forked>>

Wait == pc = "wait" /\ WaitEnds(alarm)

\* The answer to StartSession has come after endtime: the time left wraps, and the
\* select is for years ...
Overdue ==
  /\ pc = "wait" /\ Goto("overdue")
  /\ UNCHANGED <<loop, links, session, choice, prevtool, servers, forked>>

\* ... unless a socket becomes readable or a child dies.
OverdueEnds == pc = "overdue" /\ WaitEnds(alarm)

\* BWLEndSession: the results are there.
Ending == IF pc = "endclient" THEN "client" ELSE "server"

Deliver(s) ==
  /\ booked' = [booked EXCEPT ![s] = 0]
  /\ started' = [started EXCEPT ![s] = FALSE]
  /\ session_requested' = [session_requested EXCEPT ![s] = FALSE]

ClientEnds ==
  /\ pc = "endclient" /\ ~ip_exit
  /\ Deliver("client")
  /\ SetAlarm
  /\ Goto("endserver")
  /\ UNCHANGED <<nIntervals, exit_val, prev_test_failed, links, tspec, choice,
                 prevtool, forked>>

\* Mutant: the alarm is left running.
AlarmLeft == UNCHANGED alarm

\* alarm(0)
AlarmOff == alarm' = FALSE

ServerEnds ==
  /\ pc = "endserver" /\ ~ip_exit
  /\ Deliver("server")
  /\ AlarmOff
  /\ prev_test_failed' = FALSE
  /\ Goto("next")
  /\ UNCHANGED <<nIntervals, exit_val, links, tspec, choice, prevtool, forked>>

\* The call fails, and the alarm stays set: a signal was caught ...
EndFails ==
  /\ pc \in {"endclient", "endserver"}
  /\ Break(Ending)
  /\ pc' = "next" /\ UNCHANGED options
  /\ UNCHANGED <<nIntervals, exit_val, prev_test_failed, avail_tools, fake_daemon,
                 session, choice, prevtool, forked>>

EndInterrupted == ip_exit /\ EndFails /\ UNCHANGED <<ip_exit, alarm>>

\* ... or the connection breaks.
EndBroken == ~ip_exit /\ EndFails /\ UNCHANGED <<ip_exit, alarm>>

-----------------------------------------------------------------------------
(***************************************************************************)
(* next_test and finish: CloseSessions.                                    *)
(***************************************************************************)

\* What is set anew before it is read again is cleared here.
NextTest ==
  /\ pc = "next"
  /\ Checked
  /\ Goto("closeclient")
  /\ req_time' = 0 /\ no_server_endpoint' = FALSE /\ prevtool' = NoTool
  /\ avail_tools' = [s \in Sides |-> {}] /\ tspec' = [s \in Sides |-> 0]
  /\ UNCHANGED <<nIntervals, alarm, prev_test_failed, cntrl, fake_daemon,
                 session_requested, tool, servers, forked>>

Closing == IF pc \in {"closeclient", "reapclient"} THEN "client" ELSE "server"
Closed ==
  IF Closing = "client" THEN "closeserver" ELSE IF exit_val # 0 THEN "exited" ELSE "top"

\* fake_daemon_pid is unsigned, and the -1 of a server already closed counts
\* as one that is there.
Waits(s) == fake_daemon_pid[s] # "none"

\* The connection is closed, and the server drops what it holds.
Close ==
  /\ pc \in {"closeclient", "closeserver"}
  /\ LET s == Closing IN
       /\ cntrl' = [cntrl EXCEPT ![s] = "none"]
       /\ IF cntrl[s] = "none"
          THEN Goto(Closed) /\ UNCHANGED <<booked, started>>
          ELSE /\ booked' = [booked EXCEPT ![s] = 0]
               /\ started' = [started EXCEPT ![s] = FALSE]
               /\ Goto(IF ~Waits(s) THEN Closed
                       ELSE IF s = "client" THEN "reapclient" ELSE "reapserver")
  /\ UNCHANGED <<loop, avail_tools, fake_daemon, session, choice, prevtool, forked>>

\* close_local_server: up to two seconds for the server to end by itself,
\* SIGTERM, and two more.
Reaping == pc \in {"reapclient", "reapserver"}
Own == fake_daemon_pid[Closing] = "own"

RUnchanged == UNCHANGED <<loop, links, session, choice, prevtool, servers>>

ForgetPid(s) == [fake_daemon_pid EXCEPT ![s] = "any"]

\* A forked server ends when SIGTERM was sent, when its connection fails, or
\* when it reads the end of the stream; that does not come as long as a server
\* forked later holds the inherited descriptor.  When it ends is open.
Inherited(s) == s = receiver /\ local[Other(s)]
MayEnd(s) == cntrl[s] = "failed" \/ (cntrl[s] = "none" /\ ~Inherited(s)) \/ killed

\* waitpid finds that the server has ended ...
Reaped ==
  /\ Reaping /\ Own /\ (local[Closing] => MayEnd(Closing))
  /\ local' = [local EXCEPT ![Closing] = FALSE]
  /\ fake_daemon_pid' = ForgetPid(Closing)
  /\ killed' = FALSE
  /\ Goto(Closed)
  /\ UNCHANGED strays /\ RUnchanged

\* ... or, asked for the process -1, that some child has, or that there is none.
AnyReaped ==
  /\ Reaping /\ ~Own
  /\ \/ ~strays /\ (\A s \in Sides : ~local[s]) /\ UNCHANGED <<local, strays>>
     \/ strays /\ strays' \in BOOLEAN /\ UNCHANGED local
     \/ \E s \in Sides : /\ local[s] /\ MayEnd(s)
                         /\ local' = [local EXCEPT ![s] = FALSE]
                         /\ UNCHANGED strays
  /\ fake_daemon_pid' = ForgetPid(Closing)
  /\ killed' = FALSE
  /\ Goto(Closed)
  /\ RUnchanged

\* The first timeout: SIGTERM to the server, or to the process -1, which is
\* every process of the user.
Alive == IF Own THEN local[Closing] ELSE strays \/ \E s \in Sides : local[s]

Kill ==
  /\ Reaping /\ Alive /\ ~killed
  /\ killed' = TRUE
  /\ Goto(pc)
  /\ UNCHANGED <<fake_daemon_pid, local, strays>> /\ RUnchanged

\* The second timeout, or a signal: the server is given up.
GivenUp ==
  /\ fake_daemon_pid' = ForgetPid(Closing)
  /\ local' = IF Own THEN [local EXCEPT ![Closing] = FALSE] ELSE local
  /\ strays' = (strays \/ Own)
  /\ killed' = FALSE
  /\ pc' = Closed

GiveUp ==
  /\ Reaping /\ Alive /\ killed
  /\ GivenUp
  /\ UNCHANGED <<options, ip_exit>> /\ RUnchanged

-----------------------------------------------------------------------------
(***************************************************************************)
(* Signals and the alarm.                                                  *)
(***************************************************************************)

\* A signal that comes while bwctl waits for a forked server interrupts the
\* select, and if the server is still there it is given up.
Interrupted ==
  /\ IF Reaping /\ Alive THEN GivenUp ELSE UNCHANGED <<pc, forked>>
  /\ UNCHANGED <<options, nIntervals, exit_val, prev_test_failed, links, session,
                 choice, prevtool, servers>>

\* SIGINT, SIGTERM or SIGHUP
Signal ==
  /\ ~ip_exit /\ pc \notin {"asleep", "overdue", "exited"}
  /\ ip_exit' = TRUE
  /\ Interrupted
  /\ UNCHANGED alarm

\* SIGCHLD: the death of another child interrupts the select just so.
ChildDies ==
  /\ Reaping /\ Own /\ Alive
  /\ strays \/ LET s == Other(Closing) IN local[s] /\ MayEnd(s)
  /\ Interrupted
  /\ UNCHANGED <<alarm, ip_exit>>

\* SIGALRM: it ends the wait for the results.
Ring ==
  /\ alarm /\ pc # "exited"
  /\ IF pc = "overdue" THEN WaitEnds(FALSE)
     ELSE /\ alarm' = FALSE
          /\ IF pc \in {"endclient", "endserver"} THEN EndFails ELSE Interrupted
  /\ UNCHANGED ip_exit

-----------------------------------------------------------------------------
Step ==
  \/ LoopEnds \/ NextInterval \/ EnterSleep \/ Awake
  \/ NoSourceAddress \/ Opened \/ TimeCheck \/ Spawned \/ NotSpawned \/ Unreachable
  \/ NoAddress \/ NoToolPicked \/ NoTimeStamp \/ Prepare \/ Granted \/ Refused \/ Cancel
  \/ NoStorage \/ Start \/ StartFails \/ Wait \/ EndInterrupted
  \/ NextTest \/ Close \/ Reaped \/ AnyReaped \/ Kill \/ GiveUp

Next ==
  \/ Step \/ GrantedThenStopped \/ Overdue \/ OverdueEnds
  \/ ClientEnds \/ ServerEnds \/ EndBroken
  \/ WokenUp \/ Signal \/ ChildDies \/ Ring

\* bwctl goes on, every request but the last is answered (ConnectionEnds of
\* ControlProtocol), and the alarm rings; the results may never come.
Fairness == WF_vars(Step) /\ WF_vars(Ring)

Spec == Init /\ [][Next]_vars /\ Fairness

-----------------------------------------------------------------------------
(***************************************************************************)
(* Properties                                                              *)
(***************************************************************************)

\* A server is told to start only when both hold a reservation for the same
\* time, inside the window the user gave (negotiate_test, start_testing).
StartAgreed ==
  pc \in {"startserver", "startclient", "wait", "overdue", "endclient"} =>
    /\ booked["server"] = booked["client"]
    /\ booked["server"] \in 1 .. Latest
    /\ \A s \in Sides : cntrl[s] = "open" /\ session_requested[s]

\* Between the intervals and at the end nothing is left of a test, however it
\* ended: no connection, no reservation, no forked server that is still waited
\* for; and after a test that went well no alarm is running and no session
\* counts as requested (CloseSessions, wait_for_results).
NothingLeft ==
  pc \in {"top", "exited"} =>
    /\ \A s \in Sides :
         cntrl[s] = "none" /\ booked[s] = 0 /\ ~started[s] /\ ~local[s]
    /\ ~prev_test_failed => ~alarm /\ \A s \in Sides : ~session_requested[s]

\* What is asked for can be done: both hosts have the tool and it supports the
\* options, and a side without bwctld is not taken for an endpoint
\* (negotiate_test).  The tool may also be none, without -T, and with -T it may
\* be one left over from the interval before.
RequestFits ==
  pc \in {"askserver", "askclient", "startserver", "startclient", "wait", "overdue"} =>
    /\ LET both == {t \in supported : \A s \in Sides : t \in avail_tools[s]} IN
       \/ tool \in both
       \/ wanted = <<>> /\ tool = NoTool /\ both = {}
       \/ wanted # <<>> /\ tool = prevtool /\ tool # NoTool
    /\ local["server"] /\ kind["server"] # "local" => no_server_endpoint
    /\ no_server_endpoint => "server" \notin require_endpoint

\* An interval that has begun comes to its end, and a signal ends the program,
\* whatever the servers do (main, wait_for_results, close_local_server), unless the
\* wait for the results began when the test was over and never ends.
IntervalEnds ==
  []<>(pc # "overdue") =>
    /\ pc = "connect1" ~> pc \in {"top", "exited"}
    /\ ip_exit ~> pc = "exited"

\* A test starts when the user said: for a schedule at the first of its times
\* that is not past, for regular intervals one interval, give or take the
\* random share, after the start before, or at once when the test in between
\* took longer; the starts do not drift (the schedulers, parse_time_schedule).
StartsOnTime == pc = "sleep" =>
  /\ \A n \in 1 .. MaxEntries : \A schedule \in [1 .. n -> Entries] :
       LET said(t) == \E k \in 1 .. n : IF schedule[k].every
                                        THEN t % HourLength = schedule[k].at
                                        ELSE t % Day = schedule[k].at IN
       \A now \in 0 .. Day - 1 :
         LET wait == scheduled_wait(parse_time_schedule(schedule), now) IN
           said(now + wait) /\ \A k \in 0 .. wait - 1 : ~said(now + k)
  /\ \A interval \in 2 .. 3, alpha \in 0 .. 1 :
     \A tests \in [1 .. MaxEntries -> [takes : 0 .. 4, off : -alpha .. alpha]] :
       LET starts == Starts(1, interval, tests) IN
       \A k \in 1 .. MaxEntries :
         LET gap == starts[k] - starts[k - 1] IN
           gap \in (interval - alpha) .. (interval + alpha)
             \/ (gap = tests[k].takes /\ gap > interval - alpha)

\* The SIGTERM of close_local_server goes to the server that was forked for
\* the session: "killing daemon process" (bwctl/bwctl.c).  Not so: the pid is
\* an unsigned number, -1 in it passes for a pid, and kill(-1) is to everyone.
SignalsOwnServer == Reaping /\ killed => Own
=============================================================================
