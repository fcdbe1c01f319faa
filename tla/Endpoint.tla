------------------------------ MODULE Endpoint ------------------------------
(***************************************************************************)
(* The two endpoint processes of one test (bwlib/endpoint.c).  Each is     *)
(* forked by the process that serves a control connection; it connects to  *)
(* its peer, forks the tool, compares clocks, waits for the end of the     *)
(* test, makes sure the tool is dead, trades results with the peer and     *)
(* exits with the verdict.                                                 *)
(*                                                                         *)
(* A handler runs between any two steps and only sets flags; it makes a    *)
(* call return if the endpoint is already blocked in it.  A signal that    *)
(* falls between a test of the flags and the blocking call is missed.      *)
(* Time is abstract: a timer that is set goes off at some later moment.    *)
(***************************************************************************)
EXTENDS Integers

CONSTANT MaxFaults    \* how often the network is cut or an endpoint stopped

ASSUME FaultsAssumption == MaxFaults \in Nat

VARIABLES
  alone,      \* test_spec.no_server_endpoint: the client has no peer
  cut,        \* the network between the endpoints is down
  faults,     \* how many faults there were
  pc,         \* where each endpoint is
  ipf,        \* its flags ipf_term, ipf_chld, ipf_intr (ipf_alrm says no more than
              \* ipf_intr where the code looks at it)
  timer,      \* whether its interval timer runs
  rc,         \* its last select: 1 the peer is readable, -1 interrupted, else 0
  rcntrl,     \* whether it has a connection to its peer
  adopted,    \* rcntrl->tests = tsess: closing the connection stops the tool
  tool,       \* the process of its tool
  termed,     \* the tool has been sent a SIGTERM it will act on
  killed,     \* ep->killed
  acceptval,  \* ep->acceptval: what is known of the local tool
  sync,       \* the exchange of times: "none", "asked", "answered"
  stop,       \* the StopSession each has written, Invalid if none
  aval,       \* what the peer's has said
  status      \* what each has exited with, Invalid before

world == <<alone, cut, faults>>
process == <<pc, ipf, timer, rc, status>>
peering == <<rcntrl, adopted>>
tools == <<tool, termed, killed, acceptval>>
wire == <<sync, stop, aval>>
vars == <<world, process, peering, tools, wire>>

\* BWLAcceptType
Invalid == -1
Accept == 0
Reject == 1
Failure == 2

Endpoints == {"server", "client"}
Peer(e) == IF e = "server" THEN "client" ELSE "server"

Live == {"waiting", "running"}

InitialAvalAccept == Accept
InitialAval == Failure

Init ==
  /\ alone \in BOOLEAN /\ cut = FALSE /\ faults = 0
  /\ pc = [e \in Endpoints |-> IF alone /\ e = "server" THEN "exited" ELSE "start"]
  /\ ipf = [e \in Endpoints |-> {}]
  /\ timer = [e \in Endpoints |-> FALSE]
  /\ rc = [e \in Endpoints |-> 0]
  /\ rcntrl = [e \in Endpoints |-> FALSE]
  /\ adopted = [e \in Endpoints |-> FALSE]
  /\ tool = [e \in Endpoints |-> "none"]
  /\ termed = [e \in Endpoints |-> FALSE]
  /\ killed = [e \in Endpoints |-> FALSE]
  /\ acceptval = [e \in Endpoints |-> Invalid]
  /\ sync = "none"
  /\ stop = [e \in Endpoints |-> Invalid]
  /\ aval = [e \in Endpoints |-> InitialAval]
  /\ status = [e \in Endpoints |-> Invalid]

Goto(e, place) ==
  /\ pc' = [pc EXCEPT ![e] = place]
  /\ UNCHANGED <<ipf, timer, rc, status>>

\* The call forgotten.
SetNoTimer(e, place) == Goto(e, place)

\* setitimer(), and on to the place.
SetTimer(e, place) ==
  /\ pc' = [pc EXCEPT ![e] = place]
  /\ timer' = [timer EXCEPT ![e] = TRUE]
  /\ UNCHANGED <<ipf, rc, status>>

\* The process is gone, its timer and its flags with it.
Exit(e, value) ==
  /\ pc' = [pc EXCEPT ![e] = "exited"]
  /\ ipf' = [ipf EXCEPT ![e] = {}]
  /\ timer' = [timer EXCEPT ![e] = FALSE]
  /\ rc' = [rc EXCEPT ![e] = 0]
  /\ status' = [status EXCEPT ![e] = value]

-----------------------------------------------------------------------------
(***************************************************************************)
(* Before the test.                                                        *)
(***************************************************************************)

\* Handlers are set.  It is too late, or the first timer is set, to go off at the
\* reserved time.
Start(e) ==
  /\ pc[e] = "start"
  /\ IF "term" \in ipf[e] THEN Exit(e, Failure)
     ELSE \/ Goto(e, "end")
          \/ SetTimer(e, IF alone THEN "opened" ELSE "opening")
  /\ UNCHANGED <<world, peering, tools, wire>>

EnterOpen(e) ==
  /\ pc[e] = "opening" /\ Goto(e, "open")
  /\ UNCHANGED <<world, peering, tools, wire>>

\* accept() and BWLControlAccept at the server, BWLControlOpen at the client: the
\* handshake begins when both are there, and the server is through with it first.
Open(e) ==
  /\ pc[e] = "open" /\ ~cut
  /\ IF e = "server" THEN pc["client"] = "open" ELSE rcntrl["server"]
  /\ rcntrl' = [rcntrl EXCEPT ![e] = TRUE]
  /\ Goto(e, "opened")
  /\ UNCHANGED <<world, adopted, tools, wire>>

\* The connection is refused, or the handshake comes to nothing.
OpenFails(e) ==
  /\ pc[e] = "open"
  /\ e = "server" => pc["client"] \notin {"start", "opening"}
  /\ Goto(e, "end")
  /\ UNCHANGED <<world, peering, tools, wire>>

Fork(e) ==
  /\ pc[e] = "opened" /\ "intr" \notin ipf[e]
  /\ Goto(e, "forked")
  /\ tool' = [tool EXCEPT ![e] = "waiting"]
  /\ UNCHANGED <<world, peering, termed, killed, acceptval, wire>>

NoFork(e) ==
  /\ pc[e] = "opened"
  /\ IF "intr" \in ipf[e] THEN Goto(e, "end") ELSE Exit(e, Failure)
  /\ UNCHANGED <<world, peering, tools, wire>>

\* The second timer is set for the end of the test.  An endpoint that is now too
\* late, or is being stopped, ends with its tool still waiting for its time.
Forked(e) ==
  /\ pc[e] = "forked"
  /\ \/ Goto(e, "end")
     \/ "term" \notin ipf[e] /\ SetTimer(e, IF alone THEN "waiting" ELSE "syncing")
  /\ UNCHANGED <<world, peering, tools, wire>>

EnterSync(e) ==
  /\ pc[e] = "syncing" /\ Goto(e, "sync")
  /\ sync' = IF e = "client" THEN "asked" ELSE sync
  /\ UNCHANGED <<world, peering, tools, stop, aval>>

Adopt(e) == adopted' = [adopted EXCEPT ![e] = TRUE]

\* BWLProcessTimeRequest
TimeRequest(e) ==
  /\ pc[e] = "sync" /\ e = "server" /\ ~cut
  /\ sync = "asked" /\ sync' = "answered"
  /\ Adopt(e) /\ Goto(e, "waiting")
  /\ UNCHANGED <<world, rcntrl, tools, stop, aval>>

\* BWLControlTimeCheck.  The client sets ipf_intr if the clocks are too far apart.
TimeCheck(e) ==
  /\ pc[e] = "sync" /\ e = "client" /\ ~cut
  /\ sync = "answered"
  /\ ipf' = [ipf EXCEPT ![e] = @ \cup {"intr"}] \/ UNCHANGED ipf
  /\ Adopt(e) /\ pc' = [pc EXCEPT ![e] = "waiting"]
  /\ UNCHANGED <<world, timer, rc, status, rcntrl, tools, wire>>

\* The peer's end of the connection is closed, and this end can tell.
AtEOF(e) == pc[Peer(e)] = "exited" /\ ~cut

SyncFails(e) ==
  /\ pc[e] = "sync" /\ AtEOF(e)
  /\ sync # IF e = "server" THEN "asked" ELSE "answered"
  /\ Goto(e, "end")
  /\ UNCHANGED <<world, peering, tools, wire>>

-----------------------------------------------------------------------------
(***************************************************************************)
(* The test, and the death of the tool.                                    *)
(***************************************************************************)

Waiting(e) ==
  /\ pc[e] = "waiting"
  /\ Goto(e, IF "intr" \in ipf[e] THEN "woken" ELSE "selecting")
  /\ UNCHANGED <<world, peering, tools, wire>>

EnterSelect(e) ==
  /\ \/ pc[e] = "selecting" /\ Goto(e, "select")
     \/ pc[e] = "trading" /\ Goto(e, "select2")
  /\ UNCHANGED <<world, peering, tools, wire>>

Readable(e) == rcntrl[e] /\ ~cut /\ (stop[Peer(e)] # Invalid \/ AtEOF(e))

SelectReady(e) ==
  /\ Readable(e)
  /\ \/ pc[e] = "select" /\ pc' = [pc EXCEPT ![e] = "woken"]
     \/ pc[e] = "select2" /\ pc' = [pc EXCEPT ![e] = "read"]
  /\ rc' = [rc EXCEPT ![e] = 1]
  /\ UNCHANGED <<world, ipf, timer, status, peering, tools, wire>>

\* SIGTERM to the tool.  A tool may take no notice of it; one that is still in
\* run_tool misses it if it comes between the test of ipf_term and nanosleep().
TermTool(e) ==
  /\ killed' = [killed EXCEPT ![e] = TRUE]
  /\ \/ tool[e] \in Live /\ termed' = [termed EXCEPT ![e] = TRUE]
     \/ UNCHANGED termed

\* The timer is taken off; a tool not known to be dead is killed gracefully.
Woken(e) ==
  /\ pc[e] = "woken"
  /\ pc' = [pc EXCEPT ![e] = IF "term" \in ipf[e] THEN "end" ELSE "status"]
  /\ timer' = [timer EXCEPT ![e] = FALSE]
  /\ IF "chld" \in ipf[e] THEN UNCHANGED <<termed, killed>> ELSE TermTool(e)
  /\ UNCHANGED <<world, ipf, rc, status, peering, tool, acceptval, wire>>

\* _BWLEndpointStatus: waitpid() of a tool that is dead.
EndpointStatus(e, end) ==
  CASE end = "ok" -> Accept
    [] end = "signalled" /\ killed[e] -> Reject
    [] OTHER -> Failure

\* The second look dropped.
LookOnce(e) ==
  /\ acceptval' = [acceptval EXCEPT ![e] =
                     IF tool[e] \in Live THEN @ ELSE EndpointStatus(e, tool[e])]
  /\ UNCHANGED <<tool, termed>>

\* A second after the graceful kill: a tool that is still there gets SIGKILL, and
\* is waited for.
LookTwice(e) ==
  LET end == IF tool[e] \in Live THEN "signalled" ELSE tool[e] IN
  /\ tool' = [tool EXCEPT ![e] = end]
  /\ termed' = [termed EXCEPT ![e] = FALSE]
  /\ acceptval' = [acceptval EXCEPT ![e] = EndpointStatus(e, end)]

\* The third timer is for the trade of results.
Status(e) ==
  /\ pc[e] = "status"
  /\ LookTwice(e)
  /\ IF rcntrl[e] THEN SetTimer(e, "write") ELSE Goto(e, "end")
  /\ UNCHANGED <<world, peering, killed, wire>>

-----------------------------------------------------------------------------
(***************************************************************************)
(* The trade of results, and the end.                                      *)
(***************************************************************************)

\* _BWLWriteStopSession
Write(e) ==
  /\ pc[e] = "write"
  /\ stop' = [stop EXCEPT ![e] = acceptval[e]]
  /\ Goto(e, "traded")
  /\ UNCHANGED <<world, peering, tools, sync, aval>>

WriteFails(e) ==
  /\ pc[e] = "write"
  /\ pc[Peer(e)] = "exited" \/ "intr" \in ipf[e]
  /\ Goto(e, "end")
  /\ UNCHANGED <<world, peering, tools, wire>>

\* A first select that was interrupted is repeated.
Traded(e) ==
  /\ pc[e] = "traded"
  /\ rc' = [rc EXCEPT ![e] = IF @ < 0 THEN 0 ELSE @]
  /\ pc' = [pc EXCEPT ![e] = CASE "term" \in ipf[e] -> "end"
                               [] "term" \notin ipf[e] /\ rc[e] > 0 -> "read"
                               [] OTHER -> "trading"]
  /\ UNCHANGED <<world, ipf, timer, status, peering, tools, wire>>

\* The peer's StopSession, or the end of the connection.
Read(e) ==
  /\ pc[e] = "read"
  /\ aval' = [aval EXCEPT ![e] = IF stop[Peer(e)] # Invalid THEN stop[Peer(e)] ELSE @]
  /\ Goto(e, "end")
  /\ UNCHANGED <<world, peering, tools, sync, stop>>

\* aval & acceptval, two values of two bits; -1 has all of them.
Own(a, b) == IF b = Invalid THEN Failure ELSE b
And(a, b) == IF b = Invalid \/ a = b THEN a ELSE 0

\* BWLControlClose frees the sessions of the connection.  The tool of an adopted
\* one whose end is not known gets a SIGTERM and is waited for (_BWLEndpointStop),
\* with no timer and no SIGKILL.
CloseStopsNone(e) == FALSE
CloseStops(e) == rcntrl[e] /\ adopted[e] /\ acceptval[e] = Invalid

End(e) ==
  /\ pc[e] = "end"
  /\ IF CloseStops(e)
       THEN TermTool(e) /\ Goto(e, "stopping")
       ELSE UNCHANGED <<termed, killed>> /\ Exit(e, And(aval[e], acceptval[e]))
  /\ UNCHANGED <<world, peering, tool, acceptval, wire>>

\* acceptval was saved before the close.
Stopped(e) ==
  /\ pc[e] = "stopping" /\ tool[e] \notin Live
  /\ Exit(e, And(aval[e], acceptval[e]))
  /\ UNCHANGED <<world, peering, tools, wire>>

-----------------------------------------------------------------------------
(***************************************************************************)
(* Signals, tools and the network.                                         *)
(***************************************************************************)

\* Where a blocked endpoint goes on when a handler has run.
Interrupted(e, flags) ==
  CASE pc[e] \in {"open", "sync"} /\ "intr" \in flags -> "end"
    [] pc[e] = "select" -> "woken"
    [] pc[e] = "select2" -> "end"
    [] OTHER -> pc[e]

\* SIGCHLD does not set ipf_intr.
sig_catch(e, flag) ==
  LET flags == ipf[e] \cup IF flag = "chld" THEN {"chld"} ELSE {flag, "intr"} \ {"alrm"} IN
  /\ ipf' = [ipf EXCEPT ![e] = flags]
  /\ rc' = [rc EXCEPT ![e] = IF pc[e] = "select" THEN -1 ELSE @]
  /\ pc' = [pc EXCEPT ![e] = Interrupted(e, flags)]
  /\ UNCHANGED status

Alarm(e) ==
  /\ timer[e]
  /\ timer' = [timer EXCEPT ![e] = FALSE]
  /\ sig_catch(e, "alrm")
  /\ UNCHANGED <<world, peering, tools, wire>>

\* The process that has started the endpoint stops it.
Terminate(e) ==
  /\ pc[e] # "exited" /\ "term" \notin ipf[e]
  /\ faults < MaxFaults /\ faults' = faults + 1
  /\ sig_catch(e, "term")
  /\ UNCHANGED <<alone, cut, timer, peering, tools, wire>>

\* run_tool: the time has come.
RunTool(e) ==
  /\ tool[e] = "waiting" /\ ~termed[e]
  /\ tool' = [tool EXCEPT ![e] = "running"]
  /\ UNCHANGED <<world, process, peering, termed, killed, acceptval, wire>>

\* The tool ends, and run_tool if it is too late or told to.  (A crash counts as
\* a failure.)
ToolExits(e) ==
  /\ tool[e] \in Live
  /\ \E end \in {"ok", "failed", "signalled"} :
       /\ tool[e] = "waiting" => end = "failed"
       /\ end = "signalled" => termed[e]
       /\ tool' = [tool EXCEPT ![e] = end]
  /\ termed' = [termed EXCEPT ![e] = FALSE]
  /\ IF pc[e] = "exited" THEN UNCHANGED process ELSE sig_catch(e, "chld") /\ UNCHANGED timer
  /\ UNCHANGED <<world, peering, killed, acceptval, wire>>

Cut ==
  /\ ~cut /\ ~alone /\ cut' = TRUE
  /\ faults < MaxFaults /\ faults' = faults + 1
  /\ UNCHANGED <<alone, process, peering, tools, wire>>

Step(e) ==
  \/ Start(e) \/ EnterOpen(e) \/ Open(e) \/ Fork(e) \/ NoFork(e) \/ Forked(e)
  \/ EnterSync(e) \/ TimeRequest(e) \/ TimeCheck(e) \/ SyncFails(e)
  \/ Waiting(e) \/ EnterSelect(e) \/ SelectReady(e) \/ Woken(e) \/ Status(e)
  \/ Write(e) \/ WriteFails(e) \/ Traded(e) \/ Read(e) \/ End(e) \/ Stopped(e)

Next ==
  \/ Cut
  \/ \E e \in Endpoints :
       Step(e) \/ OpenFails(e) \/ Alarm(e) \/ Terminate(e) \/ RunTool(e) \/ ToolExits(e)

\* Endpoints run and their timers go off; a tool ends once it heeds a SIGTERM.
Fairness ==
  \A e \in Endpoints :
    WF_vars(Step(e)) /\ WF_vars(Alarm(e)) /\ WF_vars(termed[e] /\ ToolExits(e))

Spec == Init /\ [][Next]_vars /\ Fairness

-----------------------------------------------------------------------------
(***************************************************************************)
(* Properties.                                                             *)
(***************************************************************************)

\* An endpoint that had connected and compared clocks leaves no tool behind,
\* whichever signal, message or end of file ended its wait.  (One that ends
\* between fork() and that moment does: the tool is in a process group of its own.)
NoToolLeft ==
  \A e \in Endpoints : pc[e] = "exited" /\ adopted[e] => tool[e] \notin Live

\* The results an endpoint sends are final: when it trades them its tool is dead,
\* also if it was hung, and its end is known.
ResultsFinal ==
  \A e \in Endpoints :
    pc[e] \in {"write", "traded", "trading", "select2", "read"} =>
      tool[e] \notin Live /\ acceptval[e] # Invalid

\* Two endpoints that have heard each other exit with the same verdict, so that
\* the two servers tell the same about the test.
SameVerdict ==
  (\A e \in Endpoints : status[e] # Invalid /\ stop[e] # Invalid /\ aval[e] = stop[Peer(e)])
    => status["server"] = status["client"]

\* A test is not called a success when both tools have failed by themselves, or
\* none was ever run.  One tool that has done well is enough; and so is one that
\* had to be killed if the other failed or was not heard of (1 & 2 = 0).
SuccessEarned ==
  \A e \in Endpoints : status[e] = Accept =>
    \E f \in Endpoints : tool[f] = "ok" \/ killed[f]

\* The signal that should end the wait came just before it began, and no timer is
\* set any longer.
Missed(e) ==
  /\ pc[e] \in {"open", "sync", "select", "select2"}
  /\ "intr" \in ipf[e] /\ ~timer[e]

\* The endpoint has been told to stop and waits for a tool that does not heed the
\* SIGTERM.
ToolHangs(e) ==
  /\ pc[e] = "stopping" /\ "term" \in ipf[e]
  /\ tool[e] \in Live /\ ~termed[e]

\* Every endpoint comes to its end, whatever the peer and the network do, and if it
\* is not told to stop, whatever its tool does: SIGKILL ends one that ignores
\* SIGTERM.  Only an endpoint that stays where a signal was missed does not, nor one
\* told to stop whose tool never heeds it.
EndpointsEnd ==
  \A e \in Endpoints : <>(pc[e] = "exited") \/ <>[](Missed(e) \/ ToolHangs(e))
=============================================================================
