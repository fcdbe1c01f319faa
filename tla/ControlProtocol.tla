-------------------------- MODULE ControlProtocol --------------------------
(***************************************************************************)
(* One control connection, from the greeting to the close: bwctl at one    *)
(* end (bwlib/capi.c as bwctl/bwctl.c drives it), the bwctld child that    *)
(* serves the connection at the other (bwlib/sapi.c, the request loop of   *)
(* bwctld/bwctld.c), and the process that runs the test tool.              *)
(*                                                                         *)
(* What decides an outcome elsewhere is a choice here: the policy hooks    *)
(* and the calendar (Broker, TimeSlots), the other host of the test, which *)
(* makes bwctl ask again or give up, the clock, the signals.               *)
(***************************************************************************)
EXTENDS ControlState, Naturals, Sequences

CONSTANT MaxRequests    \* how often bwctl asks this host for a reservation

ASSUME MaxRequestsAssumption == MaxRequests \in Nat \ {0}

VARIABLES
  confServer,  \* whether this host runs the server side of the tool
  \* bwctl
  cpc,         \* the call it is in
  cstate,      \* its cntrl->state
  ctests,      \* its cntrl->tests: the sid of the session
  requested,   \* sess->session_requested
  asked,       \* requests made so far
  atype,       \* accept value of the StopSession it has read
  cmode,       \* its cntrl->mode
  \* the child of bwctld
  spc,         \* where it is in its loop
  offered,     \* mode_offered of BWLControlAccept
  smode,       \* its cntrl->mode
  sstate, stests,
  sids,        \* sids made so far
  sval,        \* acceptval of the StopSession exchange
  exiting,     \* ipfd_exit
  tool,        \* its tsession->endpoint
  \* the two directions of the socket
  c2s, s2c,
  \* history
  result,      \* how the tool ended
  fault        \* a signal or a timer has cut the connection short

client == <<cpc, cstate, ctests, requested, asked, atype, cmode>>
smodes == <<offered, smode>>
server == <<spc, sstate, stests, sids, sval, exiting, tool, smodes>>
vars == <<confServer, client, server, c2s, s2c, result, fault>>

NoSid == 0                        \* all zeroes, and no session
PeerSid == MaxRequests + 2        \* made by the other host, if that is the server

\* Where the client waits for a message, and for which.
Awaits == [greeting |-> "ServerGreeting", ok |-> "ServerOK",
           time |-> "TimeResponse", test |-> "TestAccept",
           cancel |-> "TestAccept", rebook |-> "TestAccept",
           start |-> "StartAck", end |-> "StopSession"]
Blocked == DOMAIN Awaits
Message(type, accept, sid, zero) ==
  [type |-> type, accept |-> accept, sid |-> sid, zero |-> zero]
Plain(type) == Message(type, "ACCEPT", NoSid, FALSE)
Answer(type, accept) == Message(type, accept, NoSid, FALSE)
ServerGreeting(modes) == [type |-> "ServerGreeting", modes |-> modes]
ClientGreeting(mode) == [type |-> "ClientGreeting", mode |-> mode]

Init ==
  /\ confServer \in BOOLEAN
  /\ cpc = "greeting" /\ cstate = Invalid /\ ctests = NoSid
  /\ requested = FALSE /\ asked = 0 /\ atype = "ACCEPT" /\ cmode = NoMode
  /\ spc = "accept" /\ sstate = Invalid /\ stests = NoSid /\ sids = 0
  /\ sval = "ACCEPT" /\ exiting = FALSE /\ tool = "none"
  /\ offered = {} /\ smode = NoMode
  /\ c2s = <<>> /\ s2c = <<>>
  /\ result = "none" /\ fault = FALSE

-----------------------------------------------------------------------------
(***************************************************************************)
(* bwctl.                                                                  *)
(***************************************************************************)

\* A blocking read of the answer: the message, or the end of the stream.
CReads(pc) ==
  /\ cpc = pc
  /\ s2c # <<>> /\ Head(s2c).type = Awaits[pc]
  /\ s2c' = Tail(s2c)

CUnchanged == UNCHANGED <<confServer, server, cmode, result, fault>>

\* BWLControlOpen: the greeting is read and answered, unless no mode is common
\* to both ends; then, or when a key or a number is not to be had, the
\* connection is closed.  Requested modes, user and policy are inputs.
ControlOpen ==
  /\ CReads("greeting")
  /\ IsInitial(cstate)
  /\ \E wanted, permitted \in SUBSET Modes, key, least, error \in BOOLEAN :
       LET mode == IF error THEN NoMode
                   ELSE ModePicked(Head(s2c).modes, wanted, permitted, key, least)
       IN /\ cmode' = mode
          /\ cpc' = IF mode = NoMode THEN "failed" ELSE "ok"
          /\ c2s' = IF mode = NoMode THEN c2s ELSE Append(c2s, ClientGreeting(mode))
  /\ cstate' = ReadServerGreeting
  /\ UNCHANGED <<ctests, requested, asked, atype, confServer, server, result, fault>>

\* ... and the ServerOK, with the uptime when the session is accepted.
ControlOpened ==
  /\ CReads("ok")
  /\ IsSetup(cstate)
  /\ cstate' = IF Head(s2c).accept = "ACCEPT" THEN ReadServerUptime ELSE ReadServerOK
  /\ cpc' = IF Head(s2c).accept = "ACCEPT" THEN "fresh" ELSE "failed"
  /\ UNCHANGED <<ctests, requested, asked, atype, c2s>> /\ CUnchanged

\* A request is written, and the call waits for the answer at pc.
CAsks(pc, state, m) ==
  /\ MayRequest(cstate)
  /\ cpc' = pc
  /\ cstate' = state
  /\ c2s' = Append(c2s, m)
  /\ UNCHANGED <<ctests, atype, s2c>> /\ CUnchanged

ControlTimeCheck ==
  /\ cpc = "fresh"
  /\ CAsks("time", WriteTimeRequest(cstate), Plain("TimeRequest"))
  /\ UNCHANGED <<requested, asked>>

TimeChecked ==
  /\ CReads("time")
  /\ cstate' = ReadTimeResponse(cstate)
  /\ cpc' = "ready"
  /\ UNCHANGED <<ctests, requested, asked, atype, c2s>> /\ CUnchanged

\* The sid of a TestRequest: that of the session; of a new session the one the
\* other host has made, or none when this host is to make it.
SidFor(tests) ==
  IF tests # NoSid THEN tests ELSE IF confServer THEN NoSid ELSE PeerSid

TestRequest(zero) == Message("TestRequest", "ACCEPT", SidFor(ctests), zero)

\* BWLSessionRequest, a new session or the update of the one there is.
SessionRequest ==
  /\ cpc = "ready" /\ asked < MaxRequests
  /\ CAsks("test", WriteTestRequest(cstate), TestRequest(FALSE))
  /\ asked' = asked + 1
  /\ UNCHANGED requested

\* negotiate_test gives up: the other host refuses, a signal, a bad time.
GiveUp ==
  /\ cpc = "ready"
  /\ cpc' = "giveup"
  /\ UNCHANGED <<cstate, ctests, requested, asked, atype, c2s, s2c>> /\ CUnchanged

\* BWLSessionRequest with req_time 0 at the end of negotiate_test: the
\* cancellation of the session.  A session that was refused an update is gone
\* already, session_requested is not, and the call makes a new request.
CancelRequest ==
  /\ cpc = "giveup" /\ requested
  /\ CAsks(IF ctests # NoSid THEN "cancel" ELSE "rebook",
           WriteTestRequest(cstate), TestRequest(TRUE))
  /\ UNCHANGED <<requested, asked>>

\* _BWLReadTestAccept and the rest of BWLSessionRequest.  A session that is
\* not accepted is freed, and so is one that is cancelled.
Answered(pc) ==
  /\ CReads(pc)
  /\ LET m == Head(s2c) IN
       ctests' = IF pc = "cancel" \/ m.accept # "ACCEPT" THEN NoSid
                 ELSE IF confServer THEN m.sid ELSE SidFor(ctests)
  /\ cstate' = ReadTestAccept(cstate)
  /\ UNCHANGED <<asked, atype, c2s>> /\ CUnchanged

SessionAnswered ==
  /\ Answered("test")
  /\ cpc' = IF Head(s2c).accept = "ACCEPT" THEN "ready" ELSE "giveup"
  /\ requested' = (requested \/ Head(s2c).accept = "ACCEPT")

CancelAnswered ==
  /\ \/ Answered("cancel")
     \/ Answered("rebook")
  /\ cpc' = "cancelled"
  /\ UNCHANGED requested

\* BWLStartSession.
StartSession ==
  /\ cpc = "ready" /\ ctests # NoSid
  /\ CAsks("start", WriteStartSession(cstate), Plain("StartSession"))
  /\ UNCHANGED <<requested, asked>>

SessionStarted ==
  /\ CReads("start")
  /\ cstate' = IF Head(s2c).accept = "ACCEPT"
               THEN StartAck(cstate, "ACCEPT") ELSE Invalid
  /\ cpc' = IF Head(s2c).accept = "ACCEPT" THEN "waiting" ELSE "failed"
  /\ UNCHANGED <<ctests, requested, asked, atype, c2s>> /\ CUnchanged

\* Mutant: only input from a host ends the test, not the clock.
EndOnInput ==
  /\ cpc = "waiting" /\ s2c # <<>>
  /\ cpc' = "end"
  /\ c2s' = Append(c2s, Plain("StopSession"))
  /\ UNCHANGED <<cstate, ctests, requested, asked, atype, s2c>> /\ CUnchanged

\* wait_for_results: at the end time of the test, or as soon as there is
\* something to read from either host, BWLEndSession.
EndSession ==
  /\ cpc = "waiting"
  /\ {"Request", "Test"} \subseteq cstate
  /\ cpc' = "end"
  /\ c2s' = Append(c2s, Plain("StopSession"))
  /\ UNCHANGED <<cstate, ctests, requested, asked, atype, s2c>> /\ CUnchanged

\* ... reads the StopSession of the other end, with the results.
SessionEnded ==
  /\ CReads("end")
  /\ cstate' = ReadStopSession(ReadRequestType(cstate, "StopSession"))
  /\ atype' = Head(s2c).accept
  /\ ctests' = NoSid
  /\ requested' = FALSE
  /\ cpc' = "ended"
  /\ UNCHANGED <<asked, c2s>> /\ CUnchanged

\* CloseSessions, BWLControlClose: what the connection holds is freed.
CCloses ==
  /\ cpc' = "closed"
  /\ cstate' = Invalid
  /\ ctests' = NoSid
  /\ UNCHANGED <<requested, asked, atype, cmode, confServer, server, c2s, s2c, result>>

ClientClose ==
  /\ \/ cpc \in {"failed", "cancelled", "ended"}
     \/ cpc = "giveup" /\ ~requested
  /\ CCloses /\ UNCHANGED fault

\* Mutant: the end of the stream is not seen while waiting for results.
EOFUnseen ==
  /\ cpc \in Blocked \ {"end"}
  /\ s2c = <<>> /\ spc = "exited"
  /\ CCloses /\ UNCHANGED fault

\* A read meets the end of the stream.
ClientEOF ==
  /\ cpc \in Blocked
  /\ s2c = <<>> /\ spc = "exited"
  /\ CCloses /\ UNCHANGED fault

\* bwctl is interrupted, by SIGINT, SIGTERM, SIGHUP or the alarm that is set
\* before BWLEndSession, or killed.
ClientSignal ==
  /\ cpc # "closed"
  /\ CCloses /\ fault' = TRUE

-----------------------------------------------------------------------------
(***************************************************************************)
(* The child of bwctld.                                                    *)
(***************************************************************************)

SUnchanged == UNCHANGED <<confServer, client, smodes, result>>

\* BWLControlClose and exit: the session is freed, the tool killed.
SCloses ==
  /\ spc' = "exited"
  /\ sstate' = Invalid
  /\ stests' = NoSid
  /\ tool' = "none"
  /\ UNCHANGED <<sids, sval, exiting, c2s>> /\ SUnchanged

SReceives(type) ==
  /\ c2s # <<>> /\ Head(c2s).type = type
  /\ c2s' = Tail(c2s)

SSends(m) == s2c' = Append(s2c, m)

\* BWLControlAccept: the greeting.  "If no mode offered, immediately close
\* socket after sending server greeting.  (Nice way of saying goodbye.)"
Greet ==
  /\ spc = "accept"
  /\ IsInitial(sstate)
  /\ offered' \in SUBSET Modes
  /\ SSends(ServerGreeting(offered'))
  /\ spc' = IF offered' = {} THEN "exited" ELSE "greeted"
  /\ sstate' = IF offered' = {} THEN Invalid ELSE WriteServerGreeting
  /\ UNCHANGED <<smode, stests, sids, sval, exiting, tool, c2s,
                 confServer, client, result, fault>>

\* ... the answer of the client: key, challenge and policy decide.  What is
\* wrong with the greeting itself is not answered.
Accept ==
  /\ spc = "greeted"
  /\ IsSetup(sstate)
  /\ SReceives("ClientGreeting")
  /\ smode' = Head(c2s).mode
  /\ offered' = {}
  /\ \/ \E a \in {"ACCEPT", "REJECT", "FAILURE"} :
          /\ SSends(Answer("ServerOK", a))
          /\ spc' = IF a = "ACCEPT" THEN "read" ELSE "exited"
          /\ sstate' = WriteServerOK(a)
     \/ /\ spc' = "exited"
        /\ sstate' = Invalid
        /\ UNCHANGED s2c
  /\ UNCHANGED <<stests, sids, sval, exiting, tool, confServer, client, result, fault>>

-----------------------------------------------------------------------------
\* The loop reads a request that is allowed in its state.
SRequest(type) ==
  /\ spc = "read"
  /\ MayRead(sstate) /\ MayReceive(sstate, type)
  /\ SReceives(type)

Read(type) == ReadRequestType(sstate, type)

ProcessTimeRequest ==
  /\ SRequest("TimeRequest")
  /\ sstate' = WriteTimeResponse(ReadTimeRequest(Read("TimeRequest")))
  /\ SSends(Plain("TimeResponse"))
  /\ UNCHANGED <<spc, stests, sids, sval, exiting, tool, fault>> /\ SUnchanged

\* _BWLReadTestRequest ends with a warning: several tools, a tool that is not
\* known, no memory.  Nothing is answered and the rest of the request counts
\* as unread.
TestRequestUnread ==
  /\ SRequest("TestRequest")
  /\ stests = NoSid
  /\ sstate' = Read("TestRequest")
  /\ UNCHANGED <<spc, stests, sids, sval, exiting, tool, s2c, fault>> /\ SUnchanged

\* The sid of the session a TestRequest is for: an existing one must match.
SessionOf(m) ==
  IF stests # NoSid THEN stests ELSE IF confServer THEN sids + 1 ELSE m.sid

SidMatches(m) == stests # NoSid => m.sid = stests

\* BWLProcessTestRequest: accepted, refused or cancelled, and answered.
TestAnswered(accept, tests) ==
  LET m == Head(c2s) IN
    /\ SRequest("TestRequest")
    /\ SidMatches(m)
    /\ sstate' = WriteTestAccept(ReadTestRequest(Read("TestRequest")))
    /\ stests' = tests
    /\ SSends(Message("TestAccept", accept, SessionOf(m), FALSE))
    /\ sids' = IF stests = NoSid /\ confServer THEN sids + 1 ELSE sids
    /\ UNCHANGED <<spc, sval, exiting, tool, fault>> /\ SUnchanged

\* "If req_time is 0, client is cancelling."
Cancels(m) == m.zero /\ stests # NoSid

\* Mutant: an accepted session is not added to cntrl->tests.
SessionNotKept ==
  /\ SRequest("TestRequest")
  /\ \/ Cancels(Head(c2s)) /\ TestAnswered("REJECT", NoSid)
     \/ ~Cancels(Head(c2s)) /\ \E a \in AcceptValues : TestAnswered(a, NoSid)

ProcessTestRequest ==
  /\ SRequest("TestRequest")
  /\ LET m == Head(c2s) IN
       \/ Cancels(m) /\ TestAnswered("REJECT", NoSid)
       \/ ~Cancels(m) /\ TestAnswered("ACCEPT", SessionOf(m))
       \/ ~Cancels(m) /\ \E a \in Refusals : TestAnswered(a, NoSid)

\* A policy hook meets an error: no answer, the loop ends.
TestRequestFatal ==
  /\ SRequest("TestRequest")
  /\ spc' = "exited"
  /\ sstate' = Invalid
  /\ stests' = NoSid
  /\ UNCHANGED <<sids, sval, exiting, tool, s2c, fault>> /\ SUnchanged

\* _BWLEndpointStart, as its caller sees it: the process of the test is forked;
\* or there is none, for want of a file, a port or a process.
EndpointStart(forked) == tool' = IF forked THEN "running" ELSE "none"

\* BWLProcessStartSession.  The loop sees a termination signal after it.
ProcessStartSession ==
  /\ SRequest("StartSession")
  /\ stests # NoSid
  /\ \/ /\ SSends(Answer("StartAck", "FAILURE"))
        /\ EndpointStart(FALSE)
        /\ spc' = "exited" /\ sstate' = Invalid /\ stests' = NoSid
     \/ /\ SSends(Answer("StartAck", "ACCEPT"))
        /\ ~exiting
        /\ EndpointStart(TRUE)
        /\ spc' = "active"
        /\ sstate' = StartAck(ReadStartSession(Read("StartSession")), "ACCEPT")
        /\ UNCHANGED stests
     \/ /\ SSends(Answer("StartAck", "ACCEPT"))
        /\ exiting
        /\ spc' = "exited" /\ sstate' = Invalid /\ stests' = NoSid
        /\ UNCHANGED tool
  /\ UNCHANGED <<sids, sval, exiting, fault>> /\ SUnchanged

-----------------------------------------------------------------------------
(***************************************************************************)
(* The test is active.  The loop around BWLStopSessionWait, and the three  *)
(* ways the StopSession messages are traded:                               *)
(*   "active"       the loop asks BWLSessionsActive,                       *)
(*   "entry"        BWLStopSessionWait asks it again,                      *)
(*   "armed"        it has asked and is about to call select,              *)
(*   "select"       it waits in select, without a timeout,                 *)
(*   "woken"        select was interrupted: the call returns 2,            *)
(*   "flush"        the peer has stopped first: waiting for the tool,      *)
(*   "trade"        BWLStopSession from the loop, under a timer,           *)
(*   "tradeInWait"  BWLStopSession from BWLStopSessionWait, without one.   *)
(***************************************************************************)

\* _BWLEndpointStatus: the accept value of a tool that has ended.
EndpointStatus ==
  CASE tool = "success" -> "ACCEPT"
    [] tool = "failure" -> "FAILURE"
    [] OTHER -> "INVALID"

SessionsActive == tool = "running"

STestUnchanged == UNCHANGED <<sids, exiting, fault>> /\ SUnchanged

\* BWLStopSession up to its read: _BWLEndpointStop and the StopSession message.
StopSession(pc, accept) ==
  /\ tool' = "none"
  /\ sval' = accept
  /\ SSends(Answer("StopSession", accept))
  /\ spc' = pc
  /\ UNCHANGED <<sstate, stests, c2s>> /\ STestUnchanged

CheckActive ==
  /\ spc = "active"
  /\ \/ /\ SessionsActive
        /\ spc' = "entry"
        /\ UNCHANGED <<sstate, stests, sval, tool, c2s, s2c>> /\ STestUnchanged
     \/ /\ ~SessionsActive
        /\ StopSession("trade", "ACCEPT")   \* acceptval_ret is NULL

StopSessionWait ==
  /\ spc = "entry"
  /\ \/ /\ SessionsActive
        /\ spc' = "armed"
        /\ UNCHANGED <<sstate, stests, sval, tool, c2s, s2c>> /\ STestUnchanged
     \/ /\ ~SessionsActive
        /\ StopSession("tradeInWait", EndpointStatus)

Select ==
  /\ spc = "armed"
  /\ spc' = "select"
  /\ UNCHANGED <<sstate, stests, sval, tool, c2s, s2c>> /\ STestUnchanged

\* BWLStopSessionWait has returned 2.
Woken ==
  /\ spc = "woken"
  /\ \/ exiting /\ SCloses /\ UNCHANGED <<s2c, fault>>
     \/ /\ ~exiting
        /\ spc' = "active"
        /\ UNCHANGED <<sstate, stests, sval, tool, c2s, s2c>> /\ STestUnchanged

\* The StopSession of the peer is there: it is read in full.
StopReceived ==
  /\ MayRead(sstate) /\ MayReceive(sstate, "StopSession")
  /\ SReceives("StopSession")

StopBits == ReadStopSession(ReadRequestType(sstate, "StopSession"))

\* ... in BWLStopSessionWait: a peer that reports success lets the tool end.
PeerStops ==
  /\ spc = "select"
  /\ StopReceived
  /\ sstate' = StopBits
  /\ sval' = Head(c2s).accept
  /\ spc' = "flush"
  /\ UNCHANGED <<stests, tool, s2c>> /\ STestUnchanged

\* Mutant: the tool is not waited for.
FlushAtOnce == TRUE

\* _BWLEndpointStop with dont_kill blocks until the tool has ended; without
\* it, the tool is killed.
EndpointStopped == ~SessionsActive \/ sval # "ACCEPT"

\* The end of a StopSession exchange.  A termination signal is seen when
\* BWLStopSessionWait returns to the loop, not after BWLStopSession.
SessionOver ==
  /\ stests' = NoSid
  /\ tool' = "none"
  /\ spc' = IF exiting /\ spc # "trade" THEN "exited" ELSE "read"

Flush ==
  /\ spc = "flush"
  /\ EndpointStopped
  /\ SSends(Answer("StopSession", sval))
  /\ SessionOver
  /\ sstate' = sstate \ {"Test"}
  /\ UNCHANGED <<sval, c2s>> /\ STestUnchanged

\* ... in BWLStopSession.  _BWLReadStopSession is given the interrupt flag for
\* the accept value and the accept value for the flag: sval is kept.
Traded ==
  /\ spc \in {"trade", "tradeInWait"}
  /\ StopReceived
  /\ SessionOver
  /\ sstate' = StopBits \ {"Test"}
  /\ UNCHANGED <<sval, s2c>> /\ STestUnchanged

-----------------------------------------------------------------------------
\* "BWLReadRequestType: called in wrong state."
WrongState ==
  /\ spc = "read" /\ ~MayRead(sstate)
  /\ SCloses /\ UNCHANGED <<s2c, fault>>

Reads == {"greeted", "read", "trade", "tradeInWait"}

\* The client has closed the connection.
ServerEOF ==
  /\ spc \in Reads \cup {"select"}
  /\ c2s = <<>> /\ cpc = "closed"
  /\ SCloses /\ UNCHANGED <<s2c, fault>>

\* The interval timer: controltimeout for a request, dieby for a StopSession.
Timeout ==
  /\ spc \in {"greeted", "read", "trade"}
  /\ SCloses /\ UNCHANGED s2c /\ fault' = TRUE

\* SIGTERM interrupts a read or select that the child is blocked in.  Before
\* the call it is only noted, and the read that follows does not know of it:
\* ipfd_intr is cleared at the top of the loop and looked at after EINTR only.
Terminate ==
  /\ spc # "exited" /\ ~exiting
  /\ exiting' = TRUE
  /\ fault' = TRUE
  /\ \/ /\ spc \in Reads
        /\ spc' = "exited" /\ sstate' = Invalid
        /\ stests' = NoSid /\ tool' = "none"
     \/ /\ spc' = IF spc = "select" THEN "woken" ELSE spc
        /\ UNCHANGED <<sstate, stests, tool>>
  /\ UNCHANGED <<sids, sval, c2s, s2c>> /\ SUnchanged

\* The process of the tool ends.  SIGCHLD interrupts select if the child is
\* there already; before, it is lost on it.
ToolExit ==
  /\ tool = "running"
  /\ \E r \in {"success", "failure"} : tool' = r /\ result' = r
  /\ spc' = IF spc = "select" THEN "woken" ELSE spc
  /\ UNCHANGED <<sstate, stests, sids, sval, exiting, c2s, s2c, fault,
                 smodes, confServer, client>>

-----------------------------------------------------------------------------
ClientStep ==
  \/ ControlOpen \/ ControlOpened \/ ControlTimeCheck \/ TimeChecked
  \/ SessionRequest \/ SessionAnswered \/ GiveUp \/ CancelRequest \/ CancelAnswered
  \/ StartSession \/ SessionStarted \/ EndSession \/ SessionEnded
  \/ ClientClose \/ ClientEOF

ServerStep ==
  \/ Greet \/ Accept \/ ProcessTimeRequest \/ TestRequestUnread
  \/ ProcessTestRequest \/ TestRequestFatal \/ ProcessStartSession
  \/ CheckActive \/ StopSessionWait \/ Select \/ Woken \/ PeerStops \/ Flush
  \/ Traded \/ WrongState \/ ServerEOF

\* Both processes are gone.
Over == cpc = "closed" /\ spc = "exited"

Next ==
  \/ ClientStep \/ ClientSignal
  \/ ServerStep \/ Timeout \/ Terminate \/ ToolExit
  \/ Over /\ UNCHANGED vars

(***************************************************************************)
(* Both processes keep running; a timer that is set goes off; a tool ends, *)
(* since its process kills it when its time is over.  Signals need not     *)
(* come.                                                                   *)
(***************************************************************************)
Fairness ==
  /\ WF_vars(ClientStep)
  /\ WF_vars(ServerStep)
  /\ WF_vars(Timeout)
  /\ WF_vars(ToolExit)

Spec == Init /\ [][Next]_vars /\ Fairness

-----------------------------------------------------------------------------
(***************************************************************************)
(* Properties.                                                             *)
(***************************************************************************)

\* The two ends stay in step: every message meets an end whose state allows it
\* and that waits for it, so that none of the branches "called in wrong state",
\* "Invalid request type received", "Invalid protocol message received" and
\* "sid mismatch" of bwlib is taken, whatever the order in which a test ends,
\* the two StopSession messages cross and the sessions are renewed; and between
\* two requests no answer of the server is outstanding.  (The one
\* exception is a request that the server has itself given up half way.)
\* The mode of the connection is one the server has offered, and the same at
\* both ends.
InStep ==
  /\ sstate \in {Invalid, {"Setup"}, {"Request"}, {"Request", "Test"},
                 {"Request", "TestRequest"}}
  /\ spc = "read" /\ MayRead(sstate) /\ c2s # <<>> =>
       LET m == Head(c2s) IN
         /\ m.type \in {"TimeRequest", "TestRequest", "StartSession"}
         /\ MayReceive(sstate, m.type)
         /\ m.type = "TestRequest" => SidMatches(m)
         /\ m.type = "StartSession" => stests # NoSid
  /\ spc \in {"select", "trade", "tradeInWait"} =>
       /\ MayRead(sstate)
       /\ c2s # <<>> => Head(c2s).type = "StopSession"
                        /\ MayReceive(sstate, "StopSession")
  /\ cpc \in Blocked /\ s2c # <<>> => Head(s2c).type = Awaits[cpc]
  /\ spc = "greeted" /\ c2s # <<>> => Head(c2s).mode \in offered
  /\ sstate \cap cstate # {} => smode = (IF spc = "greeted" THEN NoMode ELSE cmode)
  /\ cpc \in {"fresh", "ready", "giveup"} => MayRequest(cstate)
  /\ cpc \in {"waiting", "end"} => MayRead(cstate) /\ MayReceive(cstate, "StopSession")

\* A session bwctl counts on, from the TestAccept to the StopSession it sends,
\* is the session the server holds, as long as the server is there: no refusal,
\* cancellation, renewal or end of the tool frees it at one end only.
SessionAgreed ==
  ctests # NoSid /\ cpc \in {"ready", "start", "waiting"} /\ spc # "exited"
    => stests = ctests

\* What bwctl reads as the results is written when the tool is done: no
\* StopSession of the server is on its way, or read, while the tool still runs;
\* and one that reports an error is of a tool that failed.  (The converse does
\* not hold: of the three ways to trade StopSession messages only one looks at
\* the tool's status, and a failure is mostly reported as a success.)
ResultsComplete ==
  /\ (cpc = "ended" \/ \E i \in DOMAIN s2c : s2c[i].type = "StopSession")
       => result # "none"
  /\ cpc = "ended" /\ atype # "ACCEPT" => result = "failure"

\* A test that is started ends with the results in bwctl's hands, whichever end
\* stops first and whether or not the signal of the tool's end is lost, unless
\* a signal or a timer cuts the connection.
ResultsDelivered == (cpc = "waiting") ~> (cpc = "ended" \/ fault)

\* Nothing lasts: every connection ends with both processes gone.  No read
\* waits for a message that never comes, and no end waits for the other
\* while the other waits for it.
ConnectionEnds == <>[]Over

=============================================================================
