---------------------------- MODULE ControlState ----------------------------
(***************************************************************************)
(* cntrl->state: the bits that say where an end of a control connection is *)
(* in the protocol (bwlib/bwlibP.h), and what the functions that read and  *)
(* write its messages (bwlib/protocol.c) do to them.  The functions return *)
(* the state as it is when the call succeeds; a call that fails leaves     *)
(* _BWLStateInvalid, the empty set, and the session is closed.             *)
(***************************************************************************)

EXTENDS FiniteSetsExt

\* _BWLStateInitial has the same value.
Invalid == {}

\* A request of which only the first block is read.
Reading == {"TestRequest", "StartSession", "StopSession", "TimeRequest"}

\* An answer is outstanding.
Pending == {"TestAccept", "StartAck", "StopSession", "TimeResponse"}

\* The modes of a connection, one bit each.
Open == 1
Authenticated == 2
Encrypted == 4
NoMode == 0
Modes == {Open, Authenticated, Encrypted}
DoCipher == {Authenticated, Encrypted}

\* _BWLGetAcceptType: the accept values a message may carry.
AcceptValues == {"ACCEPT", "REJECT", "FAILURE", "UNSUPPORTED"}
Refusals == AcceptValues \ {"ACCEPT"}

-----------------------------------------------------------------------------
(***************************************************************************)
(* The set-up of the connection.                                           *)
(***************************************************************************)
IsInitial(S) == S = {}
IsSetup(S) == S = {"Setup"}

\* The greetings leave the same state at both ends.
WriteServerGreeting == {"Setup"}
ReadServerGreeting == {"Setup"}

WriteServerOK(accept) == IF accept = "ACCEPT" THEN {"Request"} ELSE Invalid
ReadServerOK == {"Uptime"}
ReadServerUptime == {"Request"}

\* "Pick 'highest' level mode still available unless least_restrictive is in the
\* bitmask, then pick the 'lowest' level mode."  Without a key the modes that
\* need one are not available, and the policy hook may refuse any.
ModePicked(offered, wanted, permitted, key, least) ==
  LET avail == {mode \in offered \cap wanted \cap permitted : key \/ mode \notin DoCipher}
  IN IF avail = {} THEN NoMode ELSE IF least THEN Min(avail) ELSE Max(avail)

-----------------------------------------------------------------------------
\* BWLReadRequestType may be called.
MayRead(S) == "Request" \in S /\ S \cap Reading = {}

\* "StopSession(3) message is only allowed during active tests, and it is the
\* only message allowed during active tests."
MayReceive(S, type) == ("Test" \in S) <=> (type = "StopSession")

\* What _BWLWriteTimeRequest, _BWLWriteTestRequest and _BWLWriteStartSession
\* ask of the state.
MayRequest(S) == "Request" \in S /\ S \cap Pending = {}

ReadRequestType(S, type) == S \cup {type}

\* The end that asks.
WriteTimeRequest(S) == S \cup {"TimeResponse"}
ReadTimeResponse(S) == S \ {"TimeResponse"}
WriteTestRequest(S) == S \cup {"TestAccept"}
ReadTestAccept(S) == S \ {"TestAccept"}
WriteStartSession(S) == S \cup {"StartAck", "Test"}

\* The end that answers.
ReadTimeRequest(S) == (S \ {"TimeRequest"}) \cup {"TimeResponse"}
WriteTimeResponse(S) == S \ {"TimeResponse"}
ReadTestRequest(S) == (S \ {"TestRequest"}) \cup {"TestAccept"}
ReadStartSession(S) == (S \ {"StartSession"}) \cup {"StartAck", "Test"}

WriteTestAccept(S) == S \ {"TestAccept"}

\* Mutant: the accept value is not looked at.
AckEndsTest(S, accept) == S \ {"StartAck", "Test"}

\* A test that is denied is not an active test.
StartAck(S, accept) ==
  S \ (IF accept = "ACCEPT" THEN {"StartAck"} ELSE {"StartAck", "Test"})

ReadStopSession(S) == (S \ {"StopSession"}) \cup {"Request"}
=============================================================================
