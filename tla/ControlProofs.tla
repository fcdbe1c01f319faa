--------------------------- MODULE ControlProofs ---------------------------
(***************************************************************************)
(* Theorems about a control connection.  First about ControlProtocol, for  *)
(* any number of requests: the ends stay in step, agree on the session,    *)
(* and results are complete when they are sent.  The inductive invariant   *)
(* says for each place of bwctl where the child of bwctld can be and what  *)
(* is under way between them.  Then about TestOptions, for any options and *)
(* any width of a byte: a request says what was asked for.                 *)
(***************************************************************************)
EXTENDS RequestContent, SequenceTheorems, WellFoundedInduction, TLAPS

\* The places of the server while the tool is there, and while it waits for the
\* StopSession that answers its own.
Testing == {"active", "entry", "armed", "select", "woken"}
Trading == {"trade", "tradeInWait"}

\* The places of the client between two requests, with a request for a session
\* under way, and all those before the test.
Idle == {"fresh", "ready", "giveup", "cancelled"}
Booking == {"test", "cancel", "rebook"}
BeforeStart == {"greeting", "ok", "time"} \cup Idle \cup Booking
ClientPlaces == BeforeStart \cup {"start", "waiting", "end", "ended", "failed", "closed"}

\* A stream with one message, of the given type, and with two.
Carries(q, type) == q = <<Head(q)>> /\ Head(q).type = type
CarriesTwo(q, type, then) == q # <<>> /\ Head(q).type = type /\ Carries(Tail(q), then)

\* A sequence, of whatever messages.
IsStream(q) == q \in Seq(Range(q))

\* cntrl->state at each place of the client ...
ClientBits ==
  /\ cpc \in ClientPlaces
  /\ cpc \in {"greeting", "closed"} => cstate = Invalid
  /\ cpc = "ok" => cstate = {"Setup"}
  /\ cpc \in Idle => cstate = {"Request"}
  /\ cpc = "time" => cstate = {"Request", "TimeResponse"}
  /\ cpc \in Booking => cstate = {"Request", "TestAccept"}
  /\ cpc = "start" => cstate = {"Request", "StartAck", "Test"}
  /\ cpc \in {"waiting", "end", "ended"} => cstate = {"Request", "Test"}
  /\ cpc = "failed" => cstate \in {Invalid, {"Setup"}, {"Uptime"}}

\* ... and of the server, with its tool.
ServerBits ==
  /\ spc \in {"accept", "greeted", "read", "flush", "exited"} \cup Testing \cup Trading
  /\ spc = "accept" => sstate = Invalid
  /\ spc = "greeted" => sstate = {"Setup"}
  /\ spc = "read" => sstate \in {{"Request"}, {"Request", "TestRequest"}}
  /\ spc \in Testing \cup Trading \cup {"flush"} => sstate = {"Request", "Test"}
  /\ spc = "exited" => sstate \in {Invalid, {"Request"}}

ServerTool ==
  /\ tool \in {"none", "running", "success", "failure"}
  /\ spc \in Testing \cup {"flush"} <=> tool # "none"
  /\ tool = "running" => result = "none"
  /\ tool \in {"success", "failure"} => result = tool
  /\ spc \in Trading => result \in {"success", "failure"}
  /\ spc = "flush" => sval = "ACCEPT"
  /\ spc \in {"accept", "greeted"} => smode = NoMode

\* What the server finds when it reads, whether or not the client is still there.
ToServer ==
  /\ spc # "exited" /\ c2s # <<>> => c2s = <<Head(c2s)>>
  /\ spc \in {"accept", "flush"} => c2s = <<>>
  /\ spc = "greeted" /\ c2s # <<>> => /\ Head(c2s).type = "ClientGreeting"
                                      /\ Head(c2s).mode \in offered
  /\ spc = "read" /\ c2s # <<>> =>
       /\ Head(c2s).type \in {"TimeRequest", "TestRequest", "StartSession"}
       /\ sstate = {"Request"} /\ result = "none"
       /\ Head(c2s).type = "TestRequest" => SidMatches(Head(c2s))
       /\ Head(c2s).type = "StartSession" => stests # NoSid
  /\ spc \in Testing \cup Trading /\ c2s # <<>> =>
       Head(c2s).type = "StopSession" /\ Head(c2s).accept = "ACCEPT"

\* The sid that the client takes from the answer at the head of its stream.
SidTaken ==
  IF cpc = "cancel" \/ Head(s2c).accept # "ACCEPT" THEN NoSid
  ELSE IF confServer THEN Head(s2c).sid ELSE SidFor(ctests)

\* Where the server is and what is under way, for each place of the client.
LinkGreeting == cpc = "greeting" =>
  /\ spc \in {"accept", "greeted", "exited"} /\ c2s = <<>>
  /\ stests = NoSid /\ ctests = NoSid
  /\ s2c # <<>> => Carries(s2c, "ServerGreeting")
  /\ spc = "accept" => s2c = <<>>
  /\ spc = "greeted" => s2c # <<>> /\ Head(s2c).modes = offered

LinkOk == cpc = "ok" =>
  /\ spc \in {"greeted", "read", "exited"}
  /\ stests = NoSid /\ ctests = NoSid
  /\ s2c # <<>> => Carries(s2c, "ServerOK") /\ smode = cmode
  /\ spc = "greeted" => c2s = <<ClientGreeting(cmode)>> /\ s2c = <<>>
  /\ spc = "read" => /\ c2s = <<>> /\ sstate = {"Request"}
                     /\ s2c # <<>> /\ Head(s2c).accept = "ACCEPT"

LinkIdle == cpc \in Idle =>
  /\ spc \in {"read", "exited"} /\ s2c = <<>>
  /\ spc = "read" => c2s = <<>> /\ sstate = {"Request"} /\ stests = ctests

LinkTime == cpc = "time" =>
  /\ spc \in {"read", "exited"}
  /\ s2c # <<>> => Carries(s2c, "TimeResponse")
  /\ spc = "read" => /\ sstate = {"Request"} /\ stests = ctests
                     /\ \/ c2s = <<Plain("TimeRequest")>> /\ s2c = <<>>
                        \/ c2s = <<>> /\ s2c # <<>>

LinkBooking == cpc \in Booking =>
  /\ spc \in {"read", "exited"}
  /\ s2c # <<>> => Carries(s2c, "TestAccept")
  /\ spc = "read" =>
       \/ /\ c2s = <<TestRequest(cpc # "test")>> /\ s2c = <<>>
          /\ sstate = {"Request"} /\ stests = ctests
          /\ cpc = "cancel" => ctests # NoSid
          /\ cpc = "rebook" => ctests = NoSid
       \/ c2s = <<>> /\ s2c # <<>> /\ sstate = {"Request"} /\ stests = SidTaken
       \/ c2s = <<>> /\ s2c = <<>> /\ sstate = {"Request", "TestRequest"}

LinkStart == cpc = "start" =>
  /\ spc \in {"read", "exited"} \cup Testing \cup Trading
  /\ spc = "read" => /\ c2s = <<Plain("StartSession")>> /\ s2c = <<>>
                     /\ result = "none"
  /\ spc \in Testing => c2s = <<>> /\ Carries(s2c, "StartAck")
  /\ spc \in Trading => c2s = <<>> /\ CarriesTwo(s2c, "StartAck", "StopSession")
  /\ spc \in Testing \cup Trading => Head(s2c).accept = "ACCEPT"
  /\ spc # "exited" => stests = ctests
  /\ spc # "read" /\ s2c # <<>> =>
       \/ Carries(s2c, "StartAck")
       \/ spc \notin Testing /\ CarriesTwo(s2c, "StartAck", "StopSession")

LinkWaiting == cpc = "waiting" =>
  /\ spc \in {"exited"} \cup Testing \cup Trading
  /\ s2c # <<>> => Carries(s2c, "StopSession")
  /\ spc \in Testing => c2s = <<>> /\ s2c = <<>>
  /\ spc \in Trading => c2s = <<>> /\ s2c # <<>>
  /\ spc # "exited" => stests = ctests

LinkEnd == cpc = "end" =>
  /\ spc \in {"read", "flush", "exited"} \cup Testing \cup Trading
  /\ s2c # <<>> => Carries(s2c, "StopSession")
  /\ spc \in Testing => c2s = <<Plain("StopSession")>> /\ s2c = <<>>
  /\ spc = "flush" => s2c = <<>>
  /\ spc \in Trading => c2s = <<Plain("StopSession")>> /\ s2c # <<>>
  /\ spc = "read" => c2s = <<>> /\ s2c # <<>>

LinkOver ==
  /\ cpc = "ended" => spc \in {"read", "exited"} \cup Trading
  /\ cpc = "ended" /\ spc = "read" => c2s = <<>>
  /\ cpc = "failed" => spc \in {"greeted", "exited"}
  /\ cpc = "failed" /\ spc = "greeted" => c2s = <<>>

Link ==
  /\ LinkGreeting /\ LinkOk /\ LinkIdle /\ LinkTime /\ LinkBooking
  /\ LinkStart /\ LinkWaiting /\ LinkEnd /\ LinkOver

\* Both ends have the mode of the client's greeting once it is accepted.
ModeAgreed ==
  cpc \notin {"greeting", "ok", "failed", "closed"} => smode = cmode

\* A StopSession tells of a tool that is done; there is one test at most.
Results ==
  /\ IsStream(s2c)
  /\ cpc \in BeforeStart => result = "none"
  /\ \A m \in Range(s2c) : m.type = "StopSession" =>
       result # "none" /\ (m.accept # "ACCEPT" => result = "failure")
  /\ cpc = "ended" => result # "none" /\ (atype # "ACCEPT" => result = "failure")

IInv ==
  ClientBits /\ ServerBits /\ ServerTool /\ ToServer /\ Link /\ ModeAgreed /\ Results

-----------------------------------------------------------------------------
(***************************************************************************)
(* Streams of messages.                                                    *)
(***************************************************************************)

\* A stream with one message, as it is written and read.
LEMMA OneMessage ==
  ASSUME NEW m
  PROVE  /\ Append(<<>>, m) = <<m>> /\ <<m>> # <<>>
         /\ Head(<<m>>) = m /\ Tail(<<m>>) = <<>>
  OBVIOUS

\* What is read next when a message follows another.
LEMMA TwoMessages ==
  ASSUME NEW m, NEW n
  PROVE  /\ Append(<<m>>, n) # <<>>
         /\ Head(Append(<<m>>, n)) = m /\ Tail(Append(<<m>>, n)) = <<n>>
  <1>1. <<m>> \in Seq({m, n}) /\ <<m>> # <<>> /\ n \in {m, n}
    OBVIOUS
  <1>2. /\ Head(Append(<<m>>, n)) = Head(<<m>>)
        /\ Tail(Append(<<m>>, n)) = Append(Tail(<<m>>), n)
    BY <1>1, HeadTailAppend, Zenon
  <1>3. Append(<<m>>, n) # <<>>
    BY <1>1, AppendProperties, Zenon
  <1>4. QED
    BY <1>2, <1>3, OneMessage, Zenon

\* A stream stays one, and has no messages but those that were written to it.
LEMMA StreamEmpty == IsStream(<<>>) /\ Range(<<>>) = {}
  BY DEF IsStream, Range

LEMMA StreamAppend ==
  ASSUME NEW q, IsStream(q), NEW m
  PROVE  IsStream(Append(q, m)) /\ Range(Append(q, m)) \subseteq Range(q) \cup {m}
  <1>1. Append(q, m) \in Seq(Range(q) \cup {m})
    BY DEF IsStream
  <1>2. QED
    BY <1>1, SeqOfRange, RangeOfSeq, Zenon DEF IsStream

LEMMA StreamTail ==
  ASSUME NEW q, IsStream(q), q # <<>>
  PROVE  /\ IsStream(Tail(q)) /\ Range(Tail(q)) \subseteq Range(q)
         /\ Head(q) \in Range(q)
  <1>1. Tail(q) \in Seq(Range(q)) /\ Head(q) \in Range(q)
    BY DEF IsStream
  <1>2. QED
    BY <1>1, SeqOfRange, RangeOfSeq, Zenon DEF IsStream

\* The only message of a stream is read.
LEMMA CarriesRead ==
  ASSUME NEW q, NEW type, Carries(q, type)
  PROVE  q # <<>> /\ Tail(q) = <<>> /\ Head(q).type = type
  <1>1. q = <<Head(q)>> /\ Head(q).type = type
    BY DEF Carries
  <1>2. <<Head(q)>> # <<>> /\ Tail(<<Head(q)>>) = <<>>
    BY OneMessage
  <1>3. QED
    BY <1>1, <1>2

\* A message is sent, on a stream with none and with one under way.
LEMMA FirstSent ==
  ASSUME NEW m
  PROVE  /\ Carries(Append(<<>>, m), m.type)
         /\ Append(<<>>, m) # <<>> /\ Head(Append(<<>>, m)) = m
  BY OneMessage DEF Carries

LEMMA SecondSent ==
  ASSUME NEW q, NEW type, Carries(q, type), NEW m
  PROVE  /\ CarriesTwo(Append(q, m), type, m.type)
         /\ Append(q, m) # <<>> /\ Head(Append(q, m)) = Head(q)
  <1> DEFINE h == Head(q)
  <1>1. q = <<h>> /\ h.type = type
    BY DEF Carries
  <1>2. /\ Append(<<h>>, m) # <<>> /\ Head(Append(<<h>>, m)) = h
        /\ Tail(Append(<<h>>, m)) = <<m>>
    BY TwoMessages, Zenon
  <1>3. Carries(<<m>>, m.type)
    BY OneMessage DEF Carries
  <1> HIDE DEF h
  <1>4. CarriesTwo(Append(<<h>>, m), type, m.type)
    BY <1>1, <1>2, <1>3 DEF CarriesTwo
  <1>5. QED
    BY <1>1, <1>2, <1>4 DEF h

\* The server reads the only message that is under way to it.
LEMMA ServerReads ==
  ASSUME ToServer, spc # "exited", c2s # <<>>
  PROVE  Tail(c2s) = <<>>
  <1>1. c2s = <<Head(c2s)>>
    BY DEF ToServer
  <1>2. QED
    BY <1>1, OneMessage

\* What is under way to the client after a message is sent to it.
LEMMA Sent ==
  ASSUME IInv, NEW m, s2c' = Append(s2c, m)
  PROVE  /\ s2c = <<>> => Carries(s2c', m.type) /\ s2c' # <<>> /\ Head(s2c') = m
         /\ \A type : Carries(s2c, type) => /\ CarriesTwo(s2c', type, m.type)
                                            /\ s2c' # <<>> /\ Head(s2c') = Head(s2c)
         /\ IsStream(s2c') /\ \A n \in Range(s2c') : n \in Range(s2c) \/ n = m
  <1>1. IsStream(s2c') /\ Range(s2c') \subseteq Range(s2c) \cup {m}
    BY StreamAppend DEF IInv, Results
  <1>2. s2c = <<>> => Carries(s2c', m.type) /\ s2c' # <<>> /\ Head(s2c') = m
    BY FirstSent
  <1>3. ASSUME NEW type, Carries(s2c, type)
        PROVE  /\ CarriesTwo(s2c', type, m.type)
               /\ s2c' # <<>> /\ Head(s2c') = Head(s2c)
    BY <1>3, SecondSent, Zenon
  <1>4. QED
    BY <1>1, <1>2, <1>3

-----------------------------------------------------------------------------
(***************************************************************************)
(* The bits of cntrl->state.                                               *)
(***************************************************************************)

\* What the calls of the client make of its bits ...
LEMMA ClientBitFacts ==
  /\ WriteTimeRequest({"Request"}) = {"Request", "TimeResponse"}
  /\ ReadTimeResponse({"Request", "TimeResponse"}) = {"Request"}
  /\ WriteTestRequest({"Request"}) = {"Request", "TestAccept"}
  /\ ReadTestAccept({"Request", "TestAccept"}) = {"Request"}
  /\ WriteStartSession({"Request"}) = {"Request", "StartAck", "Test"}
  /\ StartAck({"Request", "StartAck", "Test"}, "ACCEPT") = {"Request", "Test"}
  /\ ReadStopSession(ReadRequestType({"Request", "Test"}, "StopSession"))
       = {"Request", "Test"}
  /\ ReadServerGreeting = {"Setup"} /\ ReadServerUptime = {"Request"}
  /\ ReadServerOK = {"Uptime"}
  BY DEF WriteTimeRequest, ReadTimeResponse, WriteTestRequest, ReadTestAccept,
    WriteStartSession, StartAck, ReadStopSession, ReadRequestType, ReadServerGreeting,
    ReadServerUptime, ReadServerOK

\* ... and those of the server of its own.
LEMMA ServerBitFacts ==
  /\ WriteTimeResponse(ReadTimeRequest(ReadRequestType({"Request"}, "TimeRequest")))
       = {"Request"}
  /\ WriteTestAccept(ReadTestRequest(ReadRequestType({"Request"}, "TestRequest")))
       = {"Request"}
  /\ ReadRequestType({"Request"}, "TestRequest") = {"Request", "TestRequest"}
  /\ StartAck(ReadStartSession(ReadRequestType({"Request"}, "StartSession")), "ACCEPT")
       = {"Request", "Test"}
  /\ ReadStopSession(ReadRequestType({"Request", "Test"}, "StopSession"))
       = {"Request", "Test"}
  /\ {"Request", "Test"} \ {"Test"} = {"Request"}
  /\ WriteServerGreeting = {"Setup"} /\ WriteServerOK("ACCEPT") = {"Request"}
  /\ \A a : a # "ACCEPT" => WriteServerOK(a) = Invalid
  BY DEF WriteTimeResponse, ReadTimeRequest, WriteTestAccept, ReadTestRequest,
    ReadStartSession, StartAck, ReadStopSession, ReadRequestType, WriteServerGreeting,
    WriteServerOK

\* What may be read and requested.
LEMMA MayFacts ==
  /\ MayRead({"Request"}) /\ MayRead({"Request", "Test"})
  /\ ~MayRead({"Request", "TestRequest"}) /\ ~MayRead(Invalid)
  /\ MayRequest({"Request"})
  /\ \A type : MayReceive({"Request", "Test"}, type) <=> type = "StopSession"
  /\ \A type : MayReceive({"Request"}, type) <=> type # "StopSession"
  BY DEF MayRead, MayRequest, MayReceive, Reading, Pending, Invalid

\* The mode that is picked is one that is offered.
LEMMA ModePickedOffered ==
  ASSUME NEW modes, NEW wanted \in SUBSET Modes, NEW permitted, NEW key, NEW least,
         ModePicked(modes, wanted, permitted, key, least) # NoMode
  PROVE  ModePicked(modes, wanted, permitted, key, least) \in modes
  <1> DEFINE avail == {m \in modes \cap wanted \cap permitted : key \/ m \notin DoCipher}
  <1>1. avail # {}
    BY DEF ModePicked
  <1>2. avail \subseteq {1, 2, 4}
    BY DEF Modes, Open, Authenticated, Encrypted
  <1>3. Min(avail) \in avail /\ Max(avail) \in avail
    <2> HIDE DEF avail
    <2>1. \A k \in avail : k = 1 \/ k = 2 \/ k = 4
      BY <1>2
    <2>2. \E m \in avail : \A k \in avail : m <= k
      <3>1. 1 \in avail \/ (1 \notin avail /\ 2 \in avail) \/ avail = {4}
        BY <1>1, <2>1
      <3>2. QED
        BY <2>1, <3>1
    <2>3. \E m \in avail : \A k \in avail : m >= k
      <3>1. 4 \in avail \/ (4 \notin avail /\ 2 \in avail) \/ avail = {1}
        BY <1>1, <2>1
      <3>2. QED
        BY <2>1, <3>1
    <2>4. QED
      BY <2>2, <2>3, Zenon DEF Min, Max
  <1>4. ModePicked(modes, wanted, permitted, key, least) \in avail
    BY <1>1, <1>3 DEF ModePicked
  <1>5. QED
    BY <1>4

\* The places, the tuples of variables, and what Link says of each place.
USE DEF Idle, Booking, BeforeStart, ClientPlaces, Testing, Trading, client, server, smodes,
        Link, LinkGreeting, LinkOk, LinkIdle, LinkTime, LinkBooking, LinkStart, LinkWaiting,
        LinkEnd, LinkOver

-----------------------------------------------------------------------------
(***************************************************************************)
(* The steps of bwctl.                                                     *)
(***************************************************************************)

LEMMA ControlOpenStep == IInv /\ ControlOpen => IInv'
  <1> SUFFICES ASSUME IInv, ControlOpen PROVE IInv'
    OBVIOUS
  <1> USE DEF ControlOpen, CReads
  <1>1. /\ s2c' = <<>> /\ IsStream(s2c') /\ Range(s2c') = {}
        /\ spc \in {"greeted", "exited"}
        /\ cpc' \in {"failed", "ok"}
        /\ cpc' = "failed" => c2s' = <<>>
        /\ cpc' = "ok" => /\ c2s' = <<ClientGreeting(cmode')>>
                          /\ Head(c2s') = ClientGreeting(cmode')
        /\ cpc' = "ok" /\ spc = "greeted" => cmode' \in offered
    <2>1. /\ s2c' = <<>> /\ IsStream(s2c') /\ Range(s2c') = {}
          /\ spc \in {"greeted", "exited"} /\ c2s = <<>>
          /\ spc = "greeted" => Head(s2c).modes = offered
      BY CarriesRead, StreamEmpty DEF IInv
    <2>2. PICK wanted \in SUBSET Modes, permitted \in SUBSET Modes, key \in BOOLEAN,
                least \in BOOLEAN, error \in BOOLEAN :
            LET mode == IF error THEN NoMode
                        ELSE ModePicked(Head(s2c).modes, wanted, permitted, key, least)
            IN /\ cmode' = mode
               /\ cpc' = IF mode = NoMode THEN "failed" ELSE "ok"
               /\ c2s' = IF mode = NoMode THEN c2s ELSE Append(c2s, ClientGreeting(mode))
      OBVIOUS
    <2>3. cmode' # NoMode => cmode' \in Head(s2c).modes
      BY ModePickedOffered
    <2>4. QED
      BY <2>1, <2>3
  <1>2. ClientBits'
    BY ClientBitFacts DEF ClientBits
  <1>3. ServerBits' /\ ServerTool'
    BY DEF IInv, ServerBits, ServerTool
  <1>4. ToServer'
    BY <1>1 DEF ToServer, ClientGreeting
  <1>5. Link'
    BY <1>1 DEF IInv
  <1>6. ModeAgreed' /\ Results'
    BY <1>1 DEF IInv, ModeAgreed, Results
  <1>7. QED
    BY <1>2, <1>3, <1>4, <1>5, <1>6 DEF IInv

LEMMA ControlOpenedStep == IInv /\ ControlOpened => IInv'
  <1> SUFFICES ASSUME IInv, ControlOpened PROVE IInv'
    OBVIOUS
  <1> USE DEF CUnchanged, ControlOpened, CReads
  <1>1. s2c' = <<>> /\ IsStream(s2c') /\ Range(s2c') = {}
    BY CarriesRead, StreamEmpty DEF IInv
  <1>2. ClientBits'
    BY ClientBitFacts DEF ClientBits
  <1>3. ServerBits' /\ ServerTool'
    BY DEF IInv, ServerBits, ServerTool
  <1>4. ToServer'
    BY DEF IInv, ToServer
  <1>5. Link'
    BY <1>1 DEF IInv
  <1>6. ModeAgreed' /\ Results'
    BY <1>1 DEF IInv, ModeAgreed, Results
  <1>7. QED
    BY <1>2, <1>3, <1>4, <1>5, <1>6 DEF IInv

LEMMA ControlTimeCheckStep == IInv /\ ControlTimeCheck => IInv'
  <1> SUFFICES ASSUME IInv, ControlTimeCheck PROVE IInv'
    OBVIOUS
  <1> USE DEF CUnchanged, ControlTimeCheck, CAsks
  <1>1. spc = "read" => c2s' = <<Plain("TimeRequest")>> /\ Head(c2s') = Plain("TimeRequest")
    BY DEF IInv
  <1>2. ClientBits'
    BY ClientBitFacts DEF IInv, ClientBits
  <1>3. ServerBits' /\ ServerTool'
    BY DEF IInv, ServerBits, ServerTool
  <1>4. ToServer'
    BY <1>1 DEF IInv, ToServer, Results, Plain, Message
  <1>5. Link'
    BY <1>1 DEF IInv
  <1>6. ModeAgreed' /\ Results'
    BY DEF IInv, ModeAgreed, Results
  <1>7. QED
    BY <1>2, <1>3, <1>4, <1>5, <1>6 DEF IInv

LEMMA TimeCheckedStep == IInv /\ TimeChecked => IInv'
  <1> SUFFICES ASSUME IInv, TimeChecked PROVE IInv'
    OBVIOUS
  <1> USE DEF CUnchanged, TimeChecked, CReads
  <1>1. s2c' = <<>> /\ IsStream(s2c') /\ Range(s2c') = {}
    BY CarriesRead, StreamEmpty DEF IInv
  <1>2. ClientBits'
    BY ClientBitFacts DEF IInv, ClientBits
  <1>3. ServerBits' /\ ServerTool'
    BY DEF IInv, ServerBits, ServerTool
  <1>4. ToServer'
    BY DEF IInv, ToServer
  <1>5. Link'
    BY <1>1 DEF IInv
  <1>6. ModeAgreed' /\ Results'
    BY <1>1 DEF IInv, ModeAgreed, Results
  <1>7. QED
    BY <1>2, <1>3, <1>4, <1>5, <1>6 DEF IInv

LEMMA SessionRequestStep == IInv /\ SessionRequest => IInv'
  <1> SUFFICES ASSUME IInv, SessionRequest PROVE IInv'
    OBVIOUS
  <1> USE DEF CUnchanged, SessionRequest, CAsks
  <1>1. spc = "read" => c2s' = <<TestRequest(FALSE)>> /\ Head(c2s') = TestRequest(FALSE)
    BY OneMessage DEF IInv
  <1>2. ClientBits'
    BY ClientBitFacts DEF IInv, ClientBits
  <1>3. ServerBits' /\ ServerTool'
    BY DEF IInv, ServerBits, ServerTool
  <1>4. ToServer'
    BY <1>1 DEF IInv, ToServer, Results, Message, SidMatches, TestRequest, SidFor
  <1>5. Link'
    BY <1>1 DEF IInv, TestRequest, SidFor
  <1>6. ModeAgreed' /\ Results'
    BY DEF IInv, ModeAgreed, Results
  <1>7. QED
    BY <1>2, <1>3, <1>4, <1>5, <1>6 DEF IInv

LEMMA SessionAnsweredStep == IInv /\ SessionAnswered => IInv'
  <1> SUFFICES ASSUME IInv, SessionAnswered PROVE IInv'
    OBVIOUS
  <1> USE DEF CUnchanged, SessionAnswered, Answered, CReads
  <1>1. s2c' = <<>> /\ IsStream(s2c') /\ Range(s2c') = {}
    BY CarriesRead, StreamEmpty DEF IInv
  <1>2. ClientBits'
    BY ClientBitFacts DEF IInv, ClientBits
  <1>3. ServerBits' /\ ServerTool'
    BY DEF IInv, ServerBits, ServerTool
  <1>4. ToServer'
    BY DEF IInv, ToServer
  <1>5. Link'
    BY <1>1 DEF IInv, SidTaken
  <1>6. ModeAgreed' /\ Results'
    BY <1>1 DEF IInv, ModeAgreed, Results
  <1>7. QED
    BY <1>2, <1>3, <1>4, <1>5, <1>6 DEF IInv

LEMMA GiveUpStep == IInv /\ GiveUp => IInv'
  <1> SUFFICES ASSUME IInv, GiveUp PROVE IInv'
    OBVIOUS
  <1> USE DEF CUnchanged, GiveUp
  <1>1. ClientBits'
    BY DEF IInv, ClientBits
  <1>2. ServerBits' /\ ServerTool'
    BY DEF IInv, ServerBits, ServerTool
  <1>3. ToServer'
    BY DEF IInv, ToServer
  <1>4. Link'
    BY DEF IInv
  <1>5. ModeAgreed' /\ Results'
    BY DEF IInv, ModeAgreed, Results
  <1>6. QED
    BY <1>1, <1>2, <1>3, <1>4, <1>5 DEF IInv

LEMMA CancelRequestStep == IInv /\ CancelRequest => IInv'
  <1> SUFFICES ASSUME IInv, CancelRequest PROVE IInv'
    OBVIOUS
  <1> USE DEF CUnchanged, CancelRequest, CAsks
  <1>1. spc = "read" => c2s' = <<TestRequest(TRUE)>> /\ Head(c2s') = TestRequest(TRUE)
    BY OneMessage DEF IInv
  <1>2. ClientBits'
    BY ClientBitFacts DEF IInv, ClientBits
  <1>3. ServerBits' /\ ServerTool'
    BY DEF IInv, ServerBits, ServerTool
  <1>4. ToServer'
    BY <1>1 DEF IInv, ToServer, Results, Message, SidMatches, TestRequest, SidFor
  <1>5. Link'
    BY <1>1 DEF IInv, TestRequest, SidFor
  <1>6. ModeAgreed' /\ Results'
    BY DEF IInv, ModeAgreed, Results
  <1>7. QED
    BY <1>2, <1>3, <1>4, <1>5, <1>6 DEF IInv

LEMMA CancelAnsweredStep == IInv /\ CancelAnswered => IInv'
  <1> SUFFICES ASSUME IInv, CancelAnswered PROVE IInv'
    OBVIOUS
  <1> USE DEF CUnchanged, CancelAnswered, Answered, CReads
  <1>1. s2c' = <<>> /\ IsStream(s2c') /\ Range(s2c') = {}
    BY CarriesRead, StreamEmpty DEF IInv
  <1>2. ClientBits'
    BY ClientBitFacts DEF IInv, ClientBits
  <1>3. ServerBits' /\ ServerTool'
    BY DEF IInv, ServerBits, ServerTool
  <1>4. ToServer'
    BY DEF IInv, ToServer
  <1>5. Link'
    BY <1>1 DEF IInv, SidTaken
  <1>6. ModeAgreed' /\ Results'
    BY <1>1 DEF IInv, ModeAgreed, Results
  <1>7. QED
    BY <1>2, <1>3, <1>4, <1>5, <1>6 DEF IInv

LEMMA StartSessionStep == IInv /\ StartSession => IInv'
  <1> SUFFICES ASSUME IInv, StartSession PROVE IInv'
    OBVIOUS
  <1> USE DEF CUnchanged, StartSession, CAsks
  <1>1. spc = "read" => /\ c2s' = <<Plain("StartSession")>>
                        /\ Head(c2s') = Plain("StartSession")
    BY DEF IInv
  <1>2. ClientBits'
    BY ClientBitFacts DEF IInv, ClientBits
  <1>3. ServerBits' /\ ServerTool'
    BY DEF IInv, ServerBits, ServerTool
  <1>4. ToServer'
    BY <1>1 DEF IInv, ToServer, Results, Plain, Message
  <1>5. Link'
    BY <1>1 DEF IInv, Results
  <1>6. ModeAgreed' /\ Results'
    BY DEF IInv, ModeAgreed, Results
  <1>7. QED
    BY <1>2, <1>3, <1>4, <1>5, <1>6 DEF IInv

LEMMA SessionStartedStep == IInv /\ SessionStarted => IInv'
  <1> SUFFICES ASSUME IInv, SessionStarted PROVE IInv'
    OBVIOUS
  <1> USE DEF CUnchanged, SessionStarted, CReads
  <1>1. /\ s2c' = <<>> \/ Carries(s2c', "StopSession")
        /\ spc \in Testing => s2c' = <<>>
        /\ spc \in Trading => s2c' # <<>>
        /\ spc # "read"
        /\ IsStream(s2c') /\ Range(s2c') \subseteq Range(s2c)
    <2>1. spc # "read" /\ s2c # <<>>
      BY DEF IInv
    <2>2. CASE Carries(s2c, "StartAck")
      <3>1. s2c' = <<>>
        BY <2>2, CarriesRead
      <3>2. QED
        BY StreamTail, CarriesRead DEF IInv, Results, CarriesTwo
    <2>3. CASE spc \notin Testing /\ CarriesTwo(s2c, "StartAck", "StopSession")
      BY StreamTail, CarriesRead DEF IInv, Results, CarriesTwo
    <2>4. QED
      BY <2>2, <2>3 DEF IInv
  <1>2. ClientBits'
    BY ClientBitFacts DEF IInv, ClientBits
  <1>3. ServerBits' /\ ServerTool'
    BY DEF IInv, ServerBits, ServerTool
  <1>4. ToServer'
    BY DEF IInv, ToServer
  <1>5. Link'
    BY <1>1 DEF IInv
  <1>6. ModeAgreed' /\ Results'
    BY <1>1 DEF IInv, ModeAgreed, Results
  <1>7. QED
    BY <1>2, <1>3, <1>4, <1>5, <1>6 DEF IInv

LEMMA EndSessionStep == IInv /\ EndSession => IInv'
  <1> SUFFICES ASSUME IInv, EndSession PROVE IInv'
    OBVIOUS
  <1> USE DEF CUnchanged, EndSession
  <1>1. spc # "exited" => c2s' = <<Plain("StopSession")>> /\ Head(c2s') = Plain("StopSession")
    BY OneMessage DEF IInv
  <1>2. ClientBits'
    BY DEF IInv, ClientBits
  <1>3. ServerBits' /\ ServerTool'
    BY DEF IInv, ServerBits, ServerTool
  <1>4. ToServer'
    BY <1>1 DEF IInv, ToServer, Plain, Message
  <1>5. Link'
    BY <1>1 DEF IInv
  <1>6. ModeAgreed' /\ Results'
    BY DEF IInv, ModeAgreed, Results
  <1>7. QED
    BY <1>2, <1>3, <1>4, <1>5, <1>6 DEF IInv

LEMMA SessionEndedStep == IInv /\ SessionEnded => IInv'
  <1> SUFFICES ASSUME IInv, SessionEnded PROVE IInv'
    OBVIOUS
  <1> USE DEF CUnchanged, SessionEnded, CReads
  <1>1. /\ Carries(s2c, "StopSession") /\ s2c' = <<>>
        /\ IsStream(s2c') /\ Range(s2c') = {} /\ Head(s2c) \in Range(s2c)
        /\ Head(s2c).type = "StopSession"
    BY CarriesRead, StreamEmpty, StreamTail DEF IInv, Results
  <1>2. ClientBits'
    BY ClientBitFacts DEF IInv, ClientBits
  <1>3. ServerBits' /\ ServerTool'
    BY DEF IInv, ServerBits, ServerTool
  <1>4. ToServer'
    BY DEF IInv, ToServer
  <1>5. Link'
    BY DEF IInv
  <1>6. ModeAgreed' /\ Results'
    BY <1>1 DEF IInv, ModeAgreed, Results
  <1>7. QED
    BY <1>2, <1>3, <1>4, <1>5, <1>6 DEF IInv

LEMMA ClientCloseStep == IInv /\ ClientClose => IInv'
  <1> SUFFICES ASSUME IInv, ClientClose PROVE IInv'
    OBVIOUS
  <1> USE DEF CCloses, ClientClose
  <1>1. ClientBits'
    BY DEF ClientBits
  <1>2. ServerBits' /\ ServerTool'
    BY DEF IInv, ServerBits, ServerTool
  <1>3. ToServer'
    BY DEF IInv, ToServer
  <1>4. Link'
    OBVIOUS
  <1>5. ModeAgreed' /\ Results'
    BY DEF IInv, ModeAgreed, Results
  <1>6. QED
    BY <1>1, <1>2, <1>3, <1>4, <1>5 DEF IInv

LEMMA ClientEOFStep == IInv /\ ClientEOF => IInv'
  <1> SUFFICES ASSUME IInv, ClientEOF PROVE IInv'
    OBVIOUS
  <1> USE DEF CCloses, ClientEOF
  <1>1. ClientBits'
    BY DEF ClientBits
  <1>2. ServerBits' /\ ServerTool'
    BY DEF IInv, ServerBits, ServerTool
  <1>3. ToServer'
    BY DEF ToServer
  <1>4. Link'
    OBVIOUS
  <1>5. ModeAgreed' /\ Results'
    BY DEF IInv, ModeAgreed, Results
  <1>6. QED
    BY <1>1, <1>2, <1>3, <1>4, <1>5 DEF IInv

LEMMA ClientSignalStep == IInv /\ ClientSignal => IInv'
  <1> SUFFICES ASSUME IInv, ClientSignal PROVE IInv'
    OBVIOUS
  <1> USE DEF CCloses, ClientSignal
  <1>1. ClientBits'
    BY DEF ClientBits
  <1>2. ServerBits' /\ ServerTool'
    BY DEF IInv, ServerBits, ServerTool
  <1>3. ToServer'
    BY DEF IInv, ToServer, SidMatches
  <1>4. Link'
    OBVIOUS
  <1>5. ModeAgreed' /\ Results'
    BY DEF IInv, ModeAgreed, Results
  <1>6. QED
    BY <1>1, <1>2, <1>3, <1>4, <1>5 DEF IInv

-----------------------------------------------------------------------------
(***************************************************************************)
(* The steps of the child of bwctld.                                       *)
(***************************************************************************)

LEMMA GreetStep == IInv /\ Greet => IInv'
  <1> SUFFICES ASSUME IInv, Greet PROVE IInv'
    OBVIOUS
  <1> USE DEF SSends, Greet
  <1>1. /\ s2c = <<>> => /\ Carries(s2c', "ServerGreeting") /\ s2c' # <<>>
                         /\ Head(s2c') = ServerGreeting(offered')
        /\ ServerGreeting(offered').type = "ServerGreeting"
        /\ IsStream(s2c')
        /\ \A m \in Range(s2c') :
             m \in Range(s2c) \/ m = ServerGreeting(offered')
    <2>1. ServerGreeting(offered').type = "ServerGreeting"
      BY DEF ServerGreeting
    <2>2. QED
      BY <2>1, Sent, Zenon
  <1>2. ClientBits'
    BY DEF IInv, ClientBits
  <1>3. ServerBits' /\ ServerTool'
    BY ServerBitFacts DEF IInv, ServerBits, ServerTool
  <1>4. ToServer'
    BY DEF IInv, ToServer
  <1>5. Link'
    BY <1>1 DEF IInv, ServerGreeting
  <1>6. ModeAgreed' /\ Results'
    BY <1>1 DEF IInv, ModeAgreed, Results
  <1>7. QED
    BY <1>2, <1>3, <1>4, <1>5, <1>6 DEF IInv

LEMMA AcceptStep == IInv /\ Accept => IInv'
  <1> SUFFICES ASSUME IInv, Accept PROVE IInv'
    OBVIOUS
  <1> USE DEF SReceives, SSends, Accept
  <1> DEFINE Served == /\ spc' \in {"read", "exited"}
                       /\ spc' = "read" => sstate' = {"Request"}
                       /\ spc' = "exited" => sstate' = Invalid
                       /\ s2c = <<>> =>
                            /\ s2c' # <<>> => Carries(s2c', "ServerOK")
                            /\ spc' = "read" => /\ s2c' # <<>>
                                                /\ Head(s2c').accept = "ACCEPT"
                       /\ IsStream(s2c')
                       /\ \A m \in Range(s2c') : m \in Range(s2c) \/ m.type = "ServerOK"
  <1>1. ASSUME NEW a, SSends(Answer("ServerOK", a)),
               spc' = IF a = "ACCEPT" THEN "read" ELSE "exited", sstate' = WriteServerOK(a)
        PROVE  Served
    <2>1. Answer("ServerOK", a).type = "ServerOK" /\ Answer("ServerOK", a).accept = a
      BY DEF Answer, Message
    <2>2. /\ s2c = <<>> => Carries(s2c', "ServerOK") /\ s2c' # <<>> /\ Head(s2c').accept = a
          /\ IsStream(s2c')
          /\ \A m \in Range(s2c') : m \in Range(s2c) \/ m = Answer("ServerOK", a)
      BY <1>1, <2>1, Sent, Zenon
    <2>3. QED
      BY <1>1, <2>1, <2>2, ServerBitFacts
  <1>2. ASSUME spc' = "exited", sstate' = Invalid, UNCHANGED s2c
        PROVE  Served
    BY <1>2 DEF IInv, Results
  <1>3. Served
    BY <1>1, <1>2
  <1>4. /\ c2s' = <<>> /\ c2s # <<>> /\ Served
        /\ cpc = "ok" => smode' = cmode
    <2>1. c2s' = <<>>
      BY ServerReads DEF IInv
    <2>2. cpc = "ok" => smode' = cmode
      BY DEF IInv, ClientGreeting
    <2>3. QED
      BY <1>3, <2>1, <2>2
  <1>5. ClientBits'
    BY DEF IInv, ClientBits
  <1>6. ServerBits' /\ ServerTool'
    BY ServerBitFacts DEF IInv, ServerBits, ServerTool
  <1>7. ToServer'
    BY <1>4 DEF ToServer
  <1>8. Link'
    BY <1>4 DEF IInv
  <1>9. ModeAgreed' /\ Results'
    BY <1>4 DEF IInv, ModeAgreed, Results, ClientBits
  <1>10. QED
    BY <1>5, <1>6, <1>7, <1>8, <1>9 DEF IInv

LEMMA ProcessTimeRequestStep == IInv /\ ProcessTimeRequest => IInv'
  <1> SUFFICES ASSUME IInv, ProcessTimeRequest PROVE IInv'
    OBVIOUS
  <1> USE DEF SUnchanged, SReceives, SSends, SRequest, Read, ProcessTimeRequest
  <1>1. /\ c2s' = <<>> /\ sstate = {"Request"}
        /\ s2c = <<>> => /\ Carries(s2c', "TimeResponse") /\ s2c' # <<>>
                         /\ Head(s2c') = Plain("TimeResponse")
        /\ Plain("TimeResponse").type = "TimeResponse"
        /\ IsStream(s2c')
        /\ \A m \in Range(s2c') :
             m \in Range(s2c) \/ m = Plain("TimeResponse")
    <2>1. c2s' = <<>> /\ sstate = {"Request"}
      BY ServerReads DEF IInv, ToServer
    <2>2. Plain("TimeResponse").type = "TimeResponse"
      BY DEF Plain, Message
    <2>3. /\ s2c = <<>> => /\ Carries(s2c', "TimeResponse") /\ s2c' # <<>>
                           /\ Head(s2c') = Plain("TimeResponse")
          /\ Plain("TimeResponse").type = "TimeResponse"
          /\ IsStream(s2c')
          /\ \A m \in Range(s2c') :
               m \in Range(s2c) \/ m = Plain("TimeResponse")
      BY <2>2, Sent, Zenon
    <2>4. QED
      BY <2>1, <2>3
  <1>2. ClientBits'
    BY DEF IInv, ClientBits
  <1>3. ServerBits' /\ ServerTool'
    BY ServerBitFacts DEF IInv, ServerBits, ServerTool, ToServer
  <1>4. ToServer'
    BY <1>1 DEF ToServer
  <1>5. Link'
    BY <1>1, ServerBitFacts DEF IInv, Plain, Message, TestRequest
  <1>6. ModeAgreed' /\ Results'
    BY <1>1 DEF IInv, ModeAgreed, Results
  <1>7. QED
    BY <1>2, <1>3, <1>4, <1>5, <1>6 DEF IInv

LEMMA TestRequestUnreadStep == IInv /\ TestRequestUnread => IInv'
  <1> SUFFICES ASSUME IInv, TestRequestUnread PROVE IInv'
    OBVIOUS
  <1> USE DEF SUnchanged, SReceives, SSends, SRequest, Read, TestRequestUnread
  <1>1. c2s' = <<>> /\ sstate = {"Request"}
    BY ServerReads DEF IInv, ToServer
  <1>2. ClientBits'
    BY DEF IInv, ClientBits
  <1>3. ServerBits' /\ ServerTool'
    BY ServerBitFacts DEF IInv, ServerBits, ServerTool, ToServer
  <1>4. ToServer'
    BY <1>1 DEF ToServer
  <1>5. Link'
    BY <1>1, ServerBitFacts DEF IInv, Plain, Message
  <1>6. ModeAgreed' /\ Results'
    BY DEF IInv, ModeAgreed, Results
  <1>7. QED
    BY <1>2, <1>3, <1>4, <1>5, <1>6 DEF IInv

\* An answer to a TestRequest: both ends then hold the same session, or none.
LEMMA TestAnsweredStep ==
  ASSUME IInv, NEW accept, NEW tests, TestAnswered(accept, tests),
         tests = (IF accept = "ACCEPT" THEN SessionOf(Head(c2s)) ELSE NoSid),
         accept = "ACCEPT" => ~Cancels(Head(c2s))
  PROVE  IInv'
  <1> USE DEF SUnchanged, SReceives, SSends, SRequest, Read, TestAnswered
  <1>1. /\ c2s' = <<>> /\ sstate = {"Request"}
        /\ s2c = <<>> => /\ Carries(s2c', "TestAccept") /\ s2c' # <<>>
                         /\ Head(s2c') = Message("TestAccept", accept, SessionOf(Head(c2s)), FALSE)
        /\ Message("TestAccept", accept, SessionOf(Head(c2s)), FALSE).type = "TestAccept"
        /\ IsStream(s2c')
        /\ \A m \in Range(s2c') :
             m \in Range(s2c) \/ m = Message("TestAccept", accept, SessionOf(Head(c2s)), FALSE)
    <2>1. c2s' = <<>> /\ sstate = {"Request"}
      BY ServerReads DEF IInv, ToServer
    <2>2. Message("TestAccept", accept, SessionOf(Head(c2s)), FALSE).type = "TestAccept"
      BY DEF Message
    <2>3. /\ s2c = <<>> => /\ Carries(s2c', "TestAccept") /\ s2c' # <<>>
                           /\ Head(s2c') = Message("TestAccept", accept, SessionOf(Head(c2s)), FALSE)
          /\ Message("TestAccept", accept, SessionOf(Head(c2s)), FALSE).type = "TestAccept"
          /\ IsStream(s2c')
          /\ \A m \in Range(s2c') :
               m \in Range(s2c) \/ m = Message("TestAccept", accept, SessionOf(Head(c2s)), FALSE)
      BY <2>2, Sent, Zenon
    <2>4. QED
      BY <2>1, <2>3
  <1>2. ClientBits'
    BY DEF IInv, ClientBits
  <1>3. ServerBits' /\ ServerTool'
    BY ServerBitFacts DEF IInv, ServerBits, ServerTool, ToServer
  <1>4. ToServer'
    BY <1>1 DEF ToServer
  <1>5. Link'
    <2>1. cpc = "closed" \/ cpc \in Booking
      BY DEF IInv, ClientBits, Plain, Message
    <2>2. ASSUME cpc \in Booking
          PROVE  /\ c2s = <<TestRequest(cpc # "test")>> /\ s2c = <<>> /\ stests = ctests
                 /\ cpc = "cancel" => ctests # NoSid
                 /\ cpc = "rebook" => ctests = NoSid
      BY <2>2 DEF IInv
    <2>3. ASSUME cpc \in Booking
          PROVE  Head(c2s) = TestRequest(cpc # "test")
      BY <2>2, <2>3
    <2>4. ASSUME cpc \in Booking
          PROVE  stests' = SidTaken'
      <3>1. Head(c2s).sid = SidFor(ctests) /\ Head(c2s).zero = (cpc # "test")
        BY <2>3, <2>4 DEF TestRequest, Message
      <3>2. Head(s2c').accept = accept /\ Head(s2c').sid = SessionOf(Head(c2s))
        BY <2>2, <2>4 DEF Message
      <3>3. cpc = "cancel" => accept # "ACCEPT"
        BY <2>2, <3>1 DEF Cancels
      <3>4. ~confServer => SessionOf(Head(c2s)) = SidFor(ctests)
        BY <2>2, <2>4, <3>1 DEF SessionOf, SidFor
      <3>5. QED
        BY <3>2, <3>3, <3>4 DEF SidTaken, SidFor
    <2>5. LinkBooking'
      BY <1>1, <2>2, <2>4, ServerBitFacts
    <2>6. QED
      BY <2>1, <2>5
  <1>6. ModeAgreed' /\ Results'
    BY <1>1 DEF IInv, ModeAgreed, Results
  <1>7. QED
    BY <1>2, <1>3, <1>4, <1>5, <1>6 DEF IInv

LEMMA ProcessTestRequestStep == IInv /\ ProcessTestRequest => IInv'
  BY TestAnsweredStep DEF ProcessTestRequest, Refusals

LEMMA TestRequestFatalStep == IInv /\ TestRequestFatal => IInv'
  <1> SUFFICES ASSUME IInv, TestRequestFatal PROVE IInv'
    OBVIOUS
  <1> USE DEF SUnchanged, SReceives, SSends, SRequest, Read, TestRequestFatal
  <1>1. c2s' = <<>> /\ sstate = {"Request"}
    BY ServerReads DEF IInv, ToServer
  <1>2. ClientBits'
    BY DEF IInv, ClientBits
  <1>3. ServerBits' /\ ServerTool'
    BY DEF IInv, ServerBits, ServerTool
  <1>4. ToServer'
    BY DEF ToServer
  <1>5. Link'
    BY DEF IInv
  <1>6. ModeAgreed' /\ Results'
    BY DEF IInv, ModeAgreed, Results
  <1>7. QED
    BY <1>2, <1>3, <1>4, <1>5, <1>6 DEF IInv

LEMMA ProcessStartSessionStep == IInv /\ ProcessStartSession => IInv'
  <1> SUFFICES ASSUME IInv, ProcessStartSession PROVE IInv'
    OBVIOUS
  <1> USE DEF SUnchanged, SReceives, SSends, SRequest, Read, ProcessStartSession,
              EndpointStart
  <1> DEFINE Acked(a) == /\ s2c = <<>> => /\ Carries(s2c', "StartAck") /\ s2c' # <<>>
                                        /\ Head(s2c').accept = a
                       /\ IsStream(s2c')
                       /\ \A m \in Range(s2c') : m \in Range(s2c) \/ m.type = "StartAck"
  <1>1. ASSUME NEW a, SSends(Answer("StartAck", a))
        PROVE  Acked(a)
    <2>1. Answer("StartAck", a).type = "StartAck" /\ Answer("StartAck", a).accept = a
      BY DEF Answer, Message
    <2>2. /\ s2c = <<>> => Carries(s2c', "StartAck") /\ s2c' # <<>> /\ Head(s2c').accept = a
          /\ IsStream(s2c')
          /\ \A m \in Range(s2c') : m \in Range(s2c) \/ m = Answer("StartAck", a)
      BY <1>1, <2>1, Sent, Zenon
    <2>3. QED
      BY <2>1, <2>2
  <1>2. sstate = {"Request"} /\ result = "none" /\ c2s' = <<>>
    BY ServerReads DEF IInv, ToServer
  <1>3. /\ c2s' = <<>> /\ sstate = {"Request"} /\ result = "none"
        /\ s2c = <<>> => Carries(s2c', "StartAck") /\ s2c' # <<>>
        /\ IsStream(s2c')
        /\ \A m \in Range(s2c') : m \in Range(s2c) \/ m.type = "StartAck"
        /\ \/ spc' = "exited" /\ sstate' = Invalid /\ stests' = NoSid /\ tool' = "none"
           \/ /\ spc' = "active" /\ sstate' = {"Request", "Test"} /\ stests' = stests
              /\ tool' = "running"
              /\ s2c = <<>> => Head(s2c').accept = "ACCEPT"
    <2> DEFINE Ended == spc' = "exited" /\ sstate' = Invalid /\ stests' = NoSid /\ tool' = "none"
               Active == /\ spc' = "active" /\ sstate' = {"Request", "Test"}
                         /\ stests' = stests /\ tool' = "running"
    <2>1. tool = "none"
      BY DEF IInv, ServerTool
    <2>2. \/ SSends(Answer("StartAck", "FAILURE")) /\ Ended
          \/ SSends(Answer("StartAck", "ACCEPT")) /\ (Ended \/ Active)
      BY <1>2, <2>1, ServerBitFacts
    <2> HIDE DEF SSends, Acked, Ended, Active, ProcessStartSession
    <2>3. (Acked("FAILURE") /\ Ended) \/ (Acked("ACCEPT") /\ (Ended \/ Active))
      BY <1>1, <2>2
    <2>4. QED
      BY <1>2, <2>3 DEF Acked, Ended, Active
  <1>4. ClientBits'
    BY DEF IInv, ClientBits
  <1>5. ServerBits' /\ ServerTool'
    BY <1>3 DEF ServerBits, ServerTool
  <1>6. ToServer'
    BY <1>3 DEF ToServer
  <1>7. Link'
    BY <1>3 DEF IInv, Plain, Message, TestRequest
  <1>8. ModeAgreed' /\ Results'
    BY <1>3 DEF IInv, ModeAgreed, Results
  <1>9. QED
    BY <1>4, <1>5, <1>6, <1>7, <1>8 DEF IInv

\* A move of the server from one place of the test to another.
LEMMA ServerMoves ==
  ASSUME IInv, spc \in Testing, spc' \in Testing, STestUnchanged,
         UNCHANGED <<sstate, stests, sval, tool, c2s, s2c>>
  PROVE  IInv'
  <1> USE DEF SUnchanged, STestUnchanged
  <1>1. ClientBits'
    BY DEF IInv, ClientBits
  <1>2. ServerBits' /\ ServerTool'
    BY DEF IInv, ServerBits, ServerTool
  <1>3. ToServer'
    BY DEF IInv, ToServer
  <1>4. Link'
    BY DEF IInv
  <1>5. ModeAgreed' /\ Results'
    BY DEF IInv, ModeAgreed, Results
  <1>6. QED
    BY <1>1, <1>2, <1>3, <1>4, <1>5 DEF IInv

\* BWLStopSession: the tool has ended and the server sends the first StopSession.
LEMMA StopSessionStep ==
  ASSUME IInv, spc \in Testing, ~SessionsActive, NEW pc \in Trading, NEW accept,
         accept # "ACCEPT" => tool = "failure", StopSession(pc, accept)
  PROVE  IInv'
  <1> USE DEF SUnchanged, STestUnchanged, SSends, StopSession
  <1>1. /\ s2c = <<>> => /\ Carries(s2c', "StopSession") /\ s2c' # <<>>
                         /\ Head(s2c') = Answer("StopSession", accept)
        /\ Answer("StopSession", accept).type = "StopSession"
        /\ IsStream(s2c')
        /\ \A m \in Range(s2c') :
             m \in Range(s2c) \/ m = Answer("StopSession", accept)
        /\ Answer("StopSession", accept).accept = accept
        /\ Carries(s2c, "StartAck") => /\ CarriesTwo(s2c', "StartAck", "StopSession")
                                       /\ s2c' # <<>> /\ Head(s2c') = Head(s2c)
    <2>1. /\ Answer("StopSession", accept).type = "StopSession"
          /\ Answer("StopSession", accept).accept = accept
      BY DEF Answer, Message
    <2>2. QED
      BY <2>1, Sent, Zenon
  <1>2. ClientBits'
    BY DEF IInv, ClientBits
  <1>3. ServerBits' /\ ServerTool'
    BY DEF IInv, ServerBits, ServerTool, SessionsActive
  <1>4. ToServer'
    BY DEF IInv, ToServer
  <1>5. Link'
    BY <1>1 DEF IInv
  <1>6. ModeAgreed' /\ Results'
    BY <1>1 DEF IInv, ModeAgreed, Results, ServerTool, SessionsActive
  <1>7. QED
    BY <1>2, <1>3, <1>4, <1>5, <1>6 DEF IInv

LEMMA CheckActiveStep == IInv /\ CheckActive => IInv'
  BY StopSessionStep, ServerMoves DEF CheckActive

LEMMA StopSessionWaitStep == IInv /\ StopSessionWait => IInv'
  BY StopSessionStep, ServerMoves
     DEF StopSessionWait, EndpointStatus, SessionsActive, IInv, ServerTool

LEMMA SelectStep == IInv /\ Select => IInv'
  <1> SUFFICES ASSUME IInv, Select PROVE IInv'
    OBVIOUS
  <1> USE DEF SUnchanged, STestUnchanged, Select
  <1>1. ClientBits'
    BY DEF IInv, ClientBits
  <1>2. ServerBits' /\ ServerTool'
    BY DEF IInv, ServerBits, ServerTool
  <1>3. ToServer'
    BY DEF IInv, ToServer
  <1>4. Link'
    BY DEF IInv
  <1>5. ModeAgreed' /\ Results'
    BY DEF IInv, ModeAgreed, Results
  <1>6. QED
    BY <1>1, <1>2, <1>3, <1>4, <1>5 DEF IInv

\* BWLControlClose and exit, from wherever the server is.
LEMMA ServerCloses ==
  ASSUME IInv, SCloses, UNCHANGED s2c
  PROVE  IInv'
  <1> USE DEF SUnchanged, SCloses
  <1>1. ClientBits'
    BY DEF IInv, ClientBits
  <1>2. ServerBits' /\ ServerTool'
    BY DEF ServerBits, ServerTool
  <1>3. ToServer'
    BY DEF ToServer
  <1>4. Link'
    BY DEF IInv
  <1>5. ModeAgreed' /\ Results'
    BY DEF IInv, ModeAgreed, Results
  <1>6. QED
    BY <1>1, <1>2, <1>3, <1>4, <1>5 DEF IInv

LEMMA WokenStep == IInv /\ Woken => IInv'
  BY ServerCloses, ServerMoves DEF Woken

LEMMA PeerStopsStep == IInv /\ PeerStops => IInv'
  <1> SUFFICES ASSUME IInv, PeerStops PROVE IInv'
    OBVIOUS
  <1> USE DEF SUnchanged, STestUnchanged, SReceives, StopReceived, StopBits,
              PeerStops
  <1>1. /\ c2s' = <<>> /\ sstate = {"Request", "Test"}
    BY ServerReads DEF IInv, ServerBits
  <1>2. ClientBits'
    BY DEF IInv, ClientBits
  <1>3. ServerBits' /\ ServerTool'
    BY ServerBitFacts DEF IInv, ServerBits, ServerTool, ToServer
  <1>4. ToServer'
    BY <1>1 DEF ToServer
  <1>5. Link'
    BY DEF IInv
  <1>6. ModeAgreed' /\ Results'
    BY DEF IInv, ModeAgreed, Results
  <1>7. QED
    BY <1>2, <1>3, <1>4, <1>5, <1>6 DEF IInv

LEMMA FlushStep == IInv /\ Flush => IInv'
  <1> SUFFICES ASSUME IInv, Flush PROVE IInv'
    OBVIOUS
  <1> USE DEF SUnchanged, STestUnchanged, SSends, EndpointStopped, SessionsActive,
              SessionOver, Flush
  <1>1. /\ s2c = <<>> => /\ Carries(s2c', "StopSession") /\ s2c' # <<>>
                         /\ Head(s2c') = Answer("StopSession", sval)
        /\ Answer("StopSession", sval).type = "StopSession"
        /\ IsStream(s2c')
        /\ \A m \in Range(s2c') :
             m \in Range(s2c) \/ m = Answer("StopSession", sval)
        /\ Answer("StopSession", sval).accept = sval
        /\ Carries(s2c, "StartAck") => /\ CarriesTwo(s2c', "StartAck", "StopSession")
                                       /\ s2c' # <<>> /\ Head(s2c') = Head(s2c)
    <2>1. /\ Answer("StopSession", sval).type = "StopSession"
          /\ Answer("StopSession", sval).accept = sval
      BY DEF Answer, Message
    <2>2. QED
      BY <2>1, Sent, Zenon
  <1>2. ClientBits'
    BY DEF IInv, ClientBits
  <1>3. ServerBits' /\ ServerTool'
    BY DEF IInv, ServerBits, ServerTool
  <1>4. ToServer'
    BY DEF IInv, ToServer
  <1>5. Link'
    BY <1>1 DEF IInv, ToServer
  <1>6. ModeAgreed' /\ Results'
    BY <1>1 DEF IInv, ModeAgreed, Results, ServerTool
  <1>7. QED
    BY <1>2, <1>3, <1>4, <1>5, <1>6 DEF IInv

LEMMA TradedStep == IInv /\ Traded => IInv'
  <1> SUFFICES ASSUME IInv, Traded PROVE IInv'
    OBVIOUS
  <1> USE DEF SUnchanged, STestUnchanged, SReceives, StopReceived, StopBits,
              SessionOver, Traded
  <1>1. /\ c2s' = <<>> /\ sstate = {"Request", "Test"}
    BY ServerReads DEF IInv, ServerBits
  <1>2. ClientBits'
    BY DEF IInv, ClientBits
  <1>3. ServerBits' /\ ServerTool'
    BY <1>1, ServerBitFacts DEF ServerBits, ServerTool
  <1>4. ToServer'
    BY <1>1 DEF ToServer
  <1>5. Link'
    BY <1>1, ServerBitFacts DEF IInv, ToServer
  <1>6. ModeAgreed' /\ Results'
    BY DEF IInv, ModeAgreed, Results
  <1>7. QED
    BY <1>2, <1>3, <1>4, <1>5, <1>6 DEF IInv

LEMMA WrongStateStep == IInv /\ WrongState => IInv'
  BY ServerCloses DEF WrongState

LEMMA ServerEOFStep == IInv /\ ServerEOF => IInv'
  BY ServerCloses DEF ServerEOF

LEMMA TimeoutStep == IInv /\ Timeout => IInv'
  BY ServerCloses DEF Timeout

LEMMA TerminateStep == IInv /\ Terminate => IInv'
  <1> SUFFICES ASSUME IInv, Terminate PROVE IInv'
    OBVIOUS
  <1> USE DEF SUnchanged, Terminate, Reads
  <1>1. ClientBits'
    BY DEF IInv, ClientBits
  <1>2. ServerBits' /\ ServerTool'
    BY DEF IInv, ServerBits, ServerTool
  <1>3. ToServer'
    BY DEF IInv, ToServer, SidMatches
  <1>4. Link'
    BY DEF IInv, SidTaken, TestRequest, SidFor
  <1>5. ModeAgreed' /\ Results'
    BY DEF IInv, ModeAgreed, Results
  <1>6. QED
    BY <1>1, <1>2, <1>3, <1>4, <1>5 DEF IInv

LEMMA ToolExitStep == IInv /\ ToolExit => IInv'
  <1> SUFFICES ASSUME IInv, ToolExit PROVE IInv'
    OBVIOUS
  <1> USE DEF ToolExit
  <1>1. ClientBits'
    BY DEF IInv, ClientBits
  <1>2. ServerBits' /\ ServerTool'
    BY DEF IInv, ServerBits, ServerTool
  <1>3. ToServer'
    BY DEF IInv, ToServer, ServerTool
  <1>4. Link'
    BY DEF IInv, ServerTool
  <1>5. ModeAgreed' /\ Results'
    BY DEF IInv, ModeAgreed, Results, ServerTool
  <1>6. QED
    BY <1>1, <1>2, <1>3, <1>4, <1>5 DEF IInv

-----------------------------------------------------------------------------
(***************************************************************************)
(* The theorems.                                                           *)
(***************************************************************************)

LEMMA InitIInv == Init => IInv
  BY StreamEmpty DEF Init, IInv, ClientBits, ServerBits, ServerTool, ToServer, ModeAgreed,
    Results

LEMMA ClientStepIInv == IInv /\ (ClientStep \/ ClientSignal) => IInv'
  BY ControlOpenStep, ControlOpenedStep, ControlTimeCheckStep, TimeCheckedStep,
    SessionRequestStep, SessionAnsweredStep, GiveUpStep, CancelRequestStep,
    CancelAnsweredStep, StartSessionStep, SessionStartedStep, EndSessionStep,
    SessionEndedStep, ClientCloseStep, ClientEOFStep, ClientSignalStep
    DEF ClientStep

LEMMA ServerStepIInv == IInv /\ (ServerStep \/ Timeout \/ Terminate \/ ToolExit) => IInv'
  BY GreetStep, AcceptStep, ProcessTimeRequestStep, TestRequestUnreadStep,
    ProcessTestRequestStep, TestRequestFatalStep, ProcessStartSessionStep, CheckActiveStep,
    StopSessionWaitStep, SelectStep, WokenStep, PeerStopsStep, FlushStep, TradedStep,
    WrongStateStep, ServerEOFStep, TimeoutStep, TerminateStep, ToolExitStep
    DEF ServerStep

LEMMA StutterIInv == IInv /\ UNCHANGED vars => IInv'
  BY DEF vars, IInv, ClientBits, ServerBits, ServerTool, ToServer, ModeAgreed, Results,
    SidTaken, SidMatches, TestRequest, SidFor

HIDE DEF client, server, smodes

LEMMA Invariance == Spec => []IInv
  <1>1. Init => IInv
    BY InitIInv
  <1>2. IInv /\ [Next]_vars => IInv'
    BY ClientStepIInv, ServerStepIInv, StutterIInv, Zenon DEF Next
  <1>3. QED
    BY <1>1, <1>2, PTL DEF Spec

\* The two ends stay in step for any number of requests: whatever the order of
\* refusals, renewals, signals, timers and the end of the tool, no message meets
\* an end that does not wait for it or whose state forbids it, and the mode of
\* the connection is one that was offered, the same at both ends.
THEOREM InStepCorrect == Spec => []InStep
  <1>1. IInv => InStep
    <2> SUFFICES ASSUME IInv PROVE InStep
      OBVIOUS
    <2>1. sstate \in {Invalid, {"Setup"}, {"Request"}, {"Request", "Test"},
                      {"Request", "TestRequest"}}
      BY DEF IInv, ServerBits
    <2>2. spc = "read" /\ MayRead(sstate) /\ c2s # <<>> =>
            /\ Head(c2s).type \in {"TimeRequest", "TestRequest", "StartSession"}
            /\ MayReceive(sstate, Head(c2s).type)
            /\ Head(c2s).type = "TestRequest" => SidMatches(Head(c2s))
            /\ Head(c2s).type = "StartSession" => stests # NoSid
      BY MayFacts DEF IInv, ToServer
    <2>3. spc \in {"select", "trade", "tradeInWait"} =>
            /\ MayRead(sstate)
            /\ c2s # <<>> => Head(c2s).type = "StopSession"
                             /\ MayReceive(sstate, "StopSession")
      BY MayFacts DEF IInv, ToServer, ServerBits
    <2>4. cpc \in Blocked /\ s2c # <<>> => Head(s2c).type = Awaits[cpc]
      <3>1. cpc \in Blocked /\ s2c # <<>> =>
              \/ cpc = "greeting" /\ Head(s2c).type = "ServerGreeting"
              \/ cpc = "ok" /\ Head(s2c).type = "ServerOK"
              \/ cpc = "time" /\ Head(s2c).type = "TimeResponse"
              \/ cpc \in Booking /\ Head(s2c).type = "TestAccept"
              \/ cpc = "start" /\ Head(s2c).type = "StartAck"
              \/ cpc = "end" /\ Head(s2c).type = "StopSession"
        BY DEF IInv, Blocked, Awaits, Carries, CarriesTwo
      <3>2. QED
        BY <3>1 DEF Awaits
    <2>5. spc = "greeted" /\ c2s # <<>> => Head(c2s).mode \in offered
      BY DEF IInv, ToServer
    <2>6. sstate \cap cstate # {} => smode = (IF spc = "greeted" THEN NoMode ELSE cmode)
      <3>1. CASE spc \in {"accept", "greeted"}
        BY <3>1 DEF IInv, ServerBits, ServerTool, Invalid
      <3>2. CASE spc \notin {"accept", "greeted"}
        <4>1. sstate \subseteq {"Request", "Test", "TestRequest"}
          BY <3>2 DEF IInv, ServerBits, Invalid
        <4>2. cpc \in {"greeting", "ok", "failed", "closed"} =>
                cstate \subseteq {"Setup", "Uptime"}
          BY DEF IInv, ClientBits, Invalid
        <4>3. QED
          BY <3>2, <4>1, <4>2 DEF IInv, ModeAgreed
      <3>3. QED
        BY <3>1, <3>2
    <2>7. cpc \in {"fresh", "ready", "giveup"} => MayRequest(cstate)
      BY MayFacts DEF IInv, ClientBits
    <2>8. cpc \in {"waiting", "end"} => MayRead(cstate) /\ MayReceive(cstate, "StopSession")
      BY MayFacts DEF IInv, ClientBits
    <2>9. QED
      BY <2>1, <2>2, <2>3, <2>4, <2>5, <2>6, <2>7, <2>8 DEF InStep
  <1>2. QED
    BY <1>1, Invariance, PTL

\* For any number of requests and renewals, the session bwctl counts on between
\* the TestAccept and its StopSession is the one in the server's cntrl->tests.
THEOREM SessionAgreedCorrect == Spec => []SessionAgreed
  <1>1. IInv => SessionAgreed
    BY DEF IInv, SessionAgreed
  <1>2. QED
    BY <1>1, Invariance, PTL

\* No StopSession of the server is on its way, or read, before the tool is done,
\* and one that reports an error is of a tool that failed.
THEOREM ResultsCompleteCorrect == Spec => []ResultsComplete
  <1>1. IInv => ResultsComplete
    BY DEF IInv, Results, ResultsComplete, Range
  <1>2. QED
    BY <1>1, Invariance, PTL
-----------------------------------------------------------------------------
(***************************************************************************)
(* What a TestRequest carries: first facts about recursive functions and   *)
(* about division, then the powers of a byte and of 2 (TestOptions).       *)
(***************************************************************************)

\* Min of a non-empty set of natural numbers is its least element.
LEMMA MinNatural ==
  ASSUME NEW S, S \subseteq Nat, S # {}
  PROVE  Min(S) \in S /\ \A k \in S : Min(S) <= k
  <1>1. PICK x \in S : \A y \in S : ~(<<y, x>> \in OpToRel(<, Nat))
    BY WFMin, NatLessThanWellFounded, Zenon
  <1>2. \A y \in S : ~(y < x)
    BY <1>1 DEF OpToRel
  <1>3. \A y \in S : x <= y
    BY <1>2
  <1>4. QED
    BY <1>3, Zenon DEF Min

\* Induction over the numbers from 0 to n.
LEMMA UpTo ==
  ASSUME NEW n \in Nat, NEW P, 0 \in P, \A k \in 1..n : k - 1 \in P => k \in P
  PROVE  \A k \in 0..n : k \in P
  <1> DEFINE S == {k \in 0..n : k \notin P}
  <1>1. SUFFICES ASSUME S # {} PROVE FALSE
    OBVIOUS
  <1>2. S \subseteq Nat
    OBVIOUS
  <1>3. Min(S) \in S /\ \A k \in S : Min(S) <= k
    BY <1>1, <1>2, MinNatural, Zenon
  <1> DEFINE m == Min(S)
  <1> HIDE DEF m
  <1>4. m \in 0..n /\ m \notin P /\ \A k \in S : m <= k
    BY <1>3 DEF m
  <1>5. m # 0
    BY <1>4
  <1>6. m \in 1..n /\ m - 1 \in 0..n /\ ~(m <= m - 1)
    BY <1>4, <1>5
  <1>7. m - 1 \in P
    BY <1>4, <1>6
  <1>8. QED
    BY <1>4, <1>6, <1>7

\* f is defined by recursion up to n, from v0 with the steps G.
Recursive(f, n, V, v0, G) ==
  /\ f \in [0..n -> V]
  /\ f[0] = v0
  /\ \A k \in 1..n : f[k] = G[k][f[k - 1]]

\* A function defined by recursion up to n exists.
LEMMA RecursionUpTo ==
  ASSUME NEW n \in Nat, NEW V, NEW v0 \in V, NEW G \in [1..n -> [V -> V]]
  PROVE  \E f : Recursive(f, n, V, v0, G)
  <1> DEFINE Ok(m, f) == f[0] = v0 /\ \A k \in 1..m : f[k] = G[k][f[k - 1]]
             P == {m \in 0..n : \E f \in [0..m -> V] : Ok(m, f)}
  <1>1. 0 \in P
    <2>1. [k \in 0..0 |-> v0] \in [0..0 -> V] /\ Ok(0, [k \in 0..0 |-> v0])
      OBVIOUS
    <2>2. \E f \in [0..0 -> V] : Ok(0, f)
      BY <2>1, Zenon
    <2>3. QED
      BY <2>2
  <1>2. ASSUME NEW m \in 1..n, m - 1 \in P PROVE m \in P
    <2>1. PICK f \in [0..(m - 1) -> V] : Ok(m - 1, f)
      BY <1>2
    <2> DEFINE g == [k \in 0..m |-> IF k = m THEN G[m][f[m - 1]] ELSE f[k]]
    <2>2. f[m - 1] \in V
      OBVIOUS
    <2>3. G[m][f[m - 1]] \in V
      BY <2>2
    <2>4. g \in [0..m -> V]
      BY <2>3
    <2>5. g[0] = v0
      BY <2>1
    <2>6. ASSUME NEW k \in 1..m PROVE g[k] = G[k][g[k - 1]]
      <3>1. CASE k = m
        <4>1. g[m] = G[m][f[m - 1]] /\ m - 1 \in 0..m /\ m - 1 # m
          OBVIOUS
        <4>2. g[m - 1] = f[m - 1]
          BY <4>1
        <4>3. QED
          BY <3>1, <4>1, <4>2
      <3>2. CASE k # m
        <4>1. k \in 1..(m - 1) /\ k - 1 \in 0..m /\ k - 1 # m
          BY <3>2
        <4>2. g[k] = f[k] /\ g[k - 1] = f[k - 1]
          BY <3>2, <4>1
        <4>3. f[k] = G[k][f[k - 1]]
          BY <2>1, <4>1
        <4>4. QED
          BY <4>2, <4>3
      <3>3. QED
        BY <3>1, <3>2
    <2> HIDE DEF g
    <2>7. Ok(m, g)
      BY <2>5, <2>6
    <2> HIDE DEF Ok
    <2>8. \E h \in [0..m -> V] : Ok(m, h)
      BY <2>4, <2>7, Zenon
    <2>9. QED
      BY <2>8 DEF P
  <1>3. n \in P
    <2> HIDE DEF P
    <2>1. \A k \in 0..n : k \in P
      BY <1>1, <1>2, UpTo
    <2>2. QED
      BY <2>1
  <1>4. PICK f \in [0..n -> V] : Ok(n, f)
    BY <1>3
  <1>5. QED
    BY <1>4 DEF Recursive


\* Products of natural numbers.
LEMMA Products ==
  ASSUME NEW a \in Nat, NEW b \in Nat
  PROVE  /\ a * b \in Nat
         /\ a > 0 /\ b > 0 => a * b > 0 /\ a * b >= b
  OBVIOUS

\* A product is at least as great as another with a smaller factor.
LEMMA ProductsOrder ==
  ASSUME NEW d \in Nat, NEW p \in Int, NEW q \in Int, p < q
  PROVE  p * d + d <= q * d
  <1> DEFINE g == q - p - 1
  <1>1. g \in Nat /\ q = p + 1 + g
    OBVIOUS
  <1> HIDE DEF g
  <1>2. g * d \in Nat
    BY <1>1, Products
  <1>3. q * d = p * d + d + g * d
    BY <1>1
  <1>4. p * d \in Int /\ q * d \in Int
    OBVIOUS
  <1>5. QED
    BY <1>2, <1>3, <1>4

\* A quotient and a remainder are unique.
LEMMA RemainderUnique ==
  ASSUME NEW d \in Nat, NEW p \in Int, NEW q \in Int, NEW a \in 0 .. d - 1,
         NEW b \in 0 .. d - 1, p * d + a = q * d + b
  PROVE  p = q /\ a = b
  <1>1. p * d \in Int /\ q * d \in Int
    OBVIOUS
  <1>2. ~(p < q)
    BY <1>1, ProductsOrder
  <1>3. ~(q < p)
    BY <1>1, ProductsOrder
  <1>4. p = q
    BY <1>2, <1>3
  <1>5. QED
    BY <1>1, <1>4

\* A number is a multiple of d and its remainder.
LEMMA Division ==
  ASSUME NEW x \in Nat, NEW d \in Nat \ {0}
  PROVE  /\ x \div d \in Nat /\ x % d \in 0 .. d - 1
         /\ x = (x \div d) * d + (x % d)
  OBVIOUS

\* The remainder of a number that is written as a multiple and a rest.
LEMMA RemainderOf ==
  ASSUME NEW d \in Nat \ {0}, NEW q \in Nat, NEW a \in 0 .. d - 1
  PROVE  (q * d + a) % d = a
  <1> DEFINE x == q * d + a
  <1>1. x \in Nat
    BY Products
  <1> HIDE DEF x
  <1> DEFINE p == x \div d
             b == x % d
  <1>2. p \in Int /\ b \in 0 .. d - 1 /\ x = p * d + b
    BY <1>1, Division
  <1> HIDE DEF p, b
  <1>3. p * d + b = q * d + a
    BY <1>2 DEF x
  <1>4. b = a
    BY <1>2, <1>3, RemainderUnique
  <1>5. QED
    BY <1>4 DEF x, b

-----------------------------------------------------------------------------
\* The quotient of a number that is written as a multiple and a rest.
LEMMA QuotientOf ==
  ASSUME NEW d \in Nat \ {0}, NEW q \in Nat, NEW a \in 0 .. d - 1
  PROVE  (q * d + a) \div d = q
  <1> DEFINE x == q * d + a
  <1>1. x \in Nat
    BY Products
  <1> HIDE DEF x
  <1> DEFINE p == x \div d
             b == x % d
  <1>2. p \in Int /\ b \in 0 .. d - 1 /\ x = p * d + b
    BY <1>1, Division
  <1> HIDE DEF p, b
  <1>3. p * d + b = q * d + a
    BY <1>2 DEF x
  <1>4. p = q
    BY <1>2, <1>3, RemainderUnique
  <1>5. QED
    BY <1>4 DEF x, p

\* Dividing twice.
LEMMA DivisionTwice ==
  ASSUME NEW x \in Nat, NEW c \in Nat \ {0}, NEW d \in Nat \ {0}
  PROVE  (x \div c) \div d = x \div (d * c)
  <1> DEFINE p == x \div c
             a == x % c
             q == p \div d
             b == p % d
  <1>1. p \in Nat /\ a \in 0 .. c - 1 /\ x = p * c + a
    BY Division
  <1> HIDE DEF p, a
  <1>2. q \in Nat /\ b \in 0 .. d - 1 /\ p = q * d + b
    BY <1>1, Division
  <1> HIDE DEF q, b
  <1>3. b * c + a \in 0 .. d * c - 1
    <2>1. b * c \in Nat /\ b \in Int /\ d \in Int /\ b < d
      BY <1>2, Products
    <2>2. b * c + c <= d * c
      BY <2>1, ProductsOrder
    <2>3. d * c \in Nat
      BY Products
    <2>4. QED
      BY <1>1, <2>1, <2>2, <2>3
  <1>4. x = q * (d * c) + (b * c + a)
    BY <1>1, <1>2
  <1>5. d * c \in Nat \ {0}
    BY Products
  <1> DEFINE m == d * c
             r == b * c + a
  <1>6. m \in Nat \ {0} /\ r \in 0 .. m - 1 /\ x = q * m + r
    BY <1>3, <1>4, <1>5
  <1> HIDE DEF m, r
  <1>7. x \div m = q
    BY <1>2, <1>6, QuotientOf
  <1>8. QED
    BY <1>7 DEF m, q, p

\* A number below the divisor.
LEMMA SmallDivided ==
  ASSUME NEW d \in Nat \ {0}, NEW x \in 0 .. d - 1
  PROVE  x \div d = 0 /\ x % d = x
  <1>1. 0 * d + x = x /\ 0 \in Nat
    OBVIOUS
  <1>2. QED
    BY <1>1, QuotientOf, RemainderOf

-----------------------------------------------------------------------------
\* The powers of a byte.
LEMMA ByteToFacts ==
  /\ Nibble \in Nat \ {0, 1} /\ Byte \in Nat /\ Byte >= 4
  /\ ByteTo[0] = 1
  /\ \A k \in 1 .. 4 : ByteTo[k] = Byte * ByteTo[k - 1]
  /\ \A k \in 0 .. 4 : ByteTo[k] \in Nat \ {0}
  <1> DEFINE IsByteTo(f) == f = [k \in 0 .. 4 |-> IF k = 0 THEN 1 ELSE Byte * f[k - 1]]
             G == [k \in 1 .. 4 |-> [n \in Nat |-> Byte * n]]
  <1>1. Nibble \in Nat \ {0, 1}
    BY TestOptionsAssumption
  <1>2. Byte \in Nat /\ Byte >= 4
    <2>1. Nibble \in Nat /\ Nibble >= 2
      BY <1>1
    <2>2. \E g \in Nat : Nibble = g + 2
      <3>1. Nibble - 2 \in Nat /\ Nibble = (Nibble - 2) + 2
        BY <2>1
      <3>2. QED
        BY <3>1
    <2>3. PICK g \in Nat : Nibble = g + 2
      BY <2>2
    <2>4. Nibble * Nibble = g * g + 4 * g + 4 /\ g * g \in Nat
      BY <2>3, Products
    <2>5. QED
      BY <2>3, <2>4 DEF Byte
  <1>3. 4 \in Nat /\ 1 \in Nat /\ G \in [1 .. 4 -> [Nat -> Nat]]
    BY <1>2, Products
  <1>4. \E f : Recursive(f, 4, Nat, 1, G)
    <2> HIDE DEF G
    <2>1. QED
      BY <1>3, RecursionUpTo
  <1>5. PICK f : Recursive(f, 4, Nat, 1, G)
    BY <1>4
  <1>6. f \in [0 .. 4 -> Nat] /\ f[0] = 1 /\ \A k \in 1 .. 4 : f[k] = G[k][f[k - 1]]
    BY <1>5 DEF Recursive
  <1>7. ASSUME NEW k \in 1 .. 4 PROVE f[k] = Byte * f[k - 1]
    <2>1. k - 1 \in 0 .. 4
      OBVIOUS
    <2>2. f[k - 1] \in Nat /\ f[k] = G[k][f[k - 1]]
      BY <1>6, <2>1
    <2>3. \A n \in Nat : G[k][n] = Byte * n
      OBVIOUS
    <2> HIDE DEF G
    <2>4. QED
      BY <2>2, <2>3
  <1>8. IsByteTo(f)
    <2>1. \A k \in 0 .. 4 : f[k] = IF k = 0 THEN 1 ELSE Byte * f[k - 1]
      BY <1>6, <1>7
    <2>2. QED
      BY <1>6, <2>1
  <1>9. IsByteTo(ByteTo)
    <2>1. ByteTo = CHOOSE g : IsByteTo(g)
      BY DEF ByteTo
    <2> HIDE DEF IsByteTo
    <2>2. QED
      BY <1>8, <2>1, Zenon
  <1>10. ByteTo[0] = 1 /\ \A k \in 1 .. 4 : ByteTo[k] = Byte * ByteTo[k - 1]
    BY <1>9
  <1>11. \A k \in 0 .. 4 : ByteTo[k] \in Nat \ {0}
    <2> DEFINE P == {k \in 0 .. 4 : ByteTo[k] \in Nat \ {0}}
    <2>1. 0 \in P
      BY <1>10
    <2>2. ASSUME NEW k \in 1 .. 4, k - 1 \in P PROVE k \in P
      <3> DEFINE b == ByteTo[k - 1]
      <3>1. b \in Nat \ {0} /\ ByteTo[k] = Byte * b /\ k \in 0 .. 4
        BY <1>10, <2>2
      <3> HIDE DEF b
      <3>2. Byte * b \in Nat \ {0}
        BY <1>2, <3>1, Products
      <3>3. QED
        BY <3>1, <3>2
    <2> HIDE DEF P
    <2>3. \A k \in 0 .. 4 : k \in P
      BY <1>3, <2>1, <2>2, UpTo
    <2>4. QED
      BY <2>3 DEF P
  <1>12. QED
    BY <1>1, <1>2, <1>10, <1>11

\* The powers of 2.
LEMMA TwoToFacts ==
  /\ MaxExp \in Nat
  /\ TwoTo[0] = 1
  /\ \A e \in 0 .. MaxExp : TwoTo[e] \in Nat \ {0}
  <1> DEFINE IsTwoTo(f) == f = [e \in 0 .. MaxExp |-> IF e = 0 THEN 1 ELSE 2 * f[e - 1]]
             G == [k \in 1 .. MaxExp |-> [n \in Nat |-> 2 * n]]
  <1>1. MaxExp \in Nat
    BY TestOptionsAssumption
  <1>2. 1 \in Nat /\ G \in [1 .. MaxExp -> [Nat -> Nat]]
    OBVIOUS
  <1>3. \E f : Recursive(f, MaxExp, Nat, 1, G)
    <2> HIDE DEF G
    <2>1. QED
      BY <1>1, <1>2, RecursionUpTo
  <1>4. PICK f : Recursive(f, MaxExp, Nat, 1, G)
    BY <1>3
  <1>5. /\ f \in [0 .. MaxExp -> Nat] /\ f[0] = 1
        /\ \A k \in 1 .. MaxExp : f[k] = G[k][f[k - 1]]
    BY <1>4 DEF Recursive
  <1>6. ASSUME NEW k \in 1 .. MaxExp PROVE f[k] = 2 * f[k - 1]
    <2>1. k - 1 \in 0 .. MaxExp
      BY <1>1
    <2>2. f[k - 1] \in Nat /\ f[k] = G[k][f[k - 1]]
      BY <1>5, <2>1
    <2>3. \A n \in Nat : G[k][n] = 2 * n
      OBVIOUS
    <2> HIDE DEF G
    <2>4. QED
      BY <2>2, <2>3
  <1>7. IsTwoTo(f)
    <2>1. \A k \in 0 .. MaxExp : f[k] = IF k = 0 THEN 1 ELSE 2 * f[k - 1]
      BY <1>1, <1>5, <1>6
    <2>2. QED
      BY <1>5, <2>1
  <1>8. IsTwoTo(TwoTo)
    <2>1. TwoTo = CHOOSE g : IsTwoTo(g)
      BY DEF TwoTo
    <2> HIDE DEF IsTwoTo
    <2>2. QED
      BY <1>7, <2>1, Zenon
  <1>9. TwoTo[0] = 1 /\ \A k \in 1 .. MaxExp : TwoTo[k] = 2 * TwoTo[k - 1]
    BY <1>1, <1>8
  <1>10. \A e \in 0 .. MaxExp : TwoTo[e] \in Nat \ {0}
    <2> DEFINE P == {k \in 0 .. MaxExp : TwoTo[k] \in Nat \ {0}}
    <2>1. 0 \in P
      BY <1>1, <1>9
    <2>2. ASSUME NEW k \in 1 .. MaxExp, k - 1 \in P PROVE k \in P
      <3> DEFINE b == TwoTo[k - 1]
      <3>1. b \in Nat \ {0} /\ TwoTo[k] = 2 * b /\ k \in 0 .. MaxExp
        BY <1>1, <1>9, <2>2
      <3> HIDE DEF b
      <3>2. QED
        BY <3>1
    <2> HIDE DEF P
    <2>3. \A k \in 0 .. MaxExp : k \in P
      BY <1>1, <2>1, <2>2, UpTo
    <2>4. QED
      BY <2>3 DEF P
  <1>11. QED
    BY <1>1, <1>9, <1>10

\* The first powers of a byte, and what they are at least.
LEMMA ByteToSizes ==
  /\ ByteTo[1] = Byte
  /\ ByteTo[2] >= 16 /\ ByteTo[3] >= 64 /\ ByteTo[4] >= 256
  /\ ByteTo[4] = ByteTo[2] * ByteTo[2]
  /\ ByteTo[1] <= ByteTo[4] /\ ByteTo[2] <= ByteTo[4]
  <1> DEFINE b == Byte
             b2 == b * b
             b3 == b * b2
  <1>1. b \in Nat /\ b >= 4
    BY ByteToFacts
  <1>2. ByteTo[1] = b /\ ByteTo[2] = b2 /\ ByteTo[3] = b3 /\ ByteTo[4] = b * b3
    <2>1. ByteTo[0] = 1 /\ \A k \in 1 .. 4 : ByteTo[k] = Byte * ByteTo[k - 1]
      BY ByteToFacts
    <2>2. ByteTo[1] = Byte * ByteTo[0] /\ ByteTo[2] = Byte * ByteTo[1]
      BY <2>1
    <2>3. ByteTo[3] = Byte * ByteTo[2] /\ ByteTo[4] = Byte * ByteTo[3]
      BY <2>1
    <2>4. b * 1 = b
      BY <1>1
    <2>5. QED
      BY <2>1, <2>2, <2>3, <2>4
  <1>3. ASSUME NEW x \in Nat PROVE b * x \in Nat /\ b * x >= 4 * x
    <2>1. PICK g \in Nat : b = 4 + g
      <3>1. b - 4 \in Nat /\ b = 4 + (b - 4)
        BY <1>1
      <3>2. QED
        BY <3>1
    <2>2. g * x \in Nat /\ b * x = 4 * x + g * x
      BY <2>1, Products
    <2>3. QED
      BY <2>2
  <1>4. b2 \in Nat /\ b2 >= 4 * b
    BY <1>1, <1>3
  <1>5. b3 \in Nat /\ b3 >= 4 * b2
    BY <1>3, <1>4
  <1>6. b * b3 \in Nat /\ b * b3 >= 4 * b3
    BY <1>3, <1>5
  <1>7. b * b3 = b2 * b2
    <2>1. b \in Int
      BY <1>1
    <2> HIDE DEF b
    <2>2. QED
      BY <2>1
  <1>8. ByteTo[1] = Byte
    BY <1>2
  <1> HIDE DEF b, b2, b3
  <1>9. QED
    BY <1>1, <1>2, <1>4, <1>5, <1>6, <1>7, <1>8

\* The exponent that is sent exists: a bandwidth has MaxExp bits more than the
\* field at most.
LEMMA BandwidthExpFacts ==
  ASSUME NEW n \in Nat, n < TwoTo[MaxExp] * ByteTo[4]
  PROVE  /\ BandwidthExp(n) \in 0 .. MaxExp /\ BandwidthExp(n) < Byte
         /\ n \div TwoTo[BandwidthExp(n)] \in 0 .. ByteTo[4] - 1
  <1> DEFINE Fits(e) == n \div TwoTo[e] < ByteTo[4]
             S == {e \in 0 .. MaxExp : Fits(e)}
             Is(e) == Fits(e) /\ \A d \in 0 .. e - 1 : n \div TwoTo[d] >= ByteTo[4]
  <1>1. MaxExp \in Nat /\ MaxExp < Byte /\ Byte \in Nat /\ ByteTo[4] \in Nat \ {0}
    BY TwoToFacts, ByteToFacts, TestOptionsAssumption
  <1>2. \A e \in 0 .. MaxExp : TwoTo[e] \in Nat \ {0} /\ n \div TwoTo[e] \in Nat
    BY TwoToFacts, Division
  <1>3. MaxExp \in S
    <2> DEFINE d == TwoTo[MaxExp]
               q == n \div d
               r == n % d
    <2>1. d \in Nat \ {0}
      BY <1>1, <1>2
    <2>2. q \in Nat /\ r \in 0 .. d - 1 /\ n = q * d + r
      BY <2>1, Division
    <2>3. n < ByteTo[4] * d
      <3>1. ByteTo[4] * d = d * ByteTo[4]
        BY <1>1, <2>1
      <3>2. QED
        BY <3>1
    <2> HIDE DEF d, q, r
    <2>4. ASSUME ByteTo[4] <= q PROVE FALSE
      <3> DEFINE b == ByteTo[4]
      <3>1. b \in Nat /\ b * d \in Nat /\ q * d \in Nat
        BY <1>1, <2>1, <2>2, Products
      <3>2. b = q \/ b * d + d <= q * d
        BY <2>1, <2>2, <2>4, <3>1, ProductsOrder
      <3>3. b * d <= q * d
        BY <2>1, <3>1, <3>2
      <3>4. n < b * d
        BY <2>3
      <3> HIDE DEF b
      <3>5. QED
        BY <2>2, <3>1, <3>3, <3>4
    <2>5. q < ByteTo[4]
      BY <1>1, <2>2, <2>4
    <2>6. QED
      BY <1>1, <2>5 DEF q, d
  <1>4. S \subseteq Nat /\ S # {}
    BY <1>3
  <1>5. Min(S) \in S /\ \A k \in S : Min(S) <= k
    BY <1>4, MinNatural, Zenon
  <1> DEFINE m == Min(S)
  <1> HIDE DEF m
  <1>6. m \in 0 .. MaxExp /\ Fits(m) /\ \A k \in S : m <= k
    BY <1>5 DEF m
  <1>7. ASSUME NEW d \in 0 .. m - 1 PROVE n \div TwoTo[d] >= ByteTo[4]
    <2>1. d \in 0 .. MaxExp /\ ~(m <= d)
      BY <1>1, <1>6
    <2>2. ~Fits(d)
      BY <1>6, <2>1
    <2>3. QED
      BY <1>1, <1>2, <2>1, <2>2
  <1>8. Is(m)
    BY <1>6, <1>7
  <1>9. BandwidthExp(n) = CHOOSE e \in 0 .. MaxExp : Is(e)
    BY DEF BandwidthExp
  <1>10. BandwidthExp(n) \in 0 .. MaxExp /\ Is(BandwidthExp(n))
    <2> HIDE DEF Is
    <2>1. QED
      BY <1>6, <1>8, <1>9
  <1>11. QED
    BY <1>1, <1>2, <1>10

-----------------------------------------------------------------------------
\* A number is in the bytes from an offset on, the high one first.
InBytes(ws, o, w, x) ==
  \A i \in 0 .. w - 1 : At(ws, o + i) = (x \div ByteTo[w - 1 - i]) % Byte

\* Reading them gives the number.
LEMMA GetReads ==
  ASSUME NEW ws, NEW o \in Nat, NEW w \in 1 .. 4, NEW x \in 0 .. ByteTo[w] - 1,
         InBytes(ws, o, w, x)
  PROVE  Get(ws, o, w) = x
  <1> DEFINE IsRead(f) ==
               f = [i \in 0 .. w |->
                      IF i = 0 THEN 0 ELSE f[i - 1] * Byte + At(ws, o + i - 1)]
             read == [i \in 0 .. w |-> x \div ByteTo[w - i]]
  <1>1. Byte \in Nat \ {0} /\ x \in Nat
    BY ByteToFacts
  <1>2. \A i \in 0 .. w : ByteTo[w - i] \in Nat \ {0}
    BY ByteToFacts
  <1>3. read[0] = 0
    <2>1. w - 0 = w /\ ByteTo[w] \in Nat \ {0}
      BY ByteToFacts
    <2>2. read[0] = x \div ByteTo[w]
      BY <2>1
    <2>3. QED
      BY <2>1, <2>2, SmallDivided
  <1>4. ASSUME NEW i \in 1 .. w PROVE read[i] = read[i - 1] * Byte + At(ws, o + i - 1)
    <2> DEFINE c == ByteTo[w - i]
               q == x \div c
    <2>1. c \in Nat \ {0}
      BY <1>2
    <2>2. w - (i - 1) \in 1 .. 4 /\ (w - (i - 1)) - 1 = w - i
      OBVIOUS
    <2>3. ByteTo[w - (i - 1)] = Byte * c
      BY <2>2, ByteToFacts
    <2>4. read[i] = q /\ read[i - 1] = x \div ByteTo[w - (i - 1)]
      OBVIOUS
    <2>5. q \div Byte = x \div (Byte * c)
      BY <1>1, <2>1, DivisionTwice
    <2>6. q \in Nat
      BY <1>1, <2>1, Division
    <2>7. i - 1 \in 0 .. w - 1 /\ o + (i - 1) = o + i - 1 /\ w - 1 - (i - 1) = w - i
      OBVIOUS
    <2>8. At(ws, o + i - 1) = q % Byte
      <3>1. At(ws, o + (i - 1)) = (x \div ByteTo[w - 1 - (i - 1)]) % Byte
        BY <2>7, Zenon DEF InBytes
      <3>2. QED
        BY <2>7, <3>1
    <2>9. q = (q \div Byte) * Byte + (q % Byte)
      <3> HIDE DEF q
      <3>1. QED
        BY <1>1, <2>6, Division
    <2> HIDE DEF q, c, read
    <2>10. QED
      BY <2>3, <2>4, <2>5, <2>8, <2>9
  <1>5. IsRead(read)
    <2>1. \A i \in 0 .. w : read[i] = IF i = 0 THEN 0
                                      ELSE read[i - 1] * Byte + At(ws, o + i - 1)
      <3> HIDE DEF read
      <3>1. QED
        BY <1>3, <1>4
    <2>2. read = [i \in 0 .. w |-> read[i]]
      OBVIOUS
    <2> HIDE DEF read
    <2>3. QED
      BY <2>1, <2>2
  <1>6. ASSUME NEW f, IsRead(f) PROVE \A i \in 0 .. w : f[i] = read[i]
    <2> DEFINE P == {i \in 0 .. w : f[i] = read[i]}
    <2>1. f[0] = 0 /\ \A i \in 1 .. w : f[i] = f[i - 1] * Byte + At(ws, o + i - 1)
      BY <1>6
    <2> HIDE DEF read
    <2>2. 0 \in P
      BY <1>3, <2>1
    <2>3. ASSUME NEW i \in 1 .. w, i - 1 \in P PROVE i \in P
      BY <1>4, <2>1, <2>3
    <2> HIDE DEF P
    <2>4. \A i \in 0 .. w : i \in P
      BY <2>2, <2>3, UpTo
    <2>5. QED
      BY <2>4 DEF P
  <1>7. Get(ws, o, w) = (CHOOSE g : IsRead(g))[w]
    BY DEF Get
  <1>8. IsRead(CHOOSE g : IsRead(g))
    <2> HIDE DEF IsRead
    <2>1. QED
      BY <1>5, Zenon
  <1>9. Get(ws, o, w) = read[w]
    <2> HIDE DEF IsRead, read
    <2>1. QED
      BY <1>6, <1>7, <1>8
  <1>10. read[w] = x \div 1
    <2>1. w - w = 0 /\ ByteTo[0] = 1
      BY ByteToFacts
    <2>2. read[w] = x \div ByteTo[w - w]
      OBVIOUS
    <2>3. QED
      BY <2>1, <2>2
  <1>11. QED
    BY <1>1, <1>9, <1>10

-----------------------------------------------------------------------------
(***************************************************************************)
(* The writes of a message.  The first n bytes of one of them are held     *)
(* when no later one writes there; bytes are clear when none writes there. *)
(***************************************************************************)
Write == Nat \X Nat \X Nat
Clear(ws, o, w) == \A l \in DOMAIN ws : ws[l][1] >= o + w \/ ws[l][1] + ws[l][2] <= o
Held(ws, o, w, x, n) ==
  \E k \in DOMAIN ws :
    /\ ws[k] = <<o, w, x>>
    /\ \A l \in DOMAIN ws : l > k => ws[l][1] >= o + n \/ ws[l][1] + ws[l][2] <= o

\* What is held is in the bytes.
LEMMA HeldInBytes ==
  ASSUME NEW ws \in Seq(Write), NEW o \in Nat, NEW w \in 1 .. 4, NEW x \in Nat,
         NEW n \in 1 .. w, Held(ws, o, w, x, n)
  PROVE  \A i \in 0 .. n - 1 : At(ws, o + i) = (x \div ByteTo[w - 1 - i]) % Byte
  <1>1. PICK k \in DOMAIN ws :
          /\ ws[k] = <<o, w, x>>
          /\ \A l \in DOMAIN ws : l > k => ws[l][1] >= o + n \/ ws[l][1] + ws[l][2] <= o
    BY DEF Held
  <1>2. SUFFICES ASSUME NEW i \in 0 .. n - 1
                 PROVE  At(ws, o + i) = (x \div ByteTo[w - 1 - i]) % Byte
    OBVIOUS
  <1> DEFINE covering == {l \in DOMAIN ws : o + i \in ws[l][1] .. (ws[l][1] + ws[l][2] - 1)}
             Last(j) == \A l \in covering : l <= j
             c == CHOOSE j \in covering : Last(j)
  <1>3. DOMAIN ws = 1 .. Len(ws) /\ Len(ws) \in Nat
    OBVIOUS
  <1>4. \A l \in DOMAIN ws : ws[l] \in Write /\ ws[l][1] \in Nat /\ ws[l][2] \in Nat
    <2>1. \A l \in DOMAIN ws : ws[l] \in Write
      OBVIOUS
    <2>2. QED
      BY <2>1 DEF Write
  <1>5. k \in covering
    <2>1. ws[k][1] = o /\ ws[k][2] = w
      BY <1>1
    <2>2. QED
      BY <2>1
  <1>6. \A l \in covering : l <= k
    <2>1. SUFFICES ASSUME NEW l \in covering, l > k PROVE FALSE
      BY <1>3
    <2>2. ws[l][1] >= o + n \/ ws[l][1] + ws[l][2] <= o
      BY <1>1, <2>1
    <2>3. ws[l][1] \in Nat /\ ws[l][2] \in Nat
      BY <1>4
    <2>4. o + i \in ws[l][1] .. (ws[l][1] + ws[l][2] - 1)
      OBVIOUS
    <2>5. QED
      BY <2>2, <2>3, <2>4
  <1>7. covering \subseteq Int
    BY <1>3
  <1> HIDE DEF covering
  <1>8. c \in covering /\ Last(c)
    BY <1>5, <1>6
  <1> HIDE DEF c
  <1>9. c = k
    BY <1>5, <1>6, <1>7, <1>8
  <1>10. At(ws, o + i) = (ws[c][3] \div ByteTo[ws[c][1] + ws[c][2] - 1 - (o + i)]) % Byte
    BY <1>5 DEF At, covering, c
  <1>11. ws[c][1] = o /\ ws[c][2] = w /\ ws[c][3] = x
    BY <1>1, <1>9
  <1>12. o + w - 1 - (o + i) = w - 1 - i
    OBVIOUS
  <1>13. QED
    BY <1>10, <1>11, <1>12

\* A clear byte is 0.
LEMMA ClearIsZero ==
  ASSUME NEW ws \in Seq(Write), NEW o \in Nat, NEW w \in Nat, Clear(ws, o, w),
         NEW i \in o .. o + w - 1
  PROVE  At(ws, i) = 0
  <1> DEFINE covering == {l \in DOMAIN ws : i \in ws[l][1] .. (ws[l][1] + ws[l][2] - 1)}
  <1>1. \A l \in DOMAIN ws : ws[l] \in Write
    OBVIOUS
  <1>2. \A l \in DOMAIN ws : ws[l][1] \in Nat /\ ws[l][2] \in Nat
    BY <1>1 DEF Write
  <1>3. covering = {}
    BY <1>2 DEF Clear
  <1>4. QED
    BY <1>3 DEF At

\* Writes before others, and after them.
LEMMA ConcatWrites ==
  ASSUME NEW s \in Seq(Write), NEW t \in Seq(Write), NEW o \in Nat, NEW w \in Nat, NEW x,
         NEW n \in Nat
  PROVE  /\ s \o t \in Seq(Write)
         /\ Clear(s, o, n) /\ Clear(t, o, n) => Clear(s \o t, o, n)
         /\ Held(t, o, w, x, n) => Held(s \o t, o, w, x, n)
         /\ Held(s, o, w, x, n) /\ Clear(t, o, n) => Held(s \o t, o, w, x, n)
  <1> DEFINE u == s \o t
             Off(v) == v[1] >= o + n \/ v[1] + v[2] <= o
  <1>1. /\ u \in Seq(Write) /\ Len(u) = Len(s) + Len(t)
        /\ \A i \in 1 .. Len(u) : u[i] = IF i <= Len(s) THEN s[i] ELSE t[i - Len(s)]
    BY ConcatProperties
  <1>2. /\ Len(s) \in Nat /\ Len(t) \in Nat /\ DOMAIN s = 1 .. Len(s)
        /\ DOMAIN t = 1 .. Len(t) /\ DOMAIN u = 1 .. Len(u)
    BY <1>1
  <1> HIDE DEF u
  <1>3. \A i \in DOMAIN u : \/ i \in DOMAIN s /\ u[i] = s[i]
                            \/ i - Len(s) \in DOMAIN t /\ u[i] = t[i - Len(s)]
    BY <1>1, <1>2
  <1>4. Clear(s, o, n) /\ Clear(t, o, n) => Clear(u, o, n)
    <2> HIDE DEF Off
    <2>1. ASSUME \A l \in DOMAIN s : Off(s[l]), \A l \in DOMAIN t : Off(t[l])
          PROVE  \A l \in DOMAIN u : Off(u[l])
      BY <1>3, <2>1
    <2>2. QED
      BY <2>1, Zenon DEF Clear, Off
  <1>5. ASSUME NEW k \in DOMAIN t, t[k] = <<o, w, x>>,
               \A l \in DOMAIN t : l > k => Off(t[l])
        PROVE  Held(u, o, w, x, n)
    <2> HIDE DEF Off
    <2>1. k + Len(s) \in DOMAIN u /\ u[k + Len(s)] = <<o, w, x>>
      BY <1>1, <1>2, <1>5
    <2>2. \A l \in DOMAIN u : l > k + Len(s) => Off(u[l])
      BY <1>1, <1>2, <1>3, <1>5
    <2>3. QED
      BY <2>1, <2>2, Zenon DEF Held, Off
  <1>6. ASSUME NEW k \in DOMAIN s, s[k] = <<o, w, x>>,
               \A l \in DOMAIN s : l > k => Off(s[l]), \A l \in DOMAIN t : Off(t[l])
        PROVE  Held(u, o, w, x, n)
    <2> HIDE DEF Off
    <2>1. k \in DOMAIN u /\ u[k] = <<o, w, x>>
      BY <1>1, <1>2, <1>6
    <2>2. \A l \in DOMAIN u : l > k => Off(u[l])
      BY <1>1, <1>2, <1>3, <1>6
    <2>3. QED
      BY <2>1, <2>2, Zenon DEF Held, Off
  <1>7. Held(t, o, w, x, n) => Held(u, o, w, x, n)
    BY <1>5, Zenon DEF Held
  <1>8. Held(s, o, w, x, n) /\ Clear(t, o, n) => Held(u, o, w, x, n)
    BY <1>6, Zenon DEF Held, Clear
  <1>9. QED
    BY <1>1, <1>4, <1>7, <1>8 DEF u

\* Writes added to others that touch only the bytes from p to q.
LEMMA AddedWrites ==
  ASSUME NEW s \in Seq(Write), NEW t \in Seq(Write), NEW p \in Nat, NEW q \in Nat,
         \A o, n \in Nat : o + n <= p \/ o >= q => Clear(t, o, n)
  PROVE  /\ s \o t \in Seq(Write)
         /\ \A o, n \in Nat : (o + n <= p \/ o >= q) /\ Clear(s, o, n) => Clear(s \o t, o, n)
         /\ \A o, n, w \in Nat : \A x :
              (o + n <= p \/ o >= q) /\ Held(s, o, w, x, n) => Held(s \o t, o, w, x, n)
         /\ \A o, n, w \in Nat : \A x : Held(t, o, w, x, n) => Held(s \o t, o, w, x, n)
  <1>1. s \o t \in Seq(Write)
    OBVIOUS
  <1>2. ASSUME NEW o \in Nat, NEW n \in Nat, o + n <= p \/ o >= q, Clear(s, o, n)
        PROVE  Clear(s \o t, o, n)
    <2>1. Clear(t, o, n)
      BY <1>2
    <2>2. QED
      BY <1>2, <2>1, ConcatWrites
  <1>3. ASSUME NEW o \in Nat, NEW n \in Nat, NEW w \in Nat, NEW x,
               o + n <= p \/ o >= q, Held(s, o, w, x, n)
        PROVE  Held(s \o t, o, w, x, n)
    <2>1. Clear(t, o, n)
      BY <1>3
    <2>2. QED
      BY <1>3, <2>1, ConcatWrites
  <1>4. ASSUME NEW o \in Nat, NEW n \in Nat, NEW w \in Nat, NEW x, Held(t, o, w, x, n)
        PROVE  Held(s \o t, o, w, x, n)
    BY <1>4, ConcatWrites
  <1>5. QED
    BY <1>1, <1>2, <1>3, <1>4

-----------------------------------------------------------------------------
\* What the fields of a test are: they fit into their bytes.
SpecFits(kind, spec) ==
  /\ \A f \in Fields(kind) \ {"bandwidth"} : spec[f] \in 0 .. ByteTo[Width(f)] - 1
  /\ \A f \in Fields(kind) \cap Booleans : spec[f] \in {0, 1}
  /\ kind = "throughput" =>
       spec["bandwidth"] \in Nat /\ spec["bandwidth"] < TwoTo[MaxExp] * ByteTo[4]

\* The writes of a ping test.
LEMMA PingHeld ==
  ASSUME NEW spec, SpecFits("ping", spec)
  PROVE  LET t == PingWrites(spec) IN
         /\ t \in Seq(Write)
         /\ Held(t, 76, 2, spec["ping_packet_count"], 2)
         /\ Held(t, 78, 2, spec["ping_packet_size"], 2)
         /\ Held(t, 80, 2, spec["ping_interpacket_time"], 2)
         /\ Held(t, 84, 1, spec["ping_packet_ttl"], 1)
         /\ \A o, n \in Nat : o + n <= 76 \/ o >= 85 => Clear(t, o, n)
  <1> DEFINE t == PingWrites(spec)
             a == spec["ping_packet_count"]
             b == spec["ping_packet_size"]
             c == spec["ping_interpacket_time"]
             d == spec["ping_packet_ttl"]
  <1>1. a \in Nat /\ b \in Nat /\ c \in Nat /\ d \in Nat
    <2>1. {"ping_packet_count", "ping_packet_size", "ping_interpacket_time",
           "ping_packet_ttl"} \subseteq Fields("ping") \ {"bandwidth"}
      BY DEF Fields
    <2>2. \A f \in Fields("ping") \ {"bandwidth"} : spec[f] \in Nat
      BY ByteToFacts DEF SpecFits
    <2>3. QED
      BY <2>1, <2>2
  <1>2. t = << <<76, 2, a>>, <<78, 2, b>>, <<80, 2, c>>, <<84, 1, d>> >>
    BY DEF PingWrites
  <1> HIDE DEF t, a, b, c, d
  <1>3. t \in Seq(Write) /\ DOMAIN t = 1 .. 4
    BY <1>1, <1>2 DEF Write
  <1>4. t[1] = <<76, 2, a>> /\ t[2] = <<78, 2, b>> /\ t[3] = <<80, 2, c>> /\ t[4] = <<84, 1, d>>
    BY <1>2
  <1>5. Held(t, 76, 2, a, 2) /\ Held(t, 78, 2, b, 2)
    BY <1>3, <1>4 DEF Held
  <1>6. Held(t, 80, 2, c, 2) /\ Held(t, 84, 1, d, 1)
    BY <1>3, <1>4 DEF Held
  <1>7. ASSUME NEW o \in Nat, NEW n \in Nat, o + n <= 76 \/ o >= 85 PROVE Clear(t, o, n)
    BY <1>3, <1>4, <1>7 DEF Clear
  <1>8. QED
    BY <1>3, <1>5, <1>6, <1>7 DEF t, a, b, c, d

\* The writes of a traceroute test.
LEMMA TracerouteHeld ==
  ASSUME NEW spec, SpecFits("traceroute", spec)
  PROVE  LET t == TracerouteWrites(spec) IN
         /\ t \in Seq(Write)
         /\ Held(t, 4, 4, spec["duration"], 4)
         /\ Held(t, 76, 1, spec["traceroute_first_ttl"], 1)
         /\ Held(t, 77, 1, spec["traceroute_last_ttl"], 1)
         /\ Held(t, 78, 2, spec["traceroute_packet_size"], 2)
         /\ \A o, n \in Nat : o + n <= 4 \/ o >= 80 => Clear(t, o, n)
  <1> DEFINE t == TracerouteWrites(spec)
             a == spec["duration"]
             b == spec["traceroute_first_ttl"]
             c == spec["traceroute_last_ttl"]
             d == spec["traceroute_packet_size"]
  <1>1. a \in Nat /\ b \in Nat /\ c \in Nat /\ d \in Nat
    <2>1. {"duration", "traceroute_first_ttl", "traceroute_last_ttl",
           "traceroute_packet_size"} \subseteq Fields("traceroute") \ {"bandwidth"}
      BY DEF Fields, Common
    <2>2. \A f \in Fields("traceroute") \ {"bandwidth"} : spec[f] \in Nat
      BY ByteToFacts DEF SpecFits
    <2>3. QED
      BY <2>1, <2>2
  <1>2. t = << <<4, 4, a>>, <<76, 1, b>>, <<77, 1, c>>, <<78, 2, d>> >>
    BY DEF TracerouteWrites
  <1> HIDE DEF t, a, b, c, d
  <1>3. t \in Seq(Write) /\ DOMAIN t = 1 .. 4
    BY <1>1, <1>2 DEF Write
  <1>4. t[1] = <<4, 4, a>> /\ t[2] = <<76, 1, b>> /\ t[3] = <<77, 1, c>> /\ t[4] = <<78, 2, d>>
    BY <1>2
  <1>5. Held(t, 4, 4, a, 4) /\ Held(t, 76, 1, b, 1)
    BY <1>3, <1>4 DEF Held
  <1>6. Held(t, 77, 1, c, 1) /\ Held(t, 78, 2, d, 2)
    BY <1>3, <1>4 DEF Held
  <1>7. ASSUME NEW o \in Nat, NEW n \in Nat, o + n <= 4 \/ o >= 80 PROVE Clear(t, o, n)
    BY <1>3, <1>4, <1>7 DEF Clear
  <1>8. QED
    BY <1>3, <1>5, <1>6, <1>7 DEF t, a, b, c, d

\* A write that is there only for some versions.
LEMMA WhenHeld ==
  ASSUME NEW condition \in BOOLEAN, NEW o \in Nat, NEW w \in Nat, NEW x \in Nat,
         NEW q \in Nat, q = o + w, NEW t, t = When(condition, << <<o, w, x>> >>)
  PROVE  /\ t \in Seq(Write)
         /\ condition => Held(t, o, w, x, w)
         /\ \A p, n \in Nat : p + n <= o \/ p >= q => Clear(t, p, n)
  <1>1. CASE condition
    <2>1. t = << <<o, w, x>> >>
      BY <1>1 DEF When
    <2>2. t \in Seq(Write) /\ DOMAIN t = 1 .. 1 /\ t[1] = <<o, w, x>>
      <3> DEFINE s == << <<o, w, x>> >>
      <3>1. s \in Seq(Write)
        BY DEF Write
      <3>2. DOMAIN s = 1 .. 1 /\ s[1] = <<o, w, x>>
        OBVIOUS
      <3> HIDE DEF s
      <3>3. t = s
        BY <2>1 DEF s
      <3>4. QED
        BY <3>1, <3>2, <3>3
    <2>3. Held(t, o, w, x, w)
      BY <2>2 DEF Held
    <2>4. ASSUME NEW p \in Nat, NEW n \in Nat, p + n <= o \/ p >= q PROVE Clear(t, p, n)
      BY <2>2, <2>4 DEF Clear
    <2>5. QED
      BY <2>2, <2>3, <2>4
  <1>2. CASE ~ condition
    <2>1. t = <<>>
      BY <1>2 DEF When
    <2>2. t \in Seq(Write) /\ DOMAIN t = {}
      BY <2>1
    <2>3. \A p, n \in Nat : Clear(t, p, n)
      BY <2>2 DEF Clear
    <2>4. QED
      BY <1>2, <2>2, <2>3
  <1>3. QED
    BY <1>1, <1>2

\* The writes of a throughput test, as a server since version 1 has them.
LEMMA ThroughputHeld ==
  ASSUME NEW spec, SpecFits("throughput", spec), NEW version \in 1 .. MSS
  PROVE  LET t == ThroughputWrites(version, spec, 1)
             exp == BandwidthExp(spec["bandwidth"])
             unit == IF version >= V1_5 THEN 1 ELSE Second
         IN
         /\ t \in Seq(Write)
         /\ Held(t, 1, 1, 1 + Nibble * spec["udp"], 1) /\ Held(t, 96, 4, ToolId["throughput"], 4)
         /\ Held(t, 76, 4, spec["bandwidth"] \div TwoTo[exp], 4) /\ Held(t, 109, 1, exp, 1)
         /\ Held(t, 80, 4, spec["len_buffer"], 4) /\ Held(t, 84, 4, spec["window_size"], 4)
         /\ Held(t, 88, 4, spec["report_interval"] \div unit, 4)
         /\ Held(t, 92, 1, spec["dynamic_window_size"], 1)
         /\ Held(t, 94, 1, spec["parallel_streams"], 1)
         /\ Held(t, 111, 1, spec["units"], 1)
         /\ version >= MSS => Held(t, 104, 2, spec["mss"], 2)
         /\ version >= Omit => Held(t, 110, 1, spec["omit"], 1)
         /\ Clear(t, 4, 4) /\ Clear(t, 93, 1) /\ Clear(t, 100, 1) /\ Clear(t, 101, 1)
         /\ Clear(t, 102, 1) /\ Clear(t, 108, 1) /\ Clear(t, 112, 16)
  <1> DEFINE bandwidth == spec["bandwidth"]
             exp == BandwidthExp(bandwidth)
             unit == IF version >= V1_5 THEN 1 ELSE Second
             a == 1 + Nibble * spec["udp"]
             b == bandwidth \div TwoTo[exp]
             c == spec["len_buffer"]
             d == spec["window_size"]
             e == spec["report_interval"] \div unit
             f == spec["dynamic_window_size"]
             g == spec["parallel_streams"]
             h == spec["units"]
             i == spec["mss"]
             j == spec["omit"]
             k == ToolId["throughput"]
             tested == << <<1, 1, a>>, <<76, 4, b>>, <<80, 4, c>>, <<84, 4, d>>,
                          <<88, 4, e>>, <<92, 1, f>> >>
             tools == << <<94, 1, g>>, <<96, 4, k>>, <<109, 1, exp>>, <<111, 1, h>> >>
             mss == When(version >= MSS, << <<104, 2, i>> >>)
             omit == When(version >= Omit, << <<110, 1, j>> >>)
  <1>1. /\ a \in Nat /\ b \in Nat /\ c \in Nat /\ d \in Nat /\ e \in Nat /\ f \in Nat
        /\ g \in Nat /\ h \in Nat /\ i \in Nat /\ j \in Nat /\ k \in Nat /\ exp \in Nat
    <2>1. {"udp", "len_buffer", "window_size", "report_interval", "dynamic_window_size",
           "parallel_streams", "units", "mss", "omit"}
            \subseteq Fields("throughput") \ {"bandwidth"}
      BY DEF Fields
    <2>2. \A x \in Fields("throughput") \ {"bandwidth"} : spec[x] \in Nat
      BY ByteToFacts DEF SpecFits
    <2>3. bandwidth \in Nat /\ bandwidth < TwoTo[MaxExp] * ByteTo[4]
      BY DEF SpecFits
    <2>4. exp \in Nat /\ b \in Nat
      <3> HIDE DEF bandwidth
      <3>1. exp \in 0 .. MaxExp /\ b \in 0 .. ByteTo[4] - 1
        BY <2>3, BandwidthExpFacts
      <3>2. QED
        BY <3>1, TwoToFacts, ByteToFacts
    <2>5. a \in Nat
      BY <2>1, <2>2, ByteToFacts, Products
    <2>6. e \in Nat
      <3>1. unit \in Nat \ {0} /\ spec["report_interval"] \in Nat
        BY <2>1, <2>2, TestOptionsAssumption
      <3> HIDE DEF unit
      <3>2. QED
        BY <3>1, Division
    <2>7. k \in Nat
      BY DEF ToolId
    <2>8. QED
      BY <2>1, <2>2, <2>4, <2>5, <2>6, <2>7
  <1>2. ThroughputWrites(version, spec, 1) = tested \o tools \o mss \o omit
    <2>1. version >= ToolNegotiation
      BY DEF ToolNegotiation
    <2>2. When(version >= ToolNegotiation, tools) = tools
      BY <2>1 DEF When
    <2>3. ThroughputWrites(version, spec, 1) =
            tested \o When(version >= ToolNegotiation, tools) \o mss \o omit
      BY DEF ThroughputWrites
    <2> HIDE DEF tested, tools, mss, omit
    <2>4. QED
      BY <2>2, <2>3
  <1>3. /\ (version >= MSS) \in BOOLEAN /\ (version >= Omit) \in BOOLEAN
    OBVIOUS
  <1>4. /\ mss \in Seq(Write)
        /\ version >= MSS => Held(mss, 104, 2, i, 2)
        /\ \A p, n \in Nat : p + n <= 104 \/ p >= 106 => Clear(mss, p, n)
    <2> DEFINE o == 104
               w == 2
               q == 106
    <2>1. o \in Nat /\ w \in Nat /\ q \in Nat /\ q = o + w
      OBVIOUS
    <2>2. mss = When(version >= MSS, << <<o, w, i>> >>)
      OBVIOUS
    <2> HIDE DEF o, w, q, mss, i
    <2>3. /\ mss \in Seq(Write)
          /\ version >= MSS => Held(mss, o, w, i, w)
          /\ \A p, n \in Nat : p + n <= o \/ p >= q => Clear(mss, p, n)
      BY <1>1, <1>3, <2>1, <2>2, WhenHeld
    <2>4. QED
      BY <2>3 DEF o, w, q
  <1>5. /\ omit \in Seq(Write)
        /\ version >= Omit => Held(omit, 110, 1, j, 1)
        /\ \A p, n \in Nat : p + n <= 110 \/ p >= 111 => Clear(omit, p, n)
    <2> DEFINE o == 110
               w == 1
               q == 111
    <2>1. o \in Nat /\ w \in Nat /\ q \in Nat /\ q = o + w
      OBVIOUS
    <2>2. omit = When(version >= Omit, << <<o, w, j>> >>)
      OBVIOUS
    <2> HIDE DEF o, w, q, omit, j
    <2>3. /\ omit \in Seq(Write)
          /\ version >= Omit => Held(omit, o, w, j, w)
          /\ \A p, n \in Nat : p + n <= o \/ p >= q => Clear(omit, p, n)
      BY <1>1, <1>3, <2>1, <2>2, WhenHeld
    <2>4. QED
      BY <2>3 DEF o, w, q
  <1> HIDE DEF mss, omit, a, b, c, d, e, f, g, h, i, j, k, exp
  <1>6. /\ tested \in Seq(Write)
        /\ Held(tested, 1, 1, a, 1) /\ Held(tested, 76, 4, b, 4) /\ Held(tested, 80, 4, c, 4)
        /\ Held(tested, 84, 4, d, 4) /\ Held(tested, 88, 4, e, 4) /\ Held(tested, 92, 1, f, 1)
        /\ \A p, n \in Nat : (p >= 2 /\ p + n <= 76) \/ p >= 93 => Clear(tested, p, n)
    <2>1. tested \in Seq(Write) /\ DOMAIN tested = 1 .. 6
      BY <1>1 DEF Write
    <2>2. /\ tested[1] = <<1, 1, a>> /\ tested[2] = <<76, 4, b>> /\ tested[3] = <<80, 4, c>>
          /\ tested[4] = <<84, 4, d>> /\ tested[5] = <<88, 4, e>> /\ tested[6] = <<92, 1, f>>
      OBVIOUS
    <2> HIDE DEF tested
    <2>3. Held(tested, 1, 1, a, 1) /\ Held(tested, 76, 4, b, 4) /\ Held(tested, 80, 4, c, 4)
      BY <2>1, <2>2 DEF Held
    <2>4. Held(tested, 84, 4, d, 4) /\ Held(tested, 88, 4, e, 4) /\ Held(tested, 92, 1, f, 1)
      BY <2>1, <2>2 DEF Held
    <2>5. ASSUME NEW p \in Nat, NEW n \in Nat, (p >= 2 /\ p + n <= 76) \/ p >= 93
          PROVE  Clear(tested, p, n)
      BY <2>1, <2>2, <2>5 DEF Clear
    <2>6. QED
      BY <2>1, <2>3, <2>4, <2>5
  <1>7. /\ tools \in Seq(Write)
        /\ Held(tools, 94, 1, g, 1) /\ Held(tools, 96, 4, k, 4)
        /\ Held(tools, 109, 1, exp, 1) /\ Held(tools, 111, 1, h, 1)
        /\ \A p, n \in Nat : p + n <= 94 \/ (p >= 100 /\ p + n <= 109) \/ p >= 112
                              => Clear(tools, p, n)
    <2>1. tools \in Seq(Write) /\ DOMAIN tools = 1 .. 4
      BY <1>1 DEF Write
    <2>2. /\ tools[1] = <<94, 1, g>> /\ tools[2] = <<96, 4, k>>
          /\ tools[3] = <<109, 1, exp>> /\ tools[4] = <<111, 1, h>>
      OBVIOUS
    <2> HIDE DEF tools
    <2>3. Held(tools, 94, 1, g, 1) /\ Held(tools, 96, 4, k, 4)
      BY <2>1, <2>2 DEF Held
    <2>4. Held(tools, 109, 1, exp, 1) /\ Held(tools, 111, 1, h, 1)
      BY <2>1, <2>2 DEF Held
    <2>5. ASSUME NEW p \in Nat, NEW n \in Nat,
                 p + n <= 94 \/ (p >= 100 /\ p + n <= 109) \/ p >= 112
          PROVE  Clear(tools, p, n)
      BY <2>1, <2>2, <2>5 DEF Clear
    <2>6. QED
      BY <2>1, <2>3, <2>4, <2>5
  <1> HIDE DEF tested, tools
  <1> DEFINE u == tested \o tools
             v == u \o mss
             t == v \o omit
  <1>8. /\ u \in Seq(Write)
        /\ Held(u, 1, 1, a, 1) /\ Held(u, 76, 4, b, 4) /\ Held(u, 80, 4, c, 4)
        /\ Held(u, 84, 4, d, 4) /\ Held(u, 88, 4, e, 4) /\ Held(u, 92, 1, f, 1)
        /\ Held(u, 94, 1, g, 1) /\ Held(u, 96, 4, k, 4)
        /\ Held(u, 109, 1, exp, 1) /\ Held(u, 111, 1, h, 1)
        /\ Clear(u, 4, 4) /\ Clear(u, 93, 1) /\ Clear(u, 100, 1) /\ Clear(u, 101, 1)
        /\ Clear(u, 102, 1) /\ Clear(u, 108, 1) /\ Clear(u, 112, 16)
    <2>1. /\ Clear(tools, 1, 1) /\ Clear(tools, 76, 4) /\ Clear(tools, 80, 4)
          /\ Clear(tools, 84, 4) /\ Clear(tools, 88, 4) /\ Clear(tools, 92, 1)
      BY <1>7
    <2>2. u \in Seq(Write)
      BY <1>6, <1>7, ConcatWrites
    <2>3. /\ Held(u, 1, 1, a, 1) /\ Held(u, 76, 4, b, 4) /\ Held(u, 80, 4, c, 4)
          /\ Held(u, 84, 4, d, 4) /\ Held(u, 88, 4, e, 4) /\ Held(u, 92, 1, f, 1)
      BY <1>6, <1>7, <2>1, ConcatWrites
    <2>4. /\ Held(u, 94, 1, g, 1) /\ Held(u, 96, 4, k, 4)
          /\ Held(u, 109, 1, exp, 1) /\ Held(u, 111, 1, h, 1)
      BY <1>6, <1>7, ConcatWrites
    <2>5. /\ Clear(tested, 4, 4) /\ Clear(tested, 93, 1) /\ Clear(tested, 100, 1)
          /\ Clear(tested, 101, 1) /\ Clear(tested, 102, 1) /\ Clear(tested, 108, 1)
          /\ Clear(tested, 112, 16)
      BY <1>6
    <2>6. /\ Clear(tools, 4, 4) /\ Clear(tools, 93, 1) /\ Clear(tools, 100, 1)
          /\ Clear(tools, 101, 1) /\ Clear(tools, 102, 1) /\ Clear(tools, 108, 1)
          /\ Clear(tools, 112, 16)
      BY <1>7
    <2> HIDE DEF u
    <2>7. ASSUME NEW o \in Nat, NEW n \in Nat, Clear(tested, o, n), Clear(tools, o, n)
          PROVE  Clear(u, o, n)
      BY <1>6, <1>7, <2>7, ConcatWrites DEF u
    <2>8. Clear(u, 4, 4) /\ Clear(u, 93, 1) /\ Clear(u, 100, 1) /\ Clear(u, 101, 1)
      BY <2>5, <2>6, <2>7
    <2>9. Clear(u, 102, 1) /\ Clear(u, 108, 1) /\ Clear(u, 112, 16)
      BY <2>5, <2>6, <2>7
    <2>10. QED
      BY <2>2, <2>3, <2>4, <2>8, <2>9
  <1> HIDE DEF u
  <1>9. /\ v \in Seq(Write)
        /\ Held(v, 1, 1, a, 1) /\ Held(v, 76, 4, b, 4) /\ Held(v, 80, 4, c, 4)
        /\ Held(v, 84, 4, d, 4) /\ Held(v, 88, 4, e, 4) /\ Held(v, 92, 1, f, 1)
        /\ Held(v, 94, 1, g, 1) /\ Held(v, 96, 4, k, 4)
        /\ Held(v, 109, 1, exp, 1) /\ Held(v, 111, 1, h, 1)
        /\ version >= MSS => Held(v, 104, 2, i, 2)
        /\ Clear(v, 4, 4) /\ Clear(v, 93, 1) /\ Clear(v, 100, 1) /\ Clear(v, 101, 1)
        /\ Clear(v, 102, 1) /\ Clear(v, 108, 1) /\ Clear(v, 112, 16)
    <2> DEFINE Apart(o, n) == o + n <= 104 \/ o >= 106
    <2>1. /\ u \in Seq(Write) /\ mss \in Seq(Write) /\ 104 \in Nat /\ 106 \in Nat
          /\ \A o, n \in Nat : Apart(o, n) => Clear(mss, o, n)
      BY <1>4, <1>8
    <2>2. /\ v \in Seq(Write)
          /\ \A o, n \in Nat : Apart(o, n) /\ Clear(u, o, n) => Clear(v, o, n)
          /\ \A o, n, w \in Nat : \A x : Apart(o, n) /\ Held(u, o, w, x, n)
               => Held(v, o, w, x, n)
          /\ \A o, n, w \in Nat : \A x : Held(mss, o, w, x, n) => Held(v, o, w, x, n)
      BY <2>1, AddedWrites, Zenon
    <2>3. version >= MSS => Held(v, 104, 2, i, 2)
      BY <1>4, <2>2
    <2> HIDE DEF v
    <2>4. ASSUME NEW o \in Nat, NEW n \in Nat, NEW w \in Nat, NEW x, Held(u, o, w, x, n),
                 Apart(o, n)
          PROVE  Held(v, o, w, x, n)
      BY <2>2, <2>4
    <2>5. ASSUME NEW o \in Nat, NEW n \in Nat, Clear(u, o, n), Apart(o, n)
          PROVE  Clear(v, o, n)
      BY <2>2, <2>5
    <2>6. Held(v, 1, 1, a, 1) /\ Held(v, 76, 4, b, 4) /\ Held(v, 80, 4, c, 4)
      BY <1>8, <2>4
    <2>7. Held(v, 84, 4, d, 4) /\ Held(v, 88, 4, e, 4) /\ Held(v, 92, 1, f, 1)
      BY <1>8, <2>4
    <2>8. Held(v, 94, 1, g, 1) /\ Held(v, 96, 4, k, 4)
      BY <1>8, <2>4
    <2>9. Held(v, 109, 1, exp, 1) /\ Held(v, 111, 1, h, 1)
      BY <1>8, <2>4
    <2>10. Clear(v, 4, 4) /\ Clear(v, 93, 1) /\ Clear(v, 100, 1) /\ Clear(v, 101, 1)
      BY <1>8, <2>5
    <2>11. Clear(v, 102, 1) /\ Clear(v, 108, 1) /\ Clear(v, 112, 16)
      BY <1>8, <2>5
    <2>12. QED
      BY <2>2, <2>3, <2>6, <2>7, <2>8, <2>9, <2>10, <2>11
  <1> HIDE DEF v
  <1>10. /\ t \in Seq(Write)
         /\ Held(t, 1, 1, a, 1) /\ Held(t, 76, 4, b, 4) /\ Held(t, 80, 4, c, 4)
         /\ Held(t, 84, 4, d, 4) /\ Held(t, 88, 4, e, 4) /\ Held(t, 92, 1, f, 1)
         /\ Held(t, 94, 1, g, 1) /\ Held(t, 96, 4, k, 4)
         /\ Held(t, 109, 1, exp, 1) /\ Held(t, 111, 1, h, 1)
         /\ version >= MSS => Held(t, 104, 2, i, 2)
         /\ version >= Omit => Held(t, 110, 1, j, 1)
         /\ Clear(t, 4, 4) /\ Clear(t, 93, 1) /\ Clear(t, 100, 1) /\ Clear(t, 101, 1)
         /\ Clear(t, 102, 1) /\ Clear(t, 108, 1) /\ Clear(t, 112, 16)
    <2> DEFINE Apart(o, n) == o + n <= 110 \/ o >= 111
    <2>1. /\ v \in Seq(Write) /\ omit \in Seq(Write) /\ 110 \in Nat /\ 111 \in Nat
          /\ \A o, n \in Nat : Apart(o, n) => Clear(omit, o, n)
      BY <1>5, <1>9
    <2>2. /\ t \in Seq(Write)
          /\ \A o, n \in Nat : Apart(o, n) /\ Clear(v, o, n) => Clear(t, o, n)
          /\ \A o, n, w \in Nat : \A x : Apart(o, n) /\ Held(v, o, w, x, n)
               => Held(t, o, w, x, n)
          /\ \A o, n, w \in Nat : \A x : Held(omit, o, w, x, n) => Held(t, o, w, x, n)
      BY <2>1, AddedWrites, Zenon
    <2>3. version >= Omit => Held(t, 110, 1, j, 1)
      BY <1>5, <2>2
    <2> HIDE DEF t
    <2>4. ASSUME NEW o \in Nat, NEW n \in Nat, NEW w \in Nat, NEW x, Held(v, o, w, x, n),
                 Apart(o, n)
          PROVE  Held(t, o, w, x, n)
      BY <2>2, <2>4
    <2>5. ASSUME NEW o \in Nat, NEW n \in Nat, Clear(v, o, n), Apart(o, n)
          PROVE  Clear(t, o, n)
      BY <2>2, <2>5
    <2>6. Held(t, 1, 1, a, 1) /\ Held(t, 76, 4, b, 4) /\ Held(t, 80, 4, c, 4)
      BY <1>9, <2>4
    <2>7. Held(t, 84, 4, d, 4) /\ Held(t, 88, 4, e, 4) /\ Held(t, 92, 1, f, 1)
      BY <1>9, <2>4
    <2>8. Held(t, 94, 1, g, 1) /\ Held(t, 96, 4, k, 4)
      BY <1>9, <2>4
    <2>9. Held(t, 109, 1, exp, 1) /\ Held(t, 111, 1, h, 1)
      BY <1>9, <2>4
    <2>10. version >= MSS => Held(t, 104, 2, i, 2)
      BY <1>9, <2>4
    <2>11. Clear(t, 4, 4) /\ Clear(t, 93, 1) /\ Clear(t, 100, 1) /\ Clear(t, 101, 1)
      BY <1>9, <2>5
    <2>12. Clear(t, 102, 1) /\ Clear(t, 108, 1) /\ Clear(t, 112, 16)
      BY <1>9, <2>5
    <2>13. QED
      BY <2>2, <2>3, <2>6, <2>7, <2>8, <2>9, <2>10, <2>11, <2>12
  <1>11. ThroughputWrites(version, spec, 1) = t
    BY <1>2 DEF u, v
  <1> HIDE DEF t
  <1>12. QED
    BY <1>10, <1>11 DEF a, b, c, d, e, f, g, h, i, j, k, exp

-----------------------------------------------------------------------------
\* The fields that are not simply written into the bytes they are read from.
Special == {"udp", "bandwidth", "report_interval", "outformat"}

\* The writes carry the test.
Carried(kind, version, spec, ws) ==
  /\ ws \in Seq(Write) /\ Clear(ws, 112, 16)
  /\ Held(ws, 96, 4, ToolId[kind], 4)
  /\ Held(ws, 1, 1, 1 + (IF kind = "throughput" THEN Nibble * spec["udp"] ELSE 0), 1)
  /\ Held(ws, 108, 4, spec["outformat"] * ByteTo[3], 1)
  /\ kind = "throughput" =>
       /\ Held(ws, 76, 4, spec["bandwidth"] \div TwoTo[BandwidthExp(spec["bandwidth"])], 4)
       /\ Held(ws, 109, 1, BandwidthExp(spec["bandwidth"]), 1)
       /\ Held(ws, 88, 4, spec["report_interval"] \div (IF version >= V1_5 THEN 1 ELSE Second), 4)
  /\ \A f \in Fields(kind) \ Special :
       version >= Since(kind, f) => Held(ws, Offset[f], Width(f), spec[f], Width(f))

\* The values of the common fields are numbers.
LEMMA CommonNumbers ==
  ASSUME NEW kind \in Kinds, NEW spec, SpecFits(kind, spec)
  PROVE  /\ \A f \in Common : spec[f] \in Nat
         /\ spec["outformat"] * ByteTo[3] \in Nat /\ ToolId[kind] \in Nat
  <1>1. \A f \in Fields(kind) \ {"bandwidth"} : spec[f] \in Nat
    BY ByteToFacts DEF SpecFits
  <1>2. Common \subseteq Fields(kind) \ {"bandwidth"}
    BY DEF Fields, Common
  <1>3. \A f \in Common : spec[f] \in Nat
    BY <1>1, <1>2
  <1>4. spec["outformat"] \in Nat
    BY <1>3 DEF Common
  <1>5. spec["outformat"] * ByteTo[3] \in Nat
    BY <1>4, ByteToFacts, Products
  <1>6. ToolId[kind] \in Nat
    BY DEF ToolId, Kinds
  <1>7. QED
    BY <1>3, <1>5, <1>6

\* What a test of any kind begins with.
Opening(kind, spec) ==
  << <<1, 1, 1>>, <<96, 4, ToolId[kind]>>, <<4, 4, spec["duration"]>>,
     <<100, 1, spec["verbose"]>>, <<108, 4, spec["outformat"] * ByteTo[3]>>,
     <<101, 1, spec["server_sends"]>>, <<102, 1, spec["no_server_endpoint"]>>,
     <<93, 1, spec["tos"]>> >>

\* ... is held as it is written.
LEMMA HeadHeld ==
  ASSUME NEW kind \in Kinds, NEW spec, SpecFits(kind, spec)
  PROVE  LET head == Opening(kind, spec) IN
            /\ head \in Seq(Write)
            /\ Held(head, 1, 1, 1, 1)
            /\ Held(head, 96, 4, ToolId[kind], 4)
            /\ Held(head, 4, 4, spec["duration"], 4)
            /\ Held(head, 100, 1, spec["verbose"], 1)
            /\ Held(head, 108, 4, spec["outformat"] * ByteTo[3], 1)
            /\ Held(head, 101, 1, spec["server_sends"], 1)
            /\ Held(head, 102, 1, spec["no_server_endpoint"], 1)
            /\ Held(head, 93, 1, spec["tos"], 1)
            /\ Clear(head, 112, 16)
  <1> DEFINE a == 1
             b == ToolId[kind]
             c == spec["duration"]
             d == spec["verbose"]
             e == spec["outformat"] * ByteTo[3]
             f == spec["server_sends"]
             g == spec["no_server_endpoint"]
             h == spec["tos"]
  <1>1. /\ a \in Nat /\ b \in Nat /\ c \in Nat /\ d \in Nat /\ e \in Nat
        /\ f \in Nat /\ g \in Nat /\ h \in Nat
    BY CommonNumbers DEF Common
  <1> HIDE DEF a, b, c, d, e, f, g, h
  <1> DEFINE t == << <<1, 1, a>>, <<96, 4, b>>, <<4, 4, c>>, <<100, 1, d>>,
                     <<108, 4, e>>, <<101, 1, f>>, <<102, 1, g>>, <<93, 1, h>> >>
  <1>2. t \in Seq(Write)
    BY <1>1 DEF Write
  <1>3. DOMAIN t = 1 .. 8
    OBVIOUS
  <1>4. /\ t[1] = <<1, 1, a>> /\ t[2] = <<96, 4, b>> /\ t[3] = <<4, 4, c>>
        /\ t[4] = <<100, 1, d>> /\ t[5] = <<108, 4, e>> /\ t[6] = <<101, 1, f>>
        /\ t[7] = <<102, 1, g>> /\ t[8] = <<93, 1, h>>
    OBVIOUS
  <1> HIDE DEF t
  <1>5. Clear(t, 112, 16)
    BY <1>3, <1>4 DEF Clear
  <1>6. Held(t, 1, 1, a, 1) /\ Held(t, 96, 4, b, 4)
    BY <1>3, <1>4 DEF Held
  <1>7. Held(t, 4, 4, c, 4) /\ Held(t, 100, 1, d, 1)
    BY <1>3, <1>4 DEF Held
  <1>8. Held(t, 108, 4, e, 1) /\ Held(t, 101, 1, f, 1)
    BY <1>3, <1>4 DEF Held
  <1>9. Held(t, 102, 1, g, 1) /\ Held(t, 93, 1, h, 1)
    BY <1>3, <1>4 DEF Held
  <1>10. Opening(kind, spec) = t
    BY DEF Opening, t, a, b, c, d, e, f, g, h
  <1>11. QED
    BY <1>2, <1>5, <1>6, <1>7, <1>8, <1>9, <1>10 DEF a, b, c, d, e, f, g, h

\* The writes of a ping test carry it.
LEMMA PingCarried ==
  ASSUME NEW spec, SpecFits("ping", spec), NEW version \in 1 .. MSS
  PROVE  Carried("ping", version, spec, Writes("ping", version, spec, 1))
  <1> DEFINE t == PingWrites(spec)
             head == Opening("ping", spec)
             ws == head \o t
  <1>1. Writes("ping", version, spec, 1) = ws
    BY DEF Writes, Opening
  <1>2. "ping" \in Kinds
    BY DEF Kinds
  <1>3. /\ head \in Seq(Write)
        /\ Held(head, 1, 1, 1, 1)
        /\ Held(head, 96, 4, ToolId["ping"], 4)
        /\ Held(head, 4, 4, spec["duration"], 4)
        /\ Held(head, 100, 1, spec["verbose"], 1)
        /\ Held(head, 108, 4, spec["outformat"] * ByteTo[3], 1)
        /\ Held(head, 101, 1, spec["server_sends"], 1)
        /\ Held(head, 102, 1, spec["no_server_endpoint"], 1)
        /\ Held(head, 93, 1, spec["tos"], 1)
        /\ Clear(head, 112, 16)
    BY <1>2, HeadHeld
  <1> HIDE DEF head
  <1>4. /\ t \in Seq(Write)
        /\ Clear(t, 1, 1)
        /\ Clear(t, 96, 4)
        /\ Clear(t, 4, 4)
        /\ Clear(t, 100, 1)
        /\ Clear(t, 108, 1)
        /\ Clear(t, 101, 1)
        /\ Clear(t, 102, 1)
        /\ Clear(t, 93, 1)
        /\ Clear(t, 112, 16)
        /\ Held(t, 76, 2, spec["ping_packet_count"], 2)
        /\ Held(t, 78, 2, spec["ping_packet_size"], 2)
        /\ Held(t, 80, 2, spec["ping_interpacket_time"], 2)
        /\ Held(t, 84, 1, spec["ping_packet_ttl"], 1)
    BY PingHeld
  <1> HIDE DEF t
  <1>5. ASSUME NEW o \in Nat, NEW n \in Nat, NEW w \in Nat, NEW x
        PROVE  /\ Held(t, o, w, x, n) => Held(ws, o, w, x, n)
               /\ Held(head, o, w, x, n) /\ Clear(t, o, n) => Held(ws, o, w, x, n)
               /\ Clear(head, o, n) /\ Clear(t, o, n) => Clear(ws, o, n)
    BY <1>3, <1>4, ConcatWrites
  <1>6. ws \in Seq(Write)
    BY <1>3, <1>4
  <1> HIDE DEF ws
  <1>7. Clear(ws, 112, 16)
    BY <1>3, <1>4, <1>5
  <1>8. /\ Held(ws, 1, 1, 1, 1)
        /\ Held(ws, 96, 4, ToolId["ping"], 4)
        /\ Held(ws, 4, 4, spec["duration"], 4)
    BY <1>3, <1>4, <1>5
  <1>9. /\ Held(ws, 100, 1, spec["verbose"], 1)
        /\ Held(ws, 108, 4, spec["outformat"] * ByteTo[3], 1)
        /\ Held(ws, 101, 1, spec["server_sends"], 1)
    BY <1>3, <1>4, <1>5
  <1>10. /\ Held(ws, 102, 1, spec["no_server_endpoint"], 1)
         /\ Held(ws, 93, 1, spec["tos"], 1)
    BY <1>3, <1>4, <1>5
  <1>11. /\ Held(ws, 76, 2, spec["ping_packet_count"], 2)
         /\ Held(ws, 78, 2, spec["ping_packet_size"], 2)
         /\ Held(ws, 80, 2, spec["ping_interpacket_time"], 2)
    BY <1>4, <1>5
  <1>12. /\ Held(ws, 84, 1, spec["ping_packet_ttl"], 1)
    BY <1>4, <1>5
  <1>13. ASSUME NEW f \in Fields("ping") \ Special, version >= Since("ping", f)
        PROVE  Held(ws, Offset[f], Width(f), spec[f], Width(f))
    <2>1. f \in {"duration", "verbose", "tos", "server_sends", "no_server_endpoint", "ping_packet_count",
           "ping_packet_size", "ping_interpacket_time", "ping_packet_ttl"}
      BY DEF Fields, Common, Special
    <2>2. CASE f = "duration"
      BY <1>8, <1>9, <1>10, <1>11, <1>12, <1>13, <2>2 DEF Offset, Width, Since
    <2>3. CASE f = "verbose"
      BY <1>8, <1>9, <1>10, <1>11, <1>12, <1>13, <2>3 DEF Offset, Width, Since
    <2>4. CASE f = "tos"
      BY <1>8, <1>9, <1>10, <1>11, <1>12, <1>13, <2>4 DEF Offset, Width, Since
    <2>5. CASE f = "server_sends"
      BY <1>8, <1>9, <1>10, <1>11, <1>12, <1>13, <2>5 DEF Offset, Width, Since
    <2>6. CASE f = "no_server_endpoint"
      BY <1>8, <1>9, <1>10, <1>11, <1>12, <1>13, <2>6 DEF Offset, Width, Since
    <2>7. CASE f = "ping_packet_count"
      BY <1>8, <1>9, <1>10, <1>11, <1>12, <1>13, <2>7 DEF Offset, Width, Since
    <2>8. CASE f = "ping_packet_size"
      BY <1>8, <1>9, <1>10, <1>11, <1>12, <1>13, <2>8 DEF Offset, Width, Since
    <2>9. CASE f = "ping_interpacket_time"
      BY <1>8, <1>9, <1>10, <1>11, <1>12, <1>13, <2>9 DEF Offset, Width, Since
    <2>10. CASE f = "ping_packet_ttl"
      BY <1>8, <1>9, <1>10, <1>11, <1>12, <1>13, <2>10 DEF Offset, Width, Since
    <2>11. QED
      BY <2>1, <2>2, <2>3, <2>4, <2>5, <2>6, <2>7, <2>8, <2>9, <2>10
  <1>14. QED
    BY <1>1, <1>6, <1>7, <1>8, <1>9, <1>10, <1>11, <1>12, <1>13 DEF Carried

\* The writes of a traceroute test carry it.
LEMMA TracerouteCarried ==
  ASSUME NEW spec, SpecFits("traceroute", spec), NEW version \in 1 .. MSS
  PROVE  Carried("traceroute", version, spec, Writes("traceroute", version, spec, 1))
  <1> DEFINE t == TracerouteWrites(spec)
             head == Opening("traceroute", spec)
             ws == head \o t
  <1>1. Writes("traceroute", version, spec, 1) = ws
    BY DEF Writes, Opening
  <1>2. "traceroute" \in Kinds
    BY DEF Kinds
  <1>3. /\ head \in Seq(Write)
        /\ Held(head, 1, 1, 1, 1)
        /\ Held(head, 96, 4, ToolId["traceroute"], 4)
        /\ Held(head, 4, 4, spec["duration"], 4)
        /\ Held(head, 100, 1, spec["verbose"], 1)
        /\ Held(head, 108, 4, spec["outformat"] * ByteTo[3], 1)
        /\ Held(head, 101, 1, spec["server_sends"], 1)
        /\ Held(head, 102, 1, spec["no_server_endpoint"], 1)
        /\ Held(head, 93, 1, spec["tos"], 1)
        /\ Clear(head, 112, 16)
    BY <1>2, HeadHeld
  <1> HIDE DEF head
  <1>4. /\ t \in Seq(Write)
        /\ Clear(t, 1, 1)
        /\ Clear(t, 96, 4)
        /\ Clear(t, 100, 1)
        /\ Clear(t, 108, 1)
        /\ Clear(t, 101, 1)
        /\ Clear(t, 102, 1)
        /\ Clear(t, 93, 1)
        /\ Clear(t, 112, 16)
        /\ Held(t, 4, 4, spec["duration"], 4)
        /\ Held(t, 76, 1, spec["traceroute_first_ttl"], 1)
        /\ Held(t, 77, 1, spec["traceroute_last_ttl"], 1)
        /\ Held(t, 78, 2, spec["traceroute_packet_size"], 2)
    BY TracerouteHeld
  <1> HIDE DEF t
  <1>5. ASSUME NEW o \in Nat, NEW n \in Nat, NEW w \in Nat, NEW x
        PROVE  /\ Held(t, o, w, x, n) => Held(ws, o, w, x, n)
               /\ Held(head, o, w, x, n) /\ Clear(t, o, n) => Held(ws, o, w, x, n)
               /\ Clear(head, o, n) /\ Clear(t, o, n) => Clear(ws, o, n)
    BY <1>3, <1>4, ConcatWrites
  <1>6. ws \in Seq(Write)
    BY <1>3, <1>4
  <1> HIDE DEF ws
  <1>7. Clear(ws, 112, 16)
    BY <1>3, <1>4, <1>5
  <1>8. /\ Held(ws, 1, 1, 1, 1)
        /\ Held(ws, 96, 4, ToolId["traceroute"], 4)
        /\ Held(ws, 100, 1, spec["verbose"], 1)
    BY <1>3, <1>4, <1>5
  <1>9. /\ Held(ws, 108, 4, spec["outformat"] * ByteTo[3], 1)
        /\ Held(ws, 101, 1, spec["server_sends"], 1)
        /\ Held(ws, 102, 1, spec["no_server_endpoint"], 1)
    BY <1>3, <1>4, <1>5
  <1>10. /\ Held(ws, 93, 1, spec["tos"], 1)
    BY <1>3, <1>4, <1>5
  <1>11. /\ Held(ws, 4, 4, spec["duration"], 4)
         /\ Held(ws, 76, 1, spec["traceroute_first_ttl"], 1)
         /\ Held(ws, 77, 1, spec["traceroute_last_ttl"], 1)
    BY <1>4, <1>5
  <1>12. /\ Held(ws, 78, 2, spec["traceroute_packet_size"], 2)
    BY <1>4, <1>5
  <1>13. ASSUME NEW f \in Fields("traceroute") \ Special, version >= Since("traceroute", f)
        PROVE  Held(ws, Offset[f], Width(f), spec[f], Width(f))
    <2>1. f \in {"duration", "verbose", "tos", "server_sends", "no_server_endpoint",
           "traceroute_first_ttl", "traceroute_last_ttl", "traceroute_packet_size"}
      BY DEF Fields, Common, Special
    <2>2. CASE f = "duration"
      BY <1>8, <1>9, <1>10, <1>11, <1>12, <1>13, <2>2 DEF Offset, Width, Since
    <2>3. CASE f = "verbose"
      BY <1>8, <1>9, <1>10, <1>11, <1>12, <1>13, <2>3 DEF Offset, Width, Since
    <2>4. CASE f = "tos"
      BY <1>8, <1>9, <1>10, <1>11, <1>12, <1>13, <2>4 DEF Offset, Width, Since
    <2>5. CASE f = "server_sends"
      BY <1>8, <1>9, <1>10, <1>11, <1>12, <1>13, <2>5 DEF Offset, Width, Since
    <2>6. CASE f = "no_server_endpoint"
      BY <1>8, <1>9, <1>10, <1>11, <1>12, <1>13, <2>6 DEF Offset, Width, Since
    <2>7. CASE f = "traceroute_first_ttl"
      BY <1>8, <1>9, <1>10, <1>11, <1>12, <1>13, <2>7 DEF Offset, Width, Since
    <2>8. CASE f = "traceroute_last_ttl"
      BY <1>8, <1>9, <1>10, <1>11, <1>12, <1>13, <2>8 DEF Offset, Width, Since
    <2>9. CASE f = "traceroute_packet_size"
      BY <1>8, <1>9, <1>10, <1>11, <1>12, <1>13, <2>9 DEF Offset, Width, Since
    <2>10. QED
      BY <2>1, <2>2, <2>3, <2>4, <2>5, <2>6, <2>7, <2>8, <2>9
  <1>14. QED
    BY <1>1, <1>6, <1>7, <1>8, <1>9, <1>10, <1>11, <1>12, <1>13 DEF Carried

\* The writes of a throughput test carry it.
LEMMA ThroughputCarried ==
  ASSUME NEW spec, SpecFits("throughput", spec), NEW version \in 1 .. MSS
  PROVE  Carried("throughput", version, spec, Writes("throughput", version, spec, 1))
  <1> DEFINE t == ThroughputWrites(version, spec, 1)
             head == Opening("throughput", spec)
             ws == head \o t
  <1>1. Writes("throughput", version, spec, 1) = ws
    BY DEF Writes, Opening
  <1>2. "throughput" \in Kinds
    BY DEF Kinds
  <1>3. /\ head \in Seq(Write)
        /\ Held(head, 1, 1, 1, 1)
        /\ Held(head, 96, 4, ToolId["throughput"], 4)
        /\ Held(head, 4, 4, spec["duration"], 4)
        /\ Held(head, 100, 1, spec["verbose"], 1)
        /\ Held(head, 108, 4, spec["outformat"] * ByteTo[3], 1)
        /\ Held(head, 101, 1, spec["server_sends"], 1)
        /\ Held(head, 102, 1, spec["no_server_endpoint"], 1)
        /\ Held(head, 93, 1, spec["tos"], 1)
        /\ Clear(head, 112, 16)
    BY <1>2, HeadHeld
  <1> HIDE DEF head
  <1>4. /\ t \in Seq(Write)
        /\ Clear(t, 4, 4)
        /\ Clear(t, 100, 1)
        /\ Clear(t, 108, 1)
        /\ Clear(t, 101, 1)
        /\ Clear(t, 102, 1)
        /\ Clear(t, 93, 1)
        /\ Clear(t, 112, 16)
        /\ Held(t, 1, 1, 1 + Nibble * spec["udp"], 1)
        /\ Held(t, 96, 4, ToolId["throughput"], 4)
        /\ Held(t, 76, 4, spec["bandwidth"] \div TwoTo[BandwidthExp(spec["bandwidth"])], 4)
        /\ Held(t, 109, 1, BandwidthExp(spec["bandwidth"]), 1)
        /\ Held(t, 80, 4, spec["len_buffer"], 4)
        /\ Held(t, 84, 4, spec["window_size"], 4)
        /\ Held(t, 88, 4, spec["report_interval"] \div (IF version >= V1_5 THEN 1 ELSE Second), 4)
        /\ Held(t, 92, 1, spec["dynamic_window_size"], 1)
        /\ Held(t, 94, 1, spec["parallel_streams"], 1)
        /\ Held(t, 111, 1, spec["units"], 1)
        /\ version >= MSS => Held(t, 104, 2, spec["mss"], 2)
        /\ version >= Omit => Held(t, 110, 1, spec["omit"], 1)
    BY ThroughputHeld
  <1> HIDE DEF t
  <1>5. ASSUME NEW o \in Nat, NEW n \in Nat, NEW w \in Nat, NEW x
        PROVE  /\ Held(t, o, w, x, n) => Held(ws, o, w, x, n)
               /\ Held(head, o, w, x, n) /\ Clear(t, o, n) => Held(ws, o, w, x, n)
               /\ Clear(head, o, n) /\ Clear(t, o, n) => Clear(ws, o, n)
    BY <1>3, <1>4, ConcatWrites
  <1>6. ws \in Seq(Write)
    BY <1>3, <1>4
  <1> HIDE DEF ws
  <1>7. Clear(ws, 112, 16)
    BY <1>3, <1>4, <1>5
  <1>8. /\ Held(ws, 4, 4, spec["duration"], 4)
        /\ Held(ws, 100, 1, spec["verbose"], 1)
        /\ Held(ws, 108, 4, spec["outformat"] * ByteTo[3], 1)
    BY <1>3, <1>4, <1>5
  <1>9. /\ Held(ws, 101, 1, spec["server_sends"], 1)
        /\ Held(ws, 102, 1, spec["no_server_endpoint"], 1)
        /\ Held(ws, 93, 1, spec["tos"], 1)
    BY <1>3, <1>4, <1>5
  <1>10. /\ Held(ws, 1, 1, 1 + Nibble * spec["udp"], 1)
         /\ Held(ws, 96, 4, ToolId["throughput"], 4)
         /\ Held(ws, 76, 4, spec["bandwidth"] \div TwoTo[BandwidthExp(spec["bandwidth"])], 4)
    BY <1>4, <1>5
  <1>11. /\ Held(ws, 109, 1, BandwidthExp(spec["bandwidth"]), 1)
         /\ Held(ws, 80, 4, spec["len_buffer"], 4)
         /\ Held(ws, 84, 4, spec["window_size"], 4)
    BY <1>4, <1>5
  <1>12. /\ Held(ws, 88, 4, spec["report_interval"] \div (IF version >= V1_5 THEN 1 ELSE Second), 4)
         /\ Held(ws, 92, 1, spec["dynamic_window_size"], 1)
         /\ Held(ws, 94, 1, spec["parallel_streams"], 1)
    BY <1>4, <1>5
  <1>13. /\ Held(ws, 111, 1, spec["units"], 1)
         /\ version >= MSS => Held(ws, 104, 2, spec["mss"], 2)
         /\ version >= Omit => Held(ws, 110, 1, spec["omit"], 1)
    BY <1>4, <1>5
  <1>14. ASSUME NEW f \in Fields("throughput") \ Special, version >= Since("throughput", f)
        PROVE  Held(ws, Offset[f], Width(f), spec[f], Width(f))
    <2>1. f \in {"duration", "verbose", "tos", "server_sends", "no_server_endpoint", "len_buffer",
           "window_size", "dynamic_window_size", "parallel_streams", "units", "mss", "omit"}
      BY DEF Fields, Common, Special
    <2>2. CASE f = "duration"
      BY <1>8, <1>9, <1>10, <1>11, <1>12, <1>13, <1>14, <2>2 DEF Offset, Width, Since
    <2>3. CASE f = "verbose"
      BY <1>8, <1>9, <1>10, <1>11, <1>12, <1>13, <1>14, <2>3 DEF Offset, Width, Since
    <2>4. CASE f = "tos"
      BY <1>8, <1>9, <1>10, <1>11, <1>12, <1>13, <1>14, <2>4 DEF Offset, Width, Since
    <2>5. CASE f = "server_sends"
      BY <1>8, <1>9, <1>10, <1>11, <1>12, <1>13, <1>14, <2>5 DEF Offset, Width, Since
    <2>6. CASE f = "no_server_endpoint"
      BY <1>8, <1>9, <1>10, <1>11, <1>12, <1>13, <1>14, <2>6 DEF Offset, Width, Since
    <2>7. CASE f = "len_buffer"
      BY <1>8, <1>9, <1>10, <1>11, <1>12, <1>13, <1>14, <2>7 DEF Offset, Width, Since
    <2>8. CASE f = "window_size"
      BY <1>8, <1>9, <1>10, <1>11, <1>12, <1>13, <1>14, <2>8 DEF Offset, Width, Since
    <2>9. CASE f = "dynamic_window_size"
      BY <1>8, <1>9, <1>10, <1>11, <1>12, <1>13, <1>14, <2>9 DEF Offset, Width, Since
    <2>10. CASE f = "parallel_streams"
      BY <1>8, <1>9, <1>10, <1>11, <1>12, <1>13, <1>14, <2>10 DEF Offset, Width, Since
    <2>11. CASE f = "units"
      BY <1>8, <1>9, <1>10, <1>11, <1>12, <1>13, <1>14, <2>11 DEF Offset, Width, Since
    <2>12. CASE f = "mss"
      BY <1>8, <1>9, <1>10, <1>11, <1>12, <1>13, <1>14, <2>12 DEF Offset, Width, Since
    <2>13. CASE f = "omit"
      BY <1>8, <1>9, <1>10, <1>11, <1>12, <1>13, <1>14, <2>13 DEF Offset, Width, Since
    <2>14. QED
      BY <2>1, <2>2, <2>3, <2>4, <2>5, <2>6, <2>7, <2>8, <2>9, <2>10, <2>11, <2>12, <2>13
  <1>15. QED
    BY <1>1, <1>6, <1>7, <1>8, <1>9, <1>10, <1>11, <1>12, <1>13, <1>14 DEF Carried

-----------------------------------------------------------------------------
\* Reading a number that is held whole.
LEMMA HeldReads ==
  ASSUME NEW ws \in Seq(Write), NEW o \in Nat, NEW w \in 1 .. 4,
         NEW x \in 0 .. ByteTo[w] - 1, Held(ws, o, w, x, w)
  PROVE  Get(ws, o, w) = x
  <1>1. x \in Nat /\ w \in 1 .. w
    BY ByteToFacts
  <1>2. InBytes(ws, o, w, x)
    BY <1>1, HeldInBytes DEF InBytes
  <1>3. QED
    BY <1>2, GetReads

\* ... and a byte.
LEMMA HeldByte ==
  ASSUME NEW ws \in Seq(Write), NEW o \in Nat, NEW x \in 0 .. Byte - 1, Held(ws, o, 1, x, 1)
  PROVE  At(ws, o) = x
  <1>1. x \in Nat /\ Byte \in Nat \ {0} /\ ByteTo[0] = 1
    BY ByteToFacts
  <1>2. At(ws, o + 0) = (x \div ByteTo[1 - 1 - 0]) % Byte
    BY <1>1, HeldInBytes
  <1>3. o + 0 = o /\ 1 - 1 - 0 = 0 /\ x \div 1 = x
    BY <1>1
  <1>4. At(ws, o) = x % Byte
    BY <1>1, <1>2, <1>3
  <1>5. QED
    BY <1>1, <1>4, SmallDivided

\* The byte of outformat, the only one of its number that is read.
LEMMA OutformatReads ==
  ASSUME NEW ws \in Seq(Write), NEW x \in 0 .. Byte - 1, Held(ws, 108, 4, x * ByteTo[3], 1)
  PROVE  Get(ws, 108, 1) = x
  <1> DEFINE b == ByteTo[3]
             y == x * b
  <1>1. /\ x \in Nat /\ Byte \in Nat \ {0} /\ b \in Nat \ {0}
        /\ ByteTo[0] = 1 /\ ByteTo[1] = Byte
    BY ByteToFacts, ByteToSizes
  <1>2. y \in Nat /\ y \div b = x
    <2>1. y \in Nat /\ y = x * b + 0 /\ 0 \in 0 .. b - 1
      BY <1>1, Products
    <2> HIDE DEF b
    <2>2. (x * b + 0) \div b = x
      BY <1>1, <2>1, QuotientOf
    <2>3. QED
      BY <2>1, <2>2
  <1> HIDE DEF y
  <1>3. At(ws, 108 + 0) = (y \div ByteTo[4 - 1 - 0]) % Byte
    <2>1. Held(ws, 108, 4, y, 1)
      BY DEF y
    <2>2. QED
      BY <1>2, <2>1, HeldInBytes
  <1>4. At(ws, 108) = x % Byte
    <2>1. 108 + 0 = 108 /\ 4 - 1 - 0 = 3
      OBVIOUS
    <2>2. QED
      BY <1>2, <1>3, <2>1
  <1>5. InBytes(ws, 108, 1, x)
    <2>1. SUFFICES ASSUME NEW i \in 0 .. 1 - 1
                   PROVE  At(ws, 108 + i) = (x \div ByteTo[1 - 1 - i]) % Byte
      BY DEF InBytes
    <2>2. i = 0
      OBVIOUS
    <2>3. 108 + 0 = 108 /\ 1 - 1 - 0 = 0 /\ x \div 1 = x
      BY <1>1
    <2>4. QED
      BY <1>1, <1>4, <2>2, <2>3
  <1>6. x \in 0 .. ByteTo[1] - 1
    BY <1>1
  <1>7. QED
    BY <1>5, <1>6, GetReads

\* What a server does not read is what was not asked for, or a known loss.
LEMMA UnreadFields ==
  ASSUME NEW kind \in Kinds, NEW spec, SpecFits(kind, spec), NEW version \in 1 .. MSS,
         NEW confClient, ~ Unsupported(kind, version, confClient, spec), NEW ws,
         NEW f \in Fields(kind), version < Since(kind, f)
  PROVE  ReadField(ws, version, kind, f) = Understood(kind, version, f, spec[f])
  <1>1. f \in {"verbose", "server_sends", "no_server_endpoint", "omit", "mss", "tos"}
    BY DEF Since, ToolNegotiation, Fields, Common, Kinds, MSS
  <1>2. ReadField(ws, version, kind, f) = IF f = "verbose" THEN 1 ELSE 0
    BY <1>1 DEF ReadField
  <1>3. f # "bandwidth" => spec[f] \in Nat
    BY ByteToFacts DEF SpecFits
  <1>4. CASE f = "verbose"
    BY <1>2, <1>4 DEF Understood
  <1>5. CASE f = "server_sends"
    <2>1. version < V1_5
      BY <1>5 DEF Since
    <2>2. spec["server_sends"] # 1
      BY <2>1 DEF Unsupported
    <2>3. spec["server_sends"] \in {0, 1}
      BY <1>5 DEF SpecFits, Booleans
    <2>4. QED
      BY <1>2, <1>5, <2>2, <2>3 DEF Understood
  <1>6. CASE f = "no_server_endpoint"
    <2>1. version < V1_5
      BY <1>6 DEF Since
    <2>2. QED
      BY <1>2, <1>6, <2>1 DEF Understood
  <1>7. CASE f = "omit"
    <2>1. version < Omit /\ kind = "throughput"
      BY <1>7 DEF Since, Fields, Common, Kinds
    <2>2. spec["omit"] = 0
      BY <2>1 DEF Unsupported
    <2>3. QED
      BY <1>2, <1>7, <2>2 DEF Understood
  <1>8. CASE f = "mss"
    <2>1. version < MSS /\ kind = "throughput"
      BY <1>8 DEF Since, Fields, Common, Kinds
    <2>2. spec["mss"] = 0
      BY <1>3, <1>8, <2>1 DEF Unsupported
    <2>3. QED
      BY <1>2, <1>8, <2>2 DEF Understood
  <1>9. CASE f = "tos"
    <2>1. version < V1_5_2 /\ kind # "throughput"
      BY <1>9 DEF Since
    <2>2. spec["tos"] = 0
      BY <2>1 DEF Unsupported
    <2>3. QED
      BY <1>2, <1>9, <2>2 DEF Understood
  <1>10. QED
    BY <1>1, <1>4, <1>5, <1>6, <1>7, <1>8, <1>9

\* A quotient times its divisor is the number without its remainder.
LEMMA DividedBack ==
  ASSUME NEW x \in Nat, NEW d \in Nat \ {0}
  PROVE  (x \div d) * d = x - (x % d)
  <1> DEFINE q == x \div d
             r == x % d
  <1>1. q \in Nat /\ r \in 0 .. d - 1 /\ x = q * d + r
    BY Division
  <1>2. q * d \in Nat
    BY <1>1, Products
  <1> HIDE DEF q, r
  <1>3. q * d = x - r
    BY <1>1, <1>2
  <1>4. QED
    BY <1>3 DEF q, r

\* A quotient is not greater than the number, and not than its half if the
\* divisor is 2 at least.
LEMMA QuotientSmaller ==
  ASSUME NEW x \in Nat, NEW d \in Nat \ {0}
  PROVE  /\ x \div d \in Nat /\ x \div d <= x
         /\ d >= 2 => 2 * (x \div d) <= x
  <1> DEFINE q == x \div d
             r == x % d
             g == d - 1
  <1>1. q \in Nat /\ r \in 0 .. d - 1 /\ x = q * d + r
    BY Division
  <1> HIDE DEF q, r
  <1>2. g \in Nat /\ d = g + 1
    OBVIOUS
  <1> HIDE DEF g
  <1>3. q * d = g * q + q /\ g * q \in Nat
    BY <1>1, <1>2, Products
  <1>4. q * d \in Nat /\ q * d <= x
    BY <1>1, Products
  <1>5. d >= 2 => g * q >= q
    <2>1. d >= 2 => g > 0
      BY <1>2
    <2>2. q = 0 \/ q > 0
      BY <1>1
    <2>3. q > 0 /\ g > 0 => g * q >= q
      BY <1>1, <1>2, Products
    <2>4. q = 0 => g * q >= q
      BY <1>2, <1>3
    <2>5. QED
      BY <2>1, <2>2, <2>3, <2>4
  <1>6. QED
    BY <1>1, <1>3, <1>4, <1>5 DEF q

\* The first byte after the version of the test: that of IP, and whether it is UDP.
LEMMA FirstByte ==
  ASSUME NEW u \in {0, 1}
  PROVE  /\ 1 + Nibble * u \in 0 .. Byte - 1
         /\ (1 + Nibble * u) \div Nibble = u /\ (1 + Nibble * u) % Nibble = 1
  <1>1. Nibble \in Nat /\ Nibble >= 2
    BY ByteToFacts
  <1>2. 1 + Nibble * u = u * Nibble + 1 /\ u \in Nat /\ 1 \in 0 .. Nibble - 1
    BY <1>1
  <1>3. (u * Nibble + 1) \div Nibble = u /\ (u * Nibble + 1) % Nibble = 1
    BY <1>1, <1>2, QuotientOf, RemainderOf
  <1>4. 1 + Nibble * u \in Nat /\ 1 + Nibble * u <= 1 + Nibble
    BY <1>1
  <1>5. 1 + Nibble < Byte
    <2>1. PICK g \in Nat : Nibble = g + 2
      <3>1. Nibble - 2 \in Nat /\ Nibble = (Nibble - 2) + 2
        BY <1>1
      <3>2. QED
        BY <3>1
    <2>2. Nibble * Nibble = g * g + 4 * g + 4 /\ g * g \in Nat
      BY <2>1, Products
    <2>3. QED
      BY <2>1, <2>2 DEF Byte
  <1>6. QED
    BY <1>1, <1>2, <1>3, <1>4, <1>5, ByteToFacts

\* What a server reads is what was written, but for the known losses.
LEMMA ReadFields ==
  ASSUME NEW kind \in Kinds, NEW spec, SpecFits(kind, spec), NEW version \in 1 .. MSS,
         NEW ws, Carried(kind, version, spec, ws),
         NEW f \in Fields(kind), version >= Since(kind, f)
  PROVE  ReadField(ws, version, kind, f) = Understood(kind, version, f, spec[f])
  <1>1. ws \in Seq(Write) /\ ~(version < Since(kind, f)) /\ version >= ToolNegotiation
    <2>1. Since(kind, f) \in Nat /\ version \in Nat
      BY DEF Since, Omit, V1_5, V1_5_2, ToolNegotiation, MSS
    <2>2. QED
      BY <2>1 DEF Carried, ToolNegotiation
  <1>2. f # "bandwidth" => spec[f] \in 0 .. ByteTo[Width(f)] - 1
    BY DEF SpecFits
  <1>3. CASE f \notin Special
    <2>1. Held(ws, Offset[f], Width(f), spec[f], Width(f))
      BY <1>3 DEF Carried
    <2>2. Width(f) \in 1 .. 4 /\ Offset[f] \in Nat
      BY <1>3 DEF Width, Offset, Special, Fields, Common, Kinds
    <2>3. Get(ws, Offset[f], Width(f)) = spec[f]
      BY <1>1, <1>2, <1>3, <2>1, <2>2, HeldReads DEF Special
    <2>4. ReadField(ws, version, kind, f) = Get(ws, Offset[f], Width(f))
      BY <1>1, <1>3 DEF ReadField, Special
    <2>5. Understood(kind, version, f, spec[f]) = spec[f]
      <3>1. f = "no_server_endpoint" => ~(version < V1_5)
        BY <1>1 DEF Since
      <3>2. QED
        BY <1>1, <1>3, <3>1 DEF Understood, Special
    <2>6. QED
      BY <2>3, <2>4, <2>5
  <1>4. CASE f = "outformat"
    <2>1. Held(ws, 108, 4, spec["outformat"] * ByteTo[3], 1)
      BY DEF Carried
    <2>2. spec["outformat"] \in 0 .. Byte - 1
      BY <1>2, <1>4, ByteToSizes DEF Width
    <2>3. Get(ws, 108, 1) = spec["outformat"]
      BY <1>1, <2>1, <2>2, OutformatReads
    <2>4. ReadField(ws, version, kind, f) = Get(ws, 108, 1)
      BY <1>1, <1>4 DEF ReadField, Offset, Width
    <2>5. QED
      BY <1>4, <2>3, <2>4 DEF Understood
  <1>5. CASE f = "udp"
    <2>1. kind = "throughput"
      BY <1>5 DEF Fields, Common, Kinds
    <2>2. spec["udp"] \in {0, 1}
      BY <1>5 DEF SpecFits, Booleans
    <2>3. Held(ws, 1, 1, 1 + Nibble * spec["udp"], 1)
      BY <2>1 DEF Carried
    <2>4. At(ws, 1) = 1 + Nibble * spec["udp"]
      BY <1>1, <2>2, <2>3, FirstByte, HeldByte
    <2>5. ReadField(ws, version, kind, f) = At(ws, 1) \div Nibble
      BY <1>1, <1>5 DEF ReadField
    <2>6. ReadField(ws, version, kind, f) = spec["udp"]
      BY <2>2, <2>4, <2>5, FirstByte
    <2>7. QED
      BY <1>5, <2>6 DEF Understood
  <1>6. CASE f = "bandwidth"
    <2> DEFINE n == spec["bandwidth"]
               e == BandwidthExp(n)
    <2>1. kind = "throughput"
      BY <1>6 DEF Fields, Common, Kinds
    <2>2. n \in Nat /\ n < TwoTo[MaxExp] * ByteTo[4]
      BY <2>1 DEF SpecFits
    <2>3. Held(ws, 76, 4, n \div TwoTo[e], 4) /\ Held(ws, 109, 1, e, 1)
      BY <2>1 DEF Carried
    <2> HIDE DEF n
    <2>4. e \in 0 .. MaxExp /\ e < Byte /\ n \div TwoTo[e] \in 0 .. ByteTo[4] - 1
      BY <2>2, BandwidthExpFacts
    <2>5. e \in 0 .. Byte - 1 /\ TwoTo[e] \in Nat \ {0}
      BY <2>4, TwoToFacts, ByteToFacts
    <2> HIDE DEF e
    <2>6. Get(ws, 76, 4) = n \div TwoTo[e]
      BY <1>1, <2>3, <2>4, HeldReads
    <2>7. At(ws, 109) = e
      BY <1>1, <2>3, <2>5, HeldByte
    <2>8. ReadField(ws, version, kind, f) = Get(ws, 76, 4) * TwoTo[At(ws, 109)]
      BY <1>1, <1>6 DEF ReadField
    <2>9. ReadField(ws, version, kind, f) = (n \div TwoTo[e]) * TwoTo[e]
      BY <2>6, <2>7, <2>8
    <2>10. (n \div TwoTo[e]) * TwoTo[e] = n - (n % TwoTo[e])
      <3> DEFINE d == TwoTo[e]
      <3>1. d \in Nat \ {0}
        BY <2>5
      <3> HIDE DEF d
      <3>2. (n \div d) * d = n - (n % d)
        BY <2>2, <3>1, DividedBack
      <3>3. QED
        BY <3>2 DEF d
    <2>11. QED
      BY <1>6, <2>9, <2>10 DEF Understood, n, e
  <1>7. CASE f = "report_interval"
    <2> DEFINE n == spec["report_interval"]
    <2>1. kind = "throughput"
      BY <1>7 DEF Fields, Common, Kinds
    <2>2. n \in Nat /\ n < ByteTo[4]
      BY <1>2, <1>7, ByteToFacts, ByteToSizes DEF Width
    <2>3. Held(ws, 88, 4, n \div (IF version >= V1_5 THEN 1 ELSE Second), 4)
      BY <2>1 DEF Carried
    <2>4. CASE version < V1_5
      <3>1. Held(ws, 88, 4, n \div Second, 4) /\ Second \in Nat \ {0}
        BY <2>3, <2>4, TestOptionsAssumption DEF V1_5
      <3>2. n \div Second \in 0 .. ByteTo[4] - 1
        <4>1. n \div Second \in Nat /\ n \div Second <= n
          BY <2>2, <3>1, QuotientSmaller
        <4>2. QED
          BY <2>2, <4>1, ByteToFacts
      <3>3. Get(ws, 88, 4) = n \div Second
        BY <1>1, <3>1, <3>2, HeldReads
      <3>4. ReadField(ws, version, kind, f) = Get(ws, 88, 4) * Second
        BY <1>1, <1>7, <2>4 DEF ReadField
      <3>5. ReadField(ws, version, kind, f) = n - (n % Second)
        BY <2>2, <3>1, <3>3, <3>4, DividedBack
      <3>6. QED
        BY <1>7, <2>4, <3>5 DEF Understood
    <2>5. CASE ~(version < V1_5)
      <3>1. version >= V1_5 /\ n \div 1 = n /\ n \in 0 .. ByteTo[4] - 1
        BY <2>2, <2>5, ByteToFacts DEF V1_5
      <3>2. Held(ws, 88, 4, n, 4)
        BY <2>3, <3>1
      <3>3. Get(ws, 88, 4) = n
        BY <1>1, <3>1, <3>2, HeldReads
      <3>4. ReadField(ws, version, kind, f) = Get(ws, 88, 4) * 1
        BY <1>1, <1>7, <2>5 DEF ReadField
      <3>5. ReadField(ws, version, kind, f) = n
        BY <2>2, <3>3, <3>4
      <3>6. QED
        BY <1>7, <2>5, <3>5 DEF Understood
    <2>6. QED
      BY <2>4, <2>5
  <1>8. QED
    BY <1>3, <1>4, <1>5, <1>6, <1>7 DEF Special

\* The server reads the test that was sent to it, of the kind that it is.
LEMMA TestRead ==
  ASSUME NEW kind \in Kinds, NEW spec, SpecFits(kind, spec), NEW version \in 1 .. MSS,
         NEW confClient, ~ Unsupported(kind, version, confClient, spec),
         NEW ws, Carried(kind, version, spec, ws)
  PROVE  ReadSpec(ws, version) =
           [kind |-> kind, ipvn |-> 1,
            spec |-> [f \in Fields(kind) |-> Understood(kind, version, f, spec[f])]]
  <1>1. ws \in Seq(Write) /\ Clear(ws, 112, 16) /\ Held(ws, 96, 4, ToolId[kind], 4)
    BY DEF Carried
  <1>2. version >= ToolNegotiation /\ ~(version < ToolNegotiation)
    BY DEF ToolNegotiation, MSS
  <1>3. Padded(ws, version)
    <2>1. ASSUME NEW i \in 112 .. 127 PROVE At(ws, i) = 0
      <3>1. i \in 112 .. 112 + 16 - 1
        OBVIOUS
      <3>2. QED
        BY <1>1, <3>1, ClearIsZero
    <2>2. 112 + 15 = 127
      OBVIOUS
    <2>3. QED
      BY <1>2, <2>1, <2>2 DEF Padded
  <1>4. Get(ws, 96, 4) = ToolId[kind]
    <2>1. ToolId[kind] \in 0 .. 255
      BY DEF ToolId, Kinds
    <2>2. ToolId[kind] \in 0 .. ByteTo[4] - 1
      <3>1. ByteTo[4] \in Nat /\ ByteTo[4] >= 256
        BY ByteToFacts, ByteToSizes
      <3>2. QED
        BY <2>1, <3>1
    <2>3. QED
      BY <1>1, <2>2, HeldReads
  <1>5. KindOf(ToolId[kind]) = kind
    <2>1. \A k \in Kinds : ToolId[k] = ToolId[kind] => k = kind
      BY DEF ToolId, Kinds
    <2>2. QED
      BY <2>1 DEF KindOf
  <1>6. At(ws, 1) % Nibble = 1
    <2>1. CASE kind = "throughput"
      <3>1. spec["udp"] \in {0, 1}
        BY <2>1 DEF SpecFits, Booleans, Fields
      <3>2. Held(ws, 1, 1, 1 + Nibble * spec["udp"], 1)
        BY <2>1 DEF Carried
      <3>3. QED
        BY <1>1, <3>1, <3>2, FirstByte, HeldByte
    <2>2. CASE kind # "throughput"
      <3>1. Held(ws, 1, 1, 1 + 0, 1)
        BY <2>2 DEF Carried
      <3>2. 1 + 0 = 1 /\ 1 \in 0 .. Byte - 1
        BY ByteToFacts
      <3>3. At(ws, 1) = 1
        BY <1>1, <3>1, <3>2, HeldByte
      <3>4. 1 % Nibble = 1
        <4>1. Nibble \in Nat \ {0} /\ 1 \in 0 .. Nibble - 1
          BY ByteToFacts
        <4>2. QED
          BY <4>1, SmallDivided
      <3>5. QED
        BY <3>3, <3>4
    <2>3. QED
      BY <2>1, <2>2
  <1>7. ASSUME NEW f \in Fields(kind)
        PROVE  ReadField(ws, version, kind, f) = Understood(kind, version, f, spec[f])
    <2>1. version < Since(kind, f) \/ version >= Since(kind, f)
      BY DEF Since, Omit, V1_5, V1_5_2, ToolNegotiation, MSS
    <2>2. QED
      BY <2>1, UnreadFields, ReadFields
  <1>8. [f \in Fields(kind) |-> ReadField(ws, version, kind, f)] =
          [f \in Fields(kind) |-> Understood(kind, version, f, spec[f])]
    BY <1>7
  <1>9. QED
    BY <1>2, <1>3, <1>4, <1>5, <1>6, <1>8 DEF ReadSpec

\* A number that is put into a variable fits into its bytes.
LEMMA AssignedFits ==
  ASSUME NEW kind \in Kinds, NEW f \in Fields(kind) \ {"bandwidth"}, NEW n \in Nat,
         OptionOK(f, n)
  PROVE  /\ Assigned(f, n) \in 0 .. ByteTo[Width(f)] - 1
         /\ f \in Booleans => Assigned(f, n) \in {0, 1}
  <1>1. Width(f) \in {1, 2, 4} /\ ByteTo[Width(f)] \in Nat \ {0}
    <2>1. Width(f) \in {1, 2, 4}
      BY DEF Width
    <2>2. QED
      BY <2>1, ByteToFacts
  <1>2. CASE f \in Unchecked
    <2>1. f \notin Booleans /\ Assigned(f, n) = n % ByteTo[Width(f)]
      BY <1>2 DEF Unchecked, Booleans, Assigned
    <2> DEFINE d == ByteTo[Width(f)]
    <2>2. d \in Nat \ {0}
      BY <1>1
    <2> HIDE DEF d
    <2>3. n % d \in 0 .. d - 1
      BY <2>2, Division
    <2>4. QED
      BY <2>1, <2>3 DEF d
  <1>3. CASE f \notin Unchecked
    <2>1. Assigned(f, n) = n
      BY <1>3 DEF Assigned
    <2>2. f \in Booleans \cup {"tos", "outformat", "len_buffer", "window_size", "units", "mss",
                              "traceroute_first_ttl", "traceroute_last_ttl"}
      BY <1>3 DEF Unchecked, Fields, Common, Kinds, Booleans
    <2>3. CASE f \in Booleans
      <3>1. n \in {0, 1}
        BY <2>3 DEF OptionOK, Booleans
      <3>2. Width(f) = 1
        BY <2>3 DEF Width, Booleans
      <3>3. 0 \in 0 .. ByteTo[1] - 1 /\ 1 \in 0 .. ByteTo[1] - 1
        BY ByteToFacts, ByteToSizes
      <3>4. QED
        BY <2>1, <3>1, <3>2, <3>3
    <2>4. CASE f \in {"tos", "outformat", "units", "traceroute_first_ttl", "traceroute_last_ttl"}
      <3>1. n < Byte
        BY <2>4 DEF OptionOK, Booleans
      <3>2. Width(f) = 1 /\ f \notin Booleans
        BY <2>4 DEF Width, Booleans
      <3>3. n \in 0 .. ByteTo[1] - 1
        BY <3>1, ByteToFacts, ByteToSizes
      <3>4. QED
        BY <2>1, <3>2, <3>3
    <2>5. CASE f \in {"len_buffer", "window_size"}
      <3>1. n < ByteTo[4]
        BY <2>5 DEF OptionOK, Booleans
      <3>2. Width(f) = 4 /\ f \notin Booleans
        BY <2>5 DEF Width, Booleans
      <3>3. n \in 0 .. ByteTo[4] - 1
        BY <3>1, ByteToFacts
      <3>4. QED
        BY <2>1, <3>2, <3>3
    <2>6. CASE f = "mss"
      <3>1. n = 0 \/ n \in MinMSS .. MaxMSS
        BY <2>6 DEF OptionOK, Booleans
      <3>2. Width(f) = 2 /\ f \notin Booleans
        BY <2>6 DEF Width, Booleans
      <3>3. n \in 0 .. ByteTo[2] - 1
        BY <3>1, TestOptionsAssumption, ByteToFacts
      <3>4. QED
        BY <2>1, <3>2, <3>3
    <2>7. QED
      BY <2>2, <2>3, <2>4, <2>5, <2>6
  <1>4. QED
    BY <1>2, <1>3

\* The duration that bwctl works out for a ping test fits.
LEMMA PingDuration ==
  ASSUME NEW count \in 0 .. ByteTo[2] - 1, NEW time \in 0 .. ByteTo[2] - 1
  PROVE  (count * time) \div Second + 5 \in 0 .. ByteTo[4] - 1
  <1> DEFINE m == ByteTo[2]
             q == (count * time) \div Second
             p == count * time
  <1>1. m \in Nat /\ m >= 16 /\ ByteTo[4] = m * m /\ ByteTo[4] >= 256 /\ ByteTo[4] \in Nat
    BY ByteToFacts, ByteToSizes
  <1>2. Second \in Nat \ {0, 1}
    BY TestOptionsAssumption
  <1>3. count \in Nat /\ time \in Nat /\ count < m /\ time < m
    BY <1>1
  <1> HIDE DEF m
  <1>4. p \in Nat /\ p <= m * m
    <2>1. count * time \in Nat
      BY <1>3, Products
    <2>2. count * time + time <= m * time
      BY <1>1, <1>3, ProductsOrder
    <2>3. time * m + m <= m * m
      BY <1>1, <1>3, ProductsOrder
    <2>4. m * time = time * m /\ time * m \in Nat /\ m * m \in Nat
      BY <1>1, <1>3, Products
    <2>5. QED
      BY <1>1, <1>3, <2>1, <2>2, <2>3, <2>4
  <1>5. q = p \div Second
    OBVIOUS
  <1> HIDE DEF p, q
  <1>6. q \in Nat /\ 2 * q <= p
    BY <1>2, <1>4, <1>5, QuotientSmaller
  <1>7. q + 5 < ByteTo[4]
    BY <1>1, <1>4, <1>6
  <1>8. q + 5 \in 0 .. ByteTo[4] - 1
    BY <1>1, <1>6, <1>7
  <1>9. QED
    BY <1>8 DEF q

\* The fields of a test fit, whatever options of the command line it is from.
LEMMA TestSpecFits ==
  ASSUME NEW kind \in Kinds, NEW o \in [Fields(kind) -> Nat],
         \A f \in Fields(kind) : OptionOK(f, o[f])
  PROVE  SpecFits(kind, TestSpec(kind, o))
  <1> DEFINE a == [f \in Fields(kind) |-> Assigned(f, o[f])]
             spec == Defaults(kind, a)
  <1>1. \A f \in Fields(kind) \ {"bandwidth"} : a[f] \in 0 .. ByteTo[Width(f)] - 1
    BY AssignedFits
  <1>2. \A f \in Fields(kind) \cap Booleans : a[f] \in {0, 1}
    BY AssignedFits DEF Booleans
  <1>3. kind = "throughput" =>
          a["bandwidth"] \in Nat /\ a["bandwidth"] < TwoTo[MaxExp] * ByteTo[4]
    <2>1. "bandwidth" \notin Unchecked /\ "bandwidth" \notin Booleans
      BY DEF Unchecked, Booleans
    <2>2. kind = "throughput" => "bandwidth" \in Fields(kind)
      BY DEF Fields
    <2>3. \A n : OptionOK("bandwidth", n) => n < TwoTo[MaxExp] * ByteTo[4]
      BY <2>1 DEF OptionOK
    <2>4. \A n : Assigned("bandwidth", n) = n
      BY <2>1 DEF Assigned
    <2>5. QED
      BY <2>2, <2>3, <2>4
  <1>4. "duration" \in Fields(kind) \ {"bandwidth"} /\ "duration" \notin Booleans
        /\ Width("duration") = 4
    BY DEF Fields, Common, Booleans, Width
  <1>5. DefDuration \in 0 .. ByteTo[4] - 1
    BY TestOptionsAssumption, ByteToFacts
  <1>6. TestSpec(kind, o) = spec
    BY DEF TestSpec
  <1>7. DOMAIN a = Fields(kind)
    OBVIOUS
  <1> HIDE DEF a
  <1>8. CASE kind = "throughput"
    <2> DEFINE duration == IF a["duration"] = 0 THEN DefDuration ELSE a["duration"]
               bandwidth == IF a["bandwidth"] = 0 /\ a["udp"] = 1 THEN DefUDPRate
                            ELSE a["bandwidth"]
    <2>1. spec = [a EXCEPT !["duration"] = duration, !["bandwidth"] = bandwidth]
      BY <1>8 DEF Defaults
    <2>2. duration \in 0 .. ByteTo[4] - 1
      BY <1>1, <1>4, <1>5
    <2>3. bandwidth \in Nat /\ bandwidth < TwoTo[MaxExp] * ByteTo[4]
      BY <1>3, <1>8, TestOptionsAssumption
    <2>4. "bandwidth" \in Fields(kind) /\ "bandwidth" \notin Booleans
      BY <1>8 DEF Fields, Booleans
    <2> HIDE DEF duration, bandwidth, spec
    <2>5. /\ spec["duration"] = duration /\ spec["bandwidth"] = bandwidth
          /\ \A f \in Fields(kind) \ {"duration", "bandwidth"} : spec[f] = a[f]
      BY <1>4, <1>7, <2>1, <2>4
    <2>6. \A f \in Fields(kind) \ {"bandwidth"} : spec[f] \in 0 .. ByteTo[Width(f)] - 1
      BY <1>1, <1>4, <2>2, <2>5
    <2>7. \A f \in Fields(kind) \cap Booleans : spec[f] \in {0, 1}
      BY <1>2, <1>4, <2>4, <2>5
    <2>8. QED
      BY <1>6, <2>3, <2>5, <2>6, <2>7 DEF SpecFits
  <1>9. CASE kind = "traceroute"
    <2> DEFINE duration == IF a["duration"] = 0 THEN DefDuration ELSE a["duration"]
    <2>1. spec = [a EXCEPT !["duration"] = duration]
      BY <1>9 DEF Defaults
    <2>2. duration \in 0 .. ByteTo[4] - 1
      BY <1>1, <1>4, <1>5
    <2> HIDE DEF duration, spec
    <2>3. spec["duration"] = duration /\ \A f \in Fields(kind) \ {"duration"} : spec[f] = a[f]
      BY <1>4, <1>7, <2>1
    <2>4. \A f \in Fields(kind) \ {"bandwidth"} : spec[f] \in 0 .. ByteTo[Width(f)] - 1
      BY <1>1, <1>4, <2>2, <2>3
    <2>5. \A f \in Fields(kind) \cap Booleans : spec[f] \in {0, 1}
      BY <1>2, <1>4, <2>3
    <2>6. QED
      BY <1>6, <1>9, <2>4, <2>5 DEF SpecFits
  <1>10. CASE kind = "ping"
    <2> DEFINE count == IF a["ping_packet_count"] = 0 THEN 10 ELSE a["ping_packet_count"]
               time == IF a["ping_interpacket_time"] = 0 THEN Second
                       ELSE a["ping_interpacket_time"]
               duration == (count * time) \div Second + 5
               own == {"ping_packet_count", "ping_interpacket_time", "duration"}
    <2>1. spec = [a EXCEPT !["ping_packet_count"] = count, !["ping_interpacket_time"] = time,
                           !["duration"] = duration]
      BY <1>10 DEF Defaults
    <2>2. /\ own \subseteq Fields(kind) \ {"bandwidth"} /\ own \cap Booleans = {}
          /\ Width("ping_packet_count") = 2 /\ Width("ping_interpacket_time") = 2
      BY <1>10 DEF Fields, Common, Booleans, Width
    <2>3. count \in 0 .. ByteTo[2] - 1 /\ time \in 0 .. ByteTo[2] - 1
      <3>1. a["ping_packet_count"] \in 0 .. ByteTo[2] - 1
        BY <1>1, <2>2
      <3>2. a["ping_interpacket_time"] \in 0 .. ByteTo[2] - 1
        BY <1>1, <2>2
      <3>3. 10 \in 0 .. ByteTo[2] - 1 /\ Second \in 0 .. ByteTo[2] - 1
        BY TestOptionsAssumption, ByteToFacts, ByteToSizes
      <3>4. QED
        BY <3>1, <3>2, <3>3
    <2> HIDE DEF count, time
    <2>4. duration \in 0 .. ByteTo[4] - 1
      BY <2>3, PingDuration
    <2> HIDE DEF duration, spec
    <2>5. /\ spec["ping_packet_count"] = count /\ spec["ping_interpacket_time"] = time
          /\ spec["duration"] = duration
          /\ \A f \in Fields(kind) \ own : spec[f] = a[f]
      BY <1>7, <2>1, <2>2
    <2>6. \A f \in Fields(kind) \ {"bandwidth"} : spec[f] \in 0 .. ByteTo[Width(f)] - 1
      BY <1>1, <1>4, <2>2, <2>3, <2>4, <2>5
    <2>7. \A f \in Fields(kind) \cap Booleans : spec[f] \in {0, 1}
      BY <1>2, <2>2, <2>5
    <2>8. QED
      BY <1>6, <1>10, <2>6, <2>7 DEF SpecFits
  <1>11. QED
    BY <1>8, <1>9, <1>10 DEF Kinds

\* Whatever options are given, a server since version 1 reads from the request
\* what bwctl asks for, or bwctl says that this server cannot.
LEMMA OptionsArrive ==
  ASSUME NEW kind \in Kinds, NEW version \in 1 .. MSS, NEW o \in Given[kind], NEW confClient
  PROVE  LET spec == TestSpec(kind, o) IN
         ~ Unsupported(kind, version, confClient, spec) =>
           ReadSpec(Writes(kind, version, spec, 1), version) =
             [kind |-> kind, ipvn |-> 1,
              spec |-> [f \in Fields(kind) |-> Understood(kind, version, f, spec[f])]]
  <1> DEFINE spec == TestSpec(kind, o)
  <1>1. SpecFits(kind, spec)
    BY GivenAssumption, TestSpecFits
  <1> HIDE DEF spec
  <1>2. Carried(kind, version, spec, Writes(kind, version, spec, 1))
    BY <1>1, PingCarried, TracerouteCarried, ThroughputCarried DEF Kinds
  <1>3. ~ Unsupported(kind, version, confClient, spec) =>
           ReadSpec(Writes(kind, version, spec, 1), version) =
             [kind |-> kind, ipvn |-> 1,
              spec |-> [f \in Fields(kind) |-> Understood(kind, version, f, spec[f])]]
    BY <1>1, <1>2, TestRead
  <1>4. QED
    BY <1>3 DEF spec

\* Whatever the options and whatever the version of the server, from 1 on, what a
\* user asks for is what the server reads, or bwctl says that this server cannot.
THEOREM RequestArrivesCorrect == Spec => []RequestArrives
  <1>1. RequestArrives
    <2>1. \A version \in Versions \ {0} : version \in 1 .. MSS
      BY DEF Versions, MSS
    <2>2. QED
      BY <2>1, OptionsArrive, Zenon DEF RequestArrives
  <1>2. QED
    BY <1>1, PTL
=============================================================================
