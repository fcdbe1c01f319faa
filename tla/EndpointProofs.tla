--------------------------- MODULE EndpointProofs ---------------------------
(***************************************************************************)
(* Theorems about Endpoint, for any number of faults: no tool is left      *)
(* behind, what is traded is final, the verdicts agree and a success is    *)
(* earned.  They follow from one inductive invariant, which says for each  *)
(* place of an endpoint how much of its state is settled there.            *)
(***************************************************************************)
EXTENDS Endpoint, TLAPS

\* The places up to the exchange of times, those up to the look at the tool, and
\* those in which results are traded.
BeforeFork == {"start", "opening", "open", "opened"}
BeforeTest == BeforeFork \cup {"forked", "syncing", "sync"}
BeforeStatus == BeforeTest \cup {"waiting", "selecting", "select", "woken", "status"}
AfterWrite == {"traded", "trading", "select2", "read"}
Trade == {"write"} \cup AfterWrite
Places == BeforeStatus \cup Trade \cup {"end", "stopping", "exited"}

Values == {Accept, Reject, Failure}
Ends == {"ok", "failed", "signalled"}

TypeOK ==
  /\ alone \in BOOLEAN /\ cut \in BOOLEAN
  /\ pc \in [Endpoints -> Places]
  /\ ipf \in [Endpoints -> SUBSET {"term", "chld", "intr"}]
  /\ timer \in [Endpoints -> BOOLEAN]
  /\ rc \in [Endpoints -> {-1, 0, 1}]
  /\ rcntrl \in [Endpoints -> BOOLEAN] /\ adopted \in [Endpoints -> BOOLEAN]
  /\ tool \in [Endpoints -> {"none"} \cup Live \cup Ends]
  /\ termed \in [Endpoints -> BOOLEAN] /\ killed \in [Endpoints -> BOOLEAN]
  /\ acceptval \in [Endpoints -> Values \cup {Invalid}]
  /\ stop \in [Endpoints -> Values \cup {Invalid}]
  /\ aval \in [Endpoints -> Values]
  /\ status \in [Endpoints -> Values \cup {Invalid}]

\* The connection: there from the open on, and adopted only after the clocks
\* have been compared over it.
Connected(e) ==
  /\ pc[e] \in {"opening", "open", "syncing", "sync"} => ~alone
  /\ pc[e] \in {"opened", "forked", "syncing", "sync"} /\ ~alone => rcntrl[e]
  /\ pc[e] \in BeforeTest => ~adopted[e]
  /\ adopted[e] => rcntrl[e]

\* The tool: none before the fork, and dead once its end is known; the value
\* that is known of it tells how it ended.
ToolKnown(e) ==
  /\ pc[e] \in BeforeFork => tool[e] = "none"
  /\ pc[e] \in BeforeStatus => acceptval[e] = Invalid
  /\ pc[e] \in Trade => acceptval[e] # Invalid
  /\ acceptval[e] # Invalid => tool[e] \notin Live
  /\ acceptval[e] = Accept => tool[e] = "ok"
  /\ acceptval[e] = Reject => killed[e]
  /\ pc[e] = "exited" /\ adopted[e] => tool[e] \notin Live

\* The results: what is written is what is known, what is read is what the peer
\* has written, and the exit value of an endpoint that has written is the
\* conjunction of the two.
ResultsKnown(e) ==
  /\ pc[e] \in BeforeStatus \cup {"write"} => stop[e] = Invalid
  /\ stop[e] # Invalid => stop[e] = acceptval[e]
  /\ aval[e] # Failure => acceptval[e] # Invalid /\ aval[e] = stop[Peer(e)]
  /\ status[e] # Invalid => pc[e] = "exited"
  /\ status[e] # Invalid =>
       \/ status[e] = Failure /\ stop[e] = Invalid
       \/ status[e] = And(aval[e], acceptval[e])

IInv ==
  /\ TypeOK
  /\ \A e \in Endpoints : Connected(e) /\ ToolKnown(e) /\ ResultsKnown(e)

-----------------------------------------------------------------------------
(***************************************************************************)
(* The invariant is inductive: one lemma per action.                       *)
(***************************************************************************)

USE DEF Endpoints, Peer, Invalid, Accept, Reject, Failure, Values, Ends, Live,
        Places, BeforeStatus, BeforeTest, BeforeFork, Trade, AfterWrite

LEMMA InitInv == Init => IInv
  <1> SUFFICES ASSUME Init PROVE IInv
      OBVIOUS
  <1>1. TypeOK
    <2>1. pc \in [Endpoints -> Places]
      BY DEF Init
    <2>2. QED
      BY <2>1 DEF Init, TypeOK, InitialAval
  <1>2. ASSUME NEW e \in Endpoints PROVE Connected(e) /\ ToolKnown(e) /\ ResultsKnown(e)
    <2>1. pc[e] \in {"start", "exited"} /\ stop[e] = Invalid /\ status[e] = Invalid
      BY DEF Init
    <2>2. QED
      BY <2>1 DEF Init, Connected, ToolKnown, ResultsKnown, InitialAval
  <1>3. QED
    BY <1>1, <1>2 DEF IInv

(***************************************************************************)
(* The steps for which the definitions of the parts are all that is needed.*)
(***************************************************************************)

USE DEF IInv, TypeOK, Connected, ToolKnown, ResultsKnown, And, world, process,
        peering, tools, wire

LEMMA EnterOpenInv == ASSUME IInv, NEW e \in Endpoints, EnterOpen(e) PROVE IInv'
  BY DEF EnterOpen, Goto

LEMMA OpenInv == ASSUME IInv, NEW e \in Endpoints, Open(e) PROVE IInv'
  BY DEF Open, Goto

LEMMA OpenFailsInv == ASSUME IInv, NEW e \in Endpoints, OpenFails(e) PROVE IInv'
  BY DEF OpenFails, Goto

LEMMA ForkInv == ASSUME IInv, NEW e \in Endpoints, Fork(e) PROVE IInv'
  BY DEF Fork, Goto

LEMMA EnterSyncInv == ASSUME IInv, NEW e \in Endpoints, EnterSync(e) PROVE IInv'
  BY DEF EnterSync, Goto

LEMMA TimeRequestInv == ASSUME IInv, NEW e \in Endpoints, TimeRequest(e) PROVE IInv'
  BY DEF TimeRequest, Goto, Adopt

LEMMA TimeCheckInv == ASSUME IInv, NEW e \in Endpoints, TimeCheck(e) PROVE IInv'
  BY DEF TimeCheck, Adopt

LEMMA SyncFailsInv == ASSUME IInv, NEW e \in Endpoints, SyncFails(e) PROVE IInv'
  BY DEF SyncFails, Goto

LEMMA WaitingInv == ASSUME IInv, NEW e \in Endpoints, Waiting(e) PROVE IInv'
  BY DEF Waiting, Goto

LEMMA EnterSelectInv == ASSUME IInv, NEW e \in Endpoints, EnterSelect(e) PROVE IInv'
  BY DEF EnterSelect, Goto

LEMMA SelectReadyInv == ASSUME IInv, NEW e \in Endpoints, SelectReady(e) PROVE IInv'
  BY DEF SelectReady

LEMMA WriteInv == ASSUME IInv, NEW e \in Endpoints, Write(e) PROVE IInv'
  BY DEF Write, Goto

LEMMA WriteFailsInv == ASSUME IInv, NEW e \in Endpoints, WriteFails(e) PROVE IInv'
  BY DEF WriteFails, Goto

LEMMA TradedInv == ASSUME IInv, NEW e \in Endpoints, Traded(e) PROVE IInv'
  BY DEF Traded

LEMMA ReadInv == ASSUME IInv, NEW e \in Endpoints, Read(e) PROVE IInv'
  BY DEF Read, Goto

LEMMA StoppedInv == ASSUME IInv, NEW e \in Endpoints, Stopped(e) PROVE IInv'
  BY DEF Stopped, Exit

LEMMA AlarmInv == ASSUME IInv, NEW e \in Endpoints, Alarm(e) PROVE IInv'
  BY DEF Alarm, sig_catch, Interrupted

LEMMA TerminateInv == ASSUME IInv, NEW e \in Endpoints, Terminate(e) PROVE IInv'
  BY DEF Terminate, sig_catch, Interrupted

LEMMA RunToolInv == ASSUME IInv, NEW e \in Endpoints, RunTool(e) PROVE IInv'
  BY DEF RunTool

LEMMA CutInv == ASSUME IInv, Cut PROVE IInv'
  BY DEF Cut

LEMMA StutterInv == ASSUME IInv, UNCHANGED vars PROVE IInv'
  BY DEF vars

HIDE DEF IInv, TypeOK, Connected, ToolKnown, ResultsKnown, And, world, process,
         peering, tools, wire

-----------------------------------------------------------------------------
(***************************************************************************)
(* The steps that need an argument.                                        *)
(***************************************************************************)

LEMMA StartInv == ASSUME IInv, NEW e \in Endpoints, Start(e) PROVE IInv'
  <1>1. CASE Exit(e, Failure)
    BY <1>1 DEF Start, Exit, IInv, TypeOK, Connected, ToolKnown, ResultsKnown, And,
                world, process, peering, tools, wire
  <1>2. CASE Goto(e, "end")
    BY <1>2 DEF Start, Goto, IInv, TypeOK, Connected, ToolKnown, ResultsKnown, And,
                world, process, peering, tools, wire
  <1>3. CASE SetTimer(e, IF alone THEN "opened" ELSE "opening")
    BY <1>3 DEF Start, SetTimer, IInv, TypeOK, Connected, ToolKnown, ResultsKnown, And,
                world, process, peering, tools, wire
  <1>4. QED
    BY <1>1, <1>2, <1>3 DEF Start

LEMMA NoForkInv == ASSUME IInv, NEW e \in Endpoints, NoFork(e) PROVE IInv'
  <1>1. CASE Goto(e, "end")
    BY <1>1 DEF NoFork, Goto, IInv, TypeOK, Connected, ToolKnown, ResultsKnown, And,
                world, process, peering, tools, wire
  <1>2. CASE Exit(e, Failure)
    BY <1>2 DEF NoFork, Exit, IInv, TypeOK, Connected, ToolKnown, ResultsKnown, And,
                world, process, peering, tools, wire
  <1>3. QED
    BY <1>1, <1>2 DEF NoFork

LEMMA ForkedInv == ASSUME IInv, NEW e \in Endpoints, Forked(e) PROVE IInv'
  <1>1. CASE Goto(e, "end")
    BY <1>1 DEF Forked, Goto, IInv, TypeOK, Connected, ToolKnown, ResultsKnown, And,
                world, process, peering, tools, wire
  <1>2. CASE SetTimer(e, IF alone THEN "waiting" ELSE "syncing")
    BY <1>2 DEF Forked, SetTimer, IInv, TypeOK, Connected, ToolKnown, ResultsKnown, And,
                world, process, peering, tools, wire
  <1>3. QED
    BY <1>1, <1>2 DEF Forked

\* A SIGTERM to the tool changes no more than the two flags.
LEMMA TermToolFlags ==
  ASSUME IInv, NEW e \in Endpoints, TermTool(e)
  PROVE  /\ termed' \in [Endpoints -> BOOLEAN] /\ killed' \in [Endpoints -> BOOLEAN]
         /\ \A f \in Endpoints : killed[f] => killed'[f]
  <1>1. termed \in [Endpoints -> BOOLEAN] /\ killed \in [Endpoints -> BOOLEAN]
    BY DEF IInv, TypeOK
  <1>2. killed' = [killed EXCEPT ![e] = TRUE]
    BY DEF TermTool
  <1>3. termed' = termed \/ termed' = [termed EXCEPT ![e] = TRUE]
    BY DEF TermTool
  <1>4. QED
    BY <1>1, <1>2, <1>3

LEMMA WokenInv == ASSUME IInv, NEW e \in Endpoints, Woken(e) PROVE IInv'
  <1>1. /\ termed' \in [Endpoints -> BOOLEAN] /\ killed' \in [Endpoints -> BOOLEAN]
        /\ \A f \in Endpoints : killed[f] => killed'[f]
    <2>1. CASE TermTool(e)
      BY <2>1, TermToolFlags
    <2>2. CASE UNCHANGED <<termed, killed>>
      BY <2>2 DEF IInv, TypeOK
    <2>3. QED
      BY <2>1, <2>2 DEF Woken
  <1>2. QED
    BY <1>1 DEF Woken, IInv, TypeOK, Connected, ToolKnown, ResultsKnown, And, world,
                process, peering, tools, wire

LEMMA StatusInv == ASSUME IInv, NEW e \in Endpoints, Status(e) PROVE IInv'
  <1>1. CASE SetTimer(e, "write")
    BY <1>1 DEF Status, SetTimer, LookTwice, EndpointStatus, IInv, TypeOK, Connected,
                ToolKnown, ResultsKnown, And, world, process, peering, tools, wire
  <1>2. CASE Goto(e, "end")
    BY <1>2 DEF Status, Goto, LookTwice, EndpointStatus, IInv, TypeOK, Connected,
                ToolKnown, ResultsKnown, And, world, process, peering, tools, wire
  <1>3. QED
    BY <1>1, <1>2 DEF Status

LEMMA EndInv == ASSUME IInv, NEW e \in Endpoints, End(e) PROVE IInv'
  <1>1. CASE CloseStops(e)
    <2>1. TermTool(e) /\ Goto(e, "stopping")
      BY <1>1 DEF End
    <2>2. /\ termed' \in [Endpoints -> BOOLEAN] /\ killed' \in [Endpoints -> BOOLEAN]
          /\ \A f \in Endpoints : killed[f] => killed'[f]
      BY <2>1, TermToolFlags
    <2>3. QED
      BY <2>1, <2>2 DEF End, Goto, IInv, TypeOK, Connected, ToolKnown, ResultsKnown,
                        And, world, peering, wire
  <1>2. CASE ~CloseStops(e)
    <2>1. Exit(e, And(aval[e], acceptval[e])) /\ UNCHANGED <<termed, killed>>
      BY <1>2 DEF End
    <2>2. And(aval[e], acceptval[e]) \in Values
      BY DEF IInv, TypeOK, And
    <2>3. TypeOK'
      BY <2>1, <2>2 DEF End, Exit, IInv, TypeOK, world, peering, wire
    <2>4. adopted[e] => acceptval[e] # Invalid
      BY <1>2 DEF CloseStops, IInv, TypeOK, Connected
    <2>5. ASSUME NEW f \in Endpoints
          PROVE  (Connected(f) /\ ToolKnown(f) /\ ResultsKnown(f))'
      BY <2>1, <2>4 DEF End, Exit, IInv, TypeOK, Connected, ToolKnown, ResultsKnown,
                        And, world, peering, wire
    <2>6. QED
      BY <2>3, <2>5 DEF IInv
  <1>3. QED
    BY <1>1, <1>2

LEMMA ToolExitsInv == ASSUME IInv, NEW e \in Endpoints, ToolExits(e) PROVE IInv'
  <1>1. PICK end \in Ends : tool' = [tool EXCEPT ![e] = end]
    BY DEF ToolExits
  <1>2. CASE pc[e] = "exited"
    <2>1. UNCHANGED process
      BY <1>2 DEF ToolExits
    <2>2. QED
      BY <1>1, <2>1 DEF ToolExits, IInv, TypeOK, Connected, ToolKnown, ResultsKnown,
                        And, world, process, peering, wire
  <1>3. CASE pc[e] # "exited"
    <2>1. sig_catch(e, "chld") /\ UNCHANGED timer
      BY <1>3 DEF ToolExits
    <2>2. QED
      BY <1>1, <2>1 DEF ToolExits, sig_catch, Interrupted, IInv, TypeOK, Connected,
                        ToolKnown, ResultsKnown, And, world, peering, wire
  <1>4. QED
    BY <1>2, <1>3

LEMMA NextInv == IInv /\ [Next]_vars => IInv'
  <1> SUFFICES ASSUME IInv, [Next]_vars PROVE IInv'
      OBVIOUS
  <1>1. CASE UNCHANGED vars
    BY <1>1, StutterInv
  <1>2. CASE Cut
    BY <1>2, CutInv
  <1>3. ASSUME NEW e \in Endpoints, Step(e) PROVE IInv'
    BY <1>3, StartInv, EnterOpenInv, OpenInv, ForkInv, NoForkInv, ForkedInv,
       EnterSyncInv, TimeRequestInv, TimeCheckInv, SyncFailsInv, WaitingInv,
       EnterSelectInv, SelectReadyInv, WokenInv, StatusInv, WriteInv, WriteFailsInv,
       TradedInv, ReadInv, EndInv, StoppedInv
       DEF Step
  <1>4. ASSUME NEW e \in Endpoints, OpenFails(e) PROVE IInv'
    BY <1>4, OpenFailsInv
  <1>5. ASSUME NEW e \in Endpoints, Alarm(e) PROVE IInv'
    BY <1>5, AlarmInv
  <1>6. ASSUME NEW e \in Endpoints, Terminate(e) PROVE IInv'
    BY <1>6, TerminateInv
  <1>7. ASSUME NEW e \in Endpoints, RunTool(e) PROVE IInv'
    BY <1>7, RunToolInv
  <1>8. ASSUME NEW e \in Endpoints, ToolExits(e) PROVE IInv'
    BY <1>8, ToolExitsInv
  <1>9. QED
    BY <1>1, <1>2, <1>3, <1>4, <1>5, <1>6, <1>7, <1>8 DEF Next

LEMMA InvAlways == Spec => []IInv
  BY InitInv, NextInv, PTL DEF Spec

-----------------------------------------------------------------------------
(***************************************************************************)
(* The theorems.                                                           *)
(***************************************************************************)

\* Whatever ended its wait, an endpoint that had compared clocks with its peer
\* exits only when its tool is dead: it has looked at the tool itself, or the
\* close of the connection has stopped and awaited it (endpoint.c, sapi.c
\* BWLControlClose).
THEOREM NoToolLeftCorrect == Spec => []NoToolLeft
  <1>1. IInv => NoToolLeft
    BY DEF IInv, ToolKnown, NoToolLeft
  <1>2. QED
    BY <1>1, InvAlways, PTL

\* While results are traded the tool is dead and its end known: nothing that the
\* tool does later could make the StopSession message untrue.
THEOREM ResultsFinalCorrect == Spec => []ResultsFinal
  <1>1. IInv => ResultsFinal
    BY DEF IInv, ToolKnown, ResultsFinal
  <1>2. QED
    BY <1>1, InvAlways, PTL

\* Two endpoints that have heard each other exit with the same value, though each
\* computes it from its own copy of the two results (aval & acceptval).
THEOREM SameVerdictCorrect == Spec => []SameVerdict
  <1>1. ASSUME IInv PROVE SameVerdict
    <2> SUFFICES ASSUME \A e \in Endpoints : /\ status[e] # Invalid /\ stop[e] # Invalid
                                             /\ aval[e] = stop[Peer(e)]
                 PROVE  status["server"] = status["client"]
        BY DEF SameVerdict
    <2>1. ASSUME NEW e \in Endpoints
          PROVE  status[e] = And(stop[Peer(e)], stop[e]) /\ stop[e] \in Values
      BY <1>1 DEF IInv, TypeOK, ResultsKnown
    <2>2. And(stop["client"], stop["server"]) = And(stop["server"], stop["client"])
      BY <2>1 DEF And
    <2>3. QED
      BY <2>1, <2>2
  <1>2. QED
    BY <1>1, InvAlways, PTL

\* A test is called a success only if a tool has done well or had to be killed:
\* two values that are not Accept can give Accept (1 & 2 = 0), two failures
\* cannot, and neither can the failure that stands for a peer not heard of.
THEOREM SuccessEarnedCorrect == Spec => []SuccessEarned
  <1>1. ASSUME IInv PROVE SuccessEarned
    <2> SUFFICES ASSUME NEW e \in Endpoints, status[e] = Accept
                 PROVE  \E f \in Endpoints : tool[f] = "ok" \/ killed[f]
        BY DEF SuccessEarned
    <2>1. And(aval[e], acceptval[e]) = Accept
      BY <1>1 DEF IInv, ResultsKnown
    <2>2. CASE acceptval[e] \in {Accept, Reject}
      BY <1>1, <2>2 DEF IInv, ToolKnown
    <2>3. CASE acceptval[e] \notin {Accept, Reject}
      <3>1. aval[e] \in {Accept, Reject}
        BY <1>1, <2>1, <2>3 DEF IInv, TypeOK, And
      <3>2. acceptval[Peer(e)] \in {Accept, Reject}
        BY <1>1, <3>1 DEF IInv, ResultsKnown
      <3>3. QED
        BY <1>1, <3>2 DEF IInv, ToolKnown
    <2>4. QED
      BY <2>2, <2>3
  <1>2. QED
    BY <1>1, InvAlways, PTL
=============================================================================
