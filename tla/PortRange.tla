----------------------------- MODULE PortRange -----------------------------
(***************************************************************************)
(* Port ranges (bwlib/util.c) and the two that draw from them: the search  *)
(* for a listening port of an endpoint (epssock, bwlib/endpoint.c), and    *)
(* the daemon's choice of the ports of a tool (bwlib/tools.c, owamp.c).    *)
(* BWLPortsRange is high - low, so the high port is not part of the cycle: *)
(* it comes up only as the first one, for the largest random number.       *)
(***************************************************************************)
EXTENDS Integers

CONSTANTS
  Lows,      \* the low ports of the ranges
  MaxRange   \* the largest high - low, of each option

ASSUME RangeAssumption ==
  Lows \subseteq Nat /\ MaxRange \in [{"peer_port", "test_port"} -> Nat]

VARIABLES
  key,       \* the option the range belongs to: "peer_port" or "test_port"
  low, high, i,                  \* the range, and its next port
  pc,
  used,                          \* ports that are taken on this host
  port, p,                       \* epssock: the first port, and the one to try
  tried,                         \* history: ports that were taken when tried
  toolport, min_port, max_port,  \* the last three ports drawn for a tool
  given, before,                 \* the ports of the last test and, history, the one before
  result                         \* of the last search

prange == <<low, high, i>>
peer == <<port, p, tried>>
test == <<toolport, min_port, max_port, given, before>>
vars == <<key, prange, pc, used, peer, test, result>>

BWLPortsRange == high - low

\* BWLPortsSetI(prange, 0) leaves a random first port.
BWLPortsSetI(first) == first \in low .. low + BWLPortsRange

\* The port not moved on.
Stay(n) == n

\* What BWLPortsNext leaves as next port when it returns n.
After(n) == IF BWLPortsRange = 0 THEN n ELSE low + ((n - low + 1) % BWLPortsRange)

\* BWLPortsParse: a port, or low-high.
Init ==
  /\ key \in {"peer_port", "test_port"}
  /\ low \in Lows /\ high \in low .. low + MaxRange[key]
  /\ i \in low .. high
  /\ pc = "idle" /\ used = {} /\ result = "none"
  /\ port = 0 /\ p = 0 /\ tried = {}
  /\ toolport = 0 /\ min_port = 0 /\ max_port = 0
  /\ given = {} /\ before = {}

-----------------------------------------------------------------------------
(***************************************************************************)
(* epssock                                                                 *)
(***************************************************************************)

PeerFirst(first) ==
  /\ key = "peer_port" /\ pc = "idle"
  /\ BWLPortsSetI(first)
  /\ port' = first /\ p' = first /\ i' = After(first)
  /\ tried' = {} /\ pc' = "bind"
  /\ UNCHANGED <<key, low, high, used, test, result>>

Bind ==
  /\ pc = "bind" /\ p \notin used
  /\ used' = used \cup {p}
  /\ pc' = "idle" /\ result' = "bound"
  /\ UNCHANGED <<key, prange, peer, test>>

\* The end of the range for the end of the search.
StopAtLast(q) == q = high - 1
StopAtHigh(q) == q = high

\* The test at the foot of the loop.
SearchedAll(q) == q = port

\* EADDRINUSE
BindAgain ==
  /\ pc = "bind" /\ p \in used
  /\ tried' = tried \cup {p}
  /\ IF BWLPortsRange = 0
       THEN pc' = "idle" /\ result' = "full" /\ UNCHANGED <<p, i>>
       ELSE /\ p' = i /\ i' = After(i)
            /\ IF SearchedAll(p') THEN pc' = "idle" /\ result' = "full"
               ELSE UNCHANGED <<pc, result>>
  /\ UNCHANGED <<key, low, high, used, port, test>>

\* Any other error of bind().
BindFails ==
  /\ pc = "bind"
  /\ pc' = "idle" /\ result' = "error"
  /\ UNCHANGED <<key, prange, used, peer, test>>

\* Other programs, and endpoints that are done.
Taken(q) ==
  /\ key = "peer_port"
  /\ used' = IF q \in used THEN used \ {q} ELSE used \cup {q}
  /\ UNCHANGED <<key, prange, pc, peer, test, result>>

-----------------------------------------------------------------------------
(***************************************************************************)
(* BWLToolInitTest, called by the daemon for every new reservation.        *)
(***************************************************************************)

Give(ports) == given' = ports /\ before' = given

\* _BWLToolGenericInitTest
GenericInitTest ==
  /\ key = "test_port" /\ pc = "idle"
  /\ toolport' = i /\ i' = After(i)
  /\ Give({i}) /\ result' = "given"
  /\ UNCHANGED <<key, low, high, pc, used, peer, min_port, max_port>>

\* OwampInitTest draws a port as any tool, and three more.
OwampInitTest ==
  /\ key = "test_port" /\ pc = "idle"
  /\ toolport' = After(i)
  /\ min_port' = After(toolport') /\ max_port' = After(min_port')
  /\ i' = After(max_port')
  /\ pc' = "owamp"
  /\ UNCHANGED <<key, low, high, used, peer, given, before, result>>

Consecutive == min_port = toolport + 1 /\ max_port = min_port + 1

\* "handle the wraparound case"
OwampShift ==
  /\ pc = "owamp" /\ ~Consecutive
  /\ toolport' = min_port /\ min_port' = max_port /\ max_port' = i
  /\ i' = After(i)
  /\ UNCHANGED <<key, low, high, pc, used, peer, given, before, result>>

\* The endpoint works out its two test ports from toolport.
OwampDone ==
  /\ pc = "owamp" /\ Consecutive
  /\ Give({toolport, toolport + 1, toolport + 2})
  /\ pc' = "idle" /\ result' = "given"
  /\ UNCHANGED <<key, prange, used, peer, toolport, min_port, max_port>>

Search == Bind \/ BindAgain \/ OwampShift \/ OwampDone

Next ==
  \/ Search \/ BindFails \/ GenericInitTest \/ OwampInitTest
  \/ \E first \in low .. high : PeerFirst(first)
  \/ \E q \in low .. high : Taken(q)

\* The process that searches runs.
Spec == Init /\ [][Next]_vars /\ WF_vars(Search)

-----------------------------------------------------------------------------
(***************************************************************************)
(* Properties.                                                             *)
(***************************************************************************)

\* epssock reports "Full PeerPortRange exhausted" only after it has found every
\* port of the range taken but the high one, wherever it began.
GivesUpFull ==
  result = "full" /\ pc = "idle" /\ key = "peer_port" =>
    {low} \cup low .. high - 1 \subseteq tried

\* A range whose ends are more than RoomForTwo apart has room for two tests: none
\* gets a port of the one that was initialised just before it, whatever the tools
\* are and wherever the draw wraps around.  (A shorter one does not: after 3, 4, 5 of
\* 1-9 owamp burns 6, finds only 7 and 8 left, and is given 1, 2, 3.)
RoomForTwo == 8
SuccessiveDiffer == BWLPortsRange > RoomForTwo => given \cap before = {}

\* The daemon hangs in the search for three ports in a row of a range that
\* is too short to have them, and an endpoint that begins at the high port in a
\* range that is full never comes back to it.
NoThree == key = "test_port" /\ BWLPortsRange < 3
FromHigh == key = "peer_port" /\ BWLPortsRange > 0 /\ port = high

\* Apart from these, every search ends, whatever other programs do meanwhile.
SearchEnds == (pc # "idle") ~> (pc = "idle" \/ NoThree \/ FromHigh)
=============================================================================
