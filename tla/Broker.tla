------------------------------- MODULE Broker -------------------------------
(***************************************************************************)
(* The parent bwctld process as the broker of what its children consume.   *)
(*                                                                         *)
(* A child serves one control connection.  The policy hooks it runs        *)
(* (bwctld/policy.c: BWLDCheckControlPolicy, BWLDCheckTestPolicy,          *)
(* BWLDTestComplete) talk to the parent over a socket pair, one message    *)
(* and one answer at a time: the class of the connection, a request for    *)
(* one "pending" unit, a reservation, later the release and the            *)
(* completion.  The parent (bwctld/bwctld.c: CheckFD, ReapChildren) keeps  *)
(* the use of "pending" per class and one reservation per child.  Children *)
(* die at any time, with messages on the way.                              *)
(*                                                                         *)
(* Whether a reservation is granted is decided by the calendar (TimeSlots);*)
(* here it is any answer the calendar could give.                          *)
(***************************************************************************)
EXTENDS PolicyTree, FiniteSets

CONSTANTS
  Children,
  Tests,      \* what a test demands of the fixed limits: limit name -> value
  Crashing    \* the children that may die without finishing their session

NoTest == [none |-> 0]
NoClass == "none"

ASSUME ChildrenAssumption == IsFiniteSet(Children) /\ Crashing \subseteq Children
ASSUME PendingAssumption == "pending" \in LimitNames
ASSUME TestsAssumption ==
  \A t \in Tests : \E L \in SUBSET (LimitNames \ ConsumedLimits) : t \in [L -> Values]

VARIABLES
  used,     \* class -> its used[] value for "pending"
  proc,     \* child process: "none", "alive", "dead" (not reaped)
  class,    \* the child's BWLDPOLICY_NODE
  st,       \* where the child is in its hooks
  test,     \* the test of the child's BWLDTestInfoRec
  msg,      \* message on its way to the parent
  ans,      \* answer on its way back, or the read cut short ("INVALID")
  node,     \* parent's cstate->node
  res       \* whether the parent's cstate->res is set

chldVars == <<proc, class, st, test>>
vars == <<treeVars, used, chldVars, msg, ans, node, res>>

States == {"none", "accept", "class", "idle", "asking", "reserving", "held",
           "releasing", "completing"}
Messages == {"none", "CLASS", "REQUEST", "RELEASE", "RESERVATION", "UPDATE",
             "COMPLETE"}
Answers == {"none", "OK", "DENIED", "INVALID"}

-----------------------------------------------------------------------------
\* The child sends m and waits in state s.
Send(c, s, m) ==
  /\ proc[c] = "alive"
  /\ st' = [st EXCEPT ![c] = s]
  /\ msg' = [msg EXCEPT ![c] = m]

\* The child, waiting in s, reads the answer.
Receive(c, s) ==
  /\ proc[c] = "alive"
  /\ st[c] = s
  /\ ans[c] # "none"
  /\ ans' = [ans EXCEPT ![c] = "none"]

\* CheckFD has read message m of child c and answers a.  On an error it sends
\* a SIGTERM instead, and the child's wait for the answer ends in "INVALID".
Reply(c, m, a) ==
  /\ msg[c] = m
  /\ msg' = [msg EXCEPT ![c] = "none"]
  /\ ans' = [ans EXCEPT ![c] = a]

-----------------------------------------------------------------------------
(***************************************************************************)
(* BWLDResourceDemand on "pending", one unit at a time: the demand fails   *)
(* as a whole if one consulted class refuses it.  (As floats, like fixed   *)
(* limits; that makes no difference up to FloatExact units in use.)        *)
(***************************************************************************)
Takes(n) == Consulted(n, "pending")

RequestOK(n) == \A m \in Takes(n) : used[m] + 1 <= limit[m]["pending"]
ReleaseOK(n) == \A m \in Takes(n) : 1 <= used[m]

\* Mutant: the class is charged, the classes above it are not.
UsedByClass(n, k) ==
  [m \in ClassNames |-> IF m = n /\ m \in Takes(n) THEN used[m] + k ELSE used[m]]

UsedAfter(n, k) ==
  [m \in ClassNames |-> IF m \in Takes(n) THEN used[m] + k ELSE used[m]]

-----------------------------------------------------------------------------
(***************************************************************************)
(* The parent.                                                             *)
(***************************************************************************)

\* NewConnection: fork and AllocChldState.
NewConnection(c) ==
  /\ serving
  /\ proc[c] = "none"
  /\ proc' = [proc EXCEPT ![c] = "alive"]
  /\ st' = [st EXCEPT ![c] = "accept"]
  /\ UNCHANGED <<treeVars, used, class, test, msg, ans, node, res>>

\* CheckFD, first message: BWLDReadClass.
ReadClass(c) ==
  /\ Reply(c, "CLASS", "OK")
  /\ node' = [node EXCEPT ![c] = class[c]]
  /\ UNCHANGED <<treeVars, used, chldVars, res>>

\* CheckFD, BWLDMESGRESOURCE with BWLDMESGREQUEST.
ResourceRequest(c) ==
  /\ \/ /\ Reply(c, "REQUEST", "OK")
        /\ RequestOK(node[c])
        /\ used' = UsedAfter(node[c], 1)
     \/ /\ Reply(c, "REQUEST", "DENIED")
        /\ ~RequestOK(node[c])
        /\ UNCHANGED used
  /\ UNCHANGED <<treeVars, chldVars, node, res>>

\* CheckFD, BWLDMESGRESOURCE with BWLDMESGRELEASE.
ResourceRelease(c) ==
  /\ Reply(c, "RELEASE", IF ReleaseOK(node[c]) THEN "OK" ELSE "DENIED")
  /\ used' = IF ReleaseOK(node[c]) THEN UsedAfter(node[c], -1) ELSE used
  /\ UNCHANGED <<treeVars, chldVars, node, res>>

\* CheckFD, BWLDMESGRESERVATION with the sid of a new session ("RESERVATION")
\* or of the session that has one ("UPDATE").  A new sid that meets the
\* reservation of another session is an error that leaves it; an error of the
\* tool or of the clock, and a refusal, leave none.
OtherSession(c, m) == m = "RESERVATION" /\ res[c]

ReservationDemand(c, m) ==
  /\ \/ /\ Reply(c, m, "OK")
        /\ ~OtherSession(c, m)
        /\ res' = [res EXCEPT ![c] = TRUE]
     \/ /\ Reply(c, m, "DENIED")
        /\ ~OtherSession(c, m)
        /\ res' = [res EXCEPT ![c] = FALSE]
     \/ /\ Reply(c, m, "INVALID")
        /\ res' = [res EXCEPT ![c] = OtherSession(c, m)]
  /\ UNCHANGED <<treeVars, used, chldVars, node>>

\* CheckFD, BWLDMESGCOMPLETE: ChldReservationComplete.
ReservationComplete(c) ==
  /\ Reply(c, "COMPLETE", IF res[c] THEN "OK" ELSE "INVALID")
  /\ res' = [res EXCEPT ![c] = FALSE]
  /\ UNCHANGED <<treeVars, used, chldVars, node>>

\* ReapChildren and FreeChldState.  "Release resources here if there are any
\* left?" asks a comment; none is released.
FreeChldState(c) ==
  /\ proc[c] = "dead"
  /\ proc' = [proc EXCEPT ![c] = "none"]
  /\ class' = [class EXCEPT ![c] = NoClass]
  /\ st' = [st EXCEPT ![c] = "none"]
  /\ test' = [test EXCEPT ![c] = NoTest]
  /\ msg' = [msg EXCEPT ![c] = "none"]
  /\ ans' = [ans EXCEPT ![c] = "none"]
  /\ node' = [node EXCEPT ![c] = NoClass]
  /\ res' = [res EXCEPT ![c] = FALSE]
  /\ UNCHANGED <<treeVars, used>>

-----------------------------------------------------------------------------
(***************************************************************************)
(* The children.                                                           *)
(***************************************************************************)

\* Mutant: an assign line may name a class that no limit line defines.
SendClassUnknown(c, n) ==
  /\ st[c] = "accept"
  /\ Send(c, "class", "CLASS")
  /\ class' = [class EXCEPT ![c] = n]
  /\ UNCHANGED <<treeVars, used, proc, test, ans, node, res>>

\* BWLDCheckControlPolicy: a user name or an address maps to any class.
SendClass(c, n) ==
  /\ st[c] = "accept"
  /\ n \in Defined
  /\ Send(c, "class", "CLASS")
  /\ class' = [class EXCEPT ![c] = n]
  /\ UNCHANGED <<treeVars, used, proc, test, ans, node, res>>

ClassAnswered(c) ==
  /\ Receive(c, "class")
  /\ st' = [st EXCEPT ![c] = "idle"]
  /\ UNCHANGED <<treeVars, used, proc, class, test, msg, node, res>>

\* BWLDCheckTestPolicy up to the request for "pending".  A test that breaks a
\* fixed limit of the class or above goes no further.
CheckTestPolicy(c, t) ==
  /\ st[c] = "idle"
  /\ \A l \in DOMAIN t : FixedDemand(class[c], l, t[l])
  /\ Send(c, "asking", "REQUEST")
  /\ test' = [test EXCEPT ![c] = t]
  /\ UNCHANGED <<treeVars, used, proc, class, ans, node, res>>

\* The rest of a hook that failed: tinfo is freed and nothing is released.
ForgetTest(c) ==
  /\ st' = [st EXCEPT ![c] = "idle"]
  /\ test' = [test EXCEPT ![c] = NoTest]
  /\ UNCHANGED msg

\* Mutant: a refused request is released all the same.
PendingAlwaysReleased(c) ==
  /\ Receive(c, "asking")
  /\ \/ ans[c] = "OK" /\ Send(c, "reserving", "RESERVATION") /\ UNCHANGED test
     \/ ans[c] # "OK" /\ Send(c, "releasing", "RELEASE") /\ UNCHANGED test
  /\ UNCHANGED <<treeVars, used, proc, class, node, res>>

PendingAnswered(c) ==
  /\ Receive(c, "asking")
  /\ \/ ans[c] = "OK" /\ Send(c, "reserving", "RESERVATION") /\ UNCHANGED test
     \/ ans[c] # "OK" /\ ForgetTest(c)
  /\ UNCHANGED <<treeVars, used, proc, class, node, res>>

\* Mutant: the session survives the refusal of its reservation.
ReservationKept(c) ==
  /\ Receive(c, "reserving")
  /\ st' = [st EXCEPT ![c] = "held"]
  /\ UNCHANGED <<treeVars, used, proc, class, test, msg, node, res>>

ReservationAnswered(c) ==
  /\ Receive(c, "reserving")
  /\ \/ ans[c] = "OK" /\ st' = [st EXCEPT ![c] = "held"] /\ UNCHANGED <<test, msg>>
     \/ ans[c] # "OK" /\ ForgetTest(c)
  /\ UNCHANGED <<treeVars, used, proc, class, node, res>>

\* BWLDCheckTestPolicy for a session that has a reservation: new times.
UpdateReservation(c) ==
  /\ st[c] = "held"
  /\ Send(c, "reserving", "UPDATE")
  /\ UNCHANGED <<treeVars, used, proc, class, test, ans, node, res>>

\* BWLDTestComplete: the session ends, for whatever reason.
TestComplete(c) ==
  /\ st[c] = "held"
  /\ Send(c, "releasing", "RELEASE")
  /\ UNCHANGED <<treeVars, used, proc, class, test, ans, node, res>>

ReleaseAnswered(c) ==
  /\ Receive(c, "releasing")
  /\ Send(c, "completing", "COMPLETE")
  /\ UNCHANGED <<treeVars, used, proc, class, test, node, res>>

CompleteAnswered(c) ==
  /\ Receive(c, "completing")
  /\ ForgetTest(c)
  /\ UNCHANGED <<treeVars, used, proc, class, node, res>>

\* The child ends between two sessions, or crashes anywhere.
Exit(c) ==
  /\ proc[c] = "alive"
  /\ c \in Crashing \/ st[c] \in {"accept", "idle"}
  /\ proc' = [proc EXCEPT ![c] = "dead"]
  /\ UNCHANGED <<treeVars, used, class, st, test, msg, ans, node, res>>

-----------------------------------------------------------------------------
BrokerInit ==
  /\ Init
  /\ used = [n \in ClassNames |-> 0]
  /\ proc = [c \in Children |-> "none"]
  /\ class = [c \in Children |-> NoClass]
  /\ st = [c \in Children |-> "none"]
  /\ test = [c \in Children |-> NoTest]
  /\ msg = [c \in Children |-> "none"]
  /\ ans = [c \in Children |-> "none"]
  /\ node = [c \in Children |-> NoClass]
  /\ res = [c \in Children |-> FALSE]

ParentStep(c) ==
  \/ NewConnection(c)
  \/ ReadClass(c)
  \/ ResourceRequest(c)
  \/ ResourceRelease(c)
  \/ \E m \in {"RESERVATION", "UPDATE"} : ReservationDemand(c, m)
  \/ ReservationComplete(c)
  \/ FreeChldState(c)

ChildStep(c) ==
  \/ \E n \in ClassNames : SendClass(c, n)
  \/ ClassAnswered(c)
  \/ \E t \in Tests : CheckTestPolicy(c, t)
  \/ PendingAnswered(c)
  \/ ReservationAnswered(c)
  \/ UpdateReservation(c)
  \/ TestComplete(c)
  \/ ReleaseAnswered(c)
  \/ CompleteAnswered(c)
  \/ Exit(c)

Next ==
  \/ TreeNext /\ UNCHANGED <<used, chldVars, msg, ans, node, res>>
  \/ \E c \in Children : ParentStep(c) \/ ChildStep(c)

Spec == BrokerInit /\ [][Next]_vars

-----------------------------------------------------------------------------
\* The types, and which messages and answers go with which state of a child.
TypeOK ==
  /\ TreeTypeOK
  /\ used \in [ClassNames -> Nat]
  /\ proc \in [Children -> {"none", "alive", "dead"}]
  /\ class \in [Children -> Defined \cup {NoClass}]
  /\ st \in [Children -> States]
  /\ test \in [Children -> Tests \cup {NoTest}]
  /\ msg \in [Children -> Messages]
  /\ ans \in [Children -> Answers]
  /\ node \in [Children -> Defined \cup {NoClass}]
  /\ res \in [Children -> BOOLEAN]

\* The children for which the parent has counted a unit it will get back if
\* they finish.
Charged(c) ==
  \/ st[c] = "asking" /\ ans[c] = "OK"
  \/ st[c] \in {"reserving", "held"}
  \/ st[c] = "releasing" /\ msg[c] = "RELEASE"

Holding(m) == {c \in Children : Charged(c) /\ m \in above[class[c]]}

(***************************************************************************)
(* "Maximum number of pending reservations" (doc/bwctld.limits.man): the   *)
(* children that hold a pending unit, in a class and in all the classes    *)
(* below it together, are never more than its limit, whatever children     *)
(* die and whatever is on the way between them and the parent.             *)
(***************************************************************************)
PendingBounded ==
  \A m \in Defined :
    limit[m]["pending"] \notin {Unset, 0} =>
      Cardinality(Holding(m)) <= limit[m]["pending"]

(***************************************************************************)
(* IntegerResourceDemand never meets "Request to release unallocated       *)
(* resources": when a release arrives, every class it is counted in has    *)
(* the unit, however other children's units came and went meanwhile.       *)
(***************************************************************************)
ReleaseAccepted ==
  \A c \in Children : msg[c] = "RELEASE" => ReleaseOK(node[c])

(***************************************************************************)
(* What a child's hooks take the parent to have is what it has when their  *)
(* message arrives: the class, a reservation to move or to complete, and   *)
(* none when a new session asks for its first.  Otherwise CheckFD sends a  *)
(* SIGTERM to a child that did nothing wrong.                              *)
(***************************************************************************)
ParentAgrees ==
  \A c \in Children :
    /\ msg[c] \notin {"none", "CLASS"} => node[c] = class[c]
    /\ msg[c] \in {"UPDATE", "COMPLETE"} => res[c]
    /\ msg[c] = "RESERVATION" => ~res[c]

(***************************************************************************)
(* A limit is "checked all the way to the root of the hierarchy"           *)
(* (doc/bwctld.limits.man), although the walk stops early: the test of a   *)
(* child exceeds no integer limit of its class or of a class above it that *)
(* is below FloatExact, and a larger one only by what the comparison of    *)
(* floats cannot tell apart (IntegerResourceDemand).                       *)
(***************************************************************************)
Within(v, max) == v <= max \/ (max >= FloatExact /\ AsFloat[v] = AsFloat[max])

AdmittedWithinLimits ==
  \A c \in Children : \A l \in DOMAIN test[c] \cap IntLimits :
    \A m \in above[class[c]] :
      limit[m][l] \notin {Unset, 0} => Within(test[c][l], limit[m][l])

(***************************************************************************)
(* The parent should release all "temporary" resources "on exit of the     *)
(* child if the child does not explicitly release the resource"            *)
(* (bwctld/policy.h): when no child is left nothing is in use.             *)
(***************************************************************************)
PendingReturned ==
  (\A c \in Children : proc[c] = "none") => \A n \in ClassNames : used[n] = 0

=============================================================================
