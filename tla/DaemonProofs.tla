---------------------------- MODULE DaemonProofs ----------------------------
(***************************************************************************)
(* Theorems about Daemon, for any finite set of children and any backlog:  *)
(* the select loop watches every child, and no child is left when the      *)
(* daemon is gone.  The inductive invariant relates the two tables to the  *)
(* processes, and readfds and maxfd to the tables.                         *)
(***************************************************************************)
EXTENDS Daemon, WellFoundedInduction, FiniteSetTheorems, TLAPS

\* Min of a non-empty set of natural numbers is its least element.
LEMMA MinNatural ==
  ASSUME NEW S, S \subseteq Nat, S # {}
  PROVE  Min(S) \in S /\ \A k \in S : Min(S) <= k
  <1>1. PICK x \in S : \A y \in S : ~(<<y, x>> \in OpToRel(<, Nat))
    BY WFMin, NatLessThanWellFounded, Zenon
  <1>2. \A y \in S : ~(y < x)
    BY <1>1 DEF OpToRel
  <1>3. \A y \in S : x <= y
    BY <1>2
  <1>4. QED
    BY <1>3, Zenon DEF Min

\* Max of a bounded set of natural numbers is its greatest element.
LEMMA MaxNatural ==
  ASSUME NEW S, S \subseteq Nat, S # {}, NEW n \in Nat, \A k \in S : k <= n
  PROVE  Max(S) \in S /\ \A k \in S : k <= Max(S)
  <1> DEFINE bounds == {b \in Nat : \A k \in S : k <= b}
  <1>1. Min(bounds) \in bounds /\ \A b \in bounds : Min(bounds) <= b
    <2>1. n \in bounds /\ bounds \subseteq Nat
      OBVIOUS
    <2> HIDE DEF bounds
    <2>2. QED
      BY <2>1, MinNatural
  <1> DEFINE m == Min(bounds)
  <1> HIDE DEF m
  <1>2. m \in S
    <2>1. SUFFICES ASSUME m \notin S PROVE FALSE
      OBVIOUS
    <2>2. m \in Nat /\ \A k \in S : k < m
      <3>1. m \in Nat /\ \A k \in S : k <= m /\ k \in Nat /\ k # m
        BY <1>1, <2>1 DEF m
      <3>2. QED
        BY <3>1
    <2>3. m - 1 \in bounds
      <3>1. PICK k \in S : TRUE
        OBVIOUS
      <3>2. m - 1 \in Nat /\ \A j \in S : j <= m - 1
        BY <2>2, <3>1
      <3>3. QED
        BY <3>2
    <2>4. QED
      BY <1>1, <2>2, <2>3 DEF m
  <1>3. \E x \in S : \A y \in S : x >= y
    BY <1>1, <1>2 DEF m
  <1>4. Max(S) \in S /\ \A y \in S : Max(S) >= y
    BY <1>3, Zenon DEF Max
  <1>5. QED
    BY <1>4

\* The places of the main loop, of ReapChildren and of the shutdown.
LoopPlaces == {"top", "entering", "select", "accept", "dispatched", "stop"}
ReapPlaces == {"reap", "wait", "clear"}
StopPlaces == {"drain", "suspending", "suspend", "exited"}

TypeOK ==
  /\ pc \in LoopPlaces \cup ReapPlaces \cup StopPlaces
  /\ ret \in {"top", "accept", "drain"}
  /\ maxfd \in Fds \cup {-1}
  /\ readfds \subseteq Fds
  /\ pidtable \in [Children -> Fds \cup {NoFd, Closed}]
  /\ fdtable \in [Fds -> Children \cup {NoChild}]
  /\ child \in [Children -> Dead \cup {"none", "running", "asking"}]

\* The two tables are inverse to each other; no child has the listening socket.
TablesInverse ==
  /\ fdtable[ListenFd] = NoChild
  /\ \A f \in Fds, c \in Children : fdtable[f] = c <=> pidtable[c] = f

\* As long as the parent is there, its table holds the children there are.
TablesCurrent ==
  pc # "exited" => \A c \in Children : child[c] # "none" <=> pidtable[c] # NoFd

\* Outside the shutdown every pipe is open and in readfds, and maxfd, when it is
\* not to be recomputed, is above them all.
Watching ==
  ret # "drain" =>
    /\ \A c \in Children : pidtable[c] # Closed
    /\ readfds = Piped \cup {ListenFd}
    /\ maxfd # -1 => \A f \in readfds : f <= maxfd

\* ReapChildren returns to where it was called from.
Returning ==
  /\ pc \in LoopPlaces => ret # "drain"
  /\ pc \in StopPlaces => ret = "drain"
  /\ pc \in {"entering", "select"} => maxfd # -1

AllGone == pc = "exited" => \A c \in Children : child[c] = "none"

IInv == TypeOK /\ TablesInverse /\ TablesCurrent /\ Watching /\ Returning /\ AllGone

-----------------------------------------------------------------------------
(***************************************************************************)
(* Descriptors.                                                            *)
(***************************************************************************)

LEMMA FdsFacts ==
  /\ Cardinality(Children) \in Nat
  /\ Fds \subseteq Nat /\ ListenFd \in Fds
  /\ NoFd \notin Fds /\ Closed \notin Fds /\ NoFd # Closed
  <1>1. Cardinality(Children) \in Nat
    BY ChildrenAssumption, FS_CardinalityType
  <1>2. QED
    BY <1>1 DEF Fds, ListenFd, NoFd, Closed

\* FindMaxFD gives the highest descriptor that is watched.
LEMMA FindMaxFDHighest ==
  /\ FindMaxFD \in Piped \cup {ListenFd}
  /\ \A f \in Piped \cup {ListenFd} : f <= FindMaxFD
  <1> DEFINE S == Piped \cup {ListenFd}
             n == Cardinality(Children) + 3
  <1>1. S \subseteq Nat /\ S # {} /\ n \in Nat /\ \A k \in S : k <= n
    BY FdsFacts DEF Piped, Fds
  <1>2. Max(S) \in S /\ \A k \in S : k <= Max(S)
    <2> HIDE DEF S, n
    <2>1. QED
      BY <1>1, MaxNatural
  <1>3. QED
    BY <1>2 DEF FindMaxFD

\* There are no more pipes than children: the table of descriptors is injective.
LEMMA PipesCounted ==
  ASSUME TypeOK, TablesInverse
  PROVE  IsFiniteSet(Piped) /\ Cardinality(Piped) <= Cardinality(Children)
  <1> DEFINE g == [f \in Piped |-> fdtable[f]]
  <1>1. g \in [Piped -> Children]
    BY DEF TypeOK, Piped
  <1>2. ASSUME NEW a \in Piped, NEW b \in Piped, g[a] = g[b] PROVE a = b
    <2>1. a \in Fds /\ b \in Fds /\ fdtable[a] \in Children /\ fdtable[a] = fdtable[b]
      BY <1>1, <1>2 DEF Piped
    <2>2. QED
      BY <2>1 DEF TablesInverse
  <1>3. g \in Injection(Piped, Children)
    BY <1>1, <1>2 DEF Injection, IsInjective
  <1>4. QED
    BY <1>3, ChildrenAssumption, FS_Injection

\* The descriptor of a new pipe is one that nothing uses.
LEMMA NewFdFree ==
  ASSUME TypeOK, TablesInverse
  PROVE  NewFd \in Fds /\ NewFd \notin Piped /\ NewFd # ListenFd
  <1> DEFINE used == Piped \cup {ListenFd}
             free == Fds \ used
  <1>1. IsFiniteSet(Fds) /\ Cardinality(Fds) = Cardinality(Children) + 3
    BY FdsFacts, FS_Interval DEF Fds
  <1>2. IsFiniteSet(used) /\ Cardinality(used) \in Nat
        /\ Cardinality(used) <= Cardinality(Children) + 1
    <2>1. Cardinality(Piped) \in Nat
      BY PipesCounted, FS_CardinalityType
    <2>2. IsFiniteSet(used)
          /\ Cardinality(used) = IF ListenFd \in Piped THEN Cardinality(Piped)
                                                      ELSE Cardinality(Piped) + 1
      BY PipesCounted, FS_AddElement, Zenon
    <2>3. QED
      BY <2>1, <2>2, PipesCounted, FdsFacts
  <1>3. used \subseteq Fds
    BY FdsFacts DEF Piped
  <1> HIDE DEF used
  <1>4. IsFiniteSet(free) /\ Cardinality(free) = Cardinality(Fds) - Cardinality(used)
    <2>1. Fds \cap used = used
      BY <1>3
    <2>2. IsFiniteSet(free) /\ Cardinality(free) = Cardinality(Fds) - Cardinality(Fds \cap used)
      BY <1>1, FS_Difference, Zenon
    <2>3. QED
      BY <2>1, <2>2
  <1>5. Cardinality(free) >= 2 /\ Cardinality(free) \in Nat
    BY <1>1, <1>2, <1>4, FdsFacts, FS_CardinalityType
  <1>6. free \subseteq Nat
    BY FdsFacts
  <1> HIDE DEF free
  <1>7. free # {}
    BY <1>4, <1>5, FS_EmptySet
  <1>8. Min(free) \in free
    BY <1>6, <1>7, MinNatural
  <1>9. free \ {Min(free)} # {}
    <2>1. IsFiniteSet(free \ {Min(free)})
          /\ Cardinality(free \ {Min(free)}) = Cardinality(free) - 1
      BY <1>4, <1>8, FS_RemoveElement
    <2>2. QED
      BY <1>5, <2>1, FS_EmptySet
  <1>10. Min(free \ {Min(free)}) \in free
    <2>1. free \ {Min(free)} \subseteq Nat
      BY <1>6
    <2>2. QED
      BY <2>1, <1>9, MinNatural
  <1>11. QED
    BY <1>10 DEF NewFd, free, used

-----------------------------------------------------------------------------
(***************************************************************************)
(* The invariant is inductive: one lemma per action.                       *)
(***************************************************************************)

USE DEF LoopPlaces, ReapPlaces, StopPlaces, Dead

LEMMA InitInv == Init => IInv
  <1> SUFFICES ASSUME Init PROVE IInv
      OBVIOUS
  <1>1. TypeOK
    BY FdsFacts DEF Init, TypeOK
  <1>2. TablesInverse /\ Piped = {}
    BY FdsFacts, ChildrenAssumption DEF Init, TablesInverse, Piped
  <1>3. TablesCurrent /\ Returning /\ AllGone
    BY FdsFacts DEF Init, TablesCurrent, Returning, AllGone, ListenFd
  <1>4. Watching
    BY <1>2, FdsFacts DEF Init, Watching, ListenFd
  <1>5. QED
    BY <1>1, <1>2, <1>3, <1>4 DEF IInv

(***************************************************************************)
(* The steps for which the definitions of the parts are all that is needed.*)
(***************************************************************************)

USE DEF IInv, TypeOK, TablesInverse, TablesCurrent, Watching, Returning, AllGone,
        Piped, tables, flags, world

LEMMA EnterSelectInv == ASSUME IInv, EnterSelect PROVE IInv'
  BY DEF EnterSelect

LEMMA ListenReadyInv == ASSUME IInv, ListenReady PROVE IInv'
  BY DEF ListenReady

LEMMA CleanPipesInv == ASSUME IInv, CleanPipes PROVE IInv'
  BY DEF CleanPipes

LEMMA SelectInterruptedInv == ASSUME IInv, SelectInterrupted PROVE IInv'
  BY DEF SelectInterrupted

LEMMA DispatchedInv == ASSUME IInv, Dispatched PROVE IInv'
  BY DEF Dispatched

LEMMA ConnectionDroppedInv == ASSUME IInv, ConnectionDropped PROVE IInv'
  BY DEF ConnectionDropped

LEMMA AcceptInterruptedInv == ASSUME IInv, AcceptInterrupted PROVE IInv'
  BY DEF AcceptInterrupted

LEMMA ReapChildrenInv == ASSUME IInv, ReapChildren PROVE IInv'
  BY DEF ReapChildren

LEMMA WaitpidNoneInv == ASSUME IInv, WaitpidNone PROVE IInv'
  BY DEF WaitpidNone

LEMMA ClearChldInv == ASSUME IInv, ClearChld PROVE IInv'
  BY DEF ClearChld

LEMMA DrainInv == ASSUME IInv, Drain PROVE IInv'
  BY DEF Drain

LEMMA EnterSuspendInv == ASSUME IInv, EnterSuspend PROVE IInv'
  BY DEF EnterSuspend

LEMMA SuspendInterruptedInv == ASSUME IInv, SuspendInterrupted PROVE IInv'
  BY DEF SuspendInterrupted

LEMMA ConnectInv == ASSUME IInv, Connect PROVE IInv'
  BY DEF Connect

LEMMA TerminateInv == ASSUME IInv, Terminate PROVE IInv'
  BY DEF Terminate, signal_catch

LEMMA RingInv == ASSUME IInv, Ring PROVE IInv'
  BY DEF Ring, signal_catch

LEMMA AskInv == ASSUME IInv, NEW c \in Children, Ask(c) PROVE IInv'
  BY DEF Ask

LEMMA AskEOFInv == ASSUME IInv, NEW c \in Children, AskEOF(c) PROVE IInv'
  BY DEF AskEOF

LEMMA AskInterruptedInv == ASSUME IInv, NEW c \in Children, AskInterrupted(c) PROVE IInv'
  BY DEF AskInterrupted

LEMMA ChildExitInv == ASSUME IInv, NEW c \in Children, ChildExit(c) PROVE IInv'
  BY DEF ChildExit, signal_catch, Alive

LEMMA ToolExitInv == ASSUME IInv, NEW c \in Children, ToolExit(c) PROVE IInv'
  BY DEF ToolExit

LEMMA StutterInv == ASSUME IInv, UNCHANGED vars PROVE IInv'
  BY DEF vars

HIDE DEF IInv, TypeOK, TablesInverse, TablesCurrent, Watching, Returning, AllGone,
         Piped, tables, flags, world

-----------------------------------------------------------------------------
(***************************************************************************)
(* The steps that need an argument.                                        *)
(***************************************************************************)

LEMMA LoopTopInv == ASSUME IInv, LoopTop PROVE IInv'
  <1>1. pc' \in LoopPlaces /\ pc' # "exited" /\ UNCHANGED <<ret, readfds, pidtable, fdtable, child>>
    BY DEF LoopTop, world
  <1>2. ret # "drain"
    BY DEF LoopTop, IInv, Returning
  <1>3. /\ maxfd' \in Fds /\ maxfd' # -1
        /\ \A f \in readfds : f <= maxfd'
    <2>1. CASE maxfd < 0
      <3>1. maxfd' = FindMaxFD /\ readfds = Piped \cup {ListenFd}
        BY <1>2, <2>1 DEF LoopTop, IInv, Watching
      <3>2. Piped \cup {ListenFd} \subseteq Fds
        BY FdsFacts DEF Piped
      <3>3. QED
        BY <3>1, <3>2, FindMaxFDHighest, FdsFacts
    <2>2. CASE ~(maxfd < 0)
      BY <1>2, <2>2, FdsFacts DEF LoopTop, IInv, TypeOK, Watching
    <2>3. QED
      BY <2>1, <2>2
  <1>4. QED
    BY <1>1, <1>2, <1>3 DEF LoopTop, IInv, TypeOK, TablesInverse, TablesCurrent,
                            Watching, Returning, AllGone, Piped

\* A new child takes a free descriptor, which maxfd follows unless it is to be
\* recomputed anyway.
LEMMA NewConnectionInv == ASSUME IInv, NEW c \in Children, NewConnection(c) PROVE IInv'
  <1> DEFINE fd == NewFd
  <1>1. fd \in Fds /\ fd \notin Piped /\ fd # ListenFd
    BY NewFdFree DEF IInv
  <1>2. /\ pidtable' = [pidtable EXCEPT ![c] = fd]
        /\ fdtable' = [fdtable EXCEPT ![fd] = c]
        /\ readfds' = readfds \cup {fd}
        /\ maxfd' = IF maxfd > -1 /\ fd > maxfd THEN fd ELSE maxfd
        /\ child' = [child EXCEPT ![c] = "running"]
        /\ pc = "accept" /\ pc' = "dispatched" /\ UNCHANGED ret /\ child[c] = "none"
    BY DEF NewConnection, AllocChldState, RaiseMax
  <1> HIDE DEF fd
  <1>3. ret # "drain" /\ pidtable[c] = NoFd
    BY <1>2 DEF IInv, Returning, TablesCurrent
  <1>4. TypeOK'
    BY <1>1, <1>2 DEF IInv, TypeOK
  <1>5. TablesInverse'
    BY <1>1, <1>2, <1>3, FdsFacts, ChildrenAssumption
       DEF IInv, TypeOK, TablesInverse, Piped
  <1>6. TablesCurrent'
    BY <1>1, <1>2, FdsFacts DEF IInv, TypeOK, TablesCurrent
  <1>7. Watching'
    <2>1. Piped' = Piped \cup {fd}
      BY <1>1, <1>2, ChildrenAssumption DEF IInv, TypeOK, Piped
    <2>2. readfds \subseteq Nat /\ fd \in Nat /\ maxfd \in Int
      BY <1>1, FdsFacts DEF IInv, TypeOK
    <2>3. \A d \in Children : pidtable'[d] # Closed
      BY <1>1, <1>2, <1>3, FdsFacts DEF IInv, TypeOK, Watching
    <2>4. maxfd' # -1 => \A f \in readfds' : f <= maxfd'
      BY <1>1, <1>2, <1>3, <2>2, FdsFacts DEF IInv, TypeOK, Watching
    <2>5. readfds' = Piped' \cup {ListenFd}
      BY <1>2, <1>3, <2>1 DEF IInv, Watching
    <2>6. QED
      BY <2>3, <2>4, <2>5 DEF Watching
  <1>8. Returning' /\ AllGone'
    BY <1>2, <1>3 DEF Returning, AllGone
  <1>9. QED
    BY <1>4, <1>5, <1>6, <1>7, <1>8 DEF IInv

\* A child that is waited for leaves both tables; maxfd is to be recomputed if its
\* descriptor was the highest.
LEMMA WaitpidInv == ASSUME IInv, NEW c \in Children, Waitpid(c) PROVE IInv'
  <1>1. /\ pidtable' = [pidtable EXCEPT ![c] = NoFd]
        /\ fdtable' = [f \in Fds |-> IF f = pidtable[c] THEN NoChild ELSE fdtable[f]]
        /\ readfds' = readfds \ {pidtable[c]}
        /\ maxfd' = IF pidtable[c] = maxfd THEN -1 ELSE maxfd
        /\ child' = [child EXCEPT ![c] = "none"]
        /\ pc = "wait" /\ UNCHANGED <<pc, ret>>
    BY DEF Waitpid, FreeChldState
  <1>2. TypeOK'
    BY <1>1 DEF IInv, TypeOK
  <1>3. TablesInverse'
    <2>1. fdtable'[ListenFd] = NoChild
      BY <1>1, FdsFacts DEF IInv, TablesInverse
    <2>2. ASSUME NEW f \in Fds, NEW d \in Children PROVE fdtable'[f] = d <=> pidtable'[d] = f
      BY <1>1, FdsFacts, ChildrenAssumption DEF IInv, TypeOK, TablesInverse
    <2>3. QED
      BY <2>1, <2>2 DEF TablesInverse
  <1>4. TablesCurrent'
    BY <1>1 DEF IInv, TypeOK, TablesCurrent
  <1>5. Watching'
    <2>1. Piped' = Piped \ {pidtable[c]}
      BY <1>1 DEF IInv, TypeOK, Piped
    <2>2. pidtable[c] # ListenFd
      BY FdsFacts, ChildrenAssumption DEF IInv, TablesInverse
    <2>3. QED
      BY <1>1, <2>1, <2>2, FdsFacts DEF IInv, TypeOK, Watching
  <1>6. Returning' /\ AllGone'
    BY <1>1 DEF IInv, Returning, AllGone
  <1>7. QED
    BY <1>2, <1>3, <1>4, <1>5, <1>6 DEF IInv

\* The shutdown closes every pipe but keeps every child in the table.
LEMMA StopInv == ASSUME IInv, Stop PROVE IInv'
  <1>1. TypeOK'
    BY FdsFacts DEF Stop, ClosePipes, IInv, TypeOK
  <1>2. TablesInverse'
    BY FdsFacts, ChildrenAssumption DEF Stop, ClosePipes, TablesInverse
  <1>3. TablesCurrent'
    BY FdsFacts DEF Stop, ClosePipes, Known, IInv, TablesCurrent
  <1>4. Watching' /\ Returning' /\ AllGone'
    BY DEF Stop, Watching, Returning, AllGone
  <1>5. QED
    BY <1>1, <1>2, <1>3, <1>4 DEF IInv

LEMMA ExitInv == ASSUME IInv, Exit PROVE IInv'
  <1>1. \A c \in Children : child'[c] = "none"
    BY DEF Exit, Known, IInv, TablesCurrent
  <1>2. TypeOK'
    BY DEF Exit, tables, IInv, TypeOK
  <1>3. QED
    BY <1>1, <1>2 DEF Exit, tables, IInv, TablesInverse, TablesCurrent, Watching,
                      Returning, AllGone, Piped

LEMMA ParentStepInv == ASSUME IInv, ParentStep PROVE IInv'
  <1>1. ASSUME NEW c \in Children, NewConnection(c) \/ Waitpid(c) PROVE IInv'
    BY <1>1, NewConnectionInv, WaitpidInv
  <1>2. QED
    BY <1>1, LoopTopInv, EnterSelectInv, ListenReadyInv, CleanPipesInv,
       SelectInterruptedInv, DispatchedInv, ConnectionDroppedInv, AcceptInterruptedInv,
       ReapChildrenInv, WaitpidNoneInv, ClearChldInv, StopInv, DrainInv,
       EnterSuspendInv, SuspendInterruptedInv, ExitInv
       DEF ParentStep

LEMMA NextInv == IInv /\ [Next]_vars => IInv'
  <1> SUFFICES ASSUME IInv, [Next]_vars PROVE IInv'
      OBVIOUS
  <1>1. CASE UNCHANGED vars
    BY <1>1, StutterInv
  <1>2. CASE ParentStep
    BY <1>2, ParentStepInv
  <1>3. CASE Connect \/ Terminate \/ Ring
    BY <1>3, ConnectInv, TerminateInv, RingInv
  <1>4. CASE Death
    BY <1>4, ChildExitInv DEF Death
  <1>5. ASSUME NEW c \in Children, Ask(c) \/ AskEOF(c) \/ AskInterrupted(c) \/ ToolExit(c)
        PROVE  IInv'
    BY <1>5, AskInv, AskEOFInv, AskInterruptedInv, ToolExitInv
  <1>6. QED
    BY <1>1, <1>2, <1>3, <1>4, <1>5 DEF Next

LEMMA InvAlways == Spec => []IInv
  BY InitInv, NextInv, PTL DEF Spec

-----------------------------------------------------------------------------
(***************************************************************************)
(* The theorems.                                                           *)
(***************************************************************************)

\* The parent never sleeps in select() with a child it does not listen to, and
\* never puts a descriptor down to the wrong child, however deaths, new
\* connections and the recomputation of maxfd (bwctld.c main, NewConnection,
\* ReapChildren) fall together.
THEOREM EveryChildWatchedCorrect == Spec => []EveryChildWatched
  <1>1. ASSUME IInv PROVE EveryChildWatched
    <2>1. ASSUME pc \in {"entering", "select"}, NEW c \in Children, child[c] # "none"
          PROVE  pidtable[c] \in readfds /\ pidtable[c] <= maxfd
      <3>1. ret # "drain" /\ maxfd # -1
        BY <1>1, <2>1 DEF IInv, Returning
      <3>2. pidtable[c] \in Fds
        BY <1>1, <2>1, <3>1 DEF IInv, TypeOK, TablesCurrent, Watching
      <3>3. pidtable[c] \in Piped
        BY <1>1, <3>2, ChildrenAssumption DEF IInv, TablesInverse, Piped
      <3>4. QED
        BY <1>1, <3>1, <3>3 DEF IInv, Watching
    <2>2. \A f \in Fds, c \in Children : fdtable[f] = c <=> pidtable[c] = f
      BY <1>1 DEF IInv, TablesInverse
    <2>3. QED
      BY <2>1, <2>2 DEF EveryChildWatched
  <1>2. QED
    BY <1>1, InvAlways, PTL

\* When the daemon is gone every child has been waited for or killed: the loop of
\* the shutdown ends with an empty table of children, or with KillChildren.
THEOREM NoChildLeftCorrect == Spec => []NoChildLeft
  <1>1. IInv => NoChildLeft
    BY DEF IInv, AllGone, NoChildLeft, Alive
  <1>2. QED
    BY <1>1, InvAlways, PTL
=============================================================================
