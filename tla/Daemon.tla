------------------------------- MODULE Daemon -------------------------------
(***************************************************************************)
(* The parent process of bwctld (bwctld/bwctld.c): its select loop, the    *)
(* tables of its children, the reaping of the dead ones, and its shutdown. *)
(* A signal handler only sets a flag, and it may run between any two steps *)
(* of the parent; it interrupts a system call only if the parent is        *)
(* already blocked in it.  The steps are cut where that matters.           *)
(*                                                                         *)
(* What a child asks for and is answered is in Broker, what it does with   *)
(* its connection in ControlProtocol: here it runs, asks, and ends.        *)
(***************************************************************************)
EXTENDS Integers, FiniteSets, FiniteSetsExt

CONSTANTS
  Children,     \* the processes that may be alive at a time; a reaped pid is reused
  MaxBacklog,   \* connections that may wait on the listening socket
  Dieby         \* opts.dieby: the seconds a shutdown may take

ASSUME BacklogAssumption == MaxBacklog \in Nat \ {0}
ASSUME DiebyAssumption == Dieby \in Nat

VARIABLES
  pc,           \* where the parent is
  ret,          \* where ReapChildren returns to
  maxfd, readfds,
  pidtable,     \* cstate->fd of each child in the hash, NoFd for the others
  fdtable,      \* the child of each descriptor in the hash
  ipfd_exit, ipfd_chld, ipfd_alrm,
  eintr,        \* a handler has run since the parent blocked in its system call
  alarm,        \* whether alarm(dieby) is pending
  child,        \* what each child does
  backlog       \* connections that wait to be accepted

tables == <<maxfd, readfds, pidtable, fdtable>>
flags == <<ipfd_exit, ipfd_chld, ipfd_alrm>>
world == <<child, backlog>>
vars == <<pc, ret, eintr, alarm, tables, flags, world>>

NoFd == 0
Closed == -1                      \* cstate->fd after ClosePipes
NoChild == "nochild"
ListenFd == 1
Fds == 1 .. (Cardinality(Children) + 3)

ASSUME ChildrenAssumption == IsFiniteSet(Children) /\ NoChild \notin Children

Blocking == {"select", "accept", "suspend"}

Stopping == pc = "stop" \/ ret = "drain"

Init ==
  /\ pc = "top" /\ ret = "top"
  /\ maxfd = ListenFd /\ readfds = {ListenFd}
  /\ pidtable = [c \in Children |-> NoFd] /\ fdtable = [f \in Fds |-> NoChild]
  /\ ipfd_exit = FALSE /\ ipfd_chld = FALSE /\ ipfd_alrm = FALSE
  /\ eintr = FALSE /\ alarm = FALSE
  /\ child = [c \in Children |-> "none"]
  /\ backlog = 0

Known == {c \in Children : pidtable[c] # NoFd}
Piped == {f \in Fds : fdtable[f] # NoChild}
Dead == {"zombie", "orphaned"}
Alive == {c \in Children : child[c] \in {"running", "asking"}}

\* signal_catch: a flag is set, and a call the parent is blocked in returns EINTR.
signal_catch(flag) ==
  /\ ipfd_exit' = (ipfd_exit \/ flag = "exit")
  /\ ipfd_chld' = (ipfd_chld \/ flag = "chld")
  /\ ipfd_alrm' = (ipfd_alrm \/ flag = "alrm")
  /\ eintr' = (eintr \/ pc \in Blocking)

-----------------------------------------------------------------------------
(***************************************************************************)
(* The main loop.                                                          *)
(***************************************************************************)

FindMaxFD == Max(Piped \cup {ListenFd})

LoopTop ==
  /\ pc = "top"
  /\ maxfd' = IF maxfd < 0 THEN FindMaxFD ELSE maxfd
  /\ pc' = IF ipfd_exit THEN "stop" ELSE "entering"
  /\ UNCHANGED <<ret, readfds, pidtable, fdtable, eintr, alarm, flags, world>>

\* The handlers are not held off between the test of ipfd_exit and select().
EnterSelect ==
  /\ pc = "entering"
  /\ pc' = "select" /\ eintr' = FALSE
  /\ UNCHANGED <<ret, alarm, tables, flags, world>>

\* A child's socket is readable when it holds a message, and at its end: when
\* the child is dead and no process it has started holds a copy of the socket.
Readable(c) == child[c] \in {"asking", "zombie"}

SelectReady ==
  {f \in readfds : f <= maxfd /\ IF f = ListenFd THEN backlog > 0
                                 ELSE Readable(fdtable[f])}

\* A waiting connection is served before any child.
ListenReady ==
  /\ pc = "select" /\ ListenFd \in SelectReady
  /\ pc' = "accept" /\ eintr' = FALSE
  /\ UNCHANGED <<ret, alarm, tables, flags, world>>

\* CheckFD for every ready descriptor.  A message is read and answered; a dead
\* child gets a SIGTERM it cannot see, and its descriptor stays in readfds.
CleanPipes ==
  /\ pc = "select" /\ SelectReady # {} /\ ListenFd \notin SelectReady
  /\ child' = [c \in Children |->
                 IF child[c] = "asking" /\ pidtable[c] \in SelectReady
                   THEN "running" ELSE child[c]]
  /\ pc' = "dispatched" /\ eintr' = FALSE
  /\ UNCHANGED <<ret, alarm, tables, flags, backlog>>

SelectInterrupted ==
  /\ pc = "select" /\ eintr
  /\ pc' = IF ipfd_exit THEN "stop" ELSE "reap"
  /\ ret' = "top" /\ eintr' = FALSE
  /\ UNCHANGED <<alarm, tables, flags, world>>

\* After NewConnection or CleanPipes.
Dispatched ==
  /\ pc = "dispatched"
  /\ pc' = IF ipfd_exit THEN "stop" ELSE "reap"
  /\ ret' = "top"
  /\ UNCHANGED <<eintr, alarm, tables, flags, world>>

-----------------------------------------------------------------------------
(***************************************************************************)
(* NewConnection, AllocChldState.                                          *)
(***************************************************************************)

\* accept() and socketpair() take the three lowest free descriptors; the parent
\* keeps the second.
NewFd ==
  LET free == Fds \ (Piped \cup {ListenFd}) IN Min(free \ {Min(free)})

\* The guard forgotten.
RaiseAnyMax(fd) == IF fd > maxfd THEN fd ELSE maxfd

\* *maxfd is left alone while it is to be recomputed.
RaiseMax(fd) == IF maxfd > -1 /\ fd > maxfd THEN fd ELSE maxfd

AllocChldState(c, fd) ==
  /\ pidtable' = [pidtable EXCEPT ![c] = fd]
  /\ fdtable' = [fdtable EXCEPT ![fd] = c]

NewConnection(c) ==
  /\ pc = "accept" /\ child[c] = "none"
  /\ child' = [child EXCEPT ![c] = "running"]
  /\ backlog' = backlog - 1
  /\ AllocChldState(c, NewFd)
  /\ readfds' = readfds \cup {NewFd}
  /\ maxfd' = RaiseMax(NewFd)
  /\ pc' = "dispatched" /\ eintr' = FALSE
  /\ UNCHANGED <<ret, alarm, flags>>

\* socketpair() or fork() fails and the connection is dropped; or accept() fails,
\* and a connection that it had no descriptor for stays where it is.
ConnectionDropped ==
  /\ pc = "accept"
  /\ backlog' \in {backlog - 1, backlog}
  /\ pc' = "dispatched" /\ eintr' = FALSE
  /\ UNCHANGED <<ret, alarm, tables, flags, child>>

\* accept() is interrupted: "reap since it could make more free connections".
AcceptInterrupted ==
  /\ pc = "accept" /\ eintr
  /\ eintr' = FALSE
  /\ \/ ipfd_exit /\ pc' = "dispatched" /\ UNCHANGED ret
     \/ ~ipfd_exit /\ pc' = "reap" /\ ret' = "accept"
  /\ UNCHANGED <<alarm, tables, flags, world>>

-----------------------------------------------------------------------------
(***************************************************************************)
(* ReapChildren.                                                           *)
(***************************************************************************)

FreeChldState(c) ==
  /\ readfds' = readfds \ {pidtable[c]}
  /\ fdtable' = [f \in Fds |-> IF f = pidtable[c] THEN NoChild ELSE fdtable[f]]
  /\ pidtable' = [pidtable EXCEPT ![c] = NoFd]

ReapChildren ==
  /\ pc = "reap"
  /\ pc' = IF ipfd_chld THEN "wait" ELSE ret
  /\ UNCHANGED <<ret, eintr, alarm, tables, flags, world>>

\* One child per signal: an if for the while.
WaitpidOnce(c) ==
  /\ pc = "wait" /\ child[c] \in Dead
  /\ child' = [child EXCEPT ![c] = "none"]
  /\ maxfd' = IF pidtable[c] = maxfd THEN -1 ELSE maxfd
  /\ FreeChldState(c)
  /\ pc' = "clear"
  /\ UNCHANGED <<ret, eintr, alarm, flags, backlog>>

\* waitpid() gives a dead child: its state is freed, its pid may be used again.
Waitpid(c) ==
  /\ pc = "wait" /\ child[c] \in Dead
  /\ child' = [child EXCEPT ![c] = "none"]
  /\ maxfd' = IF pidtable[c] = maxfd THEN -1 ELSE maxfd
  /\ FreeChldState(c)
  /\ UNCHANGED <<pc, ret, eintr, alarm, flags, backlog>>

WaitpidNone ==
  /\ pc = "wait" /\ \A c \in Children : child[c] \notin Dead
  /\ pc' = "clear"
  /\ UNCHANGED <<ret, eintr, alarm, tables, flags, world>>

\* All flags reset, as the child does before each request.
ClearFlags ==
  /\ pc = "clear"
  /\ ipfd_chld' = FALSE /\ ipfd_exit' = FALSE /\ ipfd_alrm' = FALSE
  /\ pc' = ret
  /\ UNCHANGED <<ret, eintr, alarm, tables, world>>

\* The flag goes only now: a child that has died since is not looked for.
ClearChld ==
  /\ pc = "clear"
  /\ ipfd_chld' = FALSE
  /\ pc' = ret
  /\ UNCHANGED <<ret, eintr, alarm, tables, ipfd_exit, ipfd_alrm, world>>

-----------------------------------------------------------------------------
(***************************************************************************)
(* The shutdown.                                                           *)
(***************************************************************************)

\* The pipes left open.
LeavePipes == UNCHANGED <<fdtable, pidtable>>

\* The children dropped from both tables.
ForgetChildren ==
  /\ fdtable' = [f \in Fds |-> NoChild] /\ pidtable' = [c \in Children |-> NoFd]

ClosePipes ==
  /\ fdtable' = [f \in Fds |-> NoChild]
  /\ pidtable' = [c \in Children |-> IF c \in Known THEN Closed ELSE NoFd]

\* The alarm forgotten.
SetNoAlarm == ipfd_alrm' = FALSE /\ UNCHANGED alarm

\* alarm(0) sets none.
SetAlarm == ipfd_alrm' = FALSE /\ alarm' = (Dieby > 0)

\* The server socket is closed, KillChildren(SIGTERM), the alarm is set.
Stop ==
  /\ pc = "stop"
  /\ pc' = "drain" /\ ret' = "drain"
  /\ readfds' = {} /\ maxfd' = -1 /\ backlog' = 0
  /\ SetAlarm
  /\ ClosePipes
  /\ UNCHANGED <<eintr, ipfd_exit, ipfd_chld, child>>

\* "Loop until all children have been waited for, or until alarm goes off."
Drain ==
  /\ pc = "drain" /\ ~ipfd_alrm /\ Known # {}
  /\ pc' = IF ipfd_chld THEN "reap" ELSE "suspending"
  /\ UNCHANGED <<ret, eintr, alarm, tables, flags, world>>

\* Nor are the handlers held off before sigsuspend().
EnterSuspend ==
  /\ pc = "suspending"
  /\ pc' = "suspend" /\ eintr' = FALSE
  /\ UNCHANGED <<ret, alarm, tables, flags, world>>

SuspendInterrupted ==
  /\ pc = "suspend" /\ eintr
  /\ pc' = "reap" /\ eintr' = FALSE
  /\ UNCHANGED <<ret, alarm, tables, flags, world>>

\* "Time for brute force" if a child is left: KillChildren(SIGKILL).
Exit ==
  /\ pc = "drain" /\ (ipfd_alrm \/ Known = {})
  /\ pc' = "exited"
  /\ child' = IF Known # {} THEN [c \in Children |-> "none"] ELSE child
  /\ alarm' = FALSE
  /\ UNCHANGED <<ret, eintr, tables, flags, backlog>>

-----------------------------------------------------------------------------
(***************************************************************************)
(* The children, the clients and the signals.                              *)
(***************************************************************************)

\* A client connects.
Connect ==
  /\ ~Stopping /\ backlog < MaxBacklog
  /\ backlog' = backlog + 1
  /\ UNCHANGED <<pc, ret, eintr, alarm, tables, flags, child>>

\* A policy hook of a child sends its message and waits for the answer.
Ask(c) ==
  /\ child[c] = "running" /\ pidtable[c] \in Fds
  /\ child' = [child EXCEPT ![c] = "asking"]
  /\ UNCHANGED <<pc, ret, eintr, alarm, tables, flags, backlog>>

\* The wait ends without an answer: at the end of file of a closed pipe, ...
AskEOF(c) ==
  /\ child[c] = "asking" /\ pidtable[c] = Closed
  /\ child' = [child EXCEPT ![c] = "running"]
  /\ UNCHANGED <<pc, ret, eintr, alarm, tables, flags, backlog>>

\* ... or on the SIGTERM of KillChildren, if it comes while the child is
\* blocked in its read.
AskInterrupted(c) ==
  /\ child[c] = "asking" /\ ret = "drain"
  /\ child' = [child EXCEPT ![c] = "running"]
  /\ UNCHANGED <<pc, ret, eintr, alarm, tables, flags, backlog>>

\* A child ends, by itself or killed.  The process it has started for a test may
\* outlive it, with its copy of the socket; there is none while the child asks.
ChildExit(c) ==
  /\ c \in Alive
  /\ \/ child' = [child EXCEPT ![c] = "zombie"]
     \/ child[c] = "running" /\ child' = [child EXCEPT ![c] = "orphaned"]
  /\ signal_catch("chld")
  /\ UNCHANGED <<pc, ret, alarm, tables, backlog>>

ToolExit(c) ==
  /\ child[c] = "orphaned"
  /\ child' = [child EXCEPT ![c] = "zombie"]
  /\ UNCHANGED <<pc, ret, eintr, alarm, tables, flags, backlog>>

\* SIGTERM, SIGINT, SIGHUP, SIGUSR1 or SIGUSR2 from outside.
Terminate ==
  /\ pc # "exited" /\ ~ipfd_exit
  /\ signal_catch("exit")
  /\ UNCHANGED <<pc, ret, alarm, tables, world>>

Ring ==
  /\ alarm /\ pc # "exited"
  /\ alarm' = FALSE
  /\ signal_catch("alrm")
  /\ UNCHANGED <<pc, ret, tables, world>>

ParentStep ==
  \/ LoopTop \/ EnterSelect \/ ListenReady \/ CleanPipes \/ SelectInterrupted \/ Dispatched
  \/ \E c \in Children : NewConnection(c) \/ Waitpid(c)
  \/ ConnectionDropped \/ AcceptInterrupted
  \/ ReapChildren \/ WaitpidNone \/ ClearChld
  \/ Stop \/ Drain \/ EnterSuspend \/ SuspendInterrupted \/ Exit

Death == \E c \in Children : ChildExit(c)

Next ==
  \/ ParentStep \/ Connect \/ Terminate \/ Ring \/ Death
  \/ \E c \in Children : Ask(c) \/ AskEOF(c) \/ AskInterrupted(c) \/ ToolExit(c)

\* The parent runs and its alarm rings.  A child that is not waiting for an
\* answer comes to its end (ControlProtocol!ConnectionEnds), and so does the
\* process of a tool, which has a timer of its own; a read ends at end of file.
Fairness ==
  /\ WF_vars(ParentStep) /\ WF_vars(Ring)
  /\ \A c \in Children :
       /\ SF_vars(child[c] = "running" /\ ChildExit(c))
       /\ WF_vars(ToolExit(c)) /\ WF_vars(AskEOF(c))

Spec == Init /\ [][Next]_vars /\ Fairness

-----------------------------------------------------------------------------
(***************************************************************************)
(* Properties.                                                             *)
(***************************************************************************)

\* Whenever the parent sleeps in select() it listens to every child there is:
\* none is left out of readfds, or is above maxfd because maxfd was lowered
\* with the death of another child and raised again by a new connection.  And
\* at all times what comes in on a descriptor is put down to the child that has
\* it: fdtable and pidtable are inverse to each other, though descriptors are
\* used again.
EveryChildWatched ==
  /\ pc \in {"entering", "select"} =>
       \A c \in Children : child[c] # "none" =>
         pidtable[c] \in readfds /\ pidtable[c] <= maxfd
  /\ \A f \in Fds, c \in Children : fdtable[f] = c <=> pidtable[c] = f

\* The daemon leaves no child behind: when it is gone, each has been waited for
\* or has been sent SIGKILL (KillChildren), however its death, the alarm and the
\* parent's sleep fell together.
NoChildLeft == pc = "exited" => Alive = {}

\* The alarm has rung between the test of ipfd_alrm and sigsuspend(): nothing
\* but the death of a child wakes the parent now.
AlarmMissed == pc = "suspend" /\ ~eintr /\ ipfd_alrm

\* A shutdown that has begun comes to its end: a death or the alarm wakes the
\* parent, a SIGCHLD that falls between the test of ipfd_chld and sigsuspend() is
\* made good by the alarm, and no child waits for ever for an answer that the
\* parent no longer gives.  The one way out is an alarm that is itself missed.
\* (dieby = 0 is accepted and sets no alarm: then this SIGCHLD, too, may be the last.)
ShutdownEnds ==
  Dieby > 0 => (pc = "stop") ~> (pc = "exited" \/ AlarmMissed)

\* A signal to stop is obeyed as long as there is a child or a waiting client,
\* even if it comes between the test of ipfd_exit and select().  (With neither,
\* it is noticed at the next connection.)
SignalObeyed ==
  (ipfd_exit /\ (backlog > 0 \/ \E c \in Children : child[c] # "none"))
    ~> Stopping

\* Any one child: nothing tells them apart.
Subject == CHOOSE c \in Children : TRUE

\* A child that asks is answered, or its wait ends, if connections do not keep
\* coming: these are served first.
ChildrenServed ==
  <>[](backlog = 0) => (child[Subject] = "asking") ~> (child[Subject] # "asking")

\* A dead child is waited for, at the latest after the next death: the SIGCHLD
\* that ReapChildren may lose between its last waitpid() and the assignment to
\* ipfd_chld is made good by the next one.
DeadReaped ==
  []<><<Death>>_vars => (child[Subject] \in Dead) ~> (child[Subject] \notin Dead)
=============================================================================
