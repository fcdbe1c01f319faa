----------------------------- MODULE PolicyTree -----------------------------
(***************************************************************************)
(* The tree of user classes that bwctld reads from its limits file         *)
(* (bwctld/policy.c).  Each limit line defines a class below an earlier    *)
(* one, inherits the limits it does not give and is held to the parent's   *)
(* where it gives a larger one.  A demand for a resource walks from the    *)
(* class of the connection towards the root.                               *)
(***************************************************************************)
EXTENDS Integers

CONSTANTS
  ClassNames,     \* names a limit line may define
  LimitNames,     \* the limits in use, of those of limkeys
  LimitLines,     \* the "with" parts of limit lines: LimitNames -> value
  DefaultClass,   \* the class parselimits defines when the file has none
  DefaultLimits,  \* and its limits
  MaxValue,       \* the largest value of a limit, of as many bits as BWLDLimitT has
  FloatExact,     \* 2^24: up to here a float holds every integer
  AsFloat         \* the float nearest to each value

Unset == -1         \* no record for that limit in BWLDPolicyNodeRec.limits
NoParent == "none"

\* limkeys: the integer limits, whether they are consumed and the defaults
\* that are not 0.
FixedIntLimits == {"bandwidth", "event_horizon", "duration", "max_time_error",
                   "minimum_ttl"}
ConsumedLimits == {"pending"}
IntLimits == FixedIntLimits \cup ConsumedLimits
BoolLimits == {"allow_open_mode", "allow_tcp", "allow_udp", "allow_no_endpoint"}
GetDefLimit(l) == IF l \in {"allow_open_mode", "allow_tcp"} THEN 1 ELSE 0

Values == 0 .. MaxValue
Limits == [LimitNames -> Values \cup {Unset}]

ASSUME FloatAssumption ==
  /\ MaxValue \in Nat /\ FloatExact \in Nat
  /\ AsFloat \in [Values -> Nat]
  /\ \A v \in Values : v <= FloatExact => AsFloat[v] = v
  /\ \A v, w \in Values : v <= w => AsFloat[v] <= AsFloat[w]

ASSUME NamesAssumption == LimitNames \subseteq IntLimits \cup BoolLimits
ASSUME ClassesAssumption == DefaultClass \in ClassNames /\ NoParent \notin ClassNames
ASSUME LinesAssumption == LimitLines \subseteq Limits /\ DefaultLimits \in Limits

VARIABLES
  above,     \* class -> itself and the classes its parent pointers lead to;
             \* {} if not defined.  Pointers never change once set.
  limit,     \* class -> its limits[]
  serving    \* the limits file has been read

treeVars == <<above, limit, serving>>

Defined == {n \in ClassNames : above[n] # {}}

-----------------------------------------------------------------------------
\* parselimitline, "copy the parent parameters that were not overridden":
\* the value for limit l when the line gives g and the parent has p.  Only
\* integer limits are compared, and 0 stands for no limit at all.

\* Mutant: parent parameters are not copied.
OverrideOnly(l, p, g) ==
  IF g # Unset /\ p # Unset /\ l \in IntLimits /\ p # 0 /\ p < g THEN p ELSE g

Override(l, p, g) ==
  CASE g = Unset                                          -> p
    [] g # Unset /\ l \in IntLimits /\ p \notin {Unset, 0} /\ p < g -> p
    [] OTHER                                              -> g

Init ==
  /\ above = [n \in ClassNames |-> {}]
  /\ limit = [n \in ClassNames |-> [l \in LimitNames |-> Unset]]
  /\ serving = FALSE

\* Mutant: a second limit line for the same class is accepted.
ParseLimitLineAgain(n, p, given) ==
  /\ ~serving
  /\ IF Defined = {} THEN p = NoParent ELSE p \in Defined
  /\ above' = [above EXCEPT ![n] = {n} \cup IF p = NoParent THEN {} ELSE above[p]]
  /\ limit' = [limit EXCEPT ![n] = given]
  /\ UNCHANGED serving

\* parselimitline.  A name is defined once; the first class is the root and
\* has no parent, every other has one that is defined.  Any other line stops
\* the daemon before it serves anyone.
ParseLimitLine(n, p, given) ==
  /\ ~serving
  /\ n \notin Defined
  /\ IF Defined = {} THEN p = NoParent ELSE p \in Defined
  /\ IF p = NoParent
       THEN /\ above' = [above EXCEPT ![n] = {n}]
            /\ limit' = [limit EXCEPT ![n] = given]
       ELSE /\ above' = [above EXCEPT ![n] = {n} \cup above[p]]
            /\ limit' = [limit EXCEPT ![n] =
                           [l \in LimitNames |-> Override(l, limit[p][l], given[l])]]
  /\ UNCHANGED serving

\* The end of parselimits.
LimitsParsed ==
  /\ ~serving
  /\ serving' = TRUE
  /\ IF Defined = {}
       THEN /\ above' = [above EXCEPT ![DefaultClass] = {DefaultClass}]
            /\ limit' = [limit EXCEPT ![DefaultClass] = DefaultLimits]
       ELSE UNCHANGED <<above, limit>>

TreeNext ==
  \/ LimitsParsed
  \/ \E n \in ClassNames, p \in ClassNames \cup {NoParent}, given \in LimitLines :
       ParseLimitLine(n, p, given)

-----------------------------------------------------------------------------
(***************************************************************************)
(* IntegerResourceDemand goes from class n to its parent and on.  It stops *)
(* at a class without a record for the limit and passes one whose value is *)
(* 0; the others are consulted.                                            *)
(***************************************************************************)
Walk(n, l) ==
  {m \in above[n] : \A k \in above[n] : m \in above[k] => limit[k][l] # Unset}

\* Mutant: the demand does not go on to the parent.
ConsultedHere(n, l) == {m \in {n} : limit[m][l] \notin {Unset, 0}}

Consulted(n, l) == {m \in Walk(n, l) : limit[m][l] # 0}

GetLimit(n, l) == IF limit[n][l] = Unset THEN GetDefLimit(l) ELSE limit[n][l]

\* BWLDResourceDemand(node, BWLDMESGREQUEST, lim) for the limits that are not
\* consumed.  The limit is multiplied by the float fudge, and the demand becomes a
\* float to be compared with it.
FixedDemand(n, l, v) ==
  IF l \in BoolLimits THEN GetLimit(n, l) = v
  ELSE \A m \in Consulted(n, l) : AsFloat[v] <= AsFloat[limit[m][l]]

-----------------------------------------------------------------------------
TreeTypeOK ==
  /\ above \in [ClassNames -> SUBSET ClassNames]
  /\ limit \in [ClassNames -> Limits]
  /\ serving \in BOOLEAN

(***************************************************************************)
(* What the recursion along parent pointers (IntegerResourceDemand) relies *)
(* on to end: the classes above a class are defined and form a chain       *)
(* without a cycle, each with all of the chain above it.                   *)
(***************************************************************************)
TreeShape ==
  \A n \in Defined :
    /\ n \in above[n]
    /\ \A m \in above[n] : /\ m \in Defined
                           /\ above[m] \subseteq above[n]
                           /\ n \in above[m] => m = n
    /\ \A m, k \in above[n] : m \in above[k] \/ k \in above[m]

(***************************************************************************)
(* "unlimited all the way up the tree" (IntegerResourceDemand): a class    *)
(* without a record for a limit has no class with one above it, so that    *)
(* stopping the walk there skips no limit.                                 *)
(***************************************************************************)
UnlimitedAbove ==
  \A n \in Defined : \A m \in above[n], l \in LimitNames :
    limit[n][l] = Unset => limit[m][l] = Unset

=============================================================================
