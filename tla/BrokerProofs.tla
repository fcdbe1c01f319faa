---------------------------- MODULE BrokerProofs ----------------------------
(***************************************************************************)
(* Proofs about Broker, for every tree of classes, every limits file and   *)
(* any finite number of children.                                          *)
(***************************************************************************)
EXTENDS Broker, FiniteSetTheorems, TLAPS

-----------------------------------------------------------------------------
(***************************************************************************)
(* The tree of classes.                                                    *)
(***************************************************************************)
TreeInv == TreeTypeOK /\ TreeShape /\ UnlimitedAbove

\* An inherited limit is a limit.
LEMMA OverrideType ==
  \A l \in LimitNames : \A p, g \in Values \cup {Unset} :
    /\ Override(l, p, g) \in Values \cup {Unset}
    /\ Override(l, p, g) = Unset => p = Unset
  BY DEF Override, Unset

\* One more class at the end of a chain, with the limits it inherits.
LEMMA ParseStep ==
  ASSUME TreeInv, NEW n \in ClassNames, NEW p \in ClassNames \cup {NoParent},
         NEW given \in LimitLines, ParseLimitLine(n, p, given)
  PROVE  TreeInv'
  <1>1. /\ TreeTypeOK /\ TreeShape /\ UnlimitedAbove /\ given \in Limits
        /\ n \notin Defined /\ above[n] = {}
    BY LinesAssumption DEF TreeInv, ParseLimitLine, Defined
  <1>2. CASE p = NoParent
    <2>1. Defined = {}
      BY <1>2, ClassesAssumption DEF ParseLimitLine, Defined
    <2>2. /\ above' = [above EXCEPT ![n] = {n}]
          /\ limit' = [limit EXCEPT ![n] = given] /\ serving' = serving
      BY <1>2 DEF ParseLimitLine
    <2>3. TreeTypeOK'
      BY <1>1, <2>2 DEF TreeTypeOK, Limits
    <2>4. Defined' = {n} /\ above'[n] = {n}
      BY <1>1, <2>1, <2>2 DEF TreeTypeOK, Defined
    <2>5. TreeShape' /\ UnlimitedAbove'
      BY <2>4 DEF TreeShape, UnlimitedAbove
    <2>6. QED
      BY <2>3, <2>5 DEF TreeInv
  <1>3. CASE p # NoParent
    <2>1. /\ p \in Defined /\ p \in ClassNames
          /\ above' = [above EXCEPT ![n] = {n} \cup above[p]]
          /\ limit' = [limit EXCEPT ![n] =
                         [l \in LimitNames |-> Override(l, limit[p][l], given[l])]]
          /\ serving' = serving
      BY <1>3 DEF ParseLimitLine, Defined
    <2>2. TreeTypeOK'
      <3>1. \A l \in LimitNames : /\ limit[p][l] \in Values \cup {Unset}
                                  /\ given[l] \in Values \cup {Unset}
        BY <1>1, <2>1 DEF TreeTypeOK, Limits
      <3>2. \A l \in LimitNames :
              Override(l, limit[p][l], given[l]) \in Values \cup {Unset}
        BY <3>1, OverrideType, Zenon
      <3>3. [l \in LimitNames |-> Override(l, limit[p][l], given[l])] \in Limits
        BY <3>2 DEF Limits
      <3>4. QED
        BY <1>1, <2>1, <3>3 DEF TreeTypeOK
    <2>3. /\ above'[n] = {n} \cup above[p]
          /\ \A m \in ClassNames \ {n} : above'[m] = above[m] /\ limit'[m] = limit[m]
          /\ \A l \in LimitNames : limit'[n][l] = Override(l, limit[p][l], given[l])
      BY <1>1, <2>1 DEF TreeTypeOK
    <2>4. Defined' = Defined \cup {n}
      BY <1>1, <2>3 DEF Defined
    <2>5. \A m \in Defined : n \notin above[m] /\ m # n
      BY <1>1 DEF TreeShape
    <2>6. TreeShape'
      <3> SUFFICES ASSUME NEW k \in Defined'
                   PROVE  /\ k \in above'[k]
                          /\ \A m \in above'[k] : /\ m \in Defined'
                                                  /\ above'[m] \subseteq above'[k]
                                                  /\ k \in above'[m] => m = k
                          /\ \A m, j \in above'[k] : m \in above'[j] \/ j \in above'[m]
        BY DEF TreeShape
      <3>1. Defined \subseteq ClassNames
        BY DEF Defined
      <3>2. CASE k # n
        <4>1. k \in Defined /\ above'[k] = above[k] /\ above[k] \subseteq Defined
          BY <1>1, <2>3, <2>4, <3>1, <3>2 DEF TreeShape
        <4>2. \A m \in above[k] : above'[m] = above[m]
          BY <2>3, <2>5, <3>1, <4>1
        <4>3. QED
          BY <1>1, <2>4, <4>1, <4>2 DEF TreeShape
      <3>3. CASE k = n
        <4>1. above[p] \subseteq Defined /\ n \notin above[p]
          BY <1>1, <2>1, <2>5 DEF TreeShape
        <4>2. \A m \in above[p] : above'[m] = above[m]
          BY <2>3, <2>5, <3>1, <4>1
        <4>3. \A m \in above[p] : above[m] \subseteq above[p] /\ n \notin above[m]
          BY <1>1, <2>1, <2>5, <4>1 DEF TreeShape
        <4>4. \A m, j \in above[p] : m \in above[j] \/ j \in above[m]
          BY <1>1, <2>1 DEF TreeShape
        <4>5. QED
          BY <2>3, <2>4, <3>3, <4>1, <4>2, <4>3, <4>4
      <3>4. QED
        BY <3>2, <3>3
    <2>7. UnlimitedAbove'
      <3> SUFFICES ASSUME NEW k \in Defined', NEW m \in above'[k], NEW l \in LimitNames,
                          limit'[k][l] = Unset
                   PROVE  limit'[m][l] = Unset
        BY DEF UnlimitedAbove
      <3>1. Defined \subseteq ClassNames
        BY DEF Defined
      <3>2. CASE k # n
        <4>1. k \in Defined /\ m \in above[k] /\ m # n /\ m \in Defined
          BY <1>1, <2>3, <2>4, <2>5, <3>1, <3>2 DEF TreeShape
        <4>2. QED
          BY <1>1, <2>3, <3>1, <3>2, <4>1 DEF UnlimitedAbove
      <3>3. CASE k = n /\ m # n
        <4>1. limit[p][l] \in Values \cup {Unset} /\ given[l] \in Values \cup {Unset}
          BY <1>1, <2>1 DEF TreeTypeOK, Limits
        <4>2. limit[p][l] = Unset
          <5>1. Override(l, limit[p][l], given[l]) = Unset
            BY <2>3, <3>3
          <5>2. QED
            BY <4>1, <5>1, OverrideType, Zenon
        <4>3. m \in above[p] /\ m \in Defined
          BY <1>1, <2>1, <2>3, <3>3 DEF TreeShape
        <4>4. QED
          BY <1>1, <2>1, <2>3, <3>1, <3>3, <4>2, <4>3 DEF UnlimitedAbove
      <3>4. QED
        BY <3>2, <3>3
    <2>8. QED
      BY <2>2, <2>6, <2>7 DEF TreeInv
  <1>4. QED
    BY <1>2, <1>3

LEMMA ParsedStep == TreeInv /\ LimitsParsed => TreeInv'
  <1> SUFFICES ASSUME TreeInv, LimitsParsed PROVE TreeInv'
    OBVIOUS
  <1>1. CASE Defined # {}
    BY <1>1 DEF TreeInv, LimitsParsed, TreeTypeOK, TreeShape, UnlimitedAbove, Defined
  <1>2. CASE Defined = {}
    <2>1. /\ above' = [above EXCEPT ![DefaultClass] = {DefaultClass}]
          /\ limit' = [limit EXCEPT ![DefaultClass] = DefaultLimits]
          /\ serving' = TRUE
      BY <1>2 DEF LimitsParsed
    <2>2. TreeTypeOK'
      BY <2>1, ClassesAssumption, LinesAssumption DEF TreeInv, TreeTypeOK
    <2>3. Defined' = {DefaultClass} /\ above'[DefaultClass] = {DefaultClass}
      BY <1>2, <2>1, ClassesAssumption DEF TreeInv, TreeTypeOK, Defined
    <2>4. QED
      BY <2>2, <2>3 DEF TreeInv, TreeShape, UnlimitedAbove
  <1>3. QED
    BY <1>1, <1>2

LEMMA TreeInit == Init => TreeInv
  BY DEF Init, TreeInv, TreeTypeOK, TreeShape, UnlimitedAbove, Defined, Limits, Unset

\* The walk of IntegerResourceDemand stops early and still meets every class
\* above that has a limit.
LEMMA WalkMeetsAll ==
  ASSUME TreeInv, NEW n \in Defined, NEW l \in LimitNames, NEW m \in above[n]
  PROVE  m \in Consulted(n, l) <=> limit[m][l] \notin {Unset, 0}
  <1>1. m \in above[m]
    BY DEF TreeInv, TreeShape
  <1>2. ASSUME limit[m][l] # Unset PROVE m \in Walk(n, l)
    <2>1. \A k \in above[n] : m \in above[k] => limit[k][l] # Unset
      BY <1>2 DEF TreeInv, TreeShape, UnlimitedAbove
    <2>2. QED
      BY <2>1 DEF Walk
  <1>3. QED
    BY <1>1, <1>2 DEF Consulted, Walk

-----------------------------------------------------------------------------
(***************************************************************************)
(* The inductive invariant.  Exchange says which message or answer, and    *)
(* which reservation at the parent, goes with each state of a child; Books *)
(* puts the parent's count between the units that are held and the limit.  *)
(***************************************************************************)
Quiet(c) == msg[c] = "none" /\ ans[c] = "none"
Asked(c, m) == msg[c] = m /\ ans[c] = "none"
Answered(c, A) == msg[c] = "none" /\ ans[c] \in A

Exchange(c) ==
  \/ st[c] = "none" /\ Quiet(c) /\ ~res[c]
  \/ st[c] = "accept" /\ Quiet(c) /\ ~res[c]
  \/ /\ st[c] = "class" /\ ~res[c] /\ class[c] \in Defined
     /\ Asked(c, "CLASS") \/ (Answered(c, {"OK"}) /\ node[c] = class[c])
  \/ /\ class[c] \in Defined /\ node[c] = class[c]
     /\ \/ st[c] = "idle" /\ ~res[c] /\ Quiet(c)
        \/ /\ st[c] = "asking" /\ ~res[c]
           /\ Asked(c, "REQUEST") \/ Answered(c, {"OK", "DENIED"})
        \/ /\ st[c] = "reserving" /\ res[c]
           /\ Asked(c, "UPDATE") \/ Answered(c, {"OK"})
        \/ /\ st[c] = "reserving" /\ ~res[c]
           /\ Asked(c, "RESERVATION") \/ Answered(c, {"DENIED", "INVALID"})
        \/ st[c] = "held" /\ res[c] /\ Quiet(c)
        \/ /\ st[c] = "releasing" /\ res[c]
           /\ Asked(c, "RELEASE") \/ Answered(c, {"OK", "DENIED"})
        \/ st[c] = "completing" /\ res[c] /\ Asked(c, "COMPLETE")
        \/ st[c] = "completing" /\ ~res[c] /\ Answered(c, {"OK"})

Session(c) ==
  /\ Exchange(c)
  /\ proc[c] = "none" => st[c] = "none"
  /\ st[c] \in {"none", "accept", "class", "idle"} => test[c] = NoTest

Limited(m) == limit[m]["pending"] \notin {Unset, 0}

Books ==
  \A m \in Defined :
    Limited(m) => /\ Cardinality(Holding(m)) <= used[m]
                  /\ used[m] <= limit[m]["pending"]

Closed ==
  ~serving => /\ \A c \in Children : proc[c] = "none"
              /\ \A n \in ClassNames : used[n] = 0

IInv ==
  /\ TypeOK /\ TreeShape /\ UnlimitedAbove
  /\ \A c \in Children : Session(c)
  /\ Books /\ Closed /\ AdmittedWithinLimits

-----------------------------------------------------------------------------
(***************************************************************************)
(* Counting.                                                               *)
(***************************************************************************)
LEMMA HoldingFinite ==
  \A m : IsFiniteSet(Holding(m)) /\ Cardinality(Holding(m)) \in Nat
  <1> SUFFICES ASSUME NEW m
               PROVE  IsFiniteSet(Holding(m)) /\ Cardinality(Holding(m)) \in Nat
    OBVIOUS
  <1>1. Holding(m) \subseteq Children
    BY DEF Holding
  <1>2. IsFiniteSet(Holding(m))
    BY <1>1, ChildrenAssumption, FS_Subset
  <1>3. QED
    BY <1>2, FS_CardinalityType

\* Others only: every child but c is charged, and classed, as before.
Others(c) ==
  /\ above' = above
  /\ \A d \in Children \ {c} : /\ st'[d] = st[d] /\ msg'[d] = msg[d]
                               /\ ans'[d] = ans[d] /\ class'[d] = class[d]

LEMMA OthersHold ==
  ASSUME NEW c \in Children, Others(c), NEW m
  PROVE  Holding(m)' \ {c} = Holding(m) \ {c}
  BY DEF Others, Holding, Charged

\* A step that charges no new unit keeps the books.
LEMMA BooksKept ==
  ASSUME IInv, NEW c \in Children, Others(c), limit' = limit, used' = used,
         ~Charged(c)' \/ (Charged(c) /\ class'[c] = class[c])
  PROVE  Books'
  <1> SUFFICES ASSUME NEW m \in Defined', Limited(m)'
               PROVE  /\ Cardinality(Holding(m)') <= used'[m]
                      /\ used'[m] <= limit'[m]["pending"]
    BY DEF Books
  <1>1. m \in Defined /\ Limited(m) /\ m \in ClassNames
    BY DEF Others, Defined, Limited
  <1>2. /\ Cardinality(Holding(m)) <= used[m] /\ used[m] <= limit[m]["pending"]
        /\ used[m] \in Nat
    BY <1>1 DEF IInv, Books, TypeOK
  <1>3. Holding(m)' \subseteq Holding(m)
    <2>1. Holding(m)' \ {c} \subseteq Holding(m)
      BY OthersHold
    <2>2. c \in Holding(m)' => c \in Holding(m)
      BY DEF Holding, Others
    <2>3. QED
      BY <2>1, <2>2
  <1>4. Cardinality(Holding(m)') <= Cardinality(Holding(m)) /\ Cardinality(Holding(m)') \in Nat
    BY <1>3, HoldingFinite, FS_Subset, FS_CardinalityType
  <1>5. QED
    BY <1>2, <1>4, HoldingFinite

\* The classes a unit is counted in are the limited ones above its class.
LEMMA TakesMeaning ==
  ASSUME IInv, NEW n \in Defined, NEW m \in ClassNames
  PROVE  m \in Takes(n) <=> m \in above[n] /\ Limited(m)
  <1>1. TreeInv
    BY DEF IInv, TypeOK, TreeInv
  <1>2. m \in Takes(n) => m \in above[n]
    BY DEF Takes, Consulted, Walk
  <1>3. QED
    BY <1>1, <1>2, WalkMeetsAll, PendingAssumption DEF Takes, Limited

-----------------------------------------------------------------------------
(***************************************************************************)
(* One step of one child or of the parent for one child.                   *)
(***************************************************************************)
TestWithin(c) ==
  \A l \in DOMAIN test[c] \cap IntLimits : \A m \in above[class[c]] :
    limit[m][l] \notin {Unset, 0} => Within(test[c][l], limit[m][l])

\* Everything that is not child c's is left alone.
Alone(c) ==
  /\ UNCHANGED treeVars
  /\ \A d \in Children \ {c} :
       /\ proc'[d] = proc[d] /\ class'[d] = class[d] /\ st'[d] = st[d]
       /\ test'[d] = test[d] /\ msg'[d] = msg[d] /\ ans'[d] = ans[d]
       /\ node'[d] = node[d] /\ res'[d] = res[d]

LEMMA AloneStep ==
  ASSUME IInv, NEW c \in Children, Alone(c), serving,
         TypeOK', Session(c)', TestWithin(c)', Books'
  PROVE  IInv'
  <1>1. above' = above /\ limit' = limit /\ serving' = serving /\ Defined' = Defined
    BY DEF Alone, treeVars, Defined
  <1>2. TreeShape' /\ UnlimitedAbove'
    BY <1>1 DEF IInv, TreeShape, UnlimitedAbove
  <1>3. ASSUME NEW d \in Children PROVE Session(d)'
    <2>1. CASE d = c
      BY <2>1
    <2>2. CASE d # c
      <3>1. Session(d)
        BY DEF IInv
      <3>2. /\ proc'[d] = proc[d] /\ class'[d] = class[d] /\ st'[d] = st[d]
            /\ test'[d] = test[d] /\ msg'[d] = msg[d] /\ ans'[d] = ans[d]
            /\ node'[d] = node[d] /\ res'[d] = res[d]
        BY <2>2 DEF Alone
      <3>3. QED
        BY <1>1, <3>1, <3>2 DEF Session, Exchange, Quiet, Asked, Answered
    <2>3. QED
      BY <2>1, <2>2
  <1>4. AdmittedWithinLimits'
    <2> SUFFICES ASSUME NEW d \in Children PROVE TestWithin(d)'
      BY DEF AdmittedWithinLimits, TestWithin
    <2>1. CASE d = c
      BY <2>1
    <2>2. CASE d # c
      BY <1>1, <2>2 DEF IInv, AdmittedWithinLimits, TestWithin, Alone
    <2>3. QED
      BY <2>1, <2>2
  <1>5. Closed'
    BY <1>1 DEF Closed
  <1>6. QED
    BY <1>2, <1>3, <1>4, <1>5 DEF IInv

\* A child that is somewhere in its hooks: the file has been read.
LEMMA Served ==
  ASSUME IInv, NEW c \in Children, proc[c] # "none" \/ st[c] # "none" \/ msg[c] # "none"
  PROVE  serving
  BY DEF IInv, Session, Exchange, Closed, Quiet, TypeOK, TreeTypeOK

LEMMA NoTestWithin ==
  ASSUME NEW c \in Children, test[c] = NoTest
  PROVE  TestWithin(c)
  BY DEF TestWithin, NoTest, IntLimits, FixedIntLimits, ConsumedLimits

\* The parent's steps.
LEMMA NewConnectionStep ==
  ASSUME IInv, NEW c \in Children, NewConnection(c) PROVE IInv'
  <1>1. TypeOK' /\ Alone(c) /\ Others(c) /\ limit' = limit /\ used' = used
    BY DEF IInv, TypeOK, TreeTypeOK, NewConnection, Alone, Others, treeVars, States, Defined
  <1>2. Session(c) /\ st[c] = "none" /\ st'[c] = "accept" /\ proc'[c] = "alive"
    BY DEF IInv, NewConnection, Session, TypeOK
  <1>3. Session(c)' /\ test'[c] = NoTest /\ ~Charged(c)'
    BY <1>1, <1>2 DEF NewConnection, Session, Exchange, Quiet, Charged
  <1>4. TestWithin(c)'
    BY <1>3, NoTestWithin DEF TestWithin, NoTest, IntLimits, FixedIntLimits, ConsumedLimits
  <1>5. serving
    BY DEF NewConnection
  <1>6. QED
    BY <1>1, <1>3, <1>4, <1>5, BooksKept, AloneStep

LEMMA ReadClassStep ==
  ASSUME IInv, NEW c \in Children, ReadClass(c) PROVE IInv'
  <1>1. Session(c) /\ msg[c] = "CLASS"
    BY DEF IInv, ReadClass, Reply
  <1>2. st[c] = "class" /\ class[c] \in Defined
    BY <1>1 DEF Session, Exchange, Quiet, Asked, Answered
  <1>3. TypeOK' /\ Alone(c) /\ Others(c) /\ limit' = limit /\ used' = used
    BY <1>2 DEF IInv, TypeOK, TreeTypeOK, ReadClass, Reply, Alone, Others, treeVars, chldVars,
       Messages, Answers, Defined
  <1>4. /\ st'[c] = "class" /\ class'[c] = class[c] /\ node'[c] = class[c]
        /\ msg'[c] = "none" /\ ans'[c] = "OK" /\ res'[c] = res[c]
        /\ proc'[c] = proc[c] /\ test'[c] = test[c]
    BY <1>2 DEF IInv, TypeOK, ReadClass, Reply, chldVars
  <1>5. Defined' = Defined
    BY <1>3 DEF Others, Defined
  <1>6. Session(c)' /\ ~Charged(c)'
    BY <1>1, <1>2, <1>4, <1>5 DEF Session, Exchange, Quiet, Asked, Answered, Charged
  <1>7. TestWithin(c)'
    BY <1>1, <1>2, <1>4 DEF Session, TestWithin, NoTest, IntLimits, FixedIntLimits, ConsumedLimits
  <1>8. serving
    BY <1>1, Served
  <1>9. QED
    BY <1>3, <1>6, <1>7, <1>8, BooksKept, AloneStep

\* A request that fits is counted in every limited class above.
LEMMA RequestBooks ==
  ASSUME IInv, NEW c \in Children, Others(c), limit' = limit, class'[c] = class[c],
         class[c] \in Defined, ~Charged(c), RequestOK(class[c]),
         used' = UsedAfter(class[c], 1)
  PROVE  Books' /\ used' \in [ClassNames -> Nat]
  <1>1. used \in [ClassNames -> Nat] /\ Defined \subseteq ClassNames
    BY DEF IInv, TypeOK, Defined
  <1>2. used' \in [ClassNames -> Nat]
    BY <1>1 DEF UsedAfter
  <1>3. ASSUME NEW m \in Defined', Limited(m)'
        PROVE  /\ Cardinality(Holding(m)') <= used'[m]
               /\ used'[m] <= limit'[m]["pending"]
    <2>1. m \in Defined /\ Limited(m) /\ m \in ClassNames
      BY <1>3 DEF Others, Defined, Limited
    <2>2. /\ Cardinality(Holding(m)) <= used[m] /\ used[m] <= limit[m]["pending"]
          /\ used[m] \in Nat /\ Cardinality(Holding(m)) \in Nat
      BY <2>1, HoldingFinite DEF IInv, Books, TypeOK
    <2>3. Holding(m)' \ {c} \subseteq Holding(m)
      BY OthersHold
    <2>4. CASE m \in above[class[c]]
      <3>1. m \in Takes(class[c])
        BY <2>1, <2>4, TakesMeaning
      <3>2. used'[m] = used[m] + 1 /\ used[m] + 1 <= limit[m]["pending"]
        BY <2>1, <3>1 DEF UsedAfter, RequestOK
      <3>3. IsFiniteSet(Holding(m) \cup {c})
            /\ Cardinality(Holding(m) \cup {c}) = Cardinality(Holding(m)) + 1
        <4>1. c \notin Holding(m)
          BY DEF Holding
        <4>2. QED
          BY <4>1, HoldingFinite, FS_AddElement
      <3>4. Holding(m)' \subseteq Holding(m) \cup {c}
        BY <2>3
      <3>5. Cardinality(Holding(m)') <= Cardinality(Holding(m) \cup {c})
            /\ Cardinality(Holding(m)') \in Nat
        BY <3>3, <3>4, FS_Subset, FS_CardinalityType
      <3>6. QED
        BY <2>2, <3>2, <3>3, <3>5
    <2>5. CASE m \notin above[class[c]]
      <3>1. m \notin Takes(class[c])
        BY <2>1, <2>5, TakesMeaning
      <3>2. used'[m] = used[m]
        BY <2>1, <3>1 DEF UsedAfter
      <3>3. Holding(m)' \subseteq Holding(m)
        <4>1. c \notin Holding(m)'
          BY <2>5 DEF Holding, Others
        <4>2. QED
          BY <2>3, <4>1
      <3>4. Cardinality(Holding(m)') <= Cardinality(Holding(m))
            /\ Cardinality(Holding(m)') \in Nat
        BY <3>3, HoldingFinite, FS_Subset, FS_CardinalityType
      <3>5. QED
        BY <2>2, <3>2, <3>4
    <2>6. QED
      BY <2>4, <2>5
  <1>4. QED
    BY <1>2, <1>3 DEF Books

\* Whoever holds a unit finds it counted, so that its release succeeds.
LEMMA HeldIsCounted ==
  ASSUME IInv, NEW c \in Children, class[c] \in Defined, Charged(c)
  PROVE  ReleaseOK(class[c])
  <1> SUFFICES ASSUME NEW m \in Takes(class[c]) PROVE 1 <= used[m]
    BY DEF ReleaseOK
  <1>1. m \in above[class[c]] /\ m \in Defined /\ m \in ClassNames
    BY DEF Takes, Consulted, Walk, IInv, TreeShape, Defined
  <1>2. Limited(m)
    BY <1>1, TakesMeaning
  <1>3. c \in Holding(m)
    BY <1>1 DEF Holding
  <1>4. Cardinality(Holding(m)) # 0 /\ Cardinality(Holding(m)) \in Nat
    BY <1>3, HoldingFinite, FS_EmptySet
  <1>5. Cardinality(Holding(m)) <= used[m] /\ used[m] \in Nat
    BY <1>1, <1>2 DEF IInv, Books, TypeOK
  <1>6. QED
    BY <1>4, <1>5

LEMMA ReleaseBooks ==
  ASSUME IInv, NEW c \in Children, Others(c), limit' = limit, class[c] \in Defined,
         Charged(c), ~Charged(c)', used' = UsedAfter(class[c], -1)
  PROVE  Books' /\ used' \in [ClassNames -> Nat]
  <1>1. used \in [ClassNames -> Nat] /\ Defined \subseteq ClassNames
    BY DEF IInv, TypeOK, Defined
  <1>2. used' \in [ClassNames -> Nat]
    <2>1. \A m \in Takes(class[c]) : 1 <= used[m]
      BY HeldIsCounted DEF ReleaseOK
    <2>2. QED
      BY <1>1, <2>1 DEF UsedAfter
  <1>3. ASSUME NEW m \in Defined', Limited(m)'
        PROVE  /\ Cardinality(Holding(m)') <= used'[m]
               /\ used'[m] <= limit'[m]["pending"]
    <2>1. m \in Defined /\ Limited(m) /\ m \in ClassNames
      BY <1>3 DEF Others, Defined, Limited
    <2>2. /\ Cardinality(Holding(m)) <= used[m] /\ used[m] <= limit[m]["pending"]
          /\ used[m] \in Nat /\ Cardinality(Holding(m)) \in Nat
          /\ limit[m]["pending"] \in Int
      BY <2>1, HoldingFinite, PendingAssumption
         DEF IInv, Books, TypeOK, TreeTypeOK, Limits, Values, Unset
    <2>3. Holding(m)' = Holding(m) \ {c}
      <3>1. c \notin Holding(m)'
        BY DEF Holding
      <3>2. QED
        BY <3>1, OthersHold
    <2>4. CASE m \in above[class[c]]
      <3>1. m \in Takes(class[c]) /\ c \in Holding(m)
        BY <2>1, <2>4, TakesMeaning DEF Holding
      <3>2. used'[m] = used[m] - 1
        BY <1>1, <2>1, <3>1 DEF UsedAfter
      <3>3. Cardinality(Holding(m)') = Cardinality(Holding(m)) - 1
        BY <2>3, <3>1, HoldingFinite, FS_RemoveElement
      <3>4. QED
        BY <2>2, <3>2, <3>3
    <2>5. CASE m \notin above[class[c]]
      <3>1. m \notin Takes(class[c]) /\ c \notin Holding(m)
        BY <2>1, <2>5, TakesMeaning DEF Holding
      <3>2. used'[m] = used[m] /\ Holding(m)' = Holding(m)
        BY <2>1, <2>3, <3>1 DEF UsedAfter
      <3>3. QED
        BY <2>2, <3>2
    <2>6. QED
      BY <2>4, <2>5
  <1>4. QED
    BY <1>2, <1>3 DEF Books

LEMMA ResourceRequestStep ==
  ASSUME IInv, NEW c \in Children, ResourceRequest(c) PROVE IInv'
  <1>1. Session(c) /\ msg[c] = "REQUEST"
    BY DEF IInv, ResourceRequest, Reply
  <1>2. /\ st[c] = "asking" /\ class[c] \in Defined /\ node[c] = class[c]
        /\ ans[c] = "none" /\ ~res[c] /\ ~Charged(c)
    BY <1>1 DEF Session, Exchange, Quiet, Asked, Answered, Charged
  <1>3. PICK a \in {"OK", "DENIED"} : ans' = [ans EXCEPT ![c] = a]
    BY DEF ResourceRequest, Reply
  <1>4. /\ msg' = [msg EXCEPT ![c] = "none"] /\ UNCHANGED <<treeVars, chldVars, node, res>>
    BY DEF ResourceRequest, Reply
  <1>5. /\ Alone(c) /\ Others(c) /\ limit' = limit /\ Defined' = Defined
        /\ st'[c] = "asking" /\ class'[c] = class[c] /\ node'[c] = class[c]
        /\ msg'[c] = "none" /\ ans'[c] = a /\ ~res'[c] /\ proc' = proc /\ test' = test
    BY <1>2, <1>3, <1>4 DEF IInv, TypeOK, Alone, Others, treeVars, chldVars, Defined
  <1>6. Books' /\ used' \in [ClassNames -> Nat]
    <2>1. CASE RequestOK(node[c]) /\ used' = UsedAfter(node[c], 1)
      BY <1>2, <1>5, <2>1, RequestBooks
    <2>2. CASE ans'[c] = "DENIED" /\ used' = used
      <3>1. ~Charged(c)'
        BY <1>5, <2>2 DEF Charged
      <3>2. QED
        BY <1>5, <2>2, <3>1, BooksKept DEF IInv, TypeOK
    <2>3. QED
      BY <1>2, <2>1, <2>2 DEF ResourceRequest, Reply, IInv, TypeOK
  <1>7. TypeOK'
    BY <1>3, <1>4, <1>5, <1>6
       DEF IInv, TypeOK, TreeTypeOK, treeVars, chldVars, Messages, Answers
  <1>8. Session(c)'
    BY <1>1, <1>2, <1>5 DEF Session, Exchange, Quiet, Asked, Answered
  <1>9. TestWithin(c)'
    BY <1>5 DEF IInv, AdmittedWithinLimits, TestWithin, Others
  <1>10. QED
    BY <1>1, <1>5, <1>6, <1>7, <1>8, <1>9, Served, AloneStep

LEMMA ResourceReleaseStep ==
  ASSUME IInv, NEW c \in Children, ResourceRelease(c) PROVE IInv'
  <1>1. Session(c) /\ msg[c] = "RELEASE"
    BY DEF IInv, ResourceRelease, Reply
  <1>2. /\ st[c] = "releasing" /\ class[c] \in Defined /\ node[c] = class[c]
        /\ ans[c] = "none" /\ res[c] /\ Charged(c)
    BY <1>1 DEF Session, Exchange, Quiet, Asked, Answered, Charged
  <1>3. ReleaseOK(node[c])
    BY <1>2, HeldIsCounted
  <1>4. /\ msg' = [msg EXCEPT ![c] = "none"] /\ ans' = [ans EXCEPT ![c] = "OK"]
        /\ used' = UsedAfter(node[c], -1) /\ UNCHANGED <<treeVars, chldVars, node, res>>
    BY <1>3 DEF ResourceRelease, Reply
  <1>5. /\ Alone(c) /\ Others(c) /\ limit' = limit /\ Defined' = Defined
        /\ st'[c] = "releasing" /\ class'[c] = class[c] /\ node'[c] = class[c]
        /\ msg'[c] = "none" /\ ans'[c] = "OK" /\ res'[c] /\ proc' = proc /\ test' = test
    BY <1>2, <1>4 DEF IInv, TypeOK, Alone, Others, treeVars, chldVars, Defined
  <1>6. ~Charged(c)'
    BY <1>5 DEF Charged
  <1>7. Books' /\ used' \in [ClassNames -> Nat]
    BY <1>2, <1>4, <1>5, <1>6, ReleaseBooks
  <1>8. TypeOK'
    BY <1>4, <1>5, <1>7
       DEF IInv, TypeOK, TreeTypeOK, treeVars, chldVars, Messages, Answers
  <1>9. Session(c)'
    BY <1>1, <1>2, <1>5 DEF Session, Exchange, Quiet, Asked, Answered
  <1>10. TestWithin(c)'
    BY <1>5 DEF IInv, AdmittedWithinLimits, TestWithin, Others
  <1>11. QED
    BY <1>1, <1>5, <1>7, <1>8, <1>9, <1>10, Served, AloneStep

-----------------------------------------------------------------------------
(***************************************************************************)
(* Steps that count nothing.                                               *)
(***************************************************************************)
LEMMA PlainStep ==
  ASSUME IInv, NEW c \in Children, Alone(c), used' = used, serving,
         TypeOK', Session(c)', test'[c] = NoTest \/ (test'[c] = test[c] /\ class'[c] = class[c]),
         ~Charged(c)' \/ (Charged(c) /\ class'[c] = class[c])
  PROVE  IInv'
  <1>1. Others(c) /\ limit' = limit /\ above' = above
    BY DEF Alone, Others, treeVars
  <1>2. Books'
    BY <1>1, BooksKept
  <1>3. TestWithin(c)'
    BY <1>1 DEF IInv, AdmittedWithinLimits, TestWithin, NoTest, IntLimits, FixedIntLimits,
                ConsumedLimits
  <1>4. QED
    BY <1>2, <1>3, AloneStep

LEMMA ReservationDemandStep ==
  ASSUME IInv, NEW c \in Children, NEW m \in {"RESERVATION", "UPDATE"},
         ReservationDemand(c, m)
  PROVE  IInv'
  <1>1. Session(c) /\ msg[c] = m
    BY DEF IInv, ReservationDemand, Reply
  <1>2. /\ st[c] = "reserving" /\ class[c] \in Defined /\ node[c] = class[c]
        /\ ans[c] = "none" /\ ~OtherSession(c, m)
    BY <1>1 DEF Session, Exchange, Quiet, Asked, Answered, OtherSession
  <1>3. PICK a \in {"OK", "DENIED", "INVALID"} :
          ans' = [ans EXCEPT ![c] = a] /\ res' = [res EXCEPT ![c] = (a = "OK")]
    <2>1. OtherSession(c, m) = FALSE
      BY <1>2 DEF OtherSession, IInv, TypeOK
    <2>2. QED
      BY <2>1 DEF ReservationDemand, Reply
  <1>4. msg' = [msg EXCEPT ![c] = "none"] /\ UNCHANGED <<treeVars, used, chldVars, node>>
    BY DEF ReservationDemand, Reply
  <1>5. /\ Alone(c) /\ Defined' = Defined /\ used' = used
        /\ st'[c] = "reserving" /\ class'[c] = class[c] /\ node'[c] = class[c]
        /\ msg'[c] = "none" /\ ans'[c] = a /\ res'[c] = (a = "OK")
        /\ proc'[c] = proc[c] /\ test'[c] = test[c]
    BY <1>2, <1>3, <1>4 DEF IInv, TypeOK, Alone, treeVars, chldVars, Defined
  <1>6. TypeOK'
    BY <1>3, <1>4, <1>5 DEF IInv, TypeOK, TreeTypeOK, treeVars, chldVars, Messages, Answers
  <1>7. Session(c)' /\ Charged(c)
    BY <1>1, <1>2, <1>5 DEF Session, Exchange, Quiet, Asked, Answered, Charged
  <1>8. QED
    BY <1>1, <1>5, <1>6, <1>7, Served, PlainStep

LEMMA ReservationCompleteStep ==
  ASSUME IInv, NEW c \in Children, ReservationComplete(c) PROVE IInv'
  <1>1. Session(c) /\ msg[c] = "COMPLETE"
    BY DEF IInv, ReservationComplete, Reply
  <1>2. /\ st[c] = "completing" /\ class[c] \in Defined /\ node[c] = class[c]
        /\ ans[c] = "none" /\ res[c]
    BY <1>1 DEF Session, Exchange, Quiet, Asked, Answered
  <1>3. /\ msg' = [msg EXCEPT ![c] = "none"] /\ ans' = [ans EXCEPT ![c] = "OK"]
        /\ res' = [res EXCEPT ![c] = FALSE]
        /\ UNCHANGED <<treeVars, used, chldVars, node>>
    BY <1>2 DEF ReservationComplete, Reply
  <1>4. /\ Alone(c) /\ Defined' = Defined /\ used' = used
        /\ st'[c] = "completing" /\ class'[c] = class[c] /\ node'[c] = class[c]
        /\ msg'[c] = "none" /\ ans'[c] = "OK" /\ ~res'[c]
        /\ proc'[c] = proc[c] /\ test'[c] = test[c]
    BY <1>2, <1>3 DEF IInv, TypeOK, Alone, treeVars, chldVars, Defined
  <1>5. TypeOK'
    BY <1>3, <1>4 DEF IInv, TypeOK, TreeTypeOK, treeVars, chldVars, Messages, Answers
  <1>6. Session(c)' /\ ~Charged(c)'
    BY <1>1, <1>2, <1>4 DEF Session, Exchange, Quiet, Asked, Answered, Charged
  <1>7. QED
    BY <1>1, <1>4, <1>5, <1>6, Served, PlainStep

LEMMA FreeChldStateStep ==
  ASSUME IInv, NEW c \in Children, FreeChldState(c) PROVE IInv'
  <1>1. /\ Alone(c) /\ Defined' = Defined /\ used' = used
        /\ st'[c] = "none" /\ proc'[c] = "none" /\ msg'[c] = "none" /\ ans'[c] = "none"
        /\ ~res'[c] /\ test'[c] = NoTest
    BY DEF FreeChldState, IInv, TypeOK, Alone, treeVars, Defined
  <1>2. TypeOK'
    BY <1>1 DEF FreeChldState, IInv, TypeOK, TreeTypeOK, treeVars, States, Messages, Answers
  <1>3. Session(c)' /\ ~Charged(c)'
    BY <1>1 DEF Session, Exchange, Quiet, Charged
  <1>4. serving
    BY Served DEF FreeChldState
  <1>5. QED
    BY <1>1, <1>2, <1>3, <1>4, PlainStep

-----------------------------------------------------------------------------
(***************************************************************************)
(* The children's steps.                                                   *)
(***************************************************************************)
LEMMA SendClassStep ==
  ASSUME IInv, NEW c \in Children, NEW n \in ClassNames, SendClass(c, n) PROVE IInv'
  <1>1. Session(c) /\ st[c] = "accept" /\ n \in Defined /\ proc[c] = "alive"
    BY DEF IInv, SendClass, Send
  <1>2. /\ Alone(c) /\ Defined' = Defined /\ used' = used
        /\ st'[c] = "class" /\ class'[c] = n /\ msg'[c] = "CLASS" /\ ans'[c] = ans[c]
        /\ res'[c] = res[c] /\ proc'[c] = proc[c] /\ test'[c] = test[c]
    BY DEF SendClass, Send, IInv, TypeOK, Alone, treeVars, Defined
  <1>3. TypeOK'
    BY <1>1, <1>2 DEF SendClass, Send, IInv, TypeOK, TreeTypeOK, treeVars, States, Messages
  <1>4. Session(c)' /\ ~Charged(c)' /\ test'[c] = NoTest
    BY <1>1, <1>2 DEF Session, Exchange, Quiet, Asked, Answered, Charged
  <1>5. QED
    BY <1>1, <1>2, <1>3, <1>4, Served, PlainStep

LEMMA ClassAnsweredStep ==
  ASSUME IInv, NEW c \in Children, ClassAnswered(c) PROVE IInv'
  <1>1. Session(c) /\ st[c] = "class" /\ ans[c] # "none" /\ proc[c] = "alive"
    BY DEF IInv, ClassAnswered, Receive
  <1>2. class[c] \in Defined /\ node[c] = class[c] /\ msg[c] = "none" /\ ~res[c]
    BY <1>1 DEF Session, Exchange, Quiet, Asked, Answered
  <1>3. /\ Alone(c) /\ Defined' = Defined /\ used' = used
        /\ st'[c] = "idle" /\ class'[c] = class[c] /\ node'[c] = node[c]
        /\ msg'[c] = "none" /\ ans'[c] = "none" /\ ~res'[c]
        /\ proc'[c] = proc[c] /\ test'[c] = test[c]
    BY <1>2 DEF ClassAnswered, Receive, IInv, TypeOK, Alone, treeVars, Defined
  <1>4. TypeOK'
    BY <1>3 DEF ClassAnswered, Receive, IInv, TypeOK, TreeTypeOK, treeVars, States, Answers
  <1>5. Session(c)' /\ ~Charged(c)'
    BY <1>1, <1>2, <1>3 DEF Session, Exchange, Quiet, Asked, Answered, Charged
  <1>6. QED
    BY <1>1, <1>3, <1>4, <1>5, Served, PlainStep

\* What passes the comparison of floats is within the limit, but for their rounding.
LEMMA FloatWithin ==
  ASSUME NEW v \in Values, NEW max \in Values, AsFloat[v] <= AsFloat[max]
  PROVE  Within(v, max)
  <1> USE FloatAssumption DEF Values
  <1>1. SUFFICES ASSUME v > max PROVE max >= FloatExact /\ AsFloat[v] = AsFloat[max]
    BY DEF Within
  <1>2. AsFloat[v] \in Nat /\ AsFloat[max] \in Nat
    OBVIOUS
  <1>3. AsFloat[v] = AsFloat[max]
    BY <1>1, <1>2
  <1>4. max >= FloatExact
    <2>1. SUFFICES ASSUME max < FloatExact PROVE FALSE
      OBVIOUS
    <2>2. AsFloat[max] = max
      BY <2>1
    <2>3. max + 1 \in Values /\ max + 1 <= FloatExact /\ max + 1 <= v
      BY <1>1, <2>1
    <2>4. AsFloat[max + 1] = max + 1 /\ AsFloat[max + 1] <= AsFloat[v]
      BY <2>3
    <2>5. QED
      BY <1>3, <2>2, <2>4
  <1>5. QED
    BY <1>3, <1>4

\* The demands of an admitted test meet every limit above its class.
LEMMA DemandsMet ==
  ASSUME IInv, NEW n \in Defined, NEW t \in Tests,
         \A l \in DOMAIN t : FixedDemand(n, l, t[l])
  PROVE  \A l \in DOMAIN t \cap IntLimits : \A m \in above[n] :
           limit[m][l] \notin {Unset, 0} => Within(t[l], limit[m][l])
  <1> SUFFICES ASSUME NEW l \in DOMAIN t \cap IntLimits, NEW m \in above[n],
                      limit[m][l] \notin {Unset, 0}
               PROVE  Within(t[l], limit[m][l])
    OBVIOUS
  <1>1. TreeInv
    BY DEF IInv, TypeOK, TreeInv
  <1>2. l \in LimitNames /\ t[l] \in Values
    BY TestsAssumption
  <1>3. l \notin BoolLimits
    BY DEF IntLimits, FixedIntLimits, ConsumedLimits, BoolLimits
  <1>4. m \in Consulted(n, l)
    BY <1>1, <1>2, WalkMeetsAll
  <1>5. AsFloat[t[l]] <= AsFloat[limit[m][l]]
    BY <1>3, <1>4 DEF FixedDemand
  <1>6. limit[m][l] \in Values
    BY <1>1, <1>2 DEF TreeInv, TreeTypeOK, TreeShape, Limits, Defined
  <1>7. QED
    BY <1>2, <1>5, <1>6, FloatWithin

LEMMA CheckTestPolicyStep ==
  ASSUME IInv, NEW c \in Children, NEW t \in Tests, CheckTestPolicy(c, t) PROVE IInv'
  <1>1. Session(c) /\ st[c] = "idle" /\ proc[c] = "alive"
    BY DEF IInv, CheckTestPolicy, Send
  <1>2. class[c] \in Defined /\ node[c] = class[c] /\ ~res[c] /\ Quiet(c)
    BY <1>1 DEF Session, Exchange
  <1>3. /\ Alone(c) /\ Others(c) /\ Defined' = Defined /\ used' = used
        /\ limit' = limit /\ above' = above
        /\ st'[c] = "asking" /\ class'[c] = class[c] /\ node'[c] = node[c]
        /\ msg'[c] = "REQUEST" /\ ans'[c] = "none" /\ ~res'[c]
        /\ proc'[c] = proc[c] /\ test'[c] = t
    BY <1>2 DEF CheckTestPolicy, Send, IInv, TypeOK, Alone, Others, treeVars, Defined, Quiet
  <1>4. TypeOK'
    BY <1>3 DEF CheckTestPolicy, Send, IInv, TypeOK, TreeTypeOK, treeVars, States, Messages
  <1>5. Session(c)' /\ ~Charged(c)'
    BY <1>1, <1>2, <1>3 DEF Session, Exchange, Quiet, Asked, Answered, Charged
  <1>6. TestWithin(c)'
    <2>1. \A l \in DOMAIN t : FixedDemand(class[c], l, t[l])
      BY DEF CheckTestPolicy
    <2>2. QED
      BY <1>2, <1>3, <2>1, DemandsMet DEF TestWithin
  <1>7. serving
    BY <1>1, Served
  <1>8. Books'
    BY <1>3, <1>5, BooksKept
  <1>9. QED
    BY <1>3, <1>4, <1>5, <1>6, <1>7, <1>8, AloneStep

LEMMA PendingAnsweredStep ==
  ASSUME IInv, NEW c \in Children, PendingAnswered(c) PROVE IInv'
  <1>1. Session(c) /\ st[c] = "asking" /\ ans[c] # "none" /\ proc[c] = "alive"
    BY DEF IInv, PendingAnswered, Receive
  <1>2. class[c] \in Defined /\ node[c] = class[c] /\ msg[c] = "none" /\ ~res[c]
    BY <1>1 DEF Session, Exchange, Quiet, Asked, Answered
  <1>3. /\ Alone(c) /\ Defined' = Defined /\ used' = used
        /\ class'[c] = class[c] /\ node'[c] = node[c]
        /\ ans'[c] = "none" /\ ~res'[c] /\ proc'[c] = proc[c]
    BY <1>2 DEF PendingAnswered, Receive, Send, ForgetTest, IInv, TypeOK, Alone, treeVars,
                Defined
  <1>4. \/ /\ ans[c] = "OK" /\ st'[c] = "reserving" /\ msg'[c] = "RESERVATION"
           /\ test'[c] = test[c]
        \/ st'[c] = "idle" /\ msg'[c] = "none" /\ test'[c] = NoTest
    BY <1>2 DEF PendingAnswered, Send, ForgetTest, IInv, TypeOK
  <1>5. TypeOK'
    BY <1>3 DEF PendingAnswered, Receive, Send, ForgetTest, IInv, TypeOK, TreeTypeOK,
                treeVars, States, Messages, Answers
  <1>6. Session(c)' /\ (~Charged(c)' \/ Charged(c))
    BY <1>1, <1>2, <1>3, <1>4 DEF Session, Exchange, Quiet, Asked, Answered, Charged
  <1>7. QED
    BY <1>1, <1>3, <1>4, <1>5, <1>6, Served, PlainStep

LEMMA ReservationAnsweredStep ==
  ASSUME IInv, NEW c \in Children, ReservationAnswered(c) PROVE IInv'
  <1>1. Session(c) /\ st[c] = "reserving" /\ ans[c] # "none" /\ proc[c] = "alive"
    BY DEF IInv, ReservationAnswered, Receive
  <1>2. /\ class[c] \in Defined /\ node[c] = class[c] /\ msg[c] = "none"
        /\ res[c] = (ans[c] = "OK")
    BY <1>1 DEF Session, Exchange, Quiet, Asked, Answered, IInv, TypeOK
  <1>3. /\ Alone(c) /\ Defined' = Defined /\ used' = used
        /\ class'[c] = class[c] /\ node'[c] = node[c]
        /\ ans'[c] = "none" /\ msg'[c] = "none" /\ res'[c] = res[c] /\ proc'[c] = proc[c]
    BY <1>2 DEF ReservationAnswered, Receive, ForgetTest, IInv, TypeOK, Alone, treeVars,
                Defined
  <1>4. \/ ans[c] = "OK" /\ st'[c] = "held" /\ test'[c] = test[c]
        \/ ans[c] # "OK" /\ st'[c] = "idle" /\ test'[c] = NoTest
    BY DEF ReservationAnswered, ForgetTest, IInv, TypeOK
  <1>5. TypeOK'
    BY <1>3 DEF ReservationAnswered, Receive, ForgetTest, IInv, TypeOK, TreeTypeOK,
                treeVars, States, Answers
  <1>6. Session(c)' /\ Charged(c)
    BY <1>1, <1>2, <1>3, <1>4 DEF Session, Exchange, Quiet, Asked, Answered, Charged
  <1>7. QED
    BY <1>1, <1>3, <1>4, <1>5, <1>6, Served, PlainStep

LEMMA UpdateReservationStep ==
  ASSUME IInv, NEW c \in Children, UpdateReservation(c) PROVE IInv'
  <1>1. Session(c) /\ st[c] = "held" /\ proc[c] = "alive" /\ Charged(c)
    BY DEF IInv, UpdateReservation, Send, Charged
  <1>2. class[c] \in Defined /\ node[c] = class[c] /\ res[c] /\ Quiet(c)
    BY <1>1 DEF Session, Exchange
  <1>3. /\ Alone(c) /\ Defined' = Defined /\ used' = used
        /\ st'[c] = "reserving" /\ class'[c] = class[c] /\ node'[c] = node[c]
        /\ msg'[c] = "UPDATE" /\ ans'[c] = "none" /\ res'[c]
        /\ proc'[c] = proc[c] /\ test'[c] = test[c]
    BY <1>2 DEF UpdateReservation, Send, IInv, TypeOK, Alone, treeVars, Defined, Quiet
  <1>4. TypeOK'
    BY <1>3 DEF UpdateReservation, Send, IInv, TypeOK, TreeTypeOK, treeVars, States, Messages
  <1>5. Session(c)'
    BY <1>1, <1>2, <1>3 DEF Session, Exchange, Quiet, Asked, Answered
  <1>6. QED
    BY <1>1, <1>3, <1>4, <1>5, Served, PlainStep

LEMMA TestCompleteStep ==
  ASSUME IInv, NEW c \in Children, TestComplete(c) PROVE IInv'
  <1>1. Session(c) /\ st[c] = "held" /\ proc[c] = "alive" /\ Charged(c)
    BY DEF IInv, TestComplete, Send, Charged
  <1>2. class[c] \in Defined /\ node[c] = class[c] /\ res[c] /\ Quiet(c)
    BY <1>1 DEF Session, Exchange
  <1>3. /\ Alone(c) /\ Defined' = Defined /\ used' = used
        /\ st'[c] = "releasing" /\ class'[c] = class[c] /\ node'[c] = node[c]
        /\ msg'[c] = "RELEASE" /\ ans'[c] = "none" /\ res'[c]
        /\ proc'[c] = proc[c] /\ test'[c] = test[c]
    BY <1>2 DEF TestComplete, Send, IInv, TypeOK, Alone, treeVars, Defined, Quiet
  <1>4. TypeOK'
    BY <1>3 DEF TestComplete, Send, IInv, TypeOK, TreeTypeOK, treeVars, States, Messages
  <1>5. Session(c)'
    BY <1>1, <1>2, <1>3 DEF Session, Exchange, Quiet, Asked, Answered
  <1>6. QED
    BY <1>1, <1>3, <1>4, <1>5, Served, PlainStep

LEMMA ReleaseAnsweredStep ==
  ASSUME IInv, NEW c \in Children, ReleaseAnswered(c) PROVE IInv'
  <1>1. Session(c) /\ st[c] = "releasing" /\ ans[c] # "none" /\ proc[c] = "alive"
    BY DEF IInv, ReleaseAnswered, Receive
  <1>2. class[c] \in Defined /\ node[c] = class[c] /\ msg[c] = "none" /\ res[c]
    BY <1>1 DEF Session, Exchange, Quiet, Asked, Answered
  <1>3. /\ Alone(c) /\ Defined' = Defined /\ used' = used
        /\ st'[c] = "completing" /\ class'[c] = class[c] /\ node'[c] = node[c]
        /\ msg'[c] = "COMPLETE" /\ ans'[c] = "none" /\ res'[c]
        /\ proc'[c] = proc[c] /\ test'[c] = test[c]
    BY <1>2 DEF ReleaseAnswered, Receive, Send, IInv, TypeOK, Alone, treeVars, Defined
  <1>4. TypeOK'
    BY <1>3 DEF ReleaseAnswered, Receive, Send, IInv, TypeOK, TreeTypeOK, treeVars, States,
                Messages, Answers
  <1>5. Session(c)' /\ ~Charged(c)'
    BY <1>1, <1>2, <1>3 DEF Session, Exchange, Quiet, Asked, Answered, Charged
  <1>6. QED
    BY <1>1, <1>3, <1>4, <1>5, Served, PlainStep

LEMMA CompleteAnsweredStep ==
  ASSUME IInv, NEW c \in Children, CompleteAnswered(c) PROVE IInv'
  <1>1. Session(c) /\ st[c] = "completing" /\ ans[c] # "none" /\ proc[c] = "alive"
    BY DEF IInv, CompleteAnswered, Receive
  <1>2. class[c] \in Defined /\ node[c] = class[c] /\ msg[c] = "none" /\ ~res[c]
    BY <1>1 DEF Session, Exchange, Quiet, Asked, Answered
  <1>3. /\ Alone(c) /\ Defined' = Defined /\ used' = used
        /\ st'[c] = "idle" /\ class'[c] = class[c] /\ node'[c] = node[c]
        /\ msg'[c] = "none" /\ ans'[c] = "none" /\ ~res'[c]
        /\ proc'[c] = proc[c] /\ test'[c] = NoTest
    BY <1>2 DEF CompleteAnswered, Receive, ForgetTest, IInv, TypeOK, Alone, treeVars, Defined
  <1>4. TypeOK'
    BY <1>3 DEF CompleteAnswered, Receive, ForgetTest, IInv, TypeOK, TreeTypeOK, treeVars,
                States, Answers
  <1>5. Session(c)' /\ ~Charged(c)'
    BY <1>1, <1>2, <1>3 DEF Session, Exchange, Quiet, Asked, Answered, Charged
  <1>6. QED
    BY <1>1, <1>3, <1>4, <1>5, Served, PlainStep

LEMMA ExitStep ==
  ASSUME IInv, NEW c \in Children, Exit(c) PROVE IInv'
  <1>1. Session(c) /\ proc[c] = "alive"
    BY DEF IInv, Exit
  <1>2. /\ Alone(c) /\ Defined' = Defined /\ used' = used /\ proc'[c] = "dead"
        /\ UNCHANGED <<class, st, test, msg, ans, node, res>>
    BY DEF Exit, IInv, TypeOK, Alone, treeVars, Defined
  <1>3. TypeOK'
    BY <1>2 DEF Exit, IInv, TypeOK, TreeTypeOK, treeVars
  <1>4. Session(c)' /\ (~Charged(c)' \/ Charged(c))
    BY <1>1, <1>2 DEF Session, Exchange, Quiet, Asked, Answered, Charged
  <1>5. QED
    BY <1>1, <1>2, <1>3, <1>4, Served, PlainStep

-----------------------------------------------------------------------------
(***************************************************************************)
(* Before the first connection: the file is read, nothing is in use.       *)
(***************************************************************************)
LEMMA TreeNextInv == TreeInv /\ TreeNext => TreeInv' /\ Defined \subseteq Defined'
  <1> SUFFICES ASSUME TreeInv, TreeNext PROVE TreeInv' /\ Defined \subseteq Defined'
    OBVIOUS
  <1>1. CASE LimitsParsed
    BY <1>1, ParsedStep, ClassesAssumption DEF LimitsParsed, TreeInv, TreeTypeOK, Defined
  <1>2. CASE \E n \in ClassNames, p \in ClassNames \cup {NoParent}, given \in LimitLines :
               ParseLimitLine(n, p, given)
    <2>1. PICK n \in ClassNames, p \in ClassNames \cup {NoParent}, given \in LimitLines :
            ParseLimitLine(n, p, given)
      BY <1>2
    <2>2. TreeInv'
      BY <2>1, ParseStep
    <2>3. Defined \subseteq Defined'
      BY <2>1 DEF ParseLimitLine, TreeInv, TreeTypeOK, Defined
    <2>4. QED
      BY <2>2, <2>3
  <1>3. QED
    BY <1>1, <1>2 DEF TreeNext

LEMMA TreeNextStep ==
  ASSUME IInv, TreeNext, UNCHANGED <<used, chldVars, msg, ans, node, res>>
  PROVE  IInv'
  <1>1. TreeInv' /\ Defined \subseteq Defined'
    BY TreeNextInv DEF IInv, TypeOK, TreeInv
  <1>2. ~serving
    BY DEF TreeNext, LimitsParsed, ParseLimitLine
  <1>3. /\ \A n \in ClassNames : used[n] = 0
        /\ \A c \in Children : /\ proc[c] = "none" /\ st[c] = "none" /\ test[c] = NoTest
                               /\ Quiet(c) /\ ~res[c]
    BY <1>2 DEF IInv, Closed, Session, Exchange
  <1>4. TypeOK'
    BY <1>1 DEF IInv, TypeOK, TreeInv, chldVars
  <1>5. \A c \in Children : Session(c)' /\ ~Charged(c)' /\ test'[c] = NoTest
    BY <1>3 DEF Session, Exchange, Quiet, Charged, chldVars
  <1>6. Books'
    <2> SUFFICES ASSUME NEW m \in Defined', Limited(m)'
                 PROVE  /\ Cardinality(Holding(m)') <= used'[m]
                        /\ used'[m] <= limit'[m]["pending"]
      BY DEF Books
    <2>1. Holding(m)' = {}
      BY <1>5 DEF Holding
    <2>2. Cardinality(Holding(m)') = 0
      BY <2>1, FS_EmptySet
    <2>3. m \in ClassNames /\ used'[m] = 0
      BY <1>3 DEF Defined
    <2>4. limit'[m]["pending"] \in Nat
      BY <2>3, <1>1, PendingAssumption DEF TreeInv, TreeTypeOK, Limits, Values, Limited
    <2>5. QED
      BY <2>2, <2>3, <2>4
  <1>7. Closed'
    BY <1>3 DEF Closed, chldVars
  <1>8. AdmittedWithinLimits'
    BY <1>5 DEF AdmittedWithinLimits, NoTest, IntLimits, FixedIntLimits, ConsumedLimits
  <1>9. QED
    BY <1>1, <1>4, <1>5, <1>6, <1>7, <1>8 DEF IInv, TreeInv

-----------------------------------------------------------------------------
LEMMA InvInit == BrokerInit => IInv
  <1> SUFFICES ASSUME BrokerInit PROVE IInv
    OBVIOUS
  <1>1. TreeInv /\ Defined = {}
    BY TreeInit DEF BrokerInit, Init, Defined
  <1>2. TypeOK
    BY <1>1 DEF BrokerInit, TypeOK, TreeInv, States, Messages, Answers
  <1>3. \A c \in Children : Session(c)
    BY DEF BrokerInit, Session, Exchange, Quiet
  <1>4. Books /\ Closed
    BY <1>1 DEF BrokerInit, Books, Closed
  <1>5. AdmittedWithinLimits
    BY DEF BrokerInit, AdmittedWithinLimits, NoTest, IntLimits, FixedIntLimits, ConsumedLimits
  <1>6. QED
    BY <1>1, <1>2, <1>3, <1>4, <1>5 DEF IInv, TreeInv

LEMMA InvNext == IInv /\ [Next]_vars => IInv'
  <1> SUFFICES ASSUME IInv, [Next]_vars PROVE IInv'
    OBVIOUS
  <1>1. CASE UNCHANGED vars
    <2>1. /\ UNCHANGED <<above, limit, serving, used, proc, class, st, test>>
          /\ UNCHANGED <<msg, ans, node, res>> /\ Defined' = Defined
      BY <1>1 DEF vars, treeVars, chldVars, Defined
    <2>2. TypeOK' /\ TreeShape' /\ UnlimitedAbove'
      BY <2>1 DEF IInv, TypeOK, TreeTypeOK, TreeShape, UnlimitedAbove
    <2>3. \A c \in Children : Session(c)'
      BY <2>1 DEF IInv, Session, Exchange, Quiet, Asked, Answered
    <2>4. \A m : Holding(m)' = Holding(m)
      BY <2>1 DEF Holding, Charged
    <2>5. Books' /\ Closed' /\ AdmittedWithinLimits'
      BY <2>1, <2>4 DEF IInv, Books, Limited, Closed, AdmittedWithinLimits
    <2>6. QED
      BY <2>2, <2>3, <2>5 DEF IInv
  <1>2. CASE TreeNext /\ UNCHANGED <<used, chldVars, msg, ans, node, res>>
    BY <1>2, TreeNextStep
  <1>3. ASSUME NEW c \in Children, ParentStep(c) PROVE IInv'
    BY <1>3, NewConnectionStep, ReadClassStep, ResourceRequestStep, ResourceReleaseStep,
       ReservationDemandStep, ReservationCompleteStep, FreeChldStateStep DEF ParentStep
  <1>4. ASSUME NEW c \in Children, ChildStep(c) PROVE IInv'
    BY <1>4, SendClassStep, ClassAnsweredStep, CheckTestPolicyStep, PendingAnsweredStep,
       ReservationAnsweredStep, UpdateReservationStep, TestCompleteStep,
       ReleaseAnsweredStep, CompleteAnsweredStep, ExitStep DEF ChildStep
  <1>5. QED
    BY <1>1, <1>2, <1>3, <1>4 DEF Next

LEMMA InvAlways == Spec => []IInv
  BY InvInit, InvNext, PTL DEF Spec

(***************************************************************************)
(* The types of the parent's and the children's state: a child has no      *)
(* class, or one that a limit line defines.                                *)
(***************************************************************************)
THEOREM TypeCorrect == Spec => []TypeOK
  <1>1. IInv => TypeOK
    BY DEF IInv
  <1>2. QED
    BY <1>1, InvAlways, PTL

(***************************************************************************)
(* Whatever limit lines parselimitline accepts, the parent pointers form   *)
(* a forest of chains: the recursion of IntegerResourceDemand ends.        *)
(***************************************************************************)
THEOREM TreeCorrect == Spec => []TreeShape
  <1>1. IInv => TreeShape
    BY DEF IInv
  <1>2. QED
    BY <1>1, InvAlways, PTL

(***************************************************************************)
(* Where IntegerResourceDemand stops for want of a record, it is           *)
(* "unlimited all the way up the tree".                                    *)
(***************************************************************************)
THEOREM UnlimitedCorrect == Spec => []UnlimitedAbove
  <1>1. IInv => UnlimitedAbove
    BY DEF IInv
  <1>2. QED
    BY <1>1, InvAlways, PTL

(***************************************************************************)
(* The children that hold a pending unit never exceed the limit of any     *)
(* class above them (IntegerResourceDemand, CheckFD).                      *)
(***************************************************************************)
THEOREM PendingCorrect == Spec => []PendingBounded
  <1>1. ASSUME IInv PROVE PendingBounded
    <2> SUFFICES ASSUME NEW m \in Defined, limit[m]["pending"] \notin {Unset, 0}
                 PROVE  Cardinality(Holding(m)) <= limit[m]["pending"]
      BY DEF PendingBounded
    <2>1. Limited(m) /\ m \in ClassNames
      BY DEF Limited, Defined
    <2>2. /\ Cardinality(Holding(m)) <= used[m] /\ used[m] <= limit[m]["pending"]
          /\ used[m] \in Nat /\ Cardinality(Holding(m)) \in Nat
          /\ limit[m]["pending"] \in Nat
      BY <1>1, <2>1, HoldingFinite, PendingAssumption
         DEF IInv, Books, TypeOK, TreeTypeOK, Limits, Values
    <2>3. QED
      BY <2>2
  <1>2. QED
    BY <1>1, InvAlways, PTL

(***************************************************************************)
(* A release never meets "Request to release unallocated resources".       *)
(***************************************************************************)
THEOREM ReleaseCorrect == Spec => []ReleaseAccepted
  <1>1. ASSUME IInv PROVE ReleaseAccepted
    <2> SUFFICES ASSUME NEW c \in Children, msg[c] = "RELEASE" PROVE ReleaseOK(node[c])
      BY DEF ReleaseAccepted
    <2>1. Session(c)
      BY <1>1 DEF IInv
    <2>2. class[c] \in Defined /\ node[c] = class[c] /\ Charged(c)
      BY <2>1 DEF Session, Exchange, Quiet, Asked, Answered, Charged
    <2>3. QED
      BY <1>1, <2>2, HeldIsCounted
  <1>2. QED
    BY <1>1, InvAlways, PTL

(***************************************************************************)
(* CheckFD finds the class and the reservation that the child's message    *)
(* takes for granted.                                                      *)
(***************************************************************************)
THEOREM AgreementCorrect == Spec => []ParentAgrees
  <1>1. IInv => ParentAgrees
    BY DEF IInv, Session, Exchange, Quiet, Asked, Answered, ParentAgrees
  <1>2. QED
    BY <1>1, InvAlways, PTL

(***************************************************************************)
(* An admitted test is within the limits of its class and of all classes   *)
(* above it, but for the rounding of floats from FloatExact on             *)
(* (BWLDCheckTestPolicy, BWLDResourceDemand).                              *)
(***************************************************************************)
THEOREM AdmittedCorrect == Spec => []AdmittedWithinLimits
  <1>1. IInv => AdmittedWithinLimits
    BY DEF IInv
  <1>2. QED
    BY <1>1, InvAlways, PTL

=============================================================================
