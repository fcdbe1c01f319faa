-------------------------- MODULE PortRangeProofs --------------------------
(***************************************************************************)
(* Theorems about PortRange, for ranges of any size that begin anywhere:   *)
(* the search for a listening port gives up only when all is taken, and    *)
(* two successive tests share no port.  Both rest on what BWLPortsNext     *)
(* does at the end of a range, with the remainder taken out.               *)
(***************************************************************************)
EXTENDS PortRange, TLAPS

TypeOK ==
  /\ key \in {"peer_port", "test_port"} /\ pc \in {"idle", "bind", "owamp"}
  /\ low \in Nat /\ high \in Nat /\ low <= high
  /\ i \in low .. high
  /\ pc = "bind" => key = "peer_port" /\ p \in low .. high /\ port \in low .. high
  /\ pc = "owamp" => key = "test_port"

\* What After comes to in a range: the port one higher, but for the wrap-around.
Follow(n) ==
  CASE BWLPortsRange <= 1 -> low
    [] BWLPortsRange > 1 /\ n = high -> low + 1
    [] BWLPortsRange > 1 /\ n = high - 1 -> low
    [] OTHER -> n + 1

\* The ports between the first one of the search and the next one to try have
\* been tried; the high port is met only if it is the first.
Searching ==
  pc = "bind" =>
    /\ i = Follow(p)
    /\ p = high => port = high
    /\ port < high => IF p >= port THEN port .. p - 1 \subseteq tried
                      ELSE port .. high - 1 \cup low .. p - 1 \subseteq tried

\* The next port comes right after those of the last test.
Behind ==
  \/ given = {}
  \/ given = {high} /\ i = low + 1
  \/ \E a \in low .. high - 1 : given = {a} /\ i = Follow(a)
  \/ \E a \in low .. high - 3 : given = {a, a + 1, a + 2} /\ i = Follow(a + 2)

\* The first of the three ports in a row that owamp ends with if the first port
\* it holds is t.
Settled(t) == IF t >= high - 2 THEN low ELSE t

\* The three ports that owamp holds follow each other in the cycle, and those
\* that it ends with are not those of the last test.
Drawing ==
  /\ toolport \in low .. high - 1
  /\ min_port = Follow(toolport) /\ max_port = Follow(min_port) /\ i = Follow(max_port)
  /\ \A n \in 0 .. 2 : Settled(toolport) + n \notin given

Testing ==
  key = "test_port" /\ BWLPortsRange > RoomForTwo =>
    /\ pc = "idle" => Behind
    /\ pc = "owamp" => Drawing

IInv == TypeOK /\ Searching /\ Testing /\ GivesUpFull /\ SuccessiveDiffer

-----------------------------------------------------------------------------
(***************************************************************************)
(* The cycle of a range.                                                   *)
(***************************************************************************)

LEMMA Remainders ==
  ASSUME NEW r \in Nat, r > 0
  PROVE  /\ \A a \in 0 .. r - 1 : a % r = a
         /\ r % r = 0
         /\ (r + 1) % r = IF r = 1 THEN 0 ELSE 1
  OBVIOUS

\* BWLPortsNext without its remainder.
LEMMA AfterFollows ==
  ASSUME TypeOK, NEW n \in low .. high
  PROVE  After(n) = Follow(n) /\ Follow(n) \in low .. high /\ (low < high => Follow(n) < high)
  <1> DEFINE r == high - low
             a == n - low
  <1>1. r \in Nat /\ a \in 0 .. r /\ BWLPortsRange = r
    BY DEF TypeOK, BWLPortsRange
  <1>2. After(n) = IF r = 0 THEN n ELSE low + ((a + 1) % r)
    BY <1>1 DEF After
  <1>3. Follow(n) \in low .. high /\ (low < high => Follow(n) < high)
    BY <1>1 DEF TypeOK, Follow
  <1>4. CASE r = 0
    BY <1>1, <1>2, <1>3, <1>4 DEF TypeOK, Follow
  <1>5. CASE r > 0
    <2>1. (a + 1) % r = IF a = r THEN IF r = 1 THEN 0 ELSE 1
                        ELSE IF a = r - 1 THEN 0 ELSE a + 1
      <3>1. CASE a = r
        BY <1>1, <1>5, <3>1, Remainders
      <3>2. CASE a = r - 1
        <4>1. a + 1 = r
          BY <1>1, <3>2
        <4>2. QED
          BY <1>1, <1>5, <3>2, <4>1, Remainders
      <3>3. CASE a # r /\ a # r - 1
        <4>1. a + 1 \in 0 .. r - 1
          BY <1>1, <3>3
        <4>2. QED
          BY <1>1, <1>5, <3>3, <4>1, Remainders
      <3>4. QED
        BY <3>1, <3>2, <3>3
    <2> DEFINE m == (a + 1) % r
    <2>2. After(n) = low + m
      BY <1>2, <1>5
    <2>3. m = IF a = r THEN IF r = 1 THEN 0 ELSE 1 ELSE IF a = r - 1 THEN 0 ELSE a + 1
      BY <2>1
    <2> HIDE DEF m
    <2>4. low + m = Follow(n)
      BY <1>1, <1>5, <2>3 DEF TypeOK, Follow
    <2>5. QED
      BY <1>3, <2>2, <2>4
  <1>6. QED
    BY <1>1, <1>4, <1>5

\* Below the high port of a range with room for two tests.
LEMMA FollowInCycle ==
  ASSUME TypeOK, BWLPortsRange > RoomForTwo, NEW n \in low .. high - 1
  PROVE  /\ Follow(n) = IF n = high - 1 THEN low ELSE n + 1
         /\ Follow(n) \in low .. high - 1
  BY DEF TypeOK, Follow, BWLPortsRange, RoomForTwo

\* Three ports that follow each other are consecutive unless they wrap around.
LEMMA ConsecutiveIff ==
  ASSUME TypeOK, BWLPortsRange > RoomForTwo, Drawing
  PROVE  /\ Consecutive <=> toolport < high - 2
         /\ min_port \in low .. high - 1 /\ max_port \in low .. high - 1
         /\ toolport >= high - 2 => Settled(min_port) = Settled(toolport)
  <1>1. low \in Nat /\ high \in Nat /\ high > low + 8 /\ toolport \in low .. high - 1
    BY DEF TypeOK, Drawing, BWLPortsRange, RoomForTwo
  <1>2. /\ min_port = IF toolport = high - 1 THEN low ELSE toolport + 1
        /\ min_port \in low .. high - 1
    BY FollowInCycle DEF Drawing
  <1>3. /\ max_port = IF min_port = high - 1 THEN low ELSE min_port + 1
        /\ max_port \in low .. high - 1
    BY <1>2, FollowInCycle DEF Drawing
  <1>4. Consecutive <=> toolport < high - 2
    BY <1>1, <1>2, <1>3 DEF Consecutive
  <1>5. toolport >= high - 2 => Settled(min_port) = Settled(toolport)
    BY <1>1, <1>2 DEF Settled
  <1>6. QED
    BY <1>2, <1>3, <1>4, <1>5

-----------------------------------------------------------------------------
(***************************************************************************)
(* The invariant is inductive: one lemma per action.                       *)
(***************************************************************************)

LEMMA InitInv == Init => IInv
  <1> SUFFICES ASSUME Init PROVE IInv
      OBVIOUS
  <1>1. low \in Nat /\ high \in Nat /\ low <= high
    <2>1. low \in Nat /\ MaxRange[key] \in Nat /\ high \in low .. low + MaxRange[key]
      BY RangeAssumption DEF Init
    <2>2. QED
      BY <2>1
  <1>2. QED
    BY <1>1 DEF Init, IInv, TypeOK, Searching, Testing, Behind, GivesUpFull,
                SuccessiveDiffer

LEMMA PeerFirstInv ==
  ASSUME IInv, NEW first \in low .. high, PeerFirst(first) PROVE IInv'
  <1>1. i' = Follow(first) /\ Follow(first) \in low .. high
    BY AfterFollows DEF PeerFirst, IInv
  <1>2. QED
    BY <1>1 DEF PeerFirst, IInv, TypeOK, Searching, Testing, GivesUpFull,
                SuccessiveDiffer, Follow, BWLPortsRange, test

LEMMA BindInv == ASSUME IInv, Bind PROVE IInv'
  BY DEF Bind, IInv, TypeOK, Searching, Testing, GivesUpFull, SuccessiveDiffer,
         BWLPortsRange, prange, peer, test

\* One more port is tried; the search is over when it is back at the first.
LEMMA BindAgainInv == ASSUME IInv, BindAgain PROVE IInv'
  <1>1. /\ low \in Nat /\ high \in Nat /\ low <= high /\ key = "peer_port"
        /\ p \in low .. high /\ port \in low .. high /\ i \in low .. high
    BY DEF BindAgain, IInv, TypeOK
  <1>2. After(i) = Follow(i) /\ Follow(i) \in low .. high
    BY <1>1, AfterFollows DEF IInv
  <1>3. /\ i = Follow(p) /\ (low < high => i < high)
        /\ p = high => port = high
        /\ port < high => IF p >= port THEN port .. p - 1 \subseteq tried
                          ELSE port .. high - 1 \cup low .. p - 1 \subseteq tried
    BY <1>1, AfterFollows DEF BindAgain, IInv, Searching
  <1>4. CASE low = high
    <2>1. pc' = "idle" /\ UNCHANGED <<p, i>>
      BY <1>1, <1>4 DEF BindAgain, BWLPortsRange
    <2>2. p = low /\ {low} \cup low .. high - 1 \subseteq tried'
      BY <1>1, <1>4 DEF BindAgain
    <2>3. QED
      BY <1>1, <1>4, <2>1, <2>2 DEF BindAgain, IInv, TypeOK, Searching, Testing,
                                    GivesUpFull, SuccessiveDiffer, BWLPortsRange, test
  <1>5. CASE low < high
    <2>1. p' = i /\ i' = Follow(i) /\ tried' = tried \cup {p}
      BY <1>1, <1>2, <1>5 DEF BindAgain, BWLPortsRange
    <2>2. port < high => IF p < port \/ i <= p
                           THEN port .. high - 1 \cup low .. i - 1 \subseteq tried'
                           ELSE port .. i - 1 \subseteq tried'
      BY <1>1, <1>3, <1>5, <2>1 DEF Follow, BWLPortsRange
    <2>3. CASE i = port
      <3>1. low .. high - 1 \subseteq tried'
        BY <1>1, <1>3, <1>5, <2>1, <2>2, <2>3 DEF Follow, BWLPortsRange
      <3>2. QED
        BY <1>1, <1>2, <1>5, <2>1, <2>3, <3>1
           DEF BindAgain, SearchedAll, IInv, TypeOK, Searching, Testing, GivesUpFull,
               SuccessiveDiffer, BWLPortsRange, test
    <2>4. CASE i # port
      <3>1. UNCHANGED <<key, low, high, pc, port, result, test>>
        BY <1>1, <1>5, <2>1, <2>4 DEF BindAgain, SearchedAll, BWLPortsRange
      <3>2. Searching'
        BY <1>1, <1>3, <1>5, <2>1, <2>2, <2>4, <3>1 DEF Searching, Follow, BWLPortsRange
      <3>3. QED
        BY <1>1, <1>2, <2>1, <3>1, <3>2
           DEF BindAgain, IInv, TypeOK, Testing, GivesUpFull, SuccessiveDiffer,
               BWLPortsRange, test
    <2>5. QED
      BY <2>3, <2>4
  <1>6. QED
    BY <1>1, <1>4, <1>5

LEMMA BindFailsInv == ASSUME IInv, BindFails PROVE IInv'
  BY DEF BindFails, IInv, TypeOK, Searching, Testing, GivesUpFull, SuccessiveDiffer,
         BWLPortsRange, prange, peer, test

LEMMA TakenInv == ASSUME IInv, NEW q \in low .. high, Taken(q) PROVE IInv'
  BY DEF Taken, IInv, TypeOK, Searching, Testing, GivesUpFull, SuccessiveDiffer, Follow,
         BWLPortsRange, prange, peer, test

\* Any tool but owamp gets the next port, which is not one of the last test.
LEMMA GenericInitTestInv == ASSUME IInv, GenericInitTest PROVE IInv'
  <1>1. /\ low \in Nat /\ high \in Nat /\ low <= high /\ i \in low .. high
        /\ key = "test_port" /\ pc = "idle"
    BY DEF GenericInitTest, IInv, TypeOK
  <1>2. i' = Follow(i) /\ Follow(i) \in low .. high
    BY <1>1, AfterFollows DEF GenericInitTest, IInv
  <1>3. /\ given' = {i} /\ before' = given
        /\ result' = "given" /\ UNCHANGED <<key, low, high, pc>>
    BY DEF GenericInitTest, Give
  <1>4. TypeOK' /\ Searching' /\ GivesUpFull'
    BY <1>1, <1>2, <1>3 DEF TypeOK, Searching, GivesUpFull
  <1>5. ASSUME BWLPortsRange > RoomForTwo PROVE i \notin given /\ Behind'
    <2>1. Behind
      BY <1>1, <1>5 DEF IInv, Testing
    <2>2. i \notin given
      BY <1>1, <1>5, <2>1 DEF Behind, Follow, BWLPortsRange, RoomForTwo
    <2>3. Behind'
      BY <1>1, <1>2, <1>3, <1>5 DEF Behind, Follow, BWLPortsRange, RoomForTwo
    <2>4. QED
      BY <2>2, <2>3
  <1>6. QED
    BY <1>1, <1>3, <1>4, <1>5 DEF IInv, Testing, SuccessiveDiffer, BWLPortsRange,
                                  RoomForTwo

\* The ports that owamp will end with begin at least two after those of the last
\* test, in a range that has room for both.
LEMMA OwampInitTestInv == ASSUME IInv, OwampInitTest PROVE IInv'
  <1>1. /\ low \in Nat /\ high \in Nat /\ low <= high /\ i \in low .. high
        /\ key = "test_port" /\ pc = "idle"
    BY DEF OwampInitTest, IInv, TypeOK
  <1>2. toolport' = Follow(i) /\ toolport' \in low .. high
    BY <1>1, AfterFollows DEF OwampInitTest, IInv
  <1>3. min_port' = Follow(toolport') /\ min_port' \in low .. high
    BY <1>2, AfterFollows DEF OwampInitTest, IInv
  <1>4. max_port' = Follow(min_port') /\ max_port' \in low .. high
    BY <1>3, AfterFollows DEF OwampInitTest, IInv
  <1>5. i' = Follow(max_port') /\ i' \in low .. high
    BY <1>4, AfterFollows DEF OwampInitTest, IInv
  <1>6. UNCHANGED <<key, low, high, given, before>> /\ pc' = "owamp"
    BY DEF OwampInitTest
  <1>7. TypeOK' /\ Searching' /\ GivesUpFull' /\ SuccessiveDiffer'
    BY <1>1, <1>5, <1>6 DEF IInv, TypeOK, Searching, GivesUpFull, SuccessiveDiffer,
                            BWLPortsRange
  <1>8. ASSUME BWLPortsRange > RoomForTwo PROVE Drawing'
    <2>1. Behind
      BY <1>1, <1>8 DEF IInv, Testing
    <2>2. toolport' \in low .. high - 1
      BY <1>1, <1>2, <1>8 DEF Follow, BWLPortsRange, RoomForTwo
    <2>3. \A n \in 0 .. 2 : Settled(toolport') + n \notin given
      BY <1>1, <1>2, <1>8, <2>1 DEF Behind, Settled, Follow, BWLPortsRange, RoomForTwo
    <2>4. QED
      BY <1>3, <1>4, <1>5, <1>6, <2>2, <2>3 DEF Drawing, Settled, Follow, BWLPortsRange
  <1>9. QED
    BY <1>6, <1>7, <1>8 DEF IInv, Testing, BWLPortsRange

\* The three ports move on around the end of the range; where they settle stays.
LEMMA OwampShiftInv == ASSUME IInv, OwampShift PROVE IInv'
  <1>1. /\ low \in Nat /\ high \in Nat /\ low <= high /\ i \in low .. high
        /\ key = "test_port" /\ pc = "owamp"
    BY DEF OwampShift, IInv, TypeOK
  <1>2. i' = Follow(i) /\ i' \in low .. high
    BY <1>1, AfterFollows DEF OwampShift, IInv
  <1>3. /\ toolport' = min_port /\ min_port' = max_port /\ max_port' = i
        /\ UNCHANGED <<key, low, high, pc, given, before, result>>
    BY DEF OwampShift
  <1>4. TypeOK' /\ Searching' /\ GivesUpFull' /\ SuccessiveDiffer'
    BY <1>1, <1>2, <1>3 DEF IInv, TypeOK, Searching, GivesUpFull, SuccessiveDiffer,
                            BWLPortsRange
  <1>5. ASSUME BWLPortsRange > RoomForTwo PROVE Drawing'
    <2>1. Drawing
      BY <1>1, <1>5 DEF IInv, Testing
    <2>2. min_port \in low .. high - 1 /\ Settled(min_port) = Settled(toolport)
      <3>1. TypeOK /\ ~Consecutive
        BY DEF OwampShift, IInv
      <3>2. ~(toolport < high - 2)
        BY <1>5, <2>1, <3>1, ConsecutiveIff
      <3>3. toolport >= high - 2
        BY <1>1, <2>1, <3>2 DEF Drawing
      <3>4. QED
        BY <1>5, <2>1, <3>1, <3>3, ConsecutiveIff
    <2>3. \A n : Follow(n)' = Follow(n) /\ Settled(n)' = Settled(n)
      BY <1>3 DEF Follow, Settled, BWLPortsRange
    <2>4. toolport' \in low' .. high' - 1
      BY <1>3, <2>2
    <2>5. /\ min_port' = Follow(toolport') /\ max_port' = Follow(min_port')
          /\ i' = Follow(max_port')
      BY <1>2, <1>3, <2>1 DEF Drawing
    <2>6. \A n \in 0 .. 2 : Settled(toolport') + n \notin given'
      BY <1>3, <2>1, <2>2 DEF Drawing
    <2>7. QED
      BY <1>3, <2>4, <2>5, <2>6 DEF Drawing, Follow, Settled, BWLPortsRange
  <1>6. QED
    BY <1>1, <1>3, <1>4, <1>5 DEF IInv, Testing, BWLPortsRange

LEMMA OwampDoneInv == ASSUME IInv, OwampDone PROVE IInv'
  <1>1. /\ low \in Nat /\ high \in Nat /\ low <= high /\ i \in low .. high
        /\ key = "test_port" /\ pc = "owamp"
    BY DEF OwampDone, IInv, TypeOK
  <1>2. /\ given' = {toolport, toolport + 1, toolport + 2} /\ before' = given
        /\ UNCHANGED <<key, low, high, i>> /\ pc' = "idle"
    BY DEF OwampDone, Give, prange
  <1>3. TypeOK' /\ Searching' /\ GivesUpFull'
    BY <1>1, <1>2 DEF TypeOK, Searching, GivesUpFull
  <1>4. ASSUME BWLPortsRange > RoomForTwo PROVE given' \cap given = {} /\ Behind'
    <2>1. Drawing
      BY <1>1, <1>4 DEF IInv, Testing
    <2>2. /\ toolport \in low .. high - 3 /\ i = Follow(toolport + 2)
          /\ Settled(toolport) = toolport
      <3>1. TypeOK /\ Consecutive
        BY DEF OwampDone, IInv
      <3>2. toolport < high - 2 /\ toolport \in low .. high - 1
        BY <1>4, <2>1, <3>1, ConsecutiveIff DEF Drawing
      <3>3. max_port = toolport + 2
        BY <1>1, <3>1, <3>2 DEF Consecutive
      <3>4. QED
        BY <1>1, <2>1, <3>2, <3>3 DEF Drawing, Settled
    <2>3. toolport \notin given /\ toolport + 1 \notin given /\ toolport + 2 \notin given
      <3>1. toolport + 0 \notin given /\ toolport + 1 \notin given /\ toolport + 2 \notin given
        BY <2>1, <2>2 DEF Drawing
      <3>2. QED
        BY <1>1, <2>2, <3>1
    <2>4. Behind'
      BY <1>2, <2>2 DEF Behind, Follow, BWLPortsRange
    <2>5. QED
      BY <1>2, <2>3, <2>4
  <1>5. QED
    BY <1>1, <1>2, <1>3, <1>4 DEF IInv, Testing, SuccessiveDiffer, BWLPortsRange,
                                  RoomForTwo

LEMMA NextInv == IInv /\ [Next]_vars => IInv'
  <1> SUFFICES ASSUME IInv, [Next]_vars PROVE IInv'
      OBVIOUS
  <1>1. CASE UNCHANGED vars
    BY <1>1 DEF vars, prange, peer, test, IInv, TypeOK, Searching, Testing, Behind,
                Drawing, Settled, Follow, GivesUpFull, SuccessiveDiffer, BWLPortsRange
  <1>2. CASE Search
    BY <1>2, BindInv, BindAgainInv, OwampShiftInv, OwampDoneInv DEF Search
  <1>3. CASE BindFails \/ GenericInitTest \/ OwampInitTest
    BY <1>3, BindFailsInv, GenericInitTestInv, OwampInitTestInv
  <1>4. ASSUME NEW q \in low .. high, PeerFirst(q) \/ Taken(q) PROVE IInv'
    BY <1>4, PeerFirstInv, TakenInv
  <1>5. QED
    BY <1>1, <1>2, <1>3, <1>4 DEF Next

LEMMA InvAlways == Spec => []IInv
  BY InitInv, NextInv, PTL DEF Spec

-----------------------------------------------------------------------------
(***************************************************************************)
(* The theorems.                                                           *)
(***************************************************************************)

\* epssock says that the range is exhausted only when it has found every port of
\* the cycle taken, wherever in the range, of whatever size, it began.
THEOREM GivesUpFullCorrect == Spec => []GivesUpFull
  <1>1. IInv => GivesUpFull
    BY DEF IInv
  <1>2. QED
    BY <1>1, InvAlways, PTL

\* In every range whose ends are more than eight apart, the ports that
\* BWLToolInitTest gives to a test are none of those it gave to the one before,
\* for any mix of owamp and other tools and at every wrap-around.
THEOREM SuccessiveDifferCorrect == Spec => []SuccessiveDiffer
  <1>1. IInv => SuccessiveDiffer
    BY DEF IInv
  <1>2. QED
    BY <1>1, InvAlways, PTL
=============================================================================
