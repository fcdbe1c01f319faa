------------------------------ MODULE MCBroker ------------------------------
(* Broker with the limits files and the tests TLC checks it on. *)
EXTENDS Broker, TLC

Symmetry == Permutations(Children) \cup Permutations(ClassNames \ {DefaultClass})

Line(pending, duration) == [pending |-> pending, duration |-> duration]

\* A float of two bits holds the integers up to 4 and then every second one; 5 lies
\* between two and goes to 4.
SmallFloat == [v \in 0 .. 6 |-> IF v = 5 THEN 4 ELSE v]

\* Limits missing, 0, and values that have to be cut back below a parent.  The test
\* exceeds both durations, one by no more than a float can tell.
MixedLines == {Line(Unset, 3), Line(0, Unset), Line(1, 4), Line(2, 0)}
DefaultLine == Line(Unset, 3)
LongTests == {[duration |-> 5]}

OneLine == {[pending |-> 1]}
DefaultPending == [pending |-> Unset]
PlainTests == {<<>>}
=============================================================================
