----------------------------- MODULE MCControl -----------------------------
(***************************************************************************)
(* The options of a command line that sets at most two fields, to values   *)
(* at the edges of the field, and past them where nothing stops bwctl.     *)
(***************************************************************************)
EXTENDS RequestContent

Top(f) == IF f = "bandwidth" THEN TwoTo[MaxExp] * ByteTo[4] - 1 ELSE ByteTo[Width(f)] - 1

Values(f) ==
  {n \in {0, 1, 2, Top(f)}
         \cup (IF f = "bandwidth" THEN {ByteTo[4], 2 * ByteTo[4] + 3} ELSE {Top(f) + 1}) :
     OptionOK(f, n)}

MCGiven ==
  [kind \in Kinds |->
     UNION {{[f \in Fields(kind) |-> IF f = a THEN n ELSE IF f = b THEN Top(b) ELSE 0] :
               n \in Values(a)} :
            a \in Fields(kind), b \in {f \in Fields(kind) : OptionOK(f, Top(f))}}]
=============================================================================
