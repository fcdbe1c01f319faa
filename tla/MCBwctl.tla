------------------------------ MODULE MCBwctl ------------------------------
(***************************************************************************)
(* A few command lines of bwctl: one host given, so that the other side is *)
(* local, or both, with and without -E (no endpoint needed at the server). *)
(***************************************************************************)
EXTENDS Bwctl

Line(n, tools, can, server, client, required, first) ==
  [nIntervals |-> n, wanted |-> tools, supported |-> can,
   kind |-> [server |-> server, client |-> client],
   require_endpoint |-> required, receiver |-> first]

MCCommandLines ==
  { Line(0, <<>>, {2}, "host", "local", {"client"}, "client"),
    Line(2, <<2, 1>>, {1, 2}, "local", "host", Sides, "server"),
    Line(2, <<>>, {1, 2}, "interface", "host", {"client"}, "server") }
=============================================================================
