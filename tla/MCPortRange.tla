---------------------------- MODULE MCPortRange ----------------------------
(* Ranges of one to four ports for the search, of up to twelve for tools. *)
EXTENDS PortRange

MCRange == [peer_port |-> 3, test_port |-> 11]
=============================================================================
