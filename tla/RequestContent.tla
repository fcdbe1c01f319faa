--------------------------- MODULE RequestContent ---------------------------
(***************************************************************************)
(* A control connection, and what its TestRequest carries.                 *)
(***************************************************************************)
EXTENDS ControlProtocol, TestOptions

\* What the server is to read of a field set to n.  Known losses: a number too
\* wide for its field, which nothing checks (Assigned); fractions of a second
\* of -i and the wish for quiet output at an old server; the low bits of a
\* bandwidth beyond 32 bits; and, at a server before 1.5, that there is no
\* bwctld at the other end.
Understood(kind, version, f, n) ==
  CASE f = "verbose" /\ version < Since(kind, f) -> 1
    [] f = "no_server_endpoint" /\ version < V1_5 -> 0
    [] f = "report_interval" /\ version < V1_5 -> n - (n % Second)
    [] f = "bandwidth" -> n - (n % TwoTo[BandwidthExp(n)])
    [] OTHER -> n

\* What a user asks for is what the server does, or bwctl says that this server
\* cannot: whatever the version of the server (_BWLWriteTestRequest and
\* _BWLReadTestRequest ask for it in eight places each), no option is dropped,
\* mistaken for another or written over by one, and no test of a tool is taken
\* for a test of another.  But for the known losses (Understood), and but for a
\* server of version 0, for which the request is not readable at all: the tool
\* is written into what is its zero padding.
RequestArrives ==
  cpc = "greeting" /\ spc = "accept" =>
    \A kind \in Kinds, version \in Versions \ {0} : \A o \in Given[kind] :
      LET spec == TestSpec(kind, o) IN
        ~ Unsupported(kind, version, ~confServer, spec) =>
          ReadSpec(Writes(kind, version, spec, 1), version) =
            [kind |-> kind, ipvn |-> 1,
             spec |-> [f \in Fields(kind) |-> Understood(kind, version, f, spec[f])]]
=============================================================================
