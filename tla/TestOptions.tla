---------------------------- MODULE TestOptions ----------------------------
(***************************************************************************)
(* What the options of bwctl ask for on its way to the server: the checks  *)
(* of the command line and the defaults (bwctl/bwctl.c), the record        *)
(* BWLTestSpec, the bytes of the TestRequest message as the version of the *)
(* protocol at the server has them, and what the server makes of these     *)
(* (bwlib/protocol.c).                                                     *)
(*                                                                         *)
(* A nibble is a parameter, 16 in the code, and so are the limits of the   *)
(* options; the offsets of the message and the versions are the real ones. *)
(***************************************************************************)
EXTENDS Integers, Sequences

CONSTANTS
  Nibble,
  Second,           \* 1000 milliseconds
  MaxOmit,          \* 60, the bound of -O
  MinMSS, MaxMSS,   \* the bounds of -m
  DefDuration, DefUDPRate,
  MaxExp,           \* 32: a bandwidth has as many bits more than a field of 4 bytes
  Given             \* the options of command lines, by the kind of the test

Byte == Nibble * Nibble

\* The powers of a byte, and of 2.
ByteTo[k \in 0 .. 4] == IF k = 0 THEN 1 ELSE Byte * ByteTo[k - 1]
TwoTo[e \in 0 .. MaxExp] == IF e = 0 THEN 1 ELSE 2 * TwoTo[e - 1]

ASSUME TestOptionsAssumption ==
  /\ {Nibble, Second} \subseteq Nat \ {0, 1}
  /\ {MaxOmit, MinMSS, MaxMSS, DefDuration, DefUDPRate, MaxExp} \subseteq Nat
  /\ MaxExp < Byte /\ Second < ByteTo[2] /\ MaxMSS < ByteTo[2]
  /\ DefDuration < ByteTo[4] /\ DefUDPRate < TwoTo[MaxExp] * ByteTo[4]

\* The versions of the protocol that matter.
ToolNegotiation == 1
Omit == 2
V1_5 == 4
V1_5_2 == 5
MSS == 6
Versions == 0 .. MSS

Kinds == {"throughput", "ping", "traceroute"}

\* One tool of each kind; before tools were negotiated there was iperf only.
ToolId == [throughput |-> 1, ping |-> 16, traceroute |-> 32]
KindOf(id) == CHOOSE kind \in Kinds : ToolId[kind] = id

-----------------------------------------------------------------------------
(***************************************************************************)
(* BWLTestSpec: the fields of a test of each kind, and their bytes.  A     *)
(* field that no option sets is 0; a BWLBoolean is 0 or 1.                 *)
(***************************************************************************)
Common == {"duration", "verbose", "outformat", "tos", "server_sends", "no_server_endpoint"}

Fields(kind) ==
  Common \cup
  CASE kind = "throughput" ->
         {"udp", "bandwidth", "len_buffer", "window_size", "report_interval",
          "dynamic_window_size", "parallel_streams", "units", "mss", "omit"}
    [] kind = "ping" ->
         {"ping_packet_count", "ping_packet_size", "ping_interpacket_time", "ping_packet_ttl"}
    [] kind = "traceroute" ->
         {"traceroute_first_ttl", "traceroute_last_ttl", "traceroute_packet_size"}

Booleans == {"verbose", "server_sends", "no_server_endpoint", "udp", "dynamic_window_size"}

Width(f) ==
  CASE f = "bandwidth" -> 8
    [] f \in {"duration", "len_buffer", "window_size"} -> 4
    [] f \in {"report_interval", "mss", "ping_packet_count", "ping_packet_size",
              "ping_interpacket_time", "traceroute_packet_size"} -> 2
    [] OTHER -> 1

-----------------------------------------------------------------------------
\* handle_*_arg: an option out of range ends bwctl, where the range is looked
\* at.  -O is put into its byte before it is.
OptionOK(f, n) ==
  CASE f \in Booleans -> n \in {0, 1}
    [] f = "tos" -> n < Byte /\ n % 2 = 0
    [] f \in {"units", "outformat"} -> n < Byte
    [] f \in {"window_size", "len_buffer"} -> n < ByteTo[4]
    [] f = "bandwidth" -> n < TwoTo[MaxExp] * ByteTo[4]
    [] f = "mss" -> n = 0 \/ n \in MinMSS .. MaxMSS
    [] f = "omit" -> n % Byte <= MaxOmit
    [] f \in {"traceroute_first_ttl", "traceroute_last_ttl"} -> n < Byte
    [] OTHER -> TRUE

ASSUME GivenAssumption ==
  \A kind \in Kinds : \A o \in Given[kind] :
    o \in [Fields(kind) -> Nat] /\ \A f \in Fields(kind) : OptionOK(f, o[f])

\* Options that are put into a narrower variable without a look at their range.
Unchecked == {"duration", "parallel_streams", "report_interval", "omit", "ping_packet_count",
              "ping_packet_size", "ping_interpacket_time", "ping_packet_ttl",
              "traceroute_packet_size"}

Assigned(f, n) == IF f \in Unchecked THEN n % ByteTo[Width(f)] ELSE n

\* main: the defaults of the options that are not given.
Defaults(kind, o) ==
  CASE kind = "throughput" ->
         [o EXCEPT !["duration"] = IF @ = 0 THEN DefDuration ELSE @,
                   !["bandwidth"] = IF @ = 0 /\ o["udp"] = 1 THEN DefUDPRate ELSE @]
    [] kind = "traceroute" ->
         [o EXCEPT !["duration"] = IF @ = 0 THEN DefDuration ELSE @]
    [] kind = "ping" ->
         LET count == IF o["ping_packet_count"] = 0 THEN 10 ELSE o["ping_packet_count"]
             time == IF o["ping_interpacket_time"] = 0 THEN Second
                     ELSE o["ping_interpacket_time"]
         IN [o EXCEPT !["ping_packet_count"] = count, !["ping_interpacket_time"] = time,
                      !["duration"] = (count * time) \div Second + 5]

\* ... and test_options.
TestSpec(kind, o) == Defaults(kind, [f \in Fields(kind) |-> Assigned(f, o[f])])

-----------------------------------------------------------------------------
\* The bandwidth is sent as a number of 32 bits and an exponent of 2.
BandwidthExp(bandwidth) ==
  CHOOSE e \in 0 .. MaxExp :
    /\ bandwidth \div TwoTo[e] < ByteTo[4]
    /\ \A d \in 0 .. e - 1 : bandwidth \div TwoTo[d] >= ByteTo[4]

\* What a server of this version does not know is not sent to it.
Unsupported(kind, version, conf_client, spec) ==
  \/ version < ToolNegotiation /\ spec["outformat"] # 0
  \/ version < V1_5 /\ spec["server_sends"] = 1
  \/ /\ kind = "throughput"
     /\ \/ version < V1_5 /\ spec["bandwidth"] > 0 /\ spec["udp"] = 0 /\ conf_client
        \/ /\ version < ToolNegotiation
           /\ \/ spec["parallel_streams"] # 0
              \/ spec["units"] # 0
              \/ BandwidthExp(spec["bandwidth"]) > 0
        \/ version < MSS /\ spec["mss"] > 0
        \/ version < Omit /\ spec["omit"] # 0
  \/ kind # "throughput" /\ version < V1_5_2 /\ spec["tos"] # 0

(***************************************************************************)
(* The message is a sequence of writes into the buffer, each an offset, a  *)
(* number of bytes and a value in network order.  Only outformat is in the *)
(* order of the host, the low byte first here.                             *)
(***************************************************************************)
When(condition, writes) == IF condition THEN writes ELSE <<>>

\* BWLGenericUnparse*Parameters.
ThroughputWrites(version, spec, ipvn) ==
  << <<1, 1, ipvn + Nibble * spec["udp"]>>,
     <<76, 4, spec["bandwidth"] \div TwoTo[BandwidthExp(spec["bandwidth"])]>>,
     <<80, 4, spec["len_buffer"]>>,
     <<84, 4, spec["window_size"]>>,
     <<88, 4, spec["report_interval"] \div (IF version >= V1_5 THEN 1 ELSE Second)>>,
     <<92, 1, spec["dynamic_window_size"]>> >>
  \o When(version >= ToolNegotiation,
          << <<94, 1, spec["parallel_streams"]>>, <<96, 4, ToolId["throughput"]>>,
             <<109, 1, BandwidthExp(spec["bandwidth"])>>, <<111, 1, spec["units"]>> >>)
  \o When(version >= MSS, << <<104, 2, spec["mss"]>> >>)
  \o When(version >= Omit, << <<110, 1, spec["omit"]>> >>)

TracerouteWrites(spec) ==
  << <<4, 4, spec["duration"]>>,
     <<76, 1, spec["traceroute_first_ttl"]>>, <<77, 1, spec["traceroute_last_ttl"]>>,
     <<78, 2, spec["traceroute_packet_size"]>> >>

\* Mutant: count and size trade places.
PingSwapped(spec) ==
  << <<76, 2, spec["ping_packet_size"]>>, <<78, 2, spec["ping_packet_count"]>>,
     <<80, 2, spec["ping_interpacket_time"]>>, <<84, 1, spec["ping_packet_ttl"]>> >>

PingWrites(spec) ==
  << <<76, 2, spec["ping_packet_count"]>>, <<78, 2, spec["ping_packet_size"]>>,
     <<80, 2, spec["ping_interpacket_time"]>>, <<84, 1, spec["ping_packet_ttl"]>> >>

Writes(kind, version, spec, ipvn) ==
  << <<1, 1, ipvn>>,
     <<96, 4, ToolId[kind]>>,
     <<4, 4, spec["duration"]>>,
     <<100, 1, spec["verbose"]>>,
     <<108, 4, spec["outformat"] * ByteTo[3]>>,
     <<101, 1, spec["server_sends"]>>,
     <<102, 1, spec["no_server_endpoint"]>>,
     <<93, 1, spec["tos"]>> >>
  \o CASE kind = "throughput" -> ThroughputWrites(version, spec, ipvn)
       [] kind = "ping" -> PingWrites(spec)
       [] kind = "traceroute" -> TracerouteWrites(spec)

-----------------------------------------------------------------------------
\* The byte at an offset is that of the last write there; 0 if there is none.
At(writes, offset) ==
  LET covering == {k \in DOMAIN writes :
                     offset \in writes[k][1] .. (writes[k][1] + writes[k][2] - 1)}
      w == writes[CHOOSE k \in covering : \A l \in covering : l <= k]
  IN IF covering = {} THEN 0
     ELSE (w[3] \div ByteTo[w[1] + w[2] - 1 - offset]) % Byte

Get(writes, offset, width) ==
  LET upTo[i \in 0 .. width] ==
        IF i = 0 THEN 0 ELSE upTo[i - 1] * Byte + At(writes, offset + i - 1)
  IN upTo[width]

\* A block at the end is to be zero: the 7th, or the 8th with the tool block.
Padded(writes, version) ==
  LET last == IF version < ToolNegotiation THEN 96 ELSE 112
  IN \A i \in last .. last + 15 : At(writes, i) = 0

\* Where the fields of a message are, as BWLGenericParse*Parameters read them.
Offset ==
  [duration |-> 4, tos |-> 93, verbose |-> 100, server_sends |-> 101,
   no_server_endpoint |-> 102, outformat |-> 108,
   len_buffer |-> 80, window_size |-> 84, dynamic_window_size |-> 92,
   parallel_streams |-> 94, mss |-> 104, omit |-> 110, units |-> 111,
   ping_packet_count |-> 76, ping_packet_size |-> 78,
   ping_interpacket_time |-> 80, ping_packet_ttl |-> 84,
   traceroute_first_ttl |-> 76, traceroute_last_ttl |-> 77,
   traceroute_packet_size |-> 78]

\* The version from which on a field is read.
Since(kind, f) ==
  CASE f = "verbose" -> IF kind = "throughput" THEN Omit ELSE V1_5_2
    [] f \in {"server_sends", "no_server_endpoint"} -> V1_5
    [] f \in {"outformat", "parallel_streams", "units"} -> ToolNegotiation
    [] f = "omit" -> Omit
    [] f = "mss" -> MSS
    [] f = "tos" -> IF kind = "throughput" THEN 0 ELSE V1_5_2
    [] OTHER -> 0

ReadField(writes, version, kind, f) ==
  CASE version < Since(kind, f) ->
         IF f = "verbose" THEN 1 ELSE 0   \* "verbose output was the default"
    [] version >= Since(kind, f) /\ f = "udp" -> At(writes, 1) \div Nibble
    [] version >= Since(kind, f) /\ f = "bandwidth" ->
         Get(writes, 76, 4) *
           TwoTo[IF version >= ToolNegotiation THEN At(writes, 109) ELSE 0]
    [] version >= Since(kind, f) /\ f = "report_interval" ->
         Get(writes, 88, 4) * (IF version < V1_5 THEN Second ELSE 1)
    [] OTHER -> Get(writes, Offset[f], Width(f))

Unreadable == "Invalid zero padding"

ReadSpec(writes, version) ==
  IF ~ Padded(writes, version) THEN Unreadable
  ELSE LET kind == IF version >= ToolNegotiation
                   THEN KindOf(Get(writes, 96, 4)) ELSE "throughput"
       IN [kind |-> kind, ipvn |-> At(writes, 1) % Nibble,
           spec |-> [f \in Fields(kind) |-> ReadField(writes, version, kind, f)]]
=============================================================================
