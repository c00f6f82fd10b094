------------------------------ MODULE Analyzer ------------------------------
(***************************************************************************)
(* Analyzer::consume: decode a captured frame, count it, and hand it to    *)
(* the flow table unless it did not decode. What the flow table does with  *)
(* it is module FlowTable; here only how many packets reach it. Time       *)
(* stamps may go back: packets of a file need not be in order, and the     *)
(* clock may be set.                                                       *)
(***************************************************************************)
EXTENDS Parser, Statistics

CONSTANTS
  Traffics,   \* [captures, secs, count]: pairs of a frame and the bytes captured of it,
              \* their seconds, and a bound: how many are captured
  StepBack    \* how far a time stamp may lie behind the newest one

\* Only Ethernet frames have VLAN tags.
IsFrame(f) ==
  /\ f.link \in {"Ethernet", "SLL", "SLL2", "Null", "Raw", "unsupported"}
  /\ f.tags \in Nat /\ (f.tags > 0 => f.link = "Ethernet")
  /\ f.net \in {"IPv4", "IPv6", "ARP", "else"} /\ f.version_ok \in BOOLEAN
  /\ f.ihl \in Nat /\ f.bad_checksum \in BOOLEAN /\ f.frag \in Fragments
  /\ f.ext \in Seq([len : Nat, frag : Fragments])
  /\ f.proto \in {"TCP", "UDP", "ICMP", "ICMPv6", "else"}
  /\ f.hlen \in Nat /\ f.udp_len \in Nat
  /\ f.src \in Talkers /\ f.sport \in Ports /\ f.dport \in Ports
  /\ f.payload \in Nat /\ f.pad \in Nat

ASSUME AnalyzerAssumption ==
  /\ \A t \in Traffics :
       /\ t.count \in Nat /\ t.secs \subseteq Secs
       /\ \A c \in t.captures : IsFrame(c[1]) /\ c[2] \in 0..wire_len(c[1])
  /\ StepBack \in Nat

VARIABLES
  traffic,  \* what is captured in this behaviour
  stats,    \* stats_
  tracked,  \* packets that have reached a flow since the last reset
  last,     \* history: the last frame, the bytes captured of it, and how it was decoded
  second,   \* history: what was captured in each second since the last reset
  count     \* packets captured so far

vars == <<traffic, stats, tracked, last, second, count>>

Init ==
  /\ traffic \in Traffics
  /\ stats = NewStatistics /\ tracked = 0
  /\ last = <<>>
  /\ second = [s \in Secs |-> Empty]
  /\ count = 0

mut_reaches_flow(decoded) == decoded.ok /\ decoded.out.l3 \in {"IPv4", "IPv6"}
\* consume() passes on what decoded; FlowTable::update takes IP packets without error.
reaches_flow(decoded) ==
  decoded.ok /\ decoded.out.l3 \in {"IPv4", "IPv6"} /\ ~decoded.out.error

Consume(frame, caplen, sec) ==
  LET decoded == decode_packet(frame, caplen, wire_len(frame))
  IN /\ count < traffic.count
     /\ sec >= stats.newest_sec - StepBack
     /\ stats' = add(stats, decoded.out, sec)
     /\ tracked' = tracked + one_if(reaches_flow(decoded))
     /\ last' = [frame |-> frame, caplen |-> caplen, pkt |-> decoded.out]
     /\ second' = [second EXCEPT ![sec] = plus(@, decoded.out)]
     /\ count' = count + 1
     /\ UNCHANGED traffic

\* Analyzer::reset; FlowTable::clear leaves no flow.
Reset ==
  /\ stats' = NewStatistics /\ tracked' = 0
  /\ second' = [s \in Secs |-> Empty]
  /\ UNCHANGED <<traffic, last, count>>

Next == Reset \/ \E c \in traffic.captures, sec \in traffic.secs : Consume(c[1], c[2], sec)

Spec == Init /\ [][Next]_vars

-----------------------------------------------------------------------------
\* Properties of the statistics.

\* The state has its type; a slot of the ring holds a second of its own residue class
\* that is not newer than the newest one.
TypeOK ==
  /\ traffic \in Traffics /\ count \in 0..traffic.count /\ tracked \in 0..count
  /\ stats.newest_sec \in 0..MaxSec
  /\ \A i \in 0..(Window - 1) :
       LET slot == stats.ring[i]
       IN slot.sec # 0 => slot.sec % Window = i /\ slot.sec <= stats.newest_sec

\* While time stamps lag by less than the window, every bar of the throughput history is
\* what was captured in that second: the ring forgets only seconds that left the window.
\* The current rate covers exactly the last completed seconds, for every span that fits.
ThroughputIsTrue ==
  /\ \A sec \in shown_secs(stats) : throughput_history(stats)[sec] = second[sec]
  /\ \A n \in 1..(Window - 1) :
       recent_bytes(stats, n) =
         LET span == {sec \in Secs : stats.newest_sec - n <= sec /\ sec < stats.newest_sec}
         IN Sum([sec \in span |-> second[sec].bytes], span)

\* Every packet is counted in exactly one line of the protocol distribution or as
\* undecoded, and ports, IP versions and talkers account for the packets and the volume of
\* TCP and UDP, and of IP. The statistics and the flow table agree on which packets
\* decoded: those counted as TCP, UDP, ICMP or other are those that reach a flow.
VolumeAccounted ==
  LET packets == [p \in Protocols |-> stats.protocol[p].packets]
      bytes == [p \in Protocols |-> stats.protocol[p].bytes]
      ip == Protocols \ {"ARP"}
  IN /\ stats.packets = stats.decode_errors + Sum(packets, Protocols)
     /\ Sum(stats.port_bytes, Ports) = bytes["TCP"] + bytes["UDP"]
     /\ stats.ip_packets["IPv4"] + stats.ip_packets["IPv6"] = Sum(packets, ip)
     /\ tracked = Sum(packets, ip)
     /\ Sum(stats.talker_bytes, Talkers) = Sum(bytes, ip)

-----------------------------------------------------------------------------
\* Properties of the parser.

\* A shorter capture of a frame only hides: what is still decoded is what the whole frame
\* would have shown, a hidden header is reported (a cut payload only shortens
\* payload_len), a malformed frame never looks good, and
\* the cursor never walks off the captured bytes (the payload would be negative).
SnaplenOnlyHides ==
  last # <<>> =>
    LET pkt == last.pkt
        full == decode_packet(last.frame, wire_len(last.frame), wire_len(last.frame)).out
    IN /\ pkt.l3 \in {"Unknown", full.l3} /\ pkt.l4 \in {"Unknown", full.l4}
       /\ pkt.payload_len \in 0..full.payload_len
       /\ ~pkt.truncated /\ ~pkt.error =>
            /\ <<pkt.l4, pkt.sport, pkt.dport, pkt.flags>> = <<full.l4, full.sport, full.dport, full.flags>>
            /\ ~full.error /\ pkt.first_fragment = full.first_fragment

\* The frame is one the parser knows, its header fields are sane, and it has at most one
\* fragment header.
wellformed(f) ==
  /\ f.link # "unsupported" /\ f.tags <= MaxTags /\ Len(f.ext) < MaxHops
  /\ f.net \in {"IPv4", "IPv6"} /\ f.version_ok /\ f.ihl >= 20 /\ f.hlen >= 20
  /\ f.udp_len = 8 + f.payload
  /\ \A i, j \in 1..Len(f.ext) : f.ext[i].frag # "no" /\ f.ext[j].frag # "no" => i = j

\* When every header of a wellformed frame was captured it is decoded without complaint,
\* with its ports; the payload is what was captured of it, link padding not counted
\* in UDP. A later fragment never lends its payload to a transport header.
HeadersDecoded ==
  (last # <<>> /\ wellformed(last.frame) /\ last.caplen >= headers_len(last.frame)) =>
    LET f == last.frame
        pkt == last.pkt
        captured == last.caplen - headers_len(f)
    IN /\ ~pkt.error /\ ~pkt.truncated
       /\ pkt.l4 = IF frame_is_first(f) /\ f.proto # "else" THEN f.proto ELSE "Other"
       /\ pkt.l4 \in {"TCP", "UDP"} => pkt.sport = f.sport /\ pkt.dport = f.dport
       /\ pkt.l4 = "UDP" => pkt.payload_len = Min({captured, f.payload})
       /\ pkt.l4 = "TCP" /\ f.pad = 0 => pkt.payload_len = captured

-----------------------------------------------------------------------------
\* A statement of the repository that the code does not keep.

\* "Pure ACKs are not data" (test_netscope.cpp): a captured TCP segment without payload is
\* not given one.
PureAckHasNoPayload ==
  (last # <<>> /\ wellformed(last.frame) /\ last.pkt.l4 = "TCP" /\ last.frame.payload = 0)
    => last.pkt.payload_len = 0

=============================================================================
