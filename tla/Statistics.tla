------------------------------ MODULE Statistics ------------------------------
(***************************************************************************)
(* Statistics: totals, protocol mix, ports, talkers, and the ring of       *)
(* one-second buckets behind the throughput display, as operators on one   *)
(* record. A packet is what decode_packet returns.                         *)
(***************************************************************************)
EXTENDS Integers, FiniteSets, FiniteSetsExt

CONSTANTS
  Window,   \* kThroughputWindow, 90 in the code
  MaxSec,   \* bound: last second of the capture
  Ports,    \* the port numbers
  Talkers   \* the source addresses, "none" included

ASSUME StatisticsAssumption ==
  /\ Window \in Nat \ {0} /\ MaxSec \in Nat \ {0}
  /\ Ports \subseteq Nat /\ 0 \in Ports /\ IsFiniteSet(Ports)
  /\ IsFiniteSet(Talkers)

Protocols == {"TCP", "UDP", "ICMP", "ARP", "OTHER"}
Secs == 1..MaxSec
Empty == [bytes |-> 0, packets |-> 0]

NewStatistics ==
  [packets |-> 0, bytes |-> 0, decode_errors |-> 0,
   truncated |-> 0, bad_checksums |-> 0, fragments |-> 0,
   protocol |-> [p \in Protocols |-> Empty],
   ip_packets |-> [v \in {"IPv4", "IPv6"} |-> 0], tcp_flags |-> [f \in {"SYN", "FIN", "RST"} |-> 0],
   port_bytes |-> [p \in Ports |-> 0], talker_bytes |-> [a \in Talkers |-> 0],
   ring |-> [i \in 0..(Window - 1) |-> [sec |-> 0, bucket |-> Empty]],
   newest_sec |-> 0]

plus(bucket, p) == [bytes |-> bucket.bytes + p.wirelen, packets |-> bucket.packets + 1]

mut_bucket_for(s, sec) == s.ring[sec % Window].bucket
\* The bucket of a second, empty if its place held another second.
bucket_for(s, sec) ==
  LET slot == s.ring[sec % Window] IN IF slot.sec = sec THEN slot.bucket ELSE Empty

mut_newest(s, sec) == sec
newest(s, sec) == IF sec > s.newest_sec THEN sec ELSE s.newest_sec

one_if(b) == IF b THEN 1 ELSE 0

add_to_totals(s, p, sec) ==
  [s EXCEPT !.packets = @ + 1, !.bytes = @ + p.wirelen,
            !.ring[sec % Window] = [sec |-> sec, bucket |-> plus(bucket_for(s, sec), p)],
            !.newest_sec = newest(s, sec),
            !.truncated = @ + one_if(p.truncated),
            !.bad_checksums = @ + one_if(p.bad_ip_checksum),
            !.fragments = @ + one_if(p.fragmented)]

protocol_of(p) ==
  CASE p.l3 = "ARP" -> "ARP"
    [] p.l4 \in {"TCP", "UDP"} -> p.l4
    [] p.l4 \in {"ICMP", "ICMPv6"} -> "ICMP"
    [] OTHER -> "OTHER"

\* The lower port is taken for the service.
service(p) == IF p.sport < p.dport THEN p.sport ELSE p.dport
has_ports(p) == p.l4 \in {"TCP", "UDP"}

\* A packet that is not ARP is IP, or it would have an error.
count_ip(s, p) ==
  IF p.l3 = "ARP" THEN s
  ELSE [s EXCEPT !.ip_packets[p.l3] = @ + 1,
                 !.tcp_flags = [f \in DOMAIN @ |-> @[f] + one_if(p.l4 = "TCP" /\ f \in p.flags)],
                 !.talker_bytes[p.src] = @ + p.wirelen]

add_to_mix(s, p) ==
  IF p.error THEN [s EXCEPT !.decode_errors = @ + 1]
  ELSE [count_ip(s, p) EXCEPT !.protocol[protocol_of(p)] = plus(@, p),
                              !.port_bytes[service(p)] = IF has_ports(p) THEN @ + p.wirelen ELSE @]

add(s, p, sec) == add_to_mix(add_to_totals(s, p, sec), p)

-----------------------------------------------------------------------------
\* The views of the dashboard.

stored(s, sec) ==
  LET slot == s.ring[sec % Window] IN IF slot.sec = sec THEN slot.bucket ELSE Empty

shown_secs(s) == {sec \in Secs : s.newest_sec - Window < sec /\ sec <= s.newest_sec}
throughput_history(s) == [sec \in shown_secs(s) |-> stored(s, sec)]

\* The seconds behind the newest one, which is still filling.
completed(s, n) == {sec \in Secs : s.newest_sec - n <= sec /\ sec < s.newest_sec}
Sum(f, S) == MapThenSumSet(LAMBDA x : f[x], S)
\* No span is longer than the ring.
span_of(n) == IF n > Window THEN Window ELSE n
\* What recent_bps(n) divides by its span.
recent_bytes(s, n) ==
  LET secs == completed(s, span_of(n))
  IN IF n = 0 \/ s.newest_sec = 0 THEN 0 ELSE Sum([sec \in secs |-> stored(s, sec).bytes], secs)

=============================================================================
