------------------------------- MODULE Parser -------------------------------
(***************************************************************************)
(* decode_packet on abstract frames. A frame is a record of what its       *)
(* headers say; bytes are only counted. Of a frame caplen bytes were       *)
(* captured, and a header can be read only if the cursor has all of it.    *)
(*   link, tags           link type, number of VLAN tags                   *)
(*   net, version_ok      "IPv4", "IPv6", "ARP" or "else"; version field   *)
(*   ihl, bad_checksum    IPv4 header length, wrong header checksum        *)
(*   frag                 IPv4: "no", "first" or "later" fragment          *)
(*   ext                  IPv6 extension headers, each with its length     *)
(*                        and, for a fragment header, its frag             *)
(*   proto, hlen, udp_len transport protocol, TCP data offset, UDP length  *)
(*   src, sport, dport, flags                                              *)
(*   payload, pad         bytes of transport payload and of link padding   *)
(***************************************************************************)
EXTENDS Integers, Sequences

MaxTags == 2
MaxHops == 8
Fragments == {"no", "first", "later"}

NoPacket ==
  [l3 |-> "Unknown", l4 |-> "Unknown", src |-> "none", sport |-> 0, dport |-> 0, flags |-> {},
   fragmented |-> FALSE, first_fragment |-> TRUE, bad_ip_checksum |-> FALSE,
   payload_len |-> 0, truncated |-> FALSE, error |-> FALSE, wirelen |-> 0]

\* Where decoding stands: bytes left and the packet so far. ok is the result of decode_packet.
failed(out) == [ok |-> FALSE, out |-> [out EXCEPT !.error = TRUE]]
done(out) == [ok |-> TRUE, out |-> out]
cut_short(out) == done([out EXCEPT !.truncated = TRUE])

mut_take(left, n) == left >= n - 1
\* Cursor::take and Cursor::skip hand out n bytes only if they were captured.
take(left, n) == left >= n

-----------------------------------------------------------------------------
decode_tcp(f, left, out) ==
  LET tcp == [out EXCEPT !.l4 = "TCP"]
      read == [tcp EXCEPT !.sport = f.sport, !.dport = f.dport, !.flags = f.flags]
  IN CASE ~take(left, 20) -> cut_short(tcp)
       [] take(left, 20) /\ f.hlen < 20 -> done([read EXCEPT !.error = TRUE])
       [] take(left, 20) /\ f.hlen >= 20 /\ ~take(left - 20, f.hlen - 20) -> cut_short(read)
       [] OTHER -> done([read EXCEPT !.payload_len = left - f.hlen])

udp_payload(f, left) ==
  LET declared == IF f.udp_len >= 8 THEN f.udp_len - 8 ELSE 0
  IN IF declared < left THEN declared ELSE left

decode_udp(f, left, out) ==
  LET udp == [out EXCEPT !.l4 = "UDP"]
  IN IF ~take(left, 8) THEN cut_short(udp)
     ELSE done([udp EXCEPT !.sport = f.sport, !.dport = f.dport,
                           !.payload_len = udp_payload(f, left - 8)])

decode_icmp(f, left, out) ==
  LET icmp == [out EXCEPT !.l4 = f.proto]
  IN IF ~take(left, 4) THEN cut_short(icmp) ELSE done([icmp EXCEPT !.payload_len = left - 4])

opaque(left, out) == done([out EXCEPT !.l4 = "Other", !.payload_len = left])

decode_l4(f, proto, left, out) ==
  CASE proto = "TCP" -> decode_tcp(f, left, out)
    [] proto = "UDP" -> decode_udp(f, left, out)
    [] proto \in {"ICMP", "ICMPv6"} -> decode_icmp(f, left, out)
    [] OTHER -> opaque(left, out)

-----------------------------------------------------------------------------
mut_is_first(f) == TRUE
is_first(f) == f.frag # "later"

decode_ipv4(f, left, out) ==
  LET rest == left - 20
      ip == [out EXCEPT !.l3 = "IPv4", !.src = f.src, !.fragmented = f.frag # "no",
                        !.first_fragment = is_first(f),
                        !.bad_ip_checksum = f.bad_checksum /\ rest + 20 >= f.ihl]
  IN CASE ~take(left, 20) \/ ~f.version_ok \/ f.ihl < 20 -> failed(out)
       [] take(left, 20) /\ f.version_ok /\ f.ihl >= 20 /\ ~take(rest, f.ihl - 20) -> cut_short(ip)
       [] OTHER -> IF is_first(f) THEN decode_l4(f, f.proto, left - f.ihl, ip)
                   ELSE opaque(left - f.ihl, ip)

\* resolve_ipv6_next: where the walk stands after i extension headers.
hops(f, left) ==
  LET after[i \in 0..Len(f.ext)] ==
        IF i = 0 THEN [left |-> left, fragmented |-> FALSE, first |-> TRUE, truncated |-> FALSE]
        ELSE LET w == after[i - 1]
                 e == f.ext[i]
             IN CASE w.truncated -> w
                  [] ~w.truncated /\ ~take(w.left, e.len) -> [w EXCEPT !.truncated = TRUE]
                  [] OTHER -> [w EXCEPT !.left = @ - e.len,
                                        !.fragmented = @ \/ e.frag # "no",
                                        !.first = IF e.frag = "no" THEN @ ELSE e.frag = "first"]
  IN after
walk(f, left) == hops(f, left)[IF Len(f.ext) < MaxHops THEN Len(f.ext) ELSE MaxHops]

\* After MaxHops extension headers the walk gives up.
upper_proto(f) == IF Len(f.ext) < MaxHops THEN f.proto ELSE "none"

decode_ipv6(f, left, out) ==
  LET w == walk(f, left - 40)
      ip == [out EXCEPT !.l3 = "IPv6", !.src = f.src, !.fragmented = w.fragmented,
                        !.first_fragment = w.first]
  IN CASE ~take(left, 40) \/ ~f.version_ok -> failed(out)
       [] take(left, 40) /\ f.version_ok /\ w.truncated -> cut_short(ip)
       [] OTHER -> IF w.first THEN decode_l4(f, upper_proto(f), w.left, ip)
                   ELSE done([ip EXCEPT !.l4 = "Other"])

decode_l3(f, left, out) ==
  CASE f.net = "IPv4" -> decode_ipv4(f, left, out)
    [] f.net = "IPv6" -> decode_ipv6(f, left, out)
    [] f.net = "ARP" -> done([out EXCEPT !.l3 = "ARP"])
    [] OTHER -> failed(out)

-----------------------------------------------------------------------------
link_len(f) ==
  CASE f.link = "Ethernet" -> 14 [] f.link = "SLL" -> 16 [] f.link = "SLL2" -> 20
    [] f.link = "Null" -> 4 [] OTHER -> 0

\* VLAN tags the parser unwraps; a third one is an ethertype it does not know.
vlan_tags(f) == IF f.link # "Ethernet" THEN 0 ELSE IF f.tags > MaxTags THEN MaxTags ELSE f.tags

\* A raw frame shows its version in the first nibble, so one byte is needed; take(0) of
\* the other link headers is covered by the test for an empty frame.
decode_packet(f, caplen, wirelen) ==
  LET out == [NoPacket EXCEPT !.wirelen = wirelen]
      headers == link_len(f) + 4 * vlan_tags(f)
  IN IF \/ caplen = 0
        \/ f.link = "unsupported"
        \/ ~take(caplen, headers)
        \/ f.tags > vlan_tags(f)
       THEN failed(out)
       ELSE decode_l3(f, caplen - headers, out)

-----------------------------------------------------------------------------
\* What a frame really holds.

frame_is_first(f) ==
  IF f.net = "IPv6" THEN \A i \in 1..Len(f.ext) : f.ext[i].frag # "later" ELSE f.frag # "later"
ext_len(f) ==
  LET total[i \in 0..Len(f.ext)] == IF i = 0 THEN 0 ELSE total[i - 1] + f.ext[i].len IN total
ip_len(f) ==
  CASE f.net = "IPv4" -> IF f.ihl < 20 THEN 20 ELSE f.ihl
    [] f.net = "IPv6" -> 40 + ext_len(f)[Len(f.ext)]
    [] OTHER -> 28
transport_len(f) ==
  CASE ~frame_is_first(f) \/ f.net \notin {"IPv4", "IPv6"} -> 0
    [] OTHER -> CASE f.proto = "TCP" -> IF f.hlen < 20 THEN 20 ELSE f.hlen
                  [] f.proto = "UDP" -> 8
                  [] f.proto \in {"ICMP", "ICMPv6"} -> 4
                  [] OTHER -> 0
headers_len(f) == link_len(f) + 4 * f.tags + ip_len(f) + transport_len(f)
wire_len(f) == headers_len(f) + f.payload + f.pad

=============================================================================
