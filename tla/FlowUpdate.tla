----------------------------- MODULE FlowUpdate -----------------------------
(***************************************************************************)
(* What FlowTable::update does to one flow: the canonical key, the         *)
(* counters, sequence tracking, the TCP state machine, RTT estimation,     *)
(* stream reassembly and protocol identification, in the order of the      *)
(* code.                                                                   *)
(*                                                                         *)
(* A packet is a record with the fields                                    *)
(*   ip                        an IP packet decoded without an error       *)
(*   src, dst, sport, dport    addresses and ports (ports 0 if none)       *)
(*   ip_proto, l4              the protocol the IP header names, and the   *)
(*                             transport header that was found             *)
(*   flags, seq, ack           of the TCP header                           *)
(*   data, len                 the payload and its length                  *)
(*   ts                        the time stamp                              *)
(* Wire lengths, TTL and window are left out: they are only displayed.     *)
(***************************************************************************)
EXTENDS SequenceTracking, RttTracking, Reassembly, Dissection

IpProtocols == {"TCP", "UDP", "ICMP", "ICMPv6", "else"}
Transports == {"Unknown", "TCP", "UDP", "ICMP", "ICMPv6", "Other"}

\* What decode_packet hands on of a frame, before it is stamped.  A later fragment
\* is "Other" and a cut IP header leaves "Unknown", whatever ip_proto says.
DecodedPackets ==
  {q \in [ip : BOOLEAN, src : Nat, dst : Nat, sport : Nat, dport : Nat,
          ip_proto : IpProtocols, l4 : Transports, flags : SUBSET Flags,
          seq : SeqNums, ack : SeqNums, data : Seq(STRING)] :
     q.l4 \in {q.ip_proto, "Other", "Unknown"}}

CONSTANTS
  dissect_enabled,      \* FALSE under --no-dissect
  NoStream              \* a null dir.stream
ASSUME DissectAssumption == dissect_enabled \in BOOLEAN

InitDirection ==
  Join(Join([packets |-> 0, payload_bytes |-> 0, stream |-> NoStream], InitFlagCounters),
       Join(InitSequence, InitRttDirection))

\* A flow as update() creates it for packet p.
new_flow(p, id) ==
  Join([id |-> id, l4 |-> p.l4, state |-> "None", handshake_complete |-> FALSE,
        first_seen |-> p.ts, last_seen |-> p.ts, app |-> NoInfo,
        dir |-> [d \in Dirs |-> InitDirection]], InitHandshake)

-----------------------------------------------------------------------------
(* make_flow_key                                                           *)

\* Mutant: ports are not compared when the addresses are equal.
mut_src_is_a(p) == p.src <= p.dst

src_is_a(p) == p.src < p.dst \/ (p.src = p.dst /\ p.sport <= p.dport)

make_flow_key(p) ==
  IF src_is_a(p)
  THEN [a |-> p.src, b |-> p.dst, port_a |-> p.sport, port_b |-> p.dport, proto |-> p.ip_proto]
  ELSE [a |-> p.dst, b |-> p.src, port_a |-> p.dport, port_b |-> p.sport, proto |-> p.ip_proto]

direction(p) == IF src_is_a(p) THEN "fwd" ELSE "rev"

-----------------------------------------------------------------------------
(* reassemble_and_dissect                                                  *)

\* The AppInfo of the flow after a dissector has reported info.
revised_app(app, info) ==
  IF identified(info) /\ (~identified(app) \/ (info.conclusive /\ ~app.conclusive))
  THEN info ELSE app

\* The reassembler of the direction after the packet, and before it is
\* released.
fed_stream(dir, p) ==
  push(IF dir.stream = NoStream THEN InitReassembler ELSE dir.stream,
       p.seq, p.data, "SYN" \in p.flags)

\* What push() returns: the bytes that became available in order.
added_bytes(dir, p) ==
  fed_stream(dir, p).delivered
    - (IF dir.stream = NoStream THEN 0 ELSE dir.stream.delivered)

feeds_stream(p) == p.l4 = "TCP" /\ (p.len > 0 \/ "SYN" \in p.flags)

\* Mutant: buffers are kept for as long as the flow lives.
mut_release(app, stream) == stream

\* The buffers go as soon as they cannot tell anything more.
release(app, stream) ==
  IF app.conclusive \/ saturated(stream) THEN NoStream ELSE stream

\* Is the payload of the packet inspected at all?
inspects(flow) == dissect_enabled /\ ~flow.app.conclusive

reassemble_and_dissect(flow, d, p) ==
  IF ~inspects(flow) THEN flow
  ELSE IF p.l4 = "UDP"
  THEN LET info == dissect_udp_payload(p.data, p)
       IN IF identified(info) THEN [flow EXCEPT !.app = info] ELSE flow
  ELSE IF ~feeds_stream(p) THEN flow
  ELSE LET stream == fed_stream(flow.dir[d], p)
           info   == IF added_bytes(flow.dir[d], p) > 0
                     THEN dissect_tcp_stream(stream.prefix, p) ELSE NoInfo
           app    == revised_app(flow.app, info)
       IN [flow EXCEPT !.app = app, !.dir[d].stream = release(app, stream)]

-----------------------------------------------------------------------------
(* update, once the flow is found or created                               *)

count_packet(flow, d, p) ==
  [flow EXCEPT !.last_seen = p.ts,
               !.dir[d].packets = @ + 1,
               !.dir[d].payload_bytes = @ + p.len]

\* The segment's verdict is the one track_sequence reached before it changed
\* the direction.
verdict(flow, d, p) == classify(flow.dir[d], p)

track_tcp(flow, d, p) ==
  LET counted == [flow EXCEPT !.dir[d] = track_sequence(count_flags(@, p), p)]
      moved   == advance_tcp_state(counted, p.flags, d)
  IN track_rtt(moved, p, d, is_retransmit(verdict(flow, d, p)))

update_flow(flow, p) ==
  LET d       == direction(p)
      counted == count_packet(flow, d, p)
      tracked == IF p.l4 = "TCP" THEN track_tcp(counted, d, p) ELSE counted
  IN reassemble_and_dissect(tracked, d, p)
=============================================================================
