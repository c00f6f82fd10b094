--------------------------- MODULE FlowTableProofs ---------------------------
(***************************************************************************)
(* Proofs about the flow table: for every traffic, every capacity, every   *)
(* idle time and every limit of the trackers it is composed of.            *)
(***************************************************************************)
EXTENDS FlowTable, SegmentLemmas

-----------------------------------------------------------------------------
(* What every flow of the table satisfies.                                 *)

\* The reassembler of a direction, if it has one, keeps its budget and has room left.
StreamOK(s) == s # NoStream => s \in Budgeted(STRING) /\ ~saturated(s)

\* A direction: all its fields are there, and what it counts are numbers.
DirOK(x) ==
  /\ {"packets", "payload_bytes", "stream", "syn", "fin", "rst", "pure_acks", "retransmits",
      "out_of_order", "seq_valid", "next_seq", "recent_segments", "holes", "awaiting_ack",
      "rtt"} \subseteq DOMAIN x
  /\ x.retransmits \in Nat /\ x.out_of_order \in Nat /\ x.rtt.samples \in Nat
  /\ StreamOK(x.stream)

AppInfos == [proto : AppProtocols, conclusive : BOOLEAN]

\* A flow record.
FlowShape(f) ==
  /\ {"id", "l4", "state", "handshake_complete", "first_seen", "last_seen", "app", "dir",
      "handshake_rtt_ms", "syn_ts", "syn_seen"} \subseteq DOMAIN f
  /\ f.state \in TcpStates /\ f.l4 \in Transports /\ f.app \in AppInfos
  /\ DOMAIN f.dir = Dirs /\ \A e \in Dirs : DirOK(f.dir[e])

\* Only TCP is reassembled (proto is the protocol of the flow's key), and of a flow whose
\* application protocol is known for good at least one direction has given its buffers back.
Released(f, proto) ==
  /\ proto # "TCP" => \A e \in Dirs : f.dir[e].stream = NoStream
  /\ f.app.conclusive => \E e \in Dirs : f.dir[e].stream = NoStream

\* The packets that reach a flow.
Stamped(p) ==
  /\ p.src \in Nat /\ p.dst \in Nat /\ p.sport \in Nat /\ p.dport \in Nat
  /\ p.ip_proto \in IpProtocols /\ p.l4 \in Transports
  /\ p.l4 \in {p.ip_proto, "Other", "Unknown"}
  /\ p.flags \in SUBSET Flags /\ p.seq \in SeqNums
  /\ p.data \in Seq(STRING) /\ p.len = Len(p.data) /\ p.ts \in Nat

-----------------------------------------------------------------------------
(* count_packet, and the trackers of a TCP segment.                        *)

\* What a direction keeps when something else of it changes.
SameCounts(x, y) ==
  y.retransmits = x.retransmits /\ y.out_of_order = x.out_of_order /\ y.stream = x.stream
SameTracking(x, y) ==
  /\ y.seq_valid = x.seq_valid /\ y.next_seq = x.next_seq
  /\ y.recent_segments = x.recent_segments /\ y.holes = x.holes

\* The two directions.
LEMMA TwoDirections ==
  ASSUME NEW d \in Dirs
  PROVE  Peer(d) \in Dirs /\ Peer(d) # d /\ Dirs = {d, Peer(d)} /\ Dirs = {"fwd", "rev"}
  BY DEF Dirs, Peer

\* A flow g that differs from f by one more packet of direction d at time ts.
OneMore(f, g, d, ts) ==
  /\ g.last_seen = ts
  /\ g.id = f.id /\ g.l4 = f.l4 /\ g.state = f.state /\ g.app = f.app
  /\ g.dir[Peer(d)] = f.dir[Peer(d)]
  /\ SameCounts(f.dir[d], g.dir[d]) /\ SameTracking(f.dir[d], g.dir[d])
  /\ g.dir[d].rtt = f.dir[d].rtt

\* The packet is counted in its direction.
LEMMA CountPacket ==
  ASSUME NEW f, FlowShape(f), NEW d \in Dirs, NEW p, NEW g, g = count_packet(f, d, p)
  PROVE  FlowShape(g) /\ OneMore(f, g, d, p.ts)
<1>1. PICK x : x = f.dir[d]
  OBVIOUS
<1>2. PICK y : y = [x EXCEPT !.packets = x.packets + 1,
                             !.payload_bytes = x.payload_bytes + p.len]
  OBVIOUS
<1>3. PICK ds : ds = [f.dir EXCEPT ![d] = y]
  OBVIOUS
<1>4. DirOK(x)
  BY <1>1 DEF FlowShape
<1>5. DirOK(y) /\ SameCounts(x, y) /\ SameTracking(x, y) /\ y.rtt = x.rtt
  BY <1>2, <1>4 DEF DirOK, SameCounts, SameTracking
<1>6. DOMAIN ds = Dirs /\ ds[d] = y /\ ds[Peer(d)] = f.dir[Peer(d)]
  BY <1>3, TwoDirections DEF FlowShape
<1>7. g = [f EXCEPT !.last_seen = p.ts, !.dir = ds]
  BY <1>1, <1>2, <1>3, <1>4 DEF count_packet, DirOK, FlowShape
<1>8. /\ DOMAIN g = DOMAIN f /\ g.last_seen = p.ts /\ g.dir = ds
      /\ g.id = f.id /\ g.l4 = f.l4 /\ g.state = f.state /\ g.app = f.app
  BY <1>7 DEF FlowShape
<1>9. FlowShape(g)
  <2>1. \A e \in Dirs : DirOK(g.dir[e])
    BY <1>5, <1>6, <1>8, TwoDirections DEF FlowShape
  <2> QED  BY <1>6, <1>8, <2>1 DEF FlowShape
<1> QED  BY <1>1, <1>5, <1>6, <1>8, <1>9, Zenon DEF OneMore

\* The verdict on a segment depends on the sequence tracking alone.
LEMMA SameVerdict ==
  ASSUME NEW x, NEW y, SameTracking(x, y), NEW p
  PROVE  classify(y, p) = classify(x, p)
  BY Zenon DEF SameTracking, classify, fills_known_hole, holes_hit

\* A verdict adds 0 or 1 to a counter.
LEMMA IncrementIsBit ==
  ASSUME NEW n \in Nat, NEW c
  PROVE  Increment(n, c) = n + Bit(c) /\ Bit(c) \in {0, 1} /\ n + Bit(c) \in Nat
  BY DEF Increment, Bit

\* A segment without payload is neither resent nor out of order.
LEMMA ControlVerdict ==
  ASSUME NEW x, NEW p, p.len = 0
  PROVE  /\ classify(x, p) = "control"
         /\ Bit(is_retransmit(classify(x, p))) = 0 /\ Bit(is_out_of_order(classify(x, p))) = 0
<1>1. classify(x, p) = "control"
  BY DEF classify
<1> QED  BY <1>1 DEF is_retransmit, is_out_of_order, Bit

\* The sender's direction after the flag counters and track_sequence.
LEMMA TrackDirection ==
  ASSUME NEW x, DirOK(x), NEW p, p.len \in Nat,
         NEW y, y = track_sequence(count_flags(x, p), p)
  PROVE  /\ DirOK(y) /\ y.rtt = x.rtt /\ y.awaiting_ack = x.awaiting_ack /\ y.stream = x.stream
         /\ y.retransmits = x.retransmits + Bit(is_retransmit(classify(x, p)))
         /\ y.out_of_order = x.out_of_order + Bit(is_out_of_order(classify(x, p)))
<1>1. PICK z : z = count_flags(x, p)
  OBVIOUS
<1>2. /\ DirOK(z) /\ SameCounts(x, z) /\ SameTracking(x, z) /\ z.rtt = x.rtt
      /\ z.awaiting_ack = x.awaiting_ack
  <2>1. PICK a, b, c, e : z = [x EXCEPT !.syn = a, !.fin = b, !.rst = c, !.pure_acks = e]
    <3>1. PICK fl : fl = p.flags
      OBVIOUS
    <3>2. PICK a, b, c, e :
            /\ a = x.syn + Bit("SYN" \in fl) /\ b = x.fin + Bit("FIN" \in fl)
            /\ c = x.rst + Bit("RST" \in fl)
            /\ e = x.pure_acks + Bit(/\ p.len = 0 /\ "ACK" \in fl
                                     /\ fl \cap {"SYN", "FIN", "RST"} = {})
      OBVIOUS
    <3>3. z = [x EXCEPT !.syn = a, !.fin = b, !.rst = c, !.pure_acks = e]
      BY <1>1, <3>1, <3>2 DEF count_flags, DirOK
    <3> QED  BY <3>3
  <2> QED  BY <2>1 DEF DirOK, SameCounts, SameTracking
<1>3. classify(z, p) = classify(x, p)
  BY <1>2, SameVerdict
<1>4. PICK c : c = classify(x, p)
  OBVIOUS
<1>5. CASE p.len = 0
  <2>1. PICK n : y = [z EXCEPT !.seq_valid = TRUE, !.next_seq = n]
    BY <1>1, <1>5 DEF track_sequence, track_control
  <2>2. /\ DirOK(y) /\ y.rtt = z.rtt /\ y.awaiting_ack = z.awaiting_ack /\ y.stream = z.stream
        /\ y.retransmits = z.retransmits /\ y.out_of_order = z.out_of_order
    BY <1>2, <2>1 DEF DirOK
  <2>3. Bit(is_retransmit(classify(x, p))) = 0 /\ Bit(is_out_of_order(classify(x, p))) = 0
    BY <1>5, ControlVerdict
  <2> QED  BY <1>2, <2>2, <2>3 DEF SameCounts, DirOK
<1>6. CASE p.len # 0
  <2>1. PICK r, o, n, h, s :
          /\ r = Increment(z.retransmits, is_retransmit(c))
          /\ o = Increment(z.out_of_order, is_out_of_order(c))
          /\ n = (IF c \in {"first", "jump", "advance"} THEN seg_end(p) ELSE z.next_seq)
          /\ h = (CASE c = "late" -> filled_holes(z, p)
                    [] c = "jump" -> push_bounded(z.holes, skipped(z, p), kMaxTrackedHoles)
                    [] OTHER -> z.holes)
          /\ s = push_bounded(z.recent_segments, fingerprint(p), kRecentSegmentWindow)
    OBVIOUS
  <2>2. y = track_data(z, p)
    BY <1>1, <1>6, Zenon DEF track_sequence
  <2>3. y = [z EXCEPT !.retransmits = r, !.out_of_order = o, !.seq_valid = TRUE,
                      !.next_seq = n, !.holes = h, !.recent_segments = s]
    BY <1>2, <1>3, <1>4, <2>1, <2>2 DEF track_data, DirOK
  <2>4. /\ r = x.retransmits + Bit(is_retransmit(c)) /\ r \in Nat
        /\ o = x.out_of_order + Bit(is_out_of_order(c)) /\ o \in Nat
    BY <1>2, <2>1, IncrementIsBit DEF DirOK, SameCounts
  <2>5. /\ DirOK(y) /\ y.rtt = z.rtt /\ y.awaiting_ack = z.awaiting_ack /\ y.stream = z.stream
        /\ y.retransmits = r /\ y.out_of_order = o
    BY <1>2, <2>3, <2>4 DEF DirOK
  <2> QED  BY <1>2, <1>4, <2>4, <2>5 DEF SameCounts
<1> QED  BY <1>5, <1>6

\* A sample that is accepted adds one to the number of samples.
LEMMA AddSample ==
  ASSUME NEW rtt, rtt.samples \in Nat, NEW ms
  PROVE  add(rtt, ms).samples \in Nat /\ add(rtt, ms).samples <= rtt.samples + 1
<1>1. CASE ~plausible(ms)
  BY <1>1 DEF add
<1>2. CASE plausible(ms) /\ rtt.samples = 0
  BY <1>2 DEF add
<1>3. CASE plausible(ms) /\ rtt.samples # 0
  BY <1>3 DEF add
<1> QED  BY <1>1, <1>2, <1>3

\* The peer's direction after the acknowledgement: at most one sample, and none unless a
\* segment was acknowledged.
LEMMA RetireDirection ==
  ASSUME NEW x, DirOK(x), NEW p, NEW y, y = retire(x, p)
  PROVE  /\ DirOK(y) /\ SameCounts(x, y)
         /\ y.rtt.samples <= x.rtt.samples + Bit(retired(x.awaiting_ack, p) # 0)
<1>1. PICK q, n : q = x.awaiting_ack /\ n = retired(q, p)
  OBVIOUS
<1>2. CASE n = 0
  BY <1>1, <1>2 DEF retire, Bit, SameCounts, DirOK
<1>3. CASE n # 0
  <2>1. PICK s, r : s = SubSeq(q, n + 1, Len(q)) /\ r = add(x.rtt, p.ts - q[1].ts)
    OBVIOUS
  <2>2. y = [x EXCEPT !.awaiting_ack = s, !.rtt = r]
    BY <1>1, <1>3, <2>1 DEF retire, DirOK
  <2>3. r.samples \in Nat /\ r.samples <= x.rtt.samples + 1
    BY <2>1, AddSample DEF DirOK
  <2>4. DirOK(y) /\ SameCounts(x, y) /\ y.rtt = r
    BY <2>2, <2>3 DEF DirOK, SameCounts
  <2> QED  BY <1>1, <1>3, <2>3, <2>4 DEF Bit
<1> QED  BY <1>2, <1>3

\* The state machine stays among its states.
LEMMA StateStays ==
  ASSUME NEW f, f.state \in TcpStates, NEW fl, NEW d
  PROVE  next_tcp_state(f, fl, d) \in TcpStates
  BY DEF next_tcp_state, TcpStates

\* The handshake timer leaves everything else alone.
LEMMA Handshake ==
  ASSUME NEW f, FlowShape(f), NEW p, NEW g, g = track_handshake(f, p)
  PROVE  /\ DOMAIN g = DOMAIN f /\ g.id = f.id /\ g.l4 = f.l4 /\ g.state = f.state
         /\ g.app = f.app /\ g.last_seen = f.last_seen
<1>1. CASE starts_timer(p)
  BY <1>1 DEF track_handshake, FlowShape
<1>2. CASE ~starts_timer(p) /\ times_handshake(f, p)
  BY <1>2 DEF track_handshake, FlowShape
<1>3. CASE ~starts_timer(p) /\ ~times_handshake(f, p)
  BY <1>3 DEF track_handshake
<1> QED  BY <1>1, <1>2, <1>3

\* What a packet of direction d does to the counters of a flow.
Counted(f, g, d, p) ==
  /\ g.dir[d].retransmits = f.dir[d].retransmits + Bit(is_retransmit(classify(f.dir[d], p)))
  /\ g.dir[d].out_of_order = f.dir[d].out_of_order + Bit(is_out_of_order(classify(f.dir[d], p)))
  /\ g.dir[d].rtt.samples = f.dir[d].rtt.samples
  /\ g.dir[Peer(d)].retransmits = f.dir[Peer(d)].retransmits
  /\ g.dir[Peer(d)].out_of_order = f.dir[Peer(d)].out_of_order
  /\ g.dir[Peer(d)].rtt.samples <=
       f.dir[Peer(d)].rtt.samples + Bit(retired(f.dir[Peer(d)].awaiting_ack, p) # 0)

\* A TCP segment: flags, sequence numbers, state and round trips.
LEMMA TrackTcp ==
  ASSUME NEW f, FlowShape(f), NEW d \in Dirs, NEW p, p.len \in Nat,
         NEW g, g = track_tcp(f, d, p)
  PROVE  /\ FlowShape(g) /\ Counted(f, g, d, p)
         /\ g.id = f.id /\ g.l4 = f.l4 /\ g.app = f.app /\ g.last_seen = f.last_seen
         /\ \A e \in Dirs : g.dir[e].stream = f.dir[e].stream
<1>1. PICK x, o, y, r : /\ x = f.dir[d] /\ o = f.dir[Peer(d)]
                        /\ y = track_sequence(count_flags(x, p), p)
                        /\ r = is_retransmit(verdict(f, d, p))
  OBVIOUS
<1>2. Peer(d) \in Dirs /\ Peer(d) # d /\ Dirs = {d, Peer(d)}
  BY TwoDirections
<1>3. DirOK(x) /\ DirOK(o)
  BY <1>1, <1>2 DEF FlowShape
<1>4. /\ DirOK(y) /\ y.rtt = x.rtt /\ y.awaiting_ack = x.awaiting_ack /\ y.stream = x.stream
      /\ y.retransmits = x.retransmits + Bit(is_retransmit(classify(x, p)))
      /\ y.out_of_order = x.out_of_order + Bit(is_out_of_order(classify(x, p)))
  BY <1>1, <1>3, TrackDirection
<1>5. PICK counted, ds : ds = [f.dir EXCEPT ![d] = y] /\ counted = [f EXCEPT !.dir = ds]
  OBVIOUS
<1>6. /\ DOMAIN counted = DOMAIN f /\ counted.dir = ds /\ counted.id = f.id
      /\ counted.l4 = f.l4 /\ counted.app = f.app /\ counted.last_seen = f.last_seen
      /\ counted.state = f.state
      /\ DOMAIN ds = Dirs /\ ds[d] = y /\ ds[Peer(d)] = o
  BY <1>1, <1>2, <1>5 DEF FlowShape
<1>7. PICK moved : moved = advance_tcp_state(counted, p.flags, d)
  OBVIOUS
<1>8. /\ DOMAIN moved = DOMAIN f /\ moved.dir = ds /\ moved.id = f.id /\ moved.l4 = f.l4
      /\ moved.app = f.app /\ moved.last_seen = f.last_seen /\ moved.state \in TcpStates
  <2>1. PICK s, h : /\ s = next_tcp_state(counted, p.flags, d)
                    /\ moved = [counted EXCEPT !.state = s, !.handshake_complete = h]
    BY <1>7 DEF advance_tcp_state
  <2>2. s \in TcpStates
    BY <1>6, <2>1, StateStays DEF FlowShape
  <2> QED  BY <1>6, <2>1, <2>2 DEF FlowShape
<1>9. FlowShape(moved)
  <2>1. \A e \in Dirs : DirOK(ds[e])
    BY <1>2, <1>3, <1>4, <1>6
  <2> QED  BY <1>6, <1>8, <2>1 DEF FlowShape
<1>10. PICK timed, z, u, es : /\ timed = track_handshake(moved, p)
                              /\ z = [y EXCEPT !.awaiting_ack = remember(y.awaiting_ack, p, r)]
                              /\ u = retire(o, p)
                              /\ es = [[ds EXCEPT ![d] = z] EXCEPT ![Peer(d)] = u]
  OBVIOUS
<1>11. DOMAIN es = Dirs /\ es[d] = z /\ es[Peer(d)] = u
  BY <1>2, <1>6, <1>10
<1>12. g = [timed EXCEPT !.dir = es]
  <2>1. g = track_rtt(moved, p, d, r)
    <3>1. counted = [f EXCEPT !.dir[d] = track_sequence(count_flags(@, p), p)]
      BY <1>1, <1>5
    <3> QED  BY <1>1, <1>7, <3>1, Zenon DEF track_tcp
  <2>2. g = [timed EXCEPT !.dir = [ds EXCEPT ![d].awaiting_ack = remember(@, p, r),
                                             ![Peer(d)] = retire(@, p)]]
    BY <1>8, <1>10, <2>1, Zenon DEF track_rtt
  <2>3. [ds EXCEPT ![d].awaiting_ack = remember(@, p, r), ![Peer(d)] = retire(@, p)] = es
    BY <1>2, <1>6, <1>10
  <2> QED  BY <2>2, <2>3, Zenon
<1>13. /\ DOMAIN g = DOMAIN f /\ g.dir = es /\ g.id = f.id /\ g.l4 = f.l4
       /\ g.app = f.app /\ g.last_seen = f.last_seen /\ g.state \in TcpStates
  <2>1. /\ DOMAIN timed = DOMAIN moved /\ timed.id = moved.id /\ timed.l4 = moved.l4
        /\ timed.state = moved.state /\ timed.app = moved.app
        /\ timed.last_seen = moved.last_seen
    BY <1>9, <1>10, Handshake
  <2> QED  BY <1>8, <1>12, <2>1 DEF FlowShape
<1>14. /\ DirOK(z) /\ SameCounts(y, z) /\ z.rtt = y.rtt
  BY <1>4, <1>10 DEF DirOK, SameCounts
<1>15. /\ DirOK(u) /\ SameCounts(o, u)
       /\ u.rtt.samples <= o.rtt.samples + Bit(retired(o.awaiting_ack, p) # 0)
  BY <1>3, <1>10, RetireDirection
<1>16. FlowShape(g)
  <2>1. \A e \in Dirs : DirOK(g.dir[e])
    BY <1>2, <1>11, <1>13, <1>14, <1>15
  <2> QED  BY <1>11, <1>13, <2>1 DEF FlowShape
<1>17. Counted(f, g, d, p)
  BY <1>1, <1>4, <1>11, <1>13, <1>14, <1>15, Zenon DEF Counted, SameCounts
<1>18. \A e \in Dirs : g.dir[e].stream = f.dir[e].stream
  BY <1>1, <1>2, <1>4, <1>11, <1>13, <1>14, <1>15 DEF SameCounts
<1> QED  BY <1>13, <1>16, <1>17, <1>18

-----------------------------------------------------------------------------
(* reassemble_and_dissect                                                  *)

\* Searching a prefix for a token gives a truth value.
LEMMA ContainsType ==
  ASSUME NEW s, NEW t
  PROVE  Contains(s, t) \in BOOLEAN
  BY Zenon DEF Contains

\* Every dissector reports a protocol of the list.
LEMMA DissectorTypes ==
  ASSUME NEW s, NEW p
  PROVE  /\ dissect_http(s) \in AppInfos /\ dissect_tls(s) \in AppInfos
         /\ dissect_ssh(s) \in AppInfos /\ dissect_dns(s) \in AppInfos
         /\ dissect_tcp_stream(s, p) \in AppInfos /\ dissect_udp_payload(s, p) \in AppInfos
<1>1. ASSUME NEW c \in BOOLEAN
      PROVE  /\ AppInfo("HTTP", c) \in AppInfos /\ AppInfo("TLS", c) \in AppInfos
             /\ AppInfo("SSH", c) \in AppInfos /\ AppInfo("DNS", c) \in AppInfos
             /\ AppInfo("DHCP", c) \in AppInfos /\ AppInfo("NTP", c) \in AppInfos
             /\ AppInfo("Other", c) \in AppInfos /\ NoInfo \in AppInfos
  BY DEF AppInfo, AppInfos, NoInfo, AppProtocols
<1>2. dissect_http(s) \in AppInfos
  <2>1. PICK eol : eol = SelectInSeq(s, LAMBDA t : t \in {"EOL", "BLANK"})
    OBVIOUS
  <2>2. PICK c \in BOOLEAN : c = (\/ s[1] = "STATUS" \/ Contains(s, "BLANK")
                                  \/ Contains(SubSeq(s, eol + 1, Len(s)), "HOST"))
    BY Zenon
  <2>3. \/ dissect_http(s) = NoInfo \/ dissect_http(s) = AppInfo("HTTP", FALSE)
        \/ dissect_http(s) = AppInfo("HTTP", c)
    BY <2>1, <2>2, Zenon DEF dissect_http
  <2> QED  BY <1>1, <2>3
<1>3. dissect_tls(s) \in AppInfos
  <2>1. PICK c \in BOOLEAN : c = (Len(s) > 3 /\ (Contains(s, "SNI") \/ s[2] = "SERVER_HELLO"))
    BY Zenon
  <2>2. \/ dissect_tls(s) = NoInfo \/ dissect_tls(s) = AppInfo("TLS", FALSE)
        \/ dissect_tls(s) = AppInfo("TLS", c)
    BY <2>1, Zenon DEF dissect_tls
  <2> QED  BY <1>1, <2>2
<1>4. dissect_ssh(s) \in AppInfos
  BY <1>1, ContainsType DEF dissect_ssh
<1>5. dissect_dns(s) \in AppInfos
  BY <1>1 DEF dissect_dns
<1>6. dissect_tcp_stream(s, p) \in AppInfos
  BY <1>1, <1>2, <1>3, <1>4, <1>5 DEF dissect_tcp_stream
<1>7. dissect_udp_payload(s, p) \in AppInfos
  BY <1>1, <1>5 DEF dissect_udp_payload
<1> QED  BY <1>2, <1>3, <1>4, <1>5, <1>6, <1>7

\* A flow once identified stays identified.
LEMMA RevisedApp ==
  ASSUME NEW app \in AppInfos, NEW info \in AppInfos
  PROVE  /\ revised_app(app, info) \in AppInfos
         /\ identified(app) => identified(revised_app(app, info))
  BY DEF revised_app

\* The reassembler a segment is pushed to, and what is left of it after the release.
LEMMA FedStream ==
  ASSUME NEW x, DirOK(x), NEW p, Stamped(p), NEW app
  PROVE  /\ fed_stream(x, p) \in Budgeted(STRING)
         /\ StreamOK(release(app, fed_stream(x, p)))
         /\ app.conclusive => release(app, fed_stream(x, p)) = NoStream
<1>1. PICK r : r = IF x.stream = NoStream THEN InitReassembler ELSE x.stream
  OBVIOUS
<1>2. r \in Budgeted(STRING)
  BY <1>1, FreshReassembler DEF DirOK, StreamOK
<1>3. PICK syn \in BOOLEAN : syn = ("SYN" \in p.flags)
  <2>1. CASE "SYN" \in p.flags
    <3>1. ("SYN" \in p.flags) = TRUE
      BY <2>1
    <3> QED  BY <3>1
  <2>2. CASE "SYN" \notin p.flags
    <3>1. ("SYN" \in p.flags) = FALSE
      BY <2>2
    <3> QED  BY <3>1
  <2> QED  BY <2>1, <2>2
<1>4. PICK n \in SeqNums, data \in Seq(STRING) : n = p.seq /\ data = p.data
  BY DEF Stamped
<1>5. push(r, n, data, syn) \in Budgeted(STRING)
  BY <1>2, PushKeepsBudget
<1>6. fed_stream(x, p) = push(r, n, data, syn)
  BY <1>1, <1>3, <1>4, Zenon DEF fed_stream
<1>7. fed_stream(x, p) \in Budgeted(STRING)
  BY <1>5, <1>6
<1> QED  BY <1>7 DEF release, StreamOK

\* What dissection leaves alone.
SameButStream(f, g) ==
  /\ g.id = f.id /\ g.l4 = f.l4 /\ g.state = f.state /\ g.last_seen = f.last_seen
  /\ \A e \in Dirs : /\ g.dir[e].retransmits = f.dir[e].retransmits
                     /\ g.dir[e].out_of_order = f.dir[e].out_of_order
                     /\ g.dir[e].rtt = f.dir[e].rtt

\* Reassembly and dissection of one packet.
LEMMA Dissected ==
  ASSUME NEW p, Stamped(p), NEW d \in Dirs, NEW f, FlowShape(f), Released(f, p.ip_proto),
         NEW g, g = reassemble_and_dissect(f, d, p)
  PROVE  /\ FlowShape(g) /\ Released(g, p.ip_proto) /\ SameButStream(f, g)
         /\ identified(f.app) => identified(g.app)
<1>1. CASE g = f
  BY <1>1 DEF SameButStream
<1>2. CASE inspects(f) /\ p.l4 = "UDP" /\ g # f
  <2>1. PICK info \in AppInfos : info = dissect_udp_payload(p.data, p)
    BY DissectorTypes
  <2>2. identified(info) /\ g = [f EXCEPT !.app = info]
    BY <1>2, <2>1 DEF reassemble_and_dissect
  <2>3. /\ DOMAIN g = DOMAIN f /\ g.app = info /\ g.dir = f.dir /\ g.id = f.id
        /\ g.l4 = f.l4 /\ g.state = f.state /\ g.last_seen = f.last_seen
    BY <2>2 DEF FlowShape
  <2>4. FlowShape(g)
    BY <2>1, <2>3 DEF FlowShape
  <2>5. Released(g, p.ip_proto)
    <3>1. p.ip_proto = "UDP"
      BY <1>2 DEF Stamped
    <3>2. \A e \in Dirs : g.dir[e].stream = NoStream
      BY <2>3, <3>1 DEF Released
    <3> QED  BY <3>2 DEF Released
  <2>6. SameButStream(f, g)
    BY <2>3 DEF SameButStream
  <2> QED  BY <2>2, <2>3, <2>4, <2>5, <2>6
<1>3. CASE inspects(f) /\ p.l4 # "UDP" /\ feeds_stream(p)
  <2>1. PICK x, s, info, app :
          /\ x = f.dir[d] /\ s = fed_stream(x, p)
          /\ info = (IF added_bytes(x, p) > 0 THEN dissect_tcp_stream(s.prefix, p) ELSE NoInfo)
          /\ app = revised_app(f.app, info)
    OBVIOUS
  <2>2. info \in AppInfos
    <3>1. NoInfo \in AppInfos
      BY DEF NoInfo, AppInfo, AppInfos, AppProtocols
    <3> QED  BY <2>1, <3>1, DissectorTypes
  <2>3. app \in AppInfos /\ (identified(f.app) => identified(app))
    BY <2>1, <2>2, RevisedApp DEF FlowShape
  <2>4. PICK left : left = release(app, s)
    OBVIOUS
  <2>5. DirOK(x) /\ StreamOK(left) /\ (app.conclusive => left = NoStream)
    BY <2>1, <2>4, FedStream DEF FlowShape
  <2>6. PICK y, ds : y = [x EXCEPT !.stream = left] /\ ds = [f.dir EXCEPT ![d] = y]
    OBVIOUS
  <2>7. /\ DirOK(y) /\ y.stream = left /\ y.retransmits = x.retransmits
        /\ y.out_of_order = x.out_of_order /\ y.rtt = x.rtt
    BY <2>5, <2>6 DEF DirOK
  <2>8. g = [f EXCEPT !.app = app, !.dir = ds]
    <3>1. g = [f EXCEPT !.app = app, !.dir[d].stream = left]
      BY <1>3, <2>1, <2>4, Zenon DEF reassemble_and_dissect
    <3> QED  BY <2>1, <2>6, <3>1 DEF FlowShape
  <2>9. DOMAIN ds = Dirs /\ ds[d] = y /\ ds[Peer(d)] = f.dir[Peer(d)]
    BY <2>6, TwoDirections DEF FlowShape
  <2>10. /\ DOMAIN g = DOMAIN f /\ g.app = app /\ g.dir = ds /\ g.id = f.id
         /\ g.l4 = f.l4 /\ g.state = f.state /\ g.last_seen = f.last_seen
    BY <2>8 DEF FlowShape
  <2>11. \A e \in Dirs : DirOK(ds[e])
    BY <2>7, <2>9, TwoDirections DEF FlowShape
  <2>12. FlowShape(g)
    BY <2>3, <2>9, <2>10, <2>11 DEF FlowShape
  <2>13. Released(g, p.ip_proto)
    <3>1. p.ip_proto = "TCP"
      BY <1>3 DEF Stamped, feeds_stream
    <3> QED  BY <2>5, <2>7, <2>9, <2>10, <3>1 DEF Released
  <2>14. SameButStream(f, g)
    BY <2>1, <2>7, <2>9, <2>10, TwoDirections DEF SameButStream
  <2> QED  BY <2>3, <2>10, <2>12, <2>13, <2>14
<1> QED  BY <1>1, <1>2, <1>3 DEF reassemble_and_dissect

-----------------------------------------------------------------------------
(* update_flow and new_flow                                                *)

\* What the two directions of a flow count together.
Retransmits(f) == f.dir["fwd"].retransmits + f.dir["rev"].retransmits
OutOfOrder(f) == f.dir["fwd"].out_of_order + f.dir["rev"].out_of_order
Samples(f) == f.dir["fwd"].rtt.samples + f.dir["rev"].rtt.samples

\* What a flow counts are numbers.
LEMMA FlowCounts ==
  ASSUME NEW f, FlowShape(f)
  PROVE  Retransmits(f) \in Nat /\ OutOfOrder(f) \in Nat /\ Samples(f) \in Nat
<1>1. DirOK(f.dir["fwd"]) /\ DirOK(f.dir["rev"])
  BY DEF FlowShape, Dirs
<1> QED  BY <1>1 DEF DirOK, Retransmits, OutOfOrder, Samples

\* Each counter of the flow grows by what the packet adds to the totals.
LEMMA BothDirections ==
  ASSUME NEW f, FlowShape(f), NEW g, FlowShape(g), NEW d \in Dirs, NEW p, Counted(f, g, d, p)
  PROVE  /\ Retransmits(g) = Retransmits(f) + Bit(is_retransmit(classify(f.dir[d], p)))
         /\ OutOfOrder(g) = OutOfOrder(f) + Bit(is_out_of_order(classify(f.dir[d], p)))
         /\ Samples(g) <= Samples(f) + rtt_samples_taken(f, p, d)
<1>1. PICK a \in Nat, b \in Nat, c \in Nat, e \in Nat :
        /\ a = Bit(is_retransmit(classify(f.dir[d], p)))
        /\ b = Bit(is_out_of_order(classify(f.dir[d], p)))
        /\ c = Bit(retired(f.dir[Peer(d)].awaiting_ack, p) # 0)
        /\ e = Bit(times_handshake(f, p))
  BY DEF Bit
<1>2. rtt_samples_taken(f, p, d) = e + c
  BY <1>1, Zenon DEF rtt_samples_taken
<1>3. \A h \in Dirs : DirOK(f.dir[h]) /\ DirOK(g.dir[h])
  BY DEF FlowShape
<1>4. /\ g.dir[d].retransmits = f.dir[d].retransmits + a
      /\ g.dir[d].out_of_order = f.dir[d].out_of_order + b
      /\ g.dir[d].rtt.samples = f.dir[d].rtt.samples
      /\ g.dir[Peer(d)].retransmits = f.dir[Peer(d)].retransmits
      /\ g.dir[Peer(d)].out_of_order = f.dir[Peer(d)].out_of_order
      /\ g.dir[Peer(d)].rtt.samples <= f.dir[Peer(d)].rtt.samples + c
  BY <1>1, Zenon DEF Counted
<1>5. (d = "fwd" /\ Peer(d) = "rev") \/ (d = "rev" /\ Peer(d) = "fwd")
  BY DEF Dirs, Peer
<1>6. /\ Retransmits(g) = Retransmits(f) + a
      /\ OutOfOrder(g) = OutOfOrder(f) + b
      /\ Samples(g) <= Samples(f) + (e + c)
  BY <1>3, <1>4, <1>5 DEF Retransmits, OutOfOrder, Samples, DirOK, Dirs
<1> QED  BY <1>1, <1>2, <1>6

\* What a packet adds to the totals of the table, through a flow f.
Resends(f, p) == IF p.l4 = "TCP" THEN Bit(is_retransmit(classify(f.dir[direction(p)], p))) ELSE 0
Reorders(f, p) == IF p.l4 = "TCP" THEN Bit(is_out_of_order(classify(f.dir[direction(p)], p))) ELSE 0
TimesTaken(f, p) == IF p.l4 = "TCP" THEN rtt_samples_taken(f, p, direction(p)) ELSE 0

\* update, once the flow is found or created.
LEMMA UpdateFlow ==
  ASSUME NEW p, Stamped(p), NEW f, FlowShape(f), Released(f, p.ip_proto),
         NEW g, g = update_flow(f, p)
  PROVE  /\ FlowShape(g) /\ Released(g, p.ip_proto)
         /\ g.id = f.id /\ g.l4 = f.l4 /\ g.last_seen = p.ts
         /\ identified(f.app) => identified(g.app)
         /\ Retransmits(g) = Retransmits(f) + Resends(f, p)
         /\ OutOfOrder(g) = OutOfOrder(f) + Reorders(f, p)
         /\ Samples(g) <= Samples(f) + TimesTaken(f, p)
<1>1. PICK d \in Dirs : d = direction(p)
  BY DEF direction, Dirs
<1>2. PICK c : c = count_packet(f, d, p)
  OBVIOUS
<1>3. /\ FlowShape(c) /\ c.last_seen = p.ts
      /\ c.id = f.id /\ c.l4 = f.l4 /\ c.state = f.state /\ c.app = f.app
      /\ c.dir[Peer(d)] = f.dir[Peer(d)]
      /\ SameCounts(f.dir[d], c.dir[d]) /\ SameTracking(f.dir[d], c.dir[d])
      /\ c.dir[d].rtt = f.dir[d].rtt
  <2>1. FlowShape(c) /\ OneMore(f, c, d, p.ts)
    BY <1>2, CountPacket
  <2> QED  BY <2>1, Zenon DEF OneMore
<1>4. PICK h : h = IF p.l4 = "TCP" THEN track_tcp(c, d, p) ELSE c
  OBVIOUS
<1>5. p.len \in Nat
  <2>1. PICK data \in Seq(STRING) : data = p.data
    BY DEF Stamped
  <2>2. Len(data) \in Nat
    BY LenProperties
  <2> QED  BY <2>1, <2>2 DEF Stamped
<1>6. Peer(d) \in Dirs /\ Dirs = {d, Peer(d)} /\ Dirs = {"fwd", "rev"}
  BY TwoDirections
<1>7. /\ FlowShape(h) /\ h.id = f.id /\ h.l4 = f.l4 /\ h.app = f.app /\ h.last_seen = p.ts
      /\ \A e \in Dirs : h.dir[e].stream = f.dir[e].stream
      /\ p.l4 = "TCP" => Counted(c, h, d, p)
  <2>1. \A e \in Dirs : c.dir[e].stream = f.dir[e].stream
    BY <1>3, <1>6 DEF SameCounts
  <2>2. CASE p.l4 = "TCP"
    <3>1. h = track_tcp(c, d, p)
      BY <1>4, <2>2
    <3>2. /\ FlowShape(h) /\ Counted(c, h, d, p)
          /\ h.id = c.id /\ h.l4 = c.l4 /\ h.app = c.app /\ h.last_seen = c.last_seen
          /\ \A e \in Dirs : h.dir[e].stream = c.dir[e].stream
      BY <1>3, <1>5, <3>1, TrackTcp
    <3> QED  BY <1>3, <2>1, <3>2
  <2>3. CASE p.l4 # "TCP"
    BY <1>3, <1>4, <2>1, <2>3
  <2> QED  BY <2>2, <2>3
<1>8. Released(h, p.ip_proto)
  BY <1>7 DEF Released
<1>9. g = reassemble_and_dissect(h, d, p)
  BY <1>1, <1>2, <1>4, Zenon DEF update_flow
<1>10. /\ FlowShape(g) /\ Released(g, p.ip_proto) /\ SameButStream(h, g)
       /\ identified(h.app) => identified(g.app)
  BY <1>7, <1>8, <1>9, Dissected
<1>11. Retransmits(g) = Retransmits(h) /\ OutOfOrder(g) = OutOfOrder(h) /\ Samples(g) = Samples(h)
  BY <1>6, <1>10 DEF SameButStream, Retransmits, OutOfOrder, Samples
<1>12. /\ Retransmits(f) \in Nat /\ OutOfOrder(f) \in Nat /\ Samples(f) \in Nat
  BY FlowCounts
<1>13. /\ Retransmits(h) = Retransmits(f) + Resends(f, p)
       /\ OutOfOrder(h) = OutOfOrder(f) + Reorders(f, p)
       /\ Samples(h) <= Samples(f) + TimesTaken(f, p)
  <2>1. CASE p.l4 = "TCP"
    <3>1. classify(c.dir[d], p) = classify(f.dir[d], p)
      BY <1>3, SameVerdict
    <3>2. Counted(f, h, d, p)
      BY <1>3, <1>7, <2>1, <3>1, Zenon DEF Counted, SameCounts
    <3>3. /\ Retransmits(h) = Retransmits(f) + Bit(is_retransmit(classify(f.dir[d], p)))
          /\ OutOfOrder(h) = OutOfOrder(f) + Bit(is_out_of_order(classify(f.dir[d], p)))
          /\ Samples(h) <= Samples(f) + rtt_samples_taken(f, p, d)
      BY <1>7, <3>2, BothDirections
    <3> QED  BY <1>1, <2>1, <3>3, Zenon DEF Resends, Reorders, TimesTaken
  <2>2. CASE p.l4 # "TCP"
    <3>1. h = c
      BY <1>4, <2>2
    <3>2. \A e \in Dirs : /\ c.dir[e].retransmits = f.dir[e].retransmits
                          /\ c.dir[e].out_of_order = f.dir[e].out_of_order
                          /\ c.dir[e].rtt = f.dir[e].rtt
      BY <1>3, <1>6 DEF SameCounts
    <3>3. /\ Retransmits(h) = Retransmits(f) /\ OutOfOrder(h) = OutOfOrder(f)
          /\ Samples(h) = Samples(f)
      BY <1>6, <3>1, <3>2 DEF Retransmits, OutOfOrder, Samples
    <3> QED  BY <1>12, <2>2, <3>3 DEF Resends, Reorders, TimesTaken
  <2> QED  BY <2>1, <2>2
<1> QED  BY <1>7, <1>10, <1>11, <1>13 DEF SameButStream

\* A new flow.
LEMMA NewFlow ==
  ASSUME NEW p, Stamped(p), NEW id, NEW f, f = new_flow(p, id)
  PROVE  /\ FlowShape(f) /\ Released(f, p.ip_proto)
         /\ f.id = id /\ f.l4 = p.l4 /\ f.last_seen = p.ts
         /\ ~identified(f.app)
         /\ Retransmits(f) = 0 /\ OutOfOrder(f) = 0 /\ Samples(f) = 0
<1>1. PICK x : x = InitDirection
  OBVIOUS
<1>2. /\ {"packets", "payload_bytes", "stream", "syn", "fin", "rst", "pure_acks",
          "retransmits", "out_of_order", "seq_valid", "next_seq", "recent_segments", "holes",
          "awaiting_ack", "rtt"} \subseteq DOMAIN x
      /\ x.stream = NoStream /\ x.retransmits = 0 /\ x.out_of_order = 0 /\ x.rtt = InitRtt
  BY <1>1 DEF InitDirection, Join, InitFlagCounters, InitSequence, InitRttDirection
<1>3. DirOK(x) /\ x.rtt.samples = 0
  BY <1>2 DEF DirOK, StreamOK, InitRtt
<1>4. PICK ds : ds = [d \in Dirs |-> x]
  OBVIOUS
<1>5. PICK a, b :
        /\ a = [id |-> id, l4 |-> p.l4, state |-> "None", handshake_complete |-> FALSE,
                first_seen |-> p.ts, last_seen |-> p.ts, app |-> NoInfo, dir |-> ds]
        /\ b = InitHandshake
  OBVIOUS
<1>6. f = Join(a, b)
  BY <1>1, <1>4, <1>5, Zenon DEF new_flow
<1>7. /\ {"id", "l4", "state", "handshake_complete", "first_seen", "last_seen", "app", "dir",
          "handshake_rtt_ms", "syn_ts", "syn_seen"} \subseteq DOMAIN f
      /\ f.id = id /\ f.l4 = p.l4 /\ f.state = "None" /\ f.last_seen = p.ts /\ f.app = NoInfo
      /\ f.dir = ds
  BY <1>5, <1>6 DEF Join, InitHandshake
<1>8. NoInfo \in AppInfos /\ ~identified(NoInfo) /\ NoInfo.conclusive = FALSE
  BY DEF NoInfo, AppInfo, AppInfos, AppProtocols, identified
<1>9. FlowShape(f)
  BY <1>3, <1>4, <1>7, <1>8 DEF FlowShape, TcpStates, Stamped
<1>10. Released(f, p.ip_proto)
  BY <1>2, <1>4, <1>7, <1>8 DEF Released
<1>11. Retransmits(f) = 0 /\ OutOfOrder(f) = 0 /\ Samples(f) = 0
  BY <1>2, <1>3, <1>4, <1>7 DEF Retransmits, OutOfOrder, Samples, Dirs
<1> QED  BY <1>7, <1>8, <1>9, <1>10, <1>11

-----------------------------------------------------------------------------
(* Sums over the table.                                                    *)

\* Natural weights on a finite set.
Weights(w) == IsFiniteSet(DOMAIN w) /\ \A x \in DOMAIN w : w[x] \in Nat

\* A larger set has no smaller sum.
LEMMA SumMonotone ==
  ASSUME NEW S, NEW w, NEW f, Summed(f, w, S), NEW A, NEW B \in SUBSET S, A \subseteq B
  PROVE  f[A] \in Nat /\ f[B] \in Nat /\ f[A] <= f[B]
<1> DEFINE Bad(m) == \E b \in SUBSET S : Cardinality(b) = m /\ A \subseteq b /\ ~(f[A] <= f[b])
           N == {m \in Nat : Bad(m)}
<1>1. \A b \in SUBSET S : f[b] \in Nat /\ \A x \in b : f[b] = w[x] + f[b \ {x}]
  BY AnyElement DEF Splits
<1>2. \A b \in SUBSET S : IsFiniteSet(b) /\ Cardinality(b) \in Nat
  BY FS_Subset, FS_CardinalityType DEF Summed
<1>3. A \in SUBSET S
  OBVIOUS
<1>4. N = {}
  <2>1. SUFFICES ASSUME N # {} PROVE FALSE
    OBVIOUS
  <2>2. PICK m \in N : \A y \in Nat : y < m => y \notin N
    <3>1. N \in SUBSET Nat
      OBVIOUS
    <3> QED  BY <2>1, <3>1, LeastElement
  <2>3. PICK b \in SUBSET S : Cardinality(b) = m /\ A \subseteq b /\ ~(f[A] <= f[b])
    BY <2>2
  <2>4. A # b
    BY <1>1, <1>3, <2>3
  <2>5. PICK x \in b : x \notin A
    BY <2>3, <2>4
  <2>6. PICK c \in SUBSET S : c = b \ {x}
    OBVIOUS
  <2>7. A \subseteq c /\ Cardinality(c) \in Nat /\ Cardinality(c) < m
    BY <1>2, <2>3, <2>5, <2>6, FS_RemoveElement
  <2>8. f[A] <= f[c]
    BY <2>2, <2>7
  <2>9. f[b] = w[x] + f[c] /\ w[x] \in Nat /\ f[c] \in Nat /\ f[A] \in Nat
    BY <1>1, <1>3, <2>5, <2>6 DEF Summed
  <2> QED  BY <2>3, <2>8, <2>9
<1>5. f[A] \in Nat /\ f[B] \in Nat /\ Cardinality(B) \in Nat
  BY <1>1, <1>2, <1>3
<1>6. ~Bad(Cardinality(B))
  BY <1>4, <1>5
<1> QED  BY <1>5, <1>6

\* The total is a sum in the sense of SegmentLemmas.
LEMMA TotalIsSum ==
  ASSUME NEW w, Weights(w)
  PROVE  \E f : Summed(f, w, DOMAIN w) /\ Total(w) = f[DOMAIN w]
<1>1. PICK h : h = CHOOSE f : SumsOf(f, w, SUBSET (DOMAIN w))
  OBVIOUS
<1>2. SumsOf(h, w, SUBSET (DOMAIN w))
  <2>1. \E f : SumsOf(f, w, SUBSET (DOMAIN w))
    BY SumsOfSubsets DEF Weights
  <2> QED  BY <1>1, <2>1, Zenon
<1>3. Total(w) = h[DOMAIN w]
  BY <1>1, Zenon DEF Total, MapThenSumSet, MapThenFoldSet, SumsOf, Some
<1> QED  BY <1>2, <1>3 DEF Summed, Weights

\* Zeros add up to nothing.
LEMMA TotalOfZeros ==
  ASSUME NEW w, IsFiniteSet(DOMAIN w), \A x \in DOMAIN w : w[x] = 0
  PROVE  Total(w) = 0
<1>1. PICK K : K = DOMAIN w
  OBVIOUS
<1>2. Weights(w)
  BY DEF Weights
<1>3. PICK f : Summed(f, w, K) /\ Total(w) = f[K]
  BY <1>1, <1>2, TotalIsSum
<1>4. PICK g : g = [s \in SUBSET K |-> 0]
  OBVIOUS
<1>5. ASSUME NEW s \in SUBSET K, s # {}
      PROVE  w[Some(s)] = 0 /\ g[s \ {Some(s)}] = 0
  <2>1. Some(s) \in s
    BY <1>5, Zenon DEF Some
  <2> QED  BY <1>1, <1>4, <2>1
<1>6. SumsOf(g, w, SUBSET K)
  <2>1. \A s \in SUBSET K : g[s] = IF s = {} THEN 0 ELSE w[Some(s)] + g[s \ {Some(s)}]
    <3>1. SUFFICES ASSUME NEW s \in SUBSET K
                   PROVE  g[s] = IF s = {} THEN 0 ELSE w[Some(s)] + g[s \ {Some(s)}]
      OBVIOUS
    <3>2. g[s] = 0
      BY <1>4
    <3>3. CASE s = {}
      BY <3>2, <3>3
    <3>4. CASE s # {}
      <4>1. w[Some(s)] = 0 /\ g[s \ {Some(s)}] = 0
        BY <1>5, <3>4
      <4> QED  BY <3>2, <3>4, <4>1
    <3> QED  BY <3>3, <3>4
  <2>2. g = [s \in SUBSET K |-> g[s]]
    BY <1>4
  <2> QED  BY <2>1, <2>2 DEF SumsOf
<1>7. Summed(g, w, K) /\ SameWeights(w, w, K) /\ K \in SUBSET K
  BY <1>1, <1>6 DEF Summed, SameWeights
<1>8. f[K] = g[K]
  BY <1>3, <1>7, SameSums
<1> QED  BY <1>3, <1>4, <1>8

\* A part of a table has no larger total.
LEMMA TotalOfPart ==
  ASSUME NEW w, Weights(w), NEW v, Weights(v), DOMAIN v \subseteq DOMAIN w,
         \A x \in DOMAIN v : v[x] = w[x]
  PROVE  Total(v) \in Nat /\ Total(w) \in Nat /\ Total(v) <= Total(w)
<1>1. PICK K, L : K = DOMAIN w /\ L = DOMAIN v
  OBVIOUS
<1>2. PICK f : Summed(f, w, K) /\ Total(w) = f[K]
  BY <1>1, TotalIsSum
<1>3. PICK g : Summed(g, v, L) /\ Total(v) = g[L]
  BY <1>1, TotalIsSum
<1>4. SameWeights(w, v, L) /\ L \in SUBSET K /\ L \in SUBSET L /\ K \in SUBSET K
  BY <1>1 DEF SameWeights
<1>5. f[L] = g[L]
  BY <1>2, <1>3, <1>4, SameSums
<1>6. f[L] \in Nat /\ f[K] \in Nat /\ f[L] <= f[K]
  BY <1>2, <1>4, SumMonotone
<1> QED  BY <1>2, <1>3, <1>5, <1>6

\* The weight of x in w, if it has one.
Weight(w, x) == IF x \in DOMAIN w THEN w[x] ELSE 0

\* Entries leave, one is set: the total grows by no more than that entry.
LEMMA TotalOfUpdate ==
  ASSUME NEW w, Weights(w), NEW v, Weights(v), NEW key \in DOMAIN v, NEW inc \in Int,
         DOMAIN v \ {key} \subseteq DOMAIN w, \A x \in DOMAIN v \ {key} : v[x] = w[x],
         v[key] <= Weight(w, key) + inc
  PROVE  Total(v) \in Nat /\ Total(w) \in Nat /\ Total(v) <= Total(w) + inc
<1>1. PICK K, L, U : K = DOMAIN w /\ L = DOMAIN v /\ U = DOMAIN v \ {key}
  OBVIOUS
<1>2. PICK f : Summed(f, w, K) /\ Total(w) = f[K]
  BY <1>1, TotalIsSum
<1>3. PICK g : Summed(g, v, L) /\ Total(v) = g[L]
  BY <1>1, TotalIsSum
<1>4. SameWeights(w, v, U) /\ U \in SUBSET K /\ U \in SUBSET L /\ K \in SUBSET K
  BY <1>1 DEF SameWeights
<1>5. f[U] = g[U]
  BY <1>2, <1>3, <1>4, SameSums
<1>6. g[L] = v[key] + g[U] /\ g[L] \in Nat /\ v[key] \in Nat
  <2>1. Splits(g, v, L)
    BY <1>3, AnyElement
  <2> QED  BY <1>1, <2>1 DEF Splits, Weights
<1>7. CASE key \in K
  <2>1. PICK R : R = K \ {key}
    OBVIOUS
  <2>2. U \subseteq R /\ R \in SUBSET K
    BY <1>1, <1>4, <2>1
  <2>3. f[U] \in Nat /\ f[R] \in Nat /\ f[U] <= f[R]
    BY <1>2, <2>2, SumMonotone
  <2>4. f[K] = w[key] + f[R] /\ f[K] \in Nat /\ w[key] \in Nat
    <3>1. Splits(f, w, K)
      BY <1>2, AnyElement
    <3> QED  BY <1>1, <1>4, <1>7, <2>1, <3>1 DEF Splits, Weights
  <2>5. v[key] <= w[key] + inc
    BY <1>1, <1>7 DEF Weight
  <2> QED  BY <1>2, <1>3, <1>5, <1>6, <2>3, <2>4, <2>5
<1>8. CASE key \notin K
  <2>1. f[U] \in Nat /\ f[K] \in Nat /\ f[U] <= f[K]
    BY <1>2, <1>4, SumMonotone
  <2>2. v[key] <= inc
    BY <1>1, <1>6, <1>8 DEF Weight
  <2> QED  BY <1>2, <1>3, <1>5, <1>6, <2>1, <2>2
<1> QED  BY <1>7, <1>8

-----------------------------------------------------------------------------
(* Packets, keys and room in the table.                                    *)

\* What Consume makes of a decoded packet.
LEMMA StampedPacket ==
  ASSUME NEW q \in DecodedPackets, NEW t \in Nat,
         NEW p, p = Join(q, [ts |-> t, len |-> Len(q.data)])
  PROVE  Stamped(p) /\ p.ts = t
<1>1. /\ p.src = q.src /\ p.dst = q.dst /\ p.sport = q.sport /\ p.dport = q.dport
      /\ p.ip_proto = q.ip_proto /\ p.l4 = q.l4 /\ p.flags = q.flags
      /\ p.seq = q.seq /\ p.data = q.data
      /\ p.ts = t /\ p.len = Len(q.data)
  BY DEF Join, DecodedPackets
<1>2. /\ q.src \in Nat /\ q.dst \in Nat /\ q.sport \in Nat /\ q.dport \in Nat
      /\ q.ip_proto \in IpProtocols /\ q.l4 \in Transports
      /\ q.l4 \in {q.ip_proto, "Other", "Unknown"} /\ q.flags \in SUBSET Flags /\ q.seq \in SeqNums
      /\ q.data \in Seq(STRING)
  BY DEF DecodedPackets
<1> QED  BY <1>1, <1>2, Zenon DEF Stamped

\* The lower endpoint is "a".
Canonical(k) == k.a < k.b \/ (k.a = k.b /\ k.port_a <= k.port_b)

\* make_flow_key orders the endpoints.
LEMMA KeyOf ==
  ASSUME NEW p, Stamped(p), NEW k, k = make_flow_key(p)
  PROVE  k \in FlowKey /\ Canonical(k) /\ k.proto = p.ip_proto
  BY DEF Stamped, make_flow_key, src_is_a, FlowKey, Canonical

\* A canonical key is determined by its protocol and its two endpoints.
LEMMA CanonicalKeys ==
  ASSUME NEW k \in FlowKey, NEW j \in FlowKey, Canonical(k), Canonical(j), k.proto = j.proto,
         {<<k.a, k.port_a>>, <<k.b, k.port_b>>} = {<<j.a, j.port_a>>, <<j.b, j.port_b>>}
  PROVE  k = j
<1>1. \/ k.a = j.a /\ k.port_a = j.port_a /\ k.b = j.b /\ k.port_b = j.port_b
      \/ k.a = j.b /\ k.port_a = j.port_b /\ k.b = j.a /\ k.port_b = j.port_a
  <2>1. PICK w, x, y, z :
          w = <<k.a, k.port_a>> /\ x = <<k.b, k.port_b>> /\ y = <<j.a, j.port_a>>
            /\ z = <<j.b, j.port_b>>
    OBVIOUS
  <2>2. (w = y /\ x = z) \/ (w = z /\ x = y)
    BY <2>1, Zenon
  <2> QED  BY <2>1, <2>2
<1>2. k.a = j.a /\ k.port_a = j.port_a /\ k.b = j.b /\ k.port_b = j.port_b
  BY <1>1 DEF Canonical, FlowKey
<1> QED  BY <1>2 DEF FlowKey

\* The keys that stay leave room for the packet's flow, and one that has to go
\* was seen no later than any other.
LEMMA RoomFor ==
  ASSUME NEW table, IsFiniteSet(DOMAIN table), Cardinality(DOMAIN table) <= max_flows,
         NEW key, NEW kept \in room_for(table, key)
  PROVE  /\ kept \subseteq DOMAIN table /\ IsFiniteSet(kept \cup {key})
         /\ Cardinality(kept \cup {key}) <= max_flows
         /\ key \in DOMAIN table => kept = DOMAIN table
         /\ \A k \in DOMAIN table \ kept :
              /\ key \notin DOMAIN table /\ kept = DOMAIN table \ {k}
              /\ Cardinality(DOMAIN table) = max_flows
              /\ \A j \in DOMAIN table : table[k].last_seen <= table[j].last_seen
<1> DEFINE T == DOMAIN table
<1>1. max_flows \in Nat \ {0} /\ Cardinality(T) \in Nat
  BY FlowTableAssumption, FS_CardinalityType
<1>2. CASE key \in T \/ Cardinality(T) < max_flows
  <2>1. kept = T
    BY <1>2 DEF room_for
  <2>2. IsFiniteSet(T \cup {key})
        /\ Cardinality(T \cup {key}) = IF key \in T THEN Cardinality(T) ELSE Cardinality(T) + 1
    BY FS_AddElement
  <2> QED  BY <1>1, <1>2, <2>1, <2>2
<1>3. CASE ~(key \in T \/ Cardinality(T) < max_flows)
  <2>1. PICK k \in oldest(table) : kept = T \ {k}
    BY <1>3 DEF room_for
  <2>2. k \in T /\ \A j \in T : table[k].last_seen <= table[j].last_seen
    BY <2>1 DEF oldest
  <2>3. IsFiniteSet(kept) /\ Cardinality(kept) = Cardinality(T) - 1
    BY <2>1, <2>2, FS_RemoveElement
  <2>4. /\ IsFiniteSet(kept \cup {key})
        /\ Cardinality(kept \cup {key})
             = IF key \in kept THEN Cardinality(kept) ELSE Cardinality(kept) + 1
    BY <2>3, FS_AddElement
  <2> QED  BY <1>1, <1>3, <2>1, <2>2, <2>3, <2>4
<1> QED  BY <1>2, <1>3

-----------------------------------------------------------------------------
(* The invariant.                                                          *)

\* The counters of the table and its size.
TableShape ==
  /\ traffic \in Traffics /\ next_id \in Nat /\ last_ts \in Nat /\ captured \in Nat
  /\ {"retransmits", "out_of_order", "data_segments", "reassembled_bytes", "rtt_samples"}
       \subseteq DOMAIN totals
  /\ totals.retransmits \in Nat /\ totals.out_of_order \in Nat
  /\ totals.data_segments \in Nat /\ totals.rtt_samples \in Nat
  /\ app_counts \in [AppProtocols \ {"Unknown"} -> Nat]
  /\ IsFiniteSet(Keys) /\ Cardinality(Keys) <= max_flows

\* The entry f of key k.
EntryOK(k, f) ==
  /\ k \in FlowKey /\ Canonical(k) /\ FlowShape(f) /\ Released(f, k.proto)
  /\ f.last_seen \in Nat

\* Every entry is a well-formed flow under a canonical key.
Entries == \A k \in Keys : EntryOK(k, flows[k])

\* No id is given out twice.
OwnIds ==
  /\ \A k \in Keys : flows[k].id \in 1 .. next_id
  /\ \A k, j \in Keys : flows[k].id = flows[j].id => k = j

\* The history names a packet of every live flow.
Arrived == DOMAIN arrivals = Keys /\ \A k \in Keys : arrivals[k] \in 1 .. captured

\* Flows were last seen in the order in which their last packets came, unless
\* the clock steps back.
Clock ==
  ~StepBack =>
    /\ \A k \in Keys : flows[k].last_seen <= last_ts
    /\ \A k, j \in Keys : arrivals[k] <= arrivals[j] => flows[k].last_seen <= flows[j].last_seen

IInv == TableShape /\ Entries /\ OwnIds /\ Arrived /\ Clock /\ TotalsCoverLive

-----------------------------------------------------------------------------
(* The totals of a table.                                                  *)

\* Resent, Reordered, Timed and Identified of a table.
ResentOf(t) == [k \in DOMAIN t |-> Retransmits(t[k])]
ReorderedOf(t) == [k \in DOMAIN t |-> OutOfOrder(t[k])]
TimedOf(t) == [k \in DOMAIN t |-> Samples(t[k])]
IdentifiedOf(t) == {k \in DOMAIN t : identified(t[k].app)}
UnknownOf(t) == {k \in DOMAIN t : ~identified(t[k].app)}

\* A finite table of well-formed flows.
WellFormed(t) == IsFiniteSet(DOMAIN t) /\ \A k \in DOMAIN t : FlowShape(t[k])

\* The invariant speaks of the current table.
LEMMA CurrentTotals ==
  /\ Resent = ResentOf(flows) /\ Reordered = ReorderedOf(flows) /\ Timed = TimedOf(flows)
  /\ Identified = IdentifiedOf(flows) /\ Keys \ Identified = UnknownOf(flows)
  BY Zenon DEF Resent, Reordered, Timed, Identified, ResentOf, ReorderedOf, TimedOf, IdentifiedOf,
        UnknownOf, Retransmits, OutOfOrder, Samples, Keys

\* What the flows of a table count are weights.
LEMMA TableWeights ==
  ASSUME NEW t, WellFormed(t)
  PROVE  /\ Weights(ResentOf(t)) /\ Weights(ReorderedOf(t)) /\ Weights(TimedOf(t))
         /\ IsFiniteSet(IdentifiedOf(t)) /\ Cardinality(IdentifiedOf(t)) \in Nat
         /\ IsFiniteSet(UnknownOf(t)) /\ Cardinality(UnknownOf(t)) \in Nat
<1>1. \A k \in DOMAIN t : /\ Retransmits(t[k]) \in Nat /\ OutOfOrder(t[k]) \in Nat
                          /\ Samples(t[k]) \in Nat
  BY FlowCounts DEF WellFormed
<1>2. Weights(ResentOf(t)) /\ Weights(ReorderedOf(t)) /\ Weights(TimedOf(t))
  BY <1>1 DEF Weights, ResentOf, ReorderedOf, TimedOf, WellFormed
<1>3. IdentifiedOf(t) \in SUBSET DOMAIN t /\ UnknownOf(t) \in SUBSET DOMAIN t
  BY DEF IdentifiedOf, UnknownOf
<1> QED  BY <1>2, <1>3, FS_Subset, FS_CardinalityType DEF WellFormed

\* A table u that is a part of the table t counts no more.
LEMMA PartOfTable ==
  ASSUME NEW t, WellFormed(t), NEW u, DOMAIN u \subseteq DOMAIN t,
         \A k \in DOMAIN u : u[k] = t[k]
  PROVE  /\ WellFormed(u)
         /\ Total(ResentOf(u)) <= Total(ResentOf(t)) /\ Total(ResentOf(t)) \in Nat
         /\ Total(ReorderedOf(u)) <= Total(ReorderedOf(t)) /\ Total(ReorderedOf(t)) \in Nat
         /\ Total(TimedOf(u)) <= Total(TimedOf(t)) /\ Total(TimedOf(t)) \in Nat
         /\ Cardinality(IdentifiedOf(u)) <= Cardinality(IdentifiedOf(t))
         /\ Cardinality(UnknownOf(u)) <= Cardinality(UnknownOf(t))
<1>1. WellFormed(u)
  BY FS_Subset DEF WellFormed
<1>2. /\ Weights(ResentOf(t)) /\ Weights(ReorderedOf(t)) /\ Weights(TimedOf(t))
      /\ IsFiniteSet(IdentifiedOf(t)) /\ IsFiniteSet(UnknownOf(t))
  BY TableWeights
<1>3. Weights(ResentOf(u)) /\ Weights(ReorderedOf(u)) /\ Weights(TimedOf(u))
  BY <1>1, TableWeights
<1>4. Total(ResentOf(u)) <= Total(ResentOf(t)) /\ Total(ResentOf(t)) \in Nat
  <2>1. PICK w, v : w = ResentOf(t) /\ v = ResentOf(u)
    OBVIOUS
  <2>2. DOMAIN v \subseteq DOMAIN w /\ \A x \in DOMAIN v : v[x] = w[x]
    BY <2>1 DEF ResentOf
  <2> QED  BY <1>2, <1>3, <2>1, <2>2, TotalOfPart
<1>5. Total(ReorderedOf(u)) <= Total(ReorderedOf(t)) /\ Total(ReorderedOf(t)) \in Nat
  <2>1. PICK w, v : w = ReorderedOf(t) /\ v = ReorderedOf(u)
    OBVIOUS
  <2>2. DOMAIN v \subseteq DOMAIN w /\ \A x \in DOMAIN v : v[x] = w[x]
    BY <2>1 DEF ReorderedOf
  <2> QED  BY <1>2, <1>3, <2>1, <2>2, TotalOfPart
<1>6. Total(TimedOf(u)) <= Total(TimedOf(t)) /\ Total(TimedOf(t)) \in Nat
  <2>1. PICK w, v : w = TimedOf(t) /\ v = TimedOf(u)
    OBVIOUS
  <2>2. DOMAIN v \subseteq DOMAIN w /\ \A x \in DOMAIN v : v[x] = w[x]
    BY <2>1 DEF TimedOf
  <2> QED  BY <1>2, <1>3, <2>1, <2>2, TotalOfPart
<1>7. Cardinality(IdentifiedOf(u)) <= Cardinality(IdentifiedOf(t))
  <2>1. IdentifiedOf(u) \in SUBSET IdentifiedOf(t)
    BY DEF IdentifiedOf
  <2> QED  BY <1>2, <2>1, FS_Subset
<1>8. Cardinality(UnknownOf(u)) <= Cardinality(UnknownOf(t))
  <2>1. UnknownOf(u) \in SUBSET UnknownOf(t)
    BY DEF UnknownOf
  <2> QED  BY <1>2, <2>1, FS_Subset
<1> QED  BY <1>1, <1>4, <1>5, <1>6, <1>7, <1>8

\* What a table counts for one key: nothing if it has no entry.
LEMMA EntryWeight ==
  ASSUME NEW t, NEW key, NEW old, key \in DOMAIN t => old = t[key],
         key \notin DOMAIN t => Retransmits(old) = 0 /\ OutOfOrder(old) = 0 /\ Samples(old) = 0
  PROVE  /\ Weight(ResentOf(t), key) = Retransmits(old)
         /\ Weight(ReorderedOf(t), key) = OutOfOrder(old)
         /\ Weight(TimedOf(t), key) = Samples(old)
  BY DEF Weight, ResentOf, ReorderedOf, TimedOf

\* The table u is t with some entries gone and the entry of key changed from old to new.
LEMMA TableAfter ==
  ASSUME NEW t, WellFormed(t), NEW u, WellFormed(u), NEW key \in DOMAIN u,
         DOMAIN u \ {key} \subseteq DOMAIN t, \A k \in DOMAIN u \ {key} : u[k] = t[k],
         NEW old, key \in DOMAIN t => old = t[key],
         key \notin DOMAIN t => Retransmits(old) = 0 /\ OutOfOrder(old) = 0 /\ Samples(old) = 0,
         NEW a \in Nat, NEW b \in Nat, NEW c \in Nat,
         Retransmits(u[key]) = Retransmits(old) + a, OutOfOrder(u[key]) = OutOfOrder(old) + b,
         Samples(u[key]) <= Samples(old) + c
  PROVE  /\ Total(ResentOf(u)) <= Total(ResentOf(t)) + a
         /\ Total(ReorderedOf(u)) <= Total(ReorderedOf(t)) + b
         /\ Total(TimedOf(u)) <= Total(TimedOf(t)) + c
         /\ Total(ResentOf(u)) \in Nat /\ Total(ResentOf(t)) \in Nat
         /\ Total(ReorderedOf(u)) \in Nat /\ Total(ReorderedOf(t)) \in Nat
         /\ Total(TimedOf(u)) \in Nat /\ Total(TimedOf(t)) \in Nat
<1>1. /\ Weights(ResentOf(t)) /\ Weights(ReorderedOf(t)) /\ Weights(TimedOf(t))
      /\ Weights(ResentOf(u)) /\ Weights(ReorderedOf(u)) /\ Weights(TimedOf(u))
  BY TableWeights
<1>2. /\ Weight(ResentOf(t), key) = Retransmits(old)
      /\ Weight(ReorderedOf(t), key) = OutOfOrder(old)
      /\ Weight(TimedOf(t), key) = Samples(old)
  BY EntryWeight
<1>3. a \in Int /\ b \in Int /\ c \in Int
  OBVIOUS
<1>4. /\ Retransmits(u[key]) \in Nat /\ OutOfOrder(u[key]) \in Nat
  BY FlowCounts DEF WellFormed
<1>5. /\ Total(ResentOf(u)) <= Total(ResentOf(t)) + a
      /\ Total(ResentOf(u)) \in Nat /\ Total(ResentOf(t)) \in Nat
  <2>1. PICK w, v : w = ResentOf(t) /\ v = ResentOf(u)
    OBVIOUS
  <2>2. /\ key \in DOMAIN v /\ DOMAIN v \ {key} \subseteq DOMAIN w
        /\ \A x \in DOMAIN v \ {key} : v[x] = w[x]
    BY <2>1 DEF ResentOf
  <2>3. v[key] <= Weight(w, key) + a
    <3>1. v[key] = Retransmits(u[key])
      BY <2>1 DEF ResentOf
    <3> QED  BY <1>2, <1>4, <2>1, <3>1
  <2> QED  BY <1>1, <1>3, <2>1, <2>2, <2>3, TotalOfUpdate
<1>6. /\ Total(ReorderedOf(u)) <= Total(ReorderedOf(t)) + b
      /\ Total(ReorderedOf(u)) \in Nat /\ Total(ReorderedOf(t)) \in Nat
  <2>1. PICK w, v : w = ReorderedOf(t) /\ v = ReorderedOf(u)
    OBVIOUS
  <2>2. /\ key \in DOMAIN v /\ DOMAIN v \ {key} \subseteq DOMAIN w
        /\ \A x \in DOMAIN v \ {key} : v[x] = w[x]
    BY <2>1 DEF ReorderedOf
  <2>3. v[key] <= Weight(w, key) + b
    <3>1. v[key] = OutOfOrder(u[key])
      BY <2>1 DEF ReorderedOf
    <3> QED  BY <1>2, <1>4, <2>1, <3>1
  <2> QED  BY <1>1, <1>3, <2>1, <2>2, <2>3, TotalOfUpdate
<1>7. /\ Total(TimedOf(u)) <= Total(TimedOf(t)) + c
      /\ Total(TimedOf(u)) \in Nat /\ Total(TimedOf(t)) \in Nat
  <2>1. PICK w, v : w = TimedOf(t) /\ v = TimedOf(u)
    OBVIOUS
  <2>2. /\ key \in DOMAIN v /\ DOMAIN v \ {key} \subseteq DOMAIN w
        /\ \A x \in DOMAIN v \ {key} : v[x] = w[x]
    BY <2>1 DEF TimedOf
  <2>3. v[key] <= Weight(w, key) + c
    <3>1. v[key] = Samples(u[key])
      BY <2>1 DEF TimedOf
    <3> QED  BY <1>2, <2>1, <3>1
  <2> QED  BY <1>1, <1>3, <2>1, <2>2, <2>3, TotalOfUpdate
<1> QED  BY <1>5, <1>6, <1>7

-----------------------------------------------------------------------------
(* The counters of the table.                                              *)

Named == AppProtocols \ {"Unknown"}

\* The per-protocol counts are weights.
LEMMA CountsTotal ==
  ASSUME NEW c \in [Named -> Nat]
  PROVE  Weights(c) /\ Total(c) \in Nat
<1>1. IsFiniteSet(AppProtocols)
  <2> DEFINE A == {} \cup {"Unknown"}
             B == A \cup {"HTTP"}
             C == B \cup {"TLS"}
             D == C \cup {"DNS"}
             E == D \cup {"SSH"}
             F == E \cup {"DHCP"}
             G == F \cup {"NTP"}
             H == G \cup {"Other"}
  <2>1. IsFiniteSet(A)
    BY FS_EmptySet, FS_AddElement
  <2>2. IsFiniteSet(B)
    BY <2>1, FS_AddElement
  <2>3. IsFiniteSet(C)
    BY <2>2, FS_AddElement
  <2>4. IsFiniteSet(D)
    BY <2>3, FS_AddElement
  <2>5. IsFiniteSet(E)
    BY <2>4, FS_AddElement
  <2>6. IsFiniteSet(F)
    BY <2>5, FS_AddElement
  <2>7. IsFiniteSet(G)
    BY <2>6, FS_AddElement
  <2>8. IsFiniteSet(H)
    BY <2>7, FS_AddElement
  <2>9. H = AppProtocols
    BY DEF AppProtocols
  <2> QED  BY <2>8, <2>9
<1>2. Named \in SUBSET AppProtocols
  BY DEF Named
<1>3. Weights(c)
  BY <1>1, <1>2, FS_Subset DEF Weights
<1> QED  BY <1>3, TotalOfPart

\* One flow more has been identified.
LEMMA CountOne ==
  ASSUME NEW c \in [Named -> Nat], NEW a \in Named, NEW e, e = [c EXCEPT ![a] = @ + 1]
  PROVE  e \in [Named -> Nat] /\ Total(e) = Total(c) + 1
<1>1. e \in [Named -> Nat] /\ e[a] = c[a] + 1 /\ \A x \in Named \ {a} : e[x] = c[x]
  OBVIOUS
<1>2. Weights(c) /\ Weights(e) /\ Total(c) \in Nat /\ Total(e) \in Nat
  BY <1>1, CountsTotal
<1>3. PICK inc \in Int, dec \in Int : inc = 1 /\ dec = -1
  OBVIOUS
<1>4. Total(c) <= Total(e) + dec
  <2>1. /\ a \in DOMAIN c /\ DOMAIN c \ {a} \subseteq DOMAIN e
        /\ \A x \in DOMAIN c \ {a} : c[x] = e[x]
    BY <1>1
  <2>2. c[a] <= Weight(e, a) + dec
    BY <1>1, <1>3 DEF Weight
  <2> QED  BY <1>2, <2>1, <2>2, TotalOfUpdate
<1>5. Total(e) <= Total(c) + inc
  <2>1. /\ a \in DOMAIN e /\ DOMAIN e \ {a} \subseteq DOMAIN c
        /\ \A x \in DOMAIN e \ {a} : e[x] = c[x]
    BY <1>1
  <2>2. e[a] <= Weight(c, a) + inc
    BY <1>1, <1>3 DEF Weight
  <2> QED  BY <1>2, <2>1, <2>2, TotalOfUpdate
<1> QED  BY <1>1, <1>2, <1>3, <1>4, <1>5

\* What a packet adds are numbers, and a segment is resent or out of order only if it
\* carries data, and never both.
LEMMA WhatIsAdded ==
  ASSUME NEW f, NEW p
  PROVE  /\ Resends(f, p) \in Nat /\ Reorders(f, p) \in Nat /\ TimesTaken(f, p) \in Nat
         /\ Resends(f, p) + Reorders(f, p)
              <= Bit(classify(f.dir[direction(p)], p) # "control")
<1>1. PICK c : c = classify(f.dir[direction(p)], p)
  OBVIOUS
<1>2. /\ Bit(is_retransmit(c)) \in {0, 1} /\ Bit(is_out_of_order(c)) \in {0, 1}
      /\ Bit(is_retransmit(c)) + Bit(is_out_of_order(c)) <= Bit(c # "control")
      /\ Bit(c # "control") \in {0, 1}
  BY DEF is_retransmit, is_out_of_order, Bit
<1>3. Resends(f, p) = IF p.l4 = "TCP" THEN Bit(is_retransmit(c)) ELSE 0
  BY <1>1 DEF Resends
<1>4. Reorders(f, p) = IF p.l4 = "TCP" THEN Bit(is_out_of_order(c)) ELSE 0
  BY <1>1 DEF Reorders
<1>5. TimesTaken(f, p) \in Nat
  <2>1. PICK m \in Nat, n \in Nat :
          /\ m = Bit(times_handshake(f, p))
          /\ n = Bit(retired(f.dir[Peer(direction(p))].awaiting_ack, p) # 0)
    BY DEF Bit
  <2>2. TimesTaken(f, p) = IF p.l4 = "TCP" THEN m + n ELSE 0
    BY <2>1, Zenon DEF TimesTaken, rtt_samples_taken
  <2> QED  BY <2>2
<1> QED  BY <1>1, <1>2, <1>3, <1>4, <1>5

\* The totals after the packet.
LEMMA TotalsAfter ==
  ASSUME TableShape, NEW f, NEW p, NEW t, t = updated_totals(f, p)
  PROVE  /\ {"retransmits", "out_of_order", "data_segments", "reassembled_bytes", "rtt_samples"}
              \subseteq DOMAIN t
         /\ t.retransmits = totals.retransmits + Resends(f, p)
         /\ t.out_of_order = totals.out_of_order + Reorders(f, p)
         /\ t.rtt_samples = totals.rtt_samples + TimesTaken(f, p)
         /\ t.data_segments \in Nat
         /\ totals.data_segments + Resends(f, p) + Reorders(f, p) <= t.data_segments
<1>1. CASE p.l4 # "TCP"
  BY <1>1 DEF updated_totals, Resends, Reorders, TimesTaken, TableShape
<1>2. CASE p.l4 = "TCP"
  <2>1. PICK b, g : b = Bit(classify(f.dir[direction(p)], p) # "control")
                    /\ g = totals.reassembled_bytes
                                   + (IF inspects(f) /\ feeds_stream(p)
                                      THEN added_bytes(f.dir[direction(p)], p) ELSE 0)
    OBVIOUS
  <2>2. t = [retransmits       |-> totals.retransmits + Resends(f, p),
             out_of_order      |-> totals.out_of_order + Reorders(f, p),
             data_segments     |-> totals.data_segments + b,
             rtt_samples       |-> totals.rtt_samples + TimesTaken(f, p),
             reassembled_bytes |-> g]
    BY <1>2, <2>1, Zenon DEF updated_totals, Resends, Reorders, TimesTaken
  <2>3. b \in Nat
    BY <2>1 DEF Bit
  <2>4. Resends(f, p) + Reorders(f, p) <= b /\ Resends(f, p) \in Nat /\ Reorders(f, p) \in Nat
    BY <2>1, WhatIsAdded
  <2> QED  BY <2>2, <2>3, <2>4 DEF TableShape
<1> QED  BY <1>1, <1>2

-----------------------------------------------------------------------------
(* The actions.                                                            *)

\* An entry of the table is found or created before the packet is applied.
LEMMA FoundOrCreated ==
  ASSUME IInv, NEW p, Stamped(p), NEW key, key = make_flow_key(p),
         NEW old, old = IF key \in Keys THEN flows[key] ELSE new_flow(p, next_id + 1)
  PROVE  /\ FlowShape(old) /\ Released(old, p.ip_proto)
         /\ key \in Keys => old = flows[key]
         /\ key \notin Keys => /\ old.id = next_id + 1 /\ ~identified(old.app)
                               /\ Retransmits(old) = 0 /\ OutOfOrder(old) = 0
                               /\ Samples(old) = 0
<1>1. key.proto = p.ip_proto
  BY KeyOf
<1>2. CASE key \in Keys
  <2>1. EntryOK(key, flows[key])
    BY <1>2 DEF IInv, Entries
  <2> QED  BY <1>1, <1>2, <2>1 DEF EntryOK
<1>3. CASE key \notin Keys
  <2>1. old = new_flow(p, next_id + 1)
    BY <1>3
  <2> QED  BY <1>3, <2>1, NewFlow
<1> QED  BY <1>2, <1>3

\* The parts of update(p).
LEMMA UpdateParts ==
  ASSUME IInv, NEW p, Stamped(p), update(p), NEW key, key = make_flow_key(p),
         NEW old, old = IF key \in Keys THEN flows[key] ELSE new_flow(p, next_id + 1),
         NEW new, new = update_flow(old, p)
  PROVE  /\ key \in Keys' /\ flows'[key] = new /\ arrivals'[key] = captured + 1
         /\ DOMAIN arrivals' = Keys' /\ IsFiniteSet(Keys') /\ Cardinality(Keys') <= max_flows
         /\ Keys' \ {key} \subseteq Keys
         /\ \A k \in Keys' \ {key} : flows'[k] = flows[k] /\ arrivals'[k] = arrivals[k]
         /\ \A k \in Keys \ Keys' :
              /\ Keys \ Keys' = {k} /\ Cardinality(Keys) = max_flows
              /\ \A j \in Keys : flows[k].last_seen <= flows[j].last_seen
<1>1. PICK kept \in room_for(flows, key) :
        /\ flows' = put(flows, kept, key, new)
        /\ arrivals' = put(arrivals, kept, key, captured + 1)
  BY Zenon DEF update
<1>2. IsFiniteSet(DOMAIN flows) /\ Cardinality(DOMAIN flows) <= max_flows
  BY DEF IInv, TableShape, Keys
<1>3. /\ kept \subseteq DOMAIN flows /\ IsFiniteSet(kept \cup {key})
      /\ Cardinality(kept \cup {key}) <= max_flows
      /\ \A k \in DOMAIN flows \ kept :
           /\ key \notin DOMAIN flows /\ kept = DOMAIN flows \ {k}
           /\ Cardinality(DOMAIN flows) = max_flows
           /\ \A j \in DOMAIN flows : flows[k].last_seen <= flows[j].last_seen
  BY <1>2, RoomFor
<1>4. /\ DOMAIN flows' = kept \cup {key} /\ flows'[key] = new
      /\ \A k \in kept \ {key} : flows'[k] = flows[k]
  BY <1>1 DEF put
<1>5. /\ DOMAIN arrivals' = kept \cup {key} /\ arrivals'[key] = captured + 1
      /\ \A k \in kept \ {key} : arrivals'[k] = arrivals[k]
  BY <1>1 DEF put
<1> QED  BY <1>3, <1>4, <1>5 DEF Keys

\* The packet is applied to its flow.
LEMMA UpdateKeeps ==
  ASSUME IInv, NEW p, Stamped(p), update(p), UNCHANGED traffic, captured' = captured + 1,
         last_ts' = p.ts, StepBack \/ p.ts >= last_ts
  PROVE  IInv'
<1>1. PICK key : key = make_flow_key(p)
  OBVIOUS
<1>2. PICK old : old = IF key \in Keys THEN flows[key] ELSE new_flow(p, next_id + 1)
  OBVIOUS
<1>3. PICK new : new = update_flow(old, p)
  OBVIOUS
<1>4. key \in FlowKey /\ Canonical(key) /\ key.proto = p.ip_proto
  BY <1>1, KeyOf
<1>5. /\ FlowShape(old) /\ Released(old, p.ip_proto)
      /\ key \in Keys => old = flows[key]
      /\ key \notin Keys => /\ old.id = next_id + 1 /\ ~identified(old.app)
                            /\ Retransmits(old) = 0 /\ OutOfOrder(old) = 0
                            /\ Samples(old) = 0
  BY <1>1, <1>2, FoundOrCreated
<1>6. /\ FlowShape(new) /\ Released(new, p.ip_proto) /\ new.id = old.id
      /\ new.last_seen = p.ts /\ p.ts \in Nat
      /\ identified(old.app) => identified(new.app)
      /\ Retransmits(new) = Retransmits(old) + Resends(old, p)
      /\ OutOfOrder(new) = OutOfOrder(old) + Reorders(old, p)
      /\ Samples(new) <= Samples(old) + TimesTaken(old, p)
  BY <1>3, <1>5, UpdateFlow DEF Stamped
<1>7. /\ key \in Keys' /\ flows'[key] = new /\ arrivals'[key] = captured + 1
      /\ DOMAIN arrivals' = Keys' /\ IsFiniteSet(Keys') /\ Cardinality(Keys') <= max_flows
      /\ Keys' \ {key} \subseteq Keys
      /\ \A k \in Keys' \ {key} : flows'[k] = flows[k] /\ arrivals'[k] = arrivals[k]
  BY <1>1, <1>2, <1>3, UpdateParts
<1>8. /\ next_id' = IF key \in Keys THEN next_id ELSE next_id + 1
      /\ totals' = updated_totals(old, p) /\ app_counts' = updated_counts(old.app, new.app)
  BY <1>1, <1>2, <1>3, Zenon DEF update
<1>9. /\ next_id \in Nat /\ captured \in Nat /\ last_ts \in Nat
  BY DEF IInv, TableShape
<1>10. Entries'
  <2>1. EntryOK(key, new)
    BY <1>4, <1>6 DEF EntryOK
  <2>2. \A k \in Keys' \ {key} : EntryOK(k, flows'[k])
    BY <1>7 DEF IInv, Entries
  <2>3. \A k \in Keys' : EntryOK(k, flows'[k])
    BY <1>7, <2>1, <2>2
  <2> QED  BY <2>3 DEF Entries
<1>11. OwnIds'
  <2>1. \A k \in Keys : flows[k].id \in 1 .. next_id
    BY DEF IInv, OwnIds
  <2>2. \A k, j \in Keys : flows[k].id = flows[j].id => k = j
    BY DEF IInv, OwnIds
  <2>3. CASE key \in Keys
    <3>1. flows'[key].id = flows[key].id /\ next_id' = next_id /\ Keys' \subseteq Keys
      BY <1>5, <1>6, <1>7, <1>8, <2>3
    <3>2. \A k \in Keys' : flows'[k].id = flows[k].id
      BY <1>7, <3>1
    <3> QED  BY <2>1, <2>2, <3>1, <3>2 DEF OwnIds
  <2>4. CASE key \notin Keys
    <3>1. flows'[key].id = next_id + 1 /\ next_id' = next_id + 1
      BY <1>5, <1>6, <1>7, <1>8, <2>4
    <3>2. \A k \in Keys' \ {key} : k \in Keys /\ flows'[k].id = flows[k].id
      BY <1>7
    <3> QED  BY <1>9, <2>1, <2>2, <3>1, <3>2 DEF OwnIds
  <2> QED  BY <2>3, <2>4
<1>12. Arrived'
  <2>1. \A k \in Keys : arrivals[k] \in 1 .. captured
    BY DEF IInv, Arrived
  <2>2. \A k \in Keys' \ {key} : k \in Keys /\ arrivals'[k] = arrivals[k]
    BY <1>7
  <2>3. \A k \in Keys' : arrivals'[k] \in 1 .. captured'
    BY <1>7, <1>9, <2>1, <2>2
  <2> QED  BY <1>7, <2>3 DEF Arrived
<1>13. Clock'
  <2>1. SUFFICES ASSUME ~StepBack
                 PROVE  /\ \A k \in Keys' : flows'[k].last_seen <= last_ts'
                        /\ \A k, j \in Keys' : arrivals'[k] <= arrivals'[j] =>
                             flows'[k].last_seen <= flows'[j].last_seen
    BY Zenon DEF Clock
  <2>2. /\ \A k \in Keys : flows[k].last_seen <= last_ts /\ flows[k].last_seen \in Nat
        /\ \A k, j \in Keys : arrivals[k] <= arrivals[j] =>
             flows[k].last_seen <= flows[j].last_seen
        /\ \A k \in Keys : arrivals[k] \in 1 .. captured
    BY <2>1 DEF IInv, Clock, Arrived, Entries, EntryOK
  <2>3. \A k \in Keys' \ {key} : /\ k \in Keys /\ flows'[k] = flows[k]
                                 /\ arrivals'[k] = arrivals[k]
    BY <1>7
  <2>4. last_ts <= p.ts /\ last_ts' = p.ts
    BY <2>1, <1>6, <1>9
  <2>5. \A k \in Keys' : flows'[k].last_seen <= p.ts
    BY <1>6, <1>7, <1>9, <2>2, <2>3, <2>4
  <2>6. ASSUME NEW k \in Keys', NEW j \in Keys', arrivals'[k] <= arrivals'[j]
        PROVE  flows'[k].last_seen <= flows'[j].last_seen
    <3>1. CASE j = key
      BY <1>6, <1>7, <2>5, <3>1
    <3>2. CASE j # key /\ k = key
      BY <1>7, <1>9, <2>2, <2>3, <2>6, <3>2
    <3>3. CASE j # key /\ k # key
      BY <2>2, <2>3, <2>6, <3>3
    <3> QED  BY <3>1, <3>2, <3>3
  <2> QED  BY <2>4, <2>5, <2>6
<1>14. WellFormed(flows) /\ WellFormed(flows')
  <2>1. WellFormed(flows)
    BY DEF IInv, TableShape, Entries, EntryOK, WellFormed, Keys
  <2>2. WellFormed(flows')
    BY <1>7, <1>10 DEF Entries, EntryOK, WellFormed, Keys
  <2> QED  BY <2>1, <2>2
<1>15. /\ TableShape' /\ totals'.retransmits = totals.retransmits + Resends(old, p)
       /\ totals'.out_of_order = totals.out_of_order + Reorders(old, p)
       /\ totals'.rtt_samples = totals.rtt_samples + TimesTaken(old, p)
       /\ totals.data_segments + Resends(old, p) + Reorders(old, p) <= totals'.data_segments
       /\ Resends(old, p) \in Nat /\ Reorders(old, p) \in Nat /\ TimesTaken(old, p) \in Nat
       /\ Total(app_counts) \in Nat /\ Total(app_counts') \in Nat
       /\ Total(app_counts') = Total(app_counts)
                                 + Bit(~identified(old.app) /\ identified(new.app))
  <2>1. TableShape
    BY DEF IInv
  <2>2. /\ {"retransmits", "out_of_order", "data_segments", "reassembled_bytes", "rtt_samples"}
             \subseteq DOMAIN totals'
        /\ totals'.retransmits = totals.retransmits + Resends(old, p)
        /\ totals'.out_of_order = totals.out_of_order + Reorders(old, p)
        /\ totals'.rtt_samples = totals.rtt_samples + TimesTaken(old, p)
        /\ totals'.data_segments \in Nat
        /\ totals.data_segments + Resends(old, p) + Reorders(old, p) <= totals'.data_segments
    BY <1>8, <2>1, TotalsAfter
  <2>3. Resends(old, p) \in Nat /\ Reorders(old, p) \in Nat /\ TimesTaken(old, p) \in Nat
    BY WhatIsAdded
  <2>4. app_counts \in [Named -> Nat]
    BY <2>1 DEF TableShape, Named
  <2>5. /\ app_counts' \in [Named -> Nat]
        /\ Total(app_counts') = Total(app_counts)
                                  + Bit(~identified(old.app) /\ identified(new.app))
    <3>1. Total(app_counts) \in Nat
      BY <2>4, CountsTotal
    <3>2. CASE ~identified(old.app) /\ identified(new.app)
      <4>1. PICK a \in Named : a = new.app.proto
        BY <1>6, <3>2 DEF FlowShape, AppInfos, identified, Named
      <4>2. app_counts' = [app_counts EXCEPT ![a] = @ + 1]
        BY <1>8, <3>2, <4>1, Zenon DEF updated_counts
      <4>3. app_counts' \in [Named -> Nat] /\ Total(app_counts') = Total(app_counts) + 1
        BY <2>4, <4>1, <4>2, CountOne
      <4> QED  BY <3>2, <4>3 DEF Bit
    <3>3. CASE ~(~identified(old.app) /\ identified(new.app))
      <4>1. app_counts' = app_counts
        BY <1>8, <3>3, Zenon DEF updated_counts
      <4> QED  BY <2>4, <3>1, <3>3, <4>1 DEF Bit
    <3> QED  BY <3>2, <3>3
  <2>6. Total(app_counts) \in Nat /\ Total(app_counts') \in Nat
    BY <2>4, <2>5, CountsTotal
  <2>7. TableShape'
    <3>1. next_id' \in Nat /\ captured' \in Nat /\ last_ts' \in Nat /\ traffic' \in Traffics
      BY <1>6, <1>8, <1>9, <2>1 DEF TableShape
    <3>2. totals'.retransmits \in Nat /\ totals'.out_of_order \in Nat /\ totals'.rtt_samples \in Nat
      BY <2>1, <2>2, <2>3 DEF TableShape
    <3> QED  BY <1>7, <2>2, <2>5, <3>1, <3>2 DEF TableShape, Named
  <2> QED  BY <2>2, <2>3, <2>5, <2>6, <2>7
<1>16. /\ Total(ResentOf(flows')) <= Total(ResentOf(flows)) + Resends(old, p)
       /\ Total(ReorderedOf(flows')) <= Total(ReorderedOf(flows)) + Reorders(old, p)
       /\ Total(TimedOf(flows')) <= Total(TimedOf(flows)) + TimesTaken(old, p)
       /\ Total(ResentOf(flows')) \in Nat /\ Total(ResentOf(flows)) \in Nat
       /\ Total(ReorderedOf(flows')) \in Nat /\ Total(ReorderedOf(flows)) \in Nat
       /\ Total(TimedOf(flows')) \in Nat /\ Total(TimedOf(flows)) \in Nat
  <2>1. PICK t, u : t = flows /\ u = flows'
    OBVIOUS
  <2>2. PICK a \in Nat, b \in Nat, c \in Nat :
          a = Resends(old, p) /\ b = Reorders(old, p) /\ c = TimesTaken(old, p)
    BY <1>15
  <2>3. /\ key \in DOMAIN u /\ DOMAIN u \ {key} \subseteq DOMAIN t
        /\ \A k \in DOMAIN u \ {key} : u[k] = t[k]
        /\ key \in DOMAIN t => old = t[key]
        /\ key \notin DOMAIN t =>
             Retransmits(old) = 0 /\ OutOfOrder(old) = 0 /\ Samples(old) = 0
        /\ u[key] = new
    BY <1>5, <1>7, <2>1 DEF Keys
  <2>4. /\ Retransmits(u[key]) = Retransmits(old) + a
        /\ OutOfOrder(u[key]) = OutOfOrder(old) + b
        /\ Samples(u[key]) <= Samples(old) + c
    BY <1>6, <2>2, <2>3
  <2>5. WellFormed(t) /\ WellFormed(u)
    BY <1>14, <2>1
  <2>6. /\ Total(ResentOf(u)) <= Total(ResentOf(t)) + a
        /\ Total(ReorderedOf(u)) <= Total(ReorderedOf(t)) + b
        /\ Total(TimedOf(u)) <= Total(TimedOf(t)) + c
        /\ Total(ResentOf(u)) \in Nat /\ Total(ResentOf(t)) \in Nat
        /\ Total(ReorderedOf(u)) \in Nat /\ Total(ReorderedOf(t)) \in Nat
        /\ Total(TimedOf(u)) \in Nat /\ Total(TimedOf(t)) \in Nat
    BY <2>3, <2>4, <2>5, TableAfter
  <2> QED  BY <2>1, <2>2, <2>6
<1>17. Cardinality(IdentifiedOf(flows')) <= Total(app_counts')
  <2>1. PICK A, B : A = IdentifiedOf(flows) /\ B = IdentifiedOf(flows')
    OBVIOUS
  <2>2. IsFiniteSet(A) /\ Cardinality(A) \in Nat /\ Cardinality(B) \in Nat
    BY <1>14, <2>1, TableWeights
  <2>3. Cardinality(A) <= Total(app_counts)
    BY <2>1, CurrentTotals DEF IInv, TotalsCoverLive
  <2>4. /\ B \in SUBSET (A \cup {key})
        /\ identified(old.app) \/ ~identified(new.app) => B \in SUBSET A
    <3>1. \A k \in B \ {key} : k \in A
      BY <1>7, <2>1 DEF IdentifiedOf, Keys
    <3>2. key \in B => identified(new.app)
      BY <1>7, <2>1 DEF IdentifiedOf
    <3>3. identified(old.app) => key \in A
      BY <1>5, <2>1 DEF IdentifiedOf, Keys
    <3> QED  BY <3>1, <3>2, <3>3
  <2>5. CASE identified(old.app) \/ ~identified(new.app)
    <3>1. Cardinality(B) <= Cardinality(A)
      BY <2>2, <2>4, <2>5, FS_Subset
    <3>2. Total(app_counts') = Total(app_counts)
      BY <1>15, <2>5 DEF Bit
    <3> QED  BY <1>15, <2>1, <2>2, <2>3, <3>1, <3>2
  <2>6. CASE ~identified(old.app) /\ identified(new.app)
    <3>1. PICK C : C = A \cup {key}
      OBVIOUS
    <3>2. IsFiniteSet(C) /\ Cardinality(C) <= Cardinality(A) + 1 /\ Cardinality(C) \in Nat
      BY <2>2, <3>1, FS_AddElement
    <3>3. Cardinality(B) <= Cardinality(C)
      BY <2>4, <3>1, <3>2, FS_Subset
    <3>4. Total(app_counts') = Total(app_counts) + 1
      BY <1>15, <2>6 DEF Bit
    <3> QED  BY <1>15, <2>1, <2>2, <2>3, <3>2, <3>3, <3>4
  <2> QED  BY <2>5, <2>6
<1>18. Total(app_counts') + Cardinality(UnknownOf(flows')) <= next_id'
  <2>1. PICK A, B : A = UnknownOf(flows) /\ B = UnknownOf(flows')
    OBVIOUS
  <2>2. IsFiniteSet(A) /\ Cardinality(A) \in Nat /\ Cardinality(B) \in Nat
    BY <1>14, <2>1, TableWeights
  <2>3. Total(app_counts) + Cardinality(A) <= next_id
    BY <2>1, CurrentTotals DEF IInv, TotalsCoverLive
  <2>4. \A k \in B \ {key} : k \in A
    BY <1>7, <2>1 DEF UnknownOf, Keys
  <2>5. /\ key \in B <=> ~identified(new.app)
        /\ key \in A <=> key \in Keys /\ ~identified(old.app)
    BY <1>5, <1>7, <2>1 DEF UnknownOf, Keys
  <2>6. CASE identified(new.app) /\ ~identified(old.app) /\ key \in Keys
    <3>1. PICK C : C = A \ {key}
      OBVIOUS
    <3>2. IsFiniteSet(C) /\ Cardinality(C) = Cardinality(A) - 1
      BY <2>2, <2>5, <2>6, <3>1, FS_RemoveElement
    <3>3. B \in SUBSET C
      BY <2>4, <2>5, <2>6, <3>1
    <3>4. Cardinality(B) <= Cardinality(C)
      BY <3>2, <3>3, FS_Subset
    <3>5. Total(app_counts') = Total(app_counts) + 1 /\ next_id' = next_id
      BY <1>8, <1>15, <2>6 DEF Bit
    <3> QED  BY <1>9, <1>15, <2>1, <2>2, <2>3, <3>2, <3>4, <3>5
  <2>7. CASE ~identified(new.app) /\ key \notin Keys
    <3>1. PICK C : C = A \cup {key}
      OBVIOUS
    <3>2. IsFiniteSet(C) /\ Cardinality(C) <= Cardinality(A) + 1 /\ Cardinality(C) \in Nat
      BY <2>2, <3>1, FS_AddElement
    <3>3. B \in SUBSET C
      BY <2>4, <3>1
    <3>4. Cardinality(B) <= Cardinality(C)
      BY <3>2, <3>3, FS_Subset
    <3>5. Total(app_counts') = Total(app_counts) /\ next_id' = next_id + 1
      BY <1>8, <1>15, <2>7 DEF Bit
    <3> QED  BY <1>9, <1>15, <2>1, <2>2, <2>3, <3>2, <3>4, <3>5
  <2>8. CASE identified(new.app) /\ key \notin Keys
    <3>1. B \in SUBSET A
      BY <2>4, <2>5, <2>8
    <3>2. Cardinality(B) <= Cardinality(A)
      BY <2>2, <3>1, FS_Subset
    <3>3. Total(app_counts') = Total(app_counts) + 1 /\ next_id' = next_id + 1
      BY <1>5, <1>8, <1>15, <2>8 DEF Bit
    <3> QED  BY <1>9, <1>15, <2>1, <2>2, <2>3, <3>2, <3>3
  <2>9. CASE key \in Keys /\ (identified(new.app) <=> identified(old.app))
    <3>1. B \in SUBSET A
      BY <2>4, <2>5, <2>9
    <3>2. Cardinality(B) <= Cardinality(A)
      BY <2>2, <3>1, FS_Subset
    <3>3. Total(app_counts') = Total(app_counts) /\ next_id' = next_id
      BY <1>8, <1>15, <2>9 DEF Bit
    <3> QED  BY <1>9, <1>15, <2>1, <2>2, <2>3, <3>2, <3>3
  <2> QED  BY <1>6, <2>6, <2>7, <2>8, <2>9
<1>19. TotalsCoverLive'
  <2>1. /\ Resent' = ResentOf(flows') /\ Reordered' = ReorderedOf(flows')
        /\ Timed' = TimedOf(flows') /\ Identified' = IdentifiedOf(flows')
        /\ Keys' \ Identified' = UnknownOf(flows')
    BY Zenon DEF Resent, Reordered, Timed, Identified, ResentOf, ReorderedOf, TimedOf,
          IdentifiedOf, UnknownOf, Retransmits, OutOfOrder, Samples, Keys
  <2>2. /\ totals.retransmits >= Total(ResentOf(flows))
        /\ totals.out_of_order >= Total(ReorderedOf(flows))
        /\ totals.rtt_samples >= Total(TimedOf(flows))
        /\ totals.retransmits + totals.out_of_order <= totals.data_segments
    BY CurrentTotals DEF IInv, TotalsCoverLive
  <2>3. /\ totals.retransmits \in Nat /\ totals.out_of_order \in Nat
        /\ totals.data_segments \in Nat /\ totals.rtt_samples \in Nat
    BY DEF IInv, TableShape
  <2>4. /\ totals'.retransmits \in Nat /\ totals'.out_of_order \in Nat
        /\ totals'.data_segments \in Nat /\ totals'.rtt_samples \in Nat
    BY <1>15 DEF TableShape
  <2>5. /\ totals'.retransmits >= Total(ResentOf(flows'))
        /\ totals'.out_of_order >= Total(ReorderedOf(flows'))
        /\ totals'.rtt_samples >= Total(TimedOf(flows'))
    BY <1>15, <1>16, <2>2, <2>3, <2>4
  <2>6. totals'.retransmits + totals'.out_of_order <= totals'.data_segments
    BY <1>15, <2>2, <2>3, <2>4
  <2>7. Cardinality(Identified') \in Nat /\ Total(app_counts') \in Nat
    BY <1>14, <1>15, <2>1, TableWeights
  <2>8. Total(app_counts') >= Cardinality(Identified')
    BY <1>17, <2>1, <2>7
  <2> QED  BY <1>18, <2>1, <2>5, <2>6, <2>8 DEF TotalsCoverLive
<1> QED  BY <1>10, <1>11, <1>12, <1>13, <1>15, <1>19 DEF IInv

\* Flows leave the table and nothing else changes: those that have been idle for too long.
LEMMA ExpireKeeps ==
  ASSUME IInv, Expire
  PROVE  IInv'
<1>1. PICK kept \in SUBSET Keys :
        flows' = Restrict(flows, kept) /\ arrivals' = Restrict(arrivals, kept)
  BY Zenon DEF Expire
<1>2. UNCHANGED <<traffic, next_id, totals, app_counts, last_ts, captured>>
  BY DEF Expire
<1>3. /\ Keys' = kept /\ DOMAIN arrivals' = kept
      /\ \A k \in kept : flows'[k] = flows[k] /\ arrivals'[k] = arrivals[k]
  BY <1>1 DEF Restrict, Keys
<1>4. IsFiniteSet(kept) /\ Cardinality(kept) <= max_flows
  <2>1. IsFiniteSet(Keys) /\ Cardinality(Keys) <= max_flows
    BY DEF IInv, TableShape
  <2>2. IsFiniteSet(kept) /\ Cardinality(kept) <= Cardinality(Keys)
    BY <2>1, FS_Subset
  <2>3. Cardinality(kept) \in Nat /\ Cardinality(Keys) \in Nat /\ max_flows \in Nat
    BY <2>1, <2>2, FS_CardinalityType, FlowTableAssumption
  <2> QED  BY <2>1, <2>2, <2>3
<1>5. TableShape'
  BY <1>2, <1>3, <1>4 DEF IInv, TableShape
<1>6. Entries'
  BY <1>1, <1>3 DEF IInv, Entries
<1>7. OwnIds'
  BY <1>1, <1>2, <1>3 DEF IInv, OwnIds
<1>8. Arrived'
  BY <1>1, <1>2, <1>3 DEF IInv, Arrived
<1>9. Clock'
  BY <1>1, <1>2, <1>3 DEF IInv, Clock
<1>10. TotalsCoverLive'
  <2>1. /\ Resent' = ResentOf(flows') /\ Reordered' = ReorderedOf(flows')
        /\ Timed' = TimedOf(flows') /\ Identified' = IdentifiedOf(flows')
        /\ Keys' \ Identified' = UnknownOf(flows')
    BY Zenon DEF Resent, Reordered, Timed, Identified, ResentOf, ReorderedOf, TimedOf,
          IdentifiedOf, UnknownOf, Retransmits, OutOfOrder, Samples, Keys
  <2>2. WellFormed(flows)
    BY DEF IInv, TableShape, Entries, EntryOK, WellFormed, Keys
  <2>3. PICK t, u : t = flows /\ u = flows'
    OBVIOUS
  <2>4. WellFormed(t) /\ DOMAIN u \subseteq DOMAIN t /\ \A k \in DOMAIN u : u[k] = t[k]
    BY <1>1, <1>3, <2>2, <2>3 DEF Keys
  <2>5. /\ WellFormed(u)
        /\ Total(ResentOf(u)) <= Total(ResentOf(t)) /\ Total(ResentOf(t)) \in Nat
        /\ Total(ReorderedOf(u)) <= Total(ReorderedOf(t)) /\ Total(ReorderedOf(t)) \in Nat
        /\ Total(TimedOf(u)) <= Total(TimedOf(t)) /\ Total(TimedOf(t)) \in Nat
        /\ Cardinality(IdentifiedOf(u)) <= Cardinality(IdentifiedOf(t))
        /\ Cardinality(UnknownOf(u)) <= Cardinality(UnknownOf(t))
    BY <2>4, PartOfTable
  <2>6. /\ Weights(ResentOf(u)) /\ Weights(ReorderedOf(u)) /\ Weights(TimedOf(u))
        /\ Cardinality(IdentifiedOf(u)) \in Nat /\ Cardinality(IdentifiedOf(t)) \in Nat
        /\ Cardinality(UnknownOf(u)) \in Nat /\ Cardinality(UnknownOf(t)) \in Nat
    BY <2>4, <2>5, TableWeights
  <2>7. Total(ResentOf(u)) \in Nat /\ Total(ReorderedOf(u)) \in Nat /\ Total(TimedOf(u)) \in Nat
    BY <2>6, TotalOfPart
  <2>8. /\ totals.retransmits >= Total(ResentOf(t))
        /\ totals.out_of_order >= Total(ReorderedOf(t))
        /\ totals.rtt_samples >= Total(TimedOf(t))
        /\ totals.retransmits + totals.out_of_order <= totals.data_segments
        /\ Total(app_counts) >= Cardinality(IdentifiedOf(t))
        /\ Total(app_counts) + Cardinality(UnknownOf(t)) <= next_id
    BY <2>3, CurrentTotals DEF IInv, TotalsCoverLive
  <2>9. /\ totals.retransmits \in Nat /\ totals.out_of_order \in Nat
        /\ totals.rtt_samples \in Nat /\ Total(app_counts) \in Nat /\ next_id \in Nat
    BY CountsTotal DEF IInv, TableShape, Named
  <2>10. /\ totals.retransmits >= Total(ResentOf(u))
         /\ totals.out_of_order >= Total(ReorderedOf(u))
         /\ totals.rtt_samples >= Total(TimedOf(u))
         /\ Total(app_counts) >= Cardinality(IdentifiedOf(u))
         /\ Total(app_counts) + Cardinality(UnknownOf(u)) <= next_id
    BY <2>5, <2>6, <2>7, <2>8, <2>9
  <2> QED  BY <1>2, <2>1, <2>3, <2>8, <2>10 DEF TotalsCoverLive
<1> QED  BY <1>5, <1>6, <1>7, <1>8, <1>9, <1>10 DEF IInv

\* The empty table and its counts.
LEMMA EmptyTable ==
  /\ DOMAIN Empty = {} /\ NoCounts \in [Named -> Nat] /\ IsFiniteSet({})
  /\ Cardinality({}) = 0 /\ Cardinality({}) <= max_flows /\ Total(NoCounts) = 0
<1>1. Cardinality({}) = 0 /\ IsFiniteSet({})
  BY FS_EmptySet
<1>2. max_flows \in Nat
  BY FlowTableAssumption
<1>3. DOMAIN Empty = {} /\ NoCounts \in [Named -> Nat] /\ \A a \in Named : NoCounts[a] = 0
  BY DEF Empty, NoCounts, Named
<1>4. Total(NoCounts) = 0
  <2>1. Weights(NoCounts)
    BY <1>3, CountsTotal
  <2>2. PICK w : w = NoCounts
    OBVIOUS
  <2>3. IsFiniteSet(DOMAIN w) /\ \A a \in DOMAIN w : w[a] = 0
    BY <1>3, <2>1, <2>2 DEF Weights
  <2> QED  BY <2>2, <2>3, TotalOfZeros
<1> QED  BY <1>1, <1>2, <1>3, <1>4

\* A total over nothing.
LEMMA TotalOfNothing ==
  ASSUME NEW w, DOMAIN w = {}
  PROVE  Total(w) = 0
<1>1. Weights(w)
  BY FS_EmptySet DEF Weights
<1>2. PICK f : Summed(f, w, DOMAIN w) /\ Total(w) = f[DOMAIN w]
  BY <1>1, TotalIsSum
<1> QED  BY <1>2 DEF Summed, SumsOf

\* The totals of the empty table are covered.
LEMMA EmptyCovered ==
  ASSUME Keys = {}, TableShape, app_counts = NoCounts,
         totals.retransmits + totals.out_of_order <= totals.data_segments
  PROVE  TotalsCoverLive
<1>1. DOMAIN Resent = {} /\ DOMAIN Reordered = {} /\ DOMAIN Timed = {} /\ Identified = {}
  BY DEF Resent, Reordered, Timed, Identified
<1>2. Total(Resent) = 0 /\ Total(Reordered) = 0 /\ Total(Timed) = 0
  BY <1>1, TotalOfNothing
<1>3. Cardinality(Identified) = 0 /\ Cardinality(Keys \ Identified) = 0
  <2>1. Keys \ Identified = {}
    OBVIOUS
  <2> QED  BY <1>1, <2>1, EmptyTable
<1>4. Total(app_counts) = 0
  BY EmptyTable
<1> QED  BY <1>2, <1>3, <1>4 DEF TotalsCoverLive, TableShape

\* clear empties the table.
LEMMA ClearKeeps ==
  ASSUME IInv, Clear
  PROVE  IInv'
<1>1. /\ Keys' = {} /\ DOMAIN arrivals' = {}
      /\ app_counts' \in [Named -> Nat] /\ app_counts' = NoCounts
  BY EmptyTable DEF Clear, Keys
<1>2. UNCHANGED <<traffic, next_id, totals, last_ts, captured>>
  BY DEF Clear
<1>3. TableShape'
  BY <1>1, <1>2, EmptyTable DEF IInv, TableShape, Named
<1>4. Entries' /\ OwnIds' /\ Arrived' /\ Clock'
  BY <1>1 DEF Entries, OwnIds, Arrived, Clock
<1>5. TotalsCoverLive'
  <2>1. /\ DOMAIN Resent' = {} /\ DOMAIN Reordered' = {} /\ DOMAIN Timed' = {}
        /\ Identified' = {}
    BY <1>1 DEF Resent, Reordered, Timed, Identified
  <2>2. Total(Resent') = 0 /\ Total(Reordered') = 0 /\ Total(Timed') = 0
    BY <2>1, TotalOfNothing
  <2>3. Cardinality(Identified') = 0 /\ Cardinality(Keys' \ Identified') = 0
    <3>1. Keys' \ Identified' = {}
      BY <1>1
    <3> QED  BY <2>1, <3>1, EmptyTable
  <2>4. Total(app_counts') = 0
    BY <1>1, EmptyTable
  <2> QED  BY <1>2, <2>2, <2>3, <2>4 DEF IInv, TableShape, TotalsCoverLive
<1> QED  BY <1>3, <1>4, <1>5 DEF IInv

\* A packet is captured.
LEMMA ConsumeKeeps ==
  ASSUME IInv, NEW q \in traffic.packets, NEW t \in traffic.times, Consume(q, t)
  PROVE  IInv'
<1>1. PICK p : p = Join(q, [ts |-> t, len |-> Len(q.data)])
  OBVIOUS
<1>2. q \in DecodedPackets /\ t \in Nat
  BY FlowTableAssumption DEF IInv, TableShape
<1>3. Stamped(p) /\ p.ts = t
  BY <1>1, <1>2, StampedPacket
<1>4. /\ captured' = captured + 1 /\ last_ts' = p.ts /\ UNCHANGED traffic
      /\ StepBack \/ p.ts >= last_ts
  BY <1>3, Zenon DEF Consume
<1>5. CASE p.ip
  <2>1. update(p)
    BY <1>1, <1>5, Zenon DEF Consume
  <2> QED  BY <1>3, <1>4, <2>1, UpdateKeeps
<1>6. CASE ~p.ip
  <2>1. UNCHANGED <<flows, next_id, totals, app_counts, arrivals>>
    BY <1>1, <1>6, Zenon DEF Consume
  <2>2. captured \in Nat /\ last_ts \in Nat /\ p.ts \in Nat
    BY <1>2, <1>3 DEF IInv, TableShape
  <2>3. TableShape'
    BY <1>4, <2>1, <2>2 DEF IInv, TableShape, Keys
  <2>4. Entries' /\ OwnIds'
    BY <2>1 DEF IInv, Entries, OwnIds, Keys
  <2>5. Arrived'
    BY <1>4, <2>1, <2>2 DEF IInv, Arrived, Keys
  <2>6. Clock'
    <3>1. \A k \in Keys : flows[k].last_seen \in Nat
      BY DEF IInv, Entries, EntryOK
    <3> QED  BY <1>4, <2>1, <2>2, <3>1 DEF IInv, Clock, Keys
  <2>7. TotalsCoverLive'
    BY <2>1 DEF IInv, TotalsCoverLive, Resent, Reordered, Timed, Identified, Keys
  <2> QED  BY <2>3, <2>4, <2>5, <2>6, <2>7 DEF IInv
<1> QED  BY <1>5, <1>6

-----------------------------------------------------------------------------
(* The theorems.                                                           *)

\* The invariant holds throughout: initially, over every packet, every expiry and every reset.
THEOREM Invariance == Spec => []IInv
<1>1. Init => IInv
  <2>1. SUFFICES ASSUME Init PROVE IInv
    OBVIOUS
  <2>2. Keys = {} /\ DOMAIN arrivals = {}
    BY <2>1, EmptyTable DEF Init, Keys
  <2>3. TableShape
    BY <2>1, <2>2, EmptyTable DEF Init, TableShape, Named
  <2>4. Entries /\ OwnIds /\ Arrived /\ Clock
    BY <2>2 DEF Entries, OwnIds, Arrived, Clock
  <2>5. TotalsCoverLive
    <3>1. totals.retransmits + totals.out_of_order <= totals.data_segments
      BY <2>1 DEF Init
    <3>2. app_counts = NoCounts
      BY <2>1 DEF Init
    <3> QED  BY <2>2, <2>3, <3>1, <3>2, EmptyCovered
  <2> QED  BY <2>3, <2>4, <2>5 DEF IInv
<1>2. IInv /\ [Next]_vars => IInv'
  <2>1. SUFFICES ASSUME IInv, [Next]_vars PROVE IInv'
    OBVIOUS
  <2>2. CASE \E q \in traffic.packets, t \in traffic.times : Consume(q, t)
    BY <2>1, <2>2, ConsumeKeeps
  <2>3. CASE Expire
    BY <2>1, <2>3, ExpireKeeps
  <2>4. CASE Clear
    BY <2>1, <2>4, ClearKeeps
  <2>5. CASE UNCHANGED vars
    BY <2>1, <2>5 DEF vars, IInv, TableShape, Entries, OwnIds, Arrived, Clock, TotalsCoverLive,
          Resent, Reordered, Timed, Identified, Keys
  <2> QED  BY <2>1, <2>2, <2>3, <2>4, <2>5 DEF Next
<1> QED  BY <1>1, <1>2, PTL DEF Spec

\* The table never holds more than max_flows flows, each a well-typed one under a well-typed key,
\* whatever is captured (FlowTable::update makes room before it inserts).
THEOREM TypeCorrect == Spec => []TypeOK
<1>1. IInv => TypeOK
  <2>1. SUFFICES ASSUME IInv PROVE TypeOK
    OBVIOUS
  <2>2. \A k \in Keys : EntryOK(k, flows[k])
    BY <2>1 DEF IInv, Entries
  <2>3. Keys \subseteq FlowKey
    BY <2>2 DEF EntryOK
  <2>4. \A k \in Keys : flows[k].state \in TcpStates /\ flows[k].app.proto \in AppProtocols
    BY <2>2 DEF EntryOK, FlowShape, AppInfos
  <2> QED  BY <2>1, <2>3, <2>4 DEF IInv, TableShape, Arrived, TypeOK
<1> QED  BY <1>1, Invariance, PTL

\* make_flow_key gives both directions of a conversation one entry, and next_id_ gives every
\* flow an id of its own, also when flows are evicted, expired and cleared in between.
THEOREM OneEntry == Spec => []OneEntryPerConversation
<1>1. IInv => OneEntryPerConversation
  <2>1. SUFFICES ASSUME IInv PROVE OneEntryPerConversation
    OBVIOUS
  <2>2. \A k \in Keys : k \in FlowKey /\ Canonical(k)
    BY <2>1 DEF IInv, Entries, EntryOK
  <2>3. \A k, j \in Keys :
          k.proto = j.proto /\ {<<k.a, k.port_a>>, <<k.b, k.port_b>>}
                                 = {<<j.a, j.port_a>>, <<j.b, j.port_b>>} => k = j
    BY <2>2, CanonicalKeys
  <2> QED  BY <2>1, <2>3 DEF IInv, OwnIds, OneEntryPerConversation
<1> QED  BY <1>1, Invariance, PTL

\* A flow never keeps a reassembler that is full, none holds more than max_buffered bytes out of
\* order, and a conclusive flow keeps at most one (reassemble_and_dissect).
THEOREM BuffersAreBounded == Spec => []BuffersBounded
<1>1. IInv => BuffersBounded
  <2>1. SUFFICES ASSUME IInv, NEW k \in Keys
                 PROVE  /\ \A d \in Dirs : flows[k].dir[d].stream # NoStream =>
                             /\ ~saturated(flows[k].dir[d].stream)
                             /\ flows[k].dir[d].stream.buffered_bytes <= max_buffered
                        /\ flows[k].app.conclusive =>
                             \E d \in Dirs : flows[k].dir[d].stream = NoStream
    BY DEF BuffersBounded
  <2>2. FlowShape(flows[k]) /\ Released(flows[k], k.proto)
    BY <2>1 DEF IInv, Entries, EntryOK
  <2>3. \A d \in Dirs : StreamOK(flows[k].dir[d].stream)
    BY <2>2 DEF FlowShape, DirOK
  <2>4. \A s \in Budgeted(STRING) : s.buffered_bytes <= max_buffered
    BY DEF Budgeted
  <2> QED  BY <2>2, <2>3, <2>4 DEF StreamOK, Released
<1> QED  BY <1>1, Invariance, PTL

\* The totals the dashboard shows are never below what its flow list adds up to: every counter of
\* a flow is added to its total by the packet that raises it, and no flow takes it away.
THEOREM TotalsCover == Spec => []TotalsCoverLive
<1>1. IInv => TotalsCoverLive
  BY DEF IInv
<1> QED  BY <1>1, Invariance, PTL

\* A packet displaces at most one flow, only from a full table, and, where the clock does not
\* step back, the one whose last packet came longest ago (the scan over last_seen in
\* FlowTable::update).
THEOREM LeastRecentEvicted ==
  ASSUME ~StepBack
  PROVE  Spec => EvictsLeastRecent
<1> DEFINE Evicts == captured' # captured =>
             \A k \in Keys \ DOMAIN flows' :
               /\ Keys \ DOMAIN flows' = {k} /\ Cardinality(Keys) = max_flows
               /\ \A j \in Keys \cap DOMAIN flows' :
                    arrivals[k] < arrivals[j] \/ flows[k].last_seen = flows[j].last_seen
<1>1. IInv /\ [Next]_vars => [Evicts]_vars
  <2>1. SUFFICES ASSUME IInv, Next, captured' # captured, NEW k \in Keys \ Keys'
                 PROVE  /\ Keys \ Keys' = {k} /\ Cardinality(Keys) = max_flows
                        /\ \A j \in Keys \cap Keys' :
                             arrivals[k] < arrivals[j] \/ flows[k].last_seen = flows[j].last_seen
    BY DEF Keys
  <2>2. PICK q \in traffic.packets, t \in traffic.times : Consume(q, t)
    BY <2>1 DEF Next, Expire, Clear
  <2>3. PICK p : p = Join(q, [ts |-> t, len |-> Len(q.data)])
    OBVIOUS
  <2>4. update(p)
    <3>1. CASE p.ip
      BY <2>2, <2>3, <3>1, Zenon DEF Consume
    <3>2. CASE ~p.ip
      <4>1. UNCHANGED flows
        BY <2>2, <2>3, <3>2, Zenon DEF Consume
      <4> QED  BY <2>1, <4>1 DEF Keys
    <3> QED  BY <3>1, <3>2
  <2>5. Stamped(p)
    <3>1. q \in DecodedPackets /\ t \in Nat
      BY <2>1, <2>2, FlowTableAssumption DEF IInv, TableShape
    <3> QED  BY <2>3, <3>1, StampedPacket
  <2>6. /\ Keys \ Keys' = {k} /\ Cardinality(Keys) = max_flows
        /\ \A j \in Keys : flows[k].last_seen <= flows[j].last_seen
    <3>1. PICK key, old, new :
            /\ key = make_flow_key(p)
            /\ old = IF key \in Keys THEN flows[key] ELSE new_flow(p, next_id + 1)
            /\ new = update_flow(old, p)
      OBVIOUS
    <3> QED  BY <2>1, <2>4, <2>5, <3>1, UpdateParts
  <2>7. ASSUME NEW j \in Keys
        PROVE  /\ arrivals[j] <= arrivals[k] => flows[j].last_seen <= flows[k].last_seen
               /\ arrivals[j] \in Nat /\ arrivals[k] \in Nat
               /\ flows[j].last_seen \in Nat /\ flows[k].last_seen \in Nat
    <3>1. k \in Keys
      OBVIOUS
    <3> QED  BY <2>1, <3>1 DEF IInv, Clock, Arrived, Entries, EntryOK
  <2>8. \A j \in Keys \cap Keys' :
          arrivals[k] < arrivals[j] \/ flows[k].last_seen = flows[j].last_seen
    BY <2>6, <2>7
  <2> QED  BY <2>6, <2>8
<1>2. Spec => []IInv
  BY Invariance
<1>3. Spec => [][Evicts]_vars
  BY <1>1, <1>2, PTL DEF Spec
<1> QED  BY <1>3 DEF EvictsLeastRecent
=============================================================================
