----------------------------- MODULE RttTracking -----------------------------
(***************************************************************************)
(* FlowTable::track_rtt and RttStats::add: round-trip samples from SYN to  *)
(* SYN/ACK and from data to its acknowledgement.  Times are whole          *)
(* milliseconds.  A flow record has at least the fields handshake_rtt_ms,  *)
(* syn_ts, syn_seen and dir, whose direction records have at least         *)
(* awaiting_ack and rtt.  srtt_ms is kept as the exact fraction            *)
(* srtt_num / srtt_den (the code rounds it to a double).                   *)
(***************************************************************************)
EXTENDS SeqArith, BoundedQueue, TcpState, FiniteSetsExt

CONSTANTS
  kMaxAwaitingAck,    \* unacknowledged segments remembered per direction (256)
  MaxPlausibleMs      \* samples above it are rejected (60000 ms)
ASSUME RttAssumption == kMaxAwaitingAck \in Nat \ {0} /\ MaxPlausibleMs \in Nat

InitRtt == [samples |-> 0, min_ms |-> 0, max_ms |-> 0, last_ms |-> 0,
            srtt_num |-> 0, srtt_den |-> 1]
InitRttDirection == [awaiting_ack |-> << >>, rtt |-> InitRtt]
InitHandshake == [handshake_rtt_ms |-> -1, syn_ts |-> 0, syn_seen |-> FALSE]

-----------------------------------------------------------------------------
(* RttStats::add                                                           *)

plausible(ms) == ms \in 0 .. MaxPlausibleMs

\* Mutant: the smoothing keeps the whole old estimate.
mut_smoothed(rtt, ms) == 8 * rtt.srtt_num + ms * rtt.srtt_den

\* Numerator of 7/8 srtt + 1/8 ms over the denominator 8 srtt_den.
smoothed(rtt, ms) == 7 * rtt.srtt_num + ms * rtt.srtt_den

add(rtt, ms) ==
  IF ~plausible(ms) THEN rtt
  ELSE IF rtt.samples = 0
  THEN [samples |-> 1, min_ms |-> ms, max_ms |-> ms, last_ms |-> ms,
        srtt_num |-> ms, srtt_den |-> 1]
  ELSE [samples  |-> rtt.samples + 1,
        min_ms   |-> IF ms < rtt.min_ms THEN ms ELSE rtt.min_ms,
        max_ms   |-> IF ms > rtt.max_ms THEN ms ELSE rtt.max_ms,
        last_ms  |-> ms,
        srtt_num |-> smoothed(rtt, ms),
        srtt_den |-> 8 * rtt.srtt_den]

-----------------------------------------------------------------------------
(* track_rtt                                                               *)

\* A SYN starts the handshake timer, again for every repeated SYN.
starts_timer(p) == "SYN" \in p.flags /\ "ACK" \notin p.flags

\* Mutant: a repeated SYN/ACK is timed again.
mut_times_handshake(flow, p) == {"SYN", "ACK"} \subseteq p.flags /\ flow.syn_seen

times_handshake(flow, p) ==
  /\ {"SYN", "ACK"} \subseteq p.flags
  /\ flow.syn_seen
  /\ flow.handshake_rtt_ms < 0

track_handshake(flow, p) ==
  IF starts_timer(p) THEN [flow EXCEPT !.syn_ts = p.ts, !.syn_seen = TRUE]
  ELSE IF times_handshake(flow, p)
  THEN [flow EXCEPT !.handshake_rtt_ms = p.ts - flow.syn_ts]
  ELSE flow

\* Mutant: retransmitted segments are recorded, too.
mut_remember(q, p, retransmit) ==
  IF p.len > 0 THEN push_bounded(q, [end |-> SeqAdd(p.seq, p.len), ts |-> p.ts],
                                 kMaxAwaitingAck)
  ELSE q

\* Data that is not a retransmission waits for its acknowledgement.
remember(q, p, retransmit) ==
  IF p.len > 0 /\ ~retransmit
  THEN push_bounded(q, [end |-> SeqAdd(p.seq, p.len), ts |-> p.ts], kMaxAwaitingAck)
  ELSE q

\* How many segments at the front of q the packet acknowledges.
retired(q, p) ==
  IF "ACK" \notin p.flags THEN 0
  ELSE Max({n \in 0 .. Len(q) : \A i \in 1 .. n : seq_le(q[i].end, p.ack)})

\* The acknowledged segments leave the queue; the first of them is timed.
retire(dir, p) ==
  LET q == dir.awaiting_ack
      n == retired(q, p)
  IN IF n = 0 THEN dir
     ELSE [dir EXCEPT !.awaiting_ack = SubSeq(q, n + 1, Len(q)),
                      !.rtt = add(@, p.ts - q[1].ts)]

track_rtt(flow, p, d, retransmit) ==
  LET dirs == [flow.dir EXCEPT ![d].awaiting_ack = remember(@, p, retransmit),
                               ![Peer(d)] = retire(@, p)]
  IN [track_handshake(flow, p) EXCEPT !.dir = dirs]

\* What one packet adds to total_rtt_samples_.  The code counts a sample also
\* when RttStats::add rejects it.
rtt_samples_taken(flow, p, d) ==
  Bit(times_handshake(flow, p)) + Bit(retired(flow.dir[Peer(d)].awaiting_ack, p) # 0)
=============================================================================
