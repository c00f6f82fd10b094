---------------------------- MODULE RttEstimator ----------------------------
(***************************************************************************)
(* Round-trip estimation on one flow.  The client (fwd) sends a SYN and    *)
(* one-byte data segments, again after a timeout; the server (rev) answers *)
(* with SYN/ACK and cumulative acknowledgements.  Every segment goes       *)
(* through track_sequence and track_rtt in the order of FlowTable::update, *)
(* so that what counts as a retransmission is the tracker's own verdict.   *)
(* The capture clock is the time stamp of the packets: it normally         *)
(* advances, and may be stepped back when the host's clock is set.         *)
(***************************************************************************)
EXTENDS SequenceTracking, RttTracking

CONSTANTS
  Isn,          \* sequence number of the client's first data byte
  Segments,     \* number of data segments of the client
  MaxCopies,    \* bound: captures of the SYN, the SYN/ACK and each segment
  MaxCaptures,  \* bound: captures of all of them together
  MaxTime,      \* bound: highest time stamp
  ClockSteps    \* how the clock may change between two packets
ASSUME EstimatorAssumption ==
  /\ Isn \in SeqNums
  /\ Segments \in Nat /\ Segments + 1 < HalfSpace
  /\ MaxCopies \in Nat /\ MaxCaptures \in Nat /\ MaxTime \in Nat
  /\ ClockSteps \subseteq Int

Positions == 0 .. Segments - 1

VARIABLES
  flow,                \* handshake timing and the two directions
  total_rtt_samples,   \* total_rtt_samples_
  now,                 \* time stamp of the next packet
  steady,              \* history: the clock gave no cause for a rejection
  syns,                \* history: SYNs captured
  synacks,             \* history: SYN/ACKs captured
  copies,              \* history: captures of each data segment
  first                \* history: time of the first capture of each segment

vars == <<flow, total_rtt_samples, now, steady, syns, synacks, copies, first>>

SeqAt(x) == SeqAdd(Isn, x)
ServerIsn == 0

Init ==
  /\ flow = Join(InitHandshake,
                 [dir |-> [d \in Dirs |-> Join(InitSequence, InitRttDirection)]])
  /\ total_rtt_samples = 0
  /\ now = 0
  /\ steady = TRUE
  /\ syns = 0
  /\ synacks = 0
  /\ copies = [x \in Positions |-> 0]
  /\ first = [x \in Positions |-> 0]

\* The sequence and RTT part of FlowTable::update for packet p of direction d.
Captured(p, d) ==
  LET tracked == [flow EXCEPT !.dir[d] = track_sequence(@, p)]
  IN /\ flow' = track_rtt(tracked, p, d, is_retransmit(classify(flow.dir[d], p)))
     /\ total_rtt_samples' = total_rtt_samples + rtt_samples_taken(flow, p, d)

Packet(f, seq, ack, len) == [flags |-> f, seq |-> seq, ack |-> ack, len |-> len, ts |-> now]

Captures == syns + synacks + MapThenSumSet(LAMBDA x : copies[x], Positions)

Syn ==
  /\ syns < MaxCopies /\ Captures < MaxCaptures
  /\ Captured(Packet({"SYN"}, SeqAt(-1), 0, 0), "fwd")
  /\ syns' = syns + 1
  /\ UNCHANGED <<now, steady, synacks, copies, first>>

SynAck ==
  /\ synacks < MaxCopies /\ Captures < MaxCaptures
  /\ Captured(Packet({"SYN", "ACK"}, ServerIsn, SeqAt(0), 0), "rev")
  /\ synacks' = synacks + 1
  /\ UNCHANGED <<now, steady, syns, copies, first>>

\* The client sends segment x, or sends it again.
Data(x) ==
  /\ copies[x] < MaxCopies /\ Captures < MaxCaptures
  /\ Captured(Packet({"ACK"}, SeqAt(x), ServerIsn + 1, 1), "fwd")
  /\ copies' = [copies EXCEPT ![x] = @ + 1]
  /\ first' = IF copies[x] = 0 THEN [first EXCEPT ![x] = now] ELSE first
  /\ UNCHANGED <<now, steady, syns, synacks>>

\* The server acknowledges the first x segments; the data passed the sniffer
\* before it reached the server.
Ack(x) ==
  /\ \A y \in Positions : y < x => copies[y] > 0
  /\ Captured(Packet({"ACK"}, ServerIsn + 1, SeqAt(x), 0), "rev")
  /\ UNCHANGED <<now, steady, syns, synacks, copies, first>>

Tick ==
  /\ \E s \in ClockSteps : now' = now + s /\ now' \in 0 .. MaxTime
  /\ steady' = (steady /\ now' >= now /\ plausible(now'))
  /\ UNCHANGED <<flow, total_rtt_samples, syns, synacks, copies, first>>

Next ==
  \/ Syn
  \/ SynAck
  \/ \E x \in Positions : Data(x)
  \/ \E x \in 0 .. Segments : Ack(x)
  \/ Tick

Spec == Init /\ [][Next]_vars
-----------------------------------------------------------------------------
client == flow.dir["fwd"]

\* Types, and awaiting_ack stays within kMaxAwaitingAck.
TypeOK ==
  /\ flow.handshake_rtt_ms \in Int
  /\ flow.syn_seen \in BOOLEAN
  /\ \A d \in Dirs :
       /\ Len(flow.dir[d].awaiting_ack) <= kMaxAwaitingAck
       /\ flow.dir[d].awaiting_ack \in Seq([end : SeqNums, ts : 0 .. MaxTime])
       /\ flow.dir[d].rtt.samples \in Nat
  /\ total_rtt_samples \in Nat

\* RttStats: the smoothed and the last RTT lie between the extreme samples,
\* and no sample is negative or longer than a minute.
SrttWithinSamples ==
  LET rtt == client.rtt IN
  rtt.samples > 0 =>
    /\ rtt.min_ms * rtt.srtt_den <= rtt.srtt_num
    /\ rtt.srtt_num <= rtt.max_ms * rtt.srtt_den
    /\ rtt.last_ms \in rtt.min_ms .. rtt.max_ms
    /\ 0 <= rtt.min_ms /\ rtt.max_ms <= MaxPlausibleMs

\* Position of the segment that ends at this sequence number.
SegmentEndingAt(n) == SeqDiff(n, SeqAt(1))

\* "Retransmitted segments are never recorded" (track_rtt): what waits for an
\* acknowledgement carries the time of its first capture, so that a sample
\* never starts from a retransmission, and no segment waits twice.
AwaitsOriginals ==
  LET q == client.awaiting_ack IN
  /\ \A i \in DOMAIN q : q[i].ts = first[SegmentEndingAt(q[i].end)]
  /\ \A i, j \in DOMAIN q : q[i].end = q[j].end => i = j

\* "mean over N samples" (the dashboard's summary): as long as the clock has
\* not gone back and no delay was implausibly long, total_rtt_samples is the
\* number of samples the flow holds, the handshake included.  track_rtt counts
\* rejected samples, too, so nothing stronger holds.
SamplesCounted ==
  steady => total_rtt_samples =
    client.rtt.samples + flow.dir["rev"].rtt.samples + Bit(flow.handshake_rtt_ms >= 0)

-----------------------------------------------------------------------------
(* A statement of the repository that the code does not keep.              *)

\* "retransmitted segments produce no samples: it is impossible to tell whether
\* the ACK answered the original or the retry" (flow.hpp): the segment at the
\* front of the queue, from which a sample is taken, was captured once only.
NoSampleIfResent ==
  [][client.rtt'.samples # client.rtt.samples =>
       copies[SegmentEndingAt(Head(client.awaiting_ack).end)] = 1]_vars
=============================================================================
