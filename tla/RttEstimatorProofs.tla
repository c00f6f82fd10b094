------------------------- MODULE RttEstimatorProofs -------------------------
(***************************************************************************)
(* Proofs about FlowTable::track_rtt: for every number of segments, every  *)
(* pattern of repeats and every way the capture clock may move.  What      *)
(* counts as a retransmission is decided by track_sequence, so the         *)
(* client's direction is shown to be a stream of SequenceTracker and the   *)
(* lemmas about that component are used for it.                            *)
(***************************************************************************)
EXTENDS RttEstimator, SegmentLemmas

\* The client as a sender of one-byte segments, in the terms of SequenceTracker.
Client == [segs |-> {<<x, 1>> : x \in Positions}, captures |-> 0]
Sent == {<<x, 1>> : x \in {y \in Positions : copies[y] > 0}}
ClientMark == IF client.seq_valid THEN SeqDiff(client.next_seq, Isn) ELSE -1

T == INSTANCE SequenceTrackerProofs WITH
  StreamLen <- Segments, Senders <- {Client}, from <- Client, dir <- client,
  data_segments <- 0, high <- ClientMark, captured <- Sent, missing <- {}

-----------------------------------------------------------------------------
(* The inductive invariant.                                                *)

Waiting == [end : SeqNums, ts : 0 .. MaxTime]

\* RttStats: once there is a sample, the estimate lies between the extremes.
RttOK(rtt) ==
  /\ rtt \in [samples : Nat, min_ms : Int, max_ms : Int, last_ms : Int,
              srtt_num : Int, srtt_den : Nat \ {0}]
  /\ rtt.samples > 0 =>
       /\ rtt.min_ms * rtt.srtt_den <= rtt.srtt_num
       /\ rtt.srtt_num <= rtt.max_ms * rtt.srtt_den
       /\ rtt.min_ms <= rtt.last_ms /\ rtt.last_ms <= rtt.max_ms
       /\ 0 <= rtt.min_ms /\ rtt.max_ms <= MaxPlausibleMs

\* A direction: at least the fields that track_sequence and track_rtt use.
DirShape(d) ==
  /\ {"retransmits", "out_of_order", "seq_valid", "next_seq", "recent_segments", "holes",
      "awaiting_ack", "rtt"} \subseteq DOMAIN d
  /\ d.awaiting_ack \in Seq(Waiting) /\ Len(d.awaiting_ack) <= kMaxAwaitingAck
  /\ RttOK(d.rtt)

FlowShape(f) ==
  /\ {"handshake_rtt_ms", "syn_ts", "syn_seen", "dir"} \subseteq DOMAIN f
  /\ f.handshake_rtt_ms \in Int /\ f.syn_ts \in 0 .. MaxTime /\ f.syn_seen \in BOOLEAN
  /\ DOMAIN f.dir = Dirs
  /\ \A d \in Dirs : DirShape(f.dir[d])

Histories ==
  /\ total_rtt_samples \in Nat /\ now \in 0 .. MaxTime /\ steady \in BOOLEAN
  /\ copies \in [Positions -> Nat] /\ first \in [Positions -> 0 .. MaxTime]

\* The server sends no data, so nothing of it waits for an acknowledgement.
ServerIdle == flow.dir["rev"].awaiting_ack = << >>

\* What waits is a captured segment with the time of its first capture, once.
Originals(q, cop, fst) ==
  /\ \A i \in 1 .. Len(q) :
       \E x \in Positions : q[i].end = SeqAt(x + 1) /\ cop[x] > 0 /\ q[i].ts = fst[x]
  /\ \A i, j \in 1 .. Len(q) : q[i].end = q[j].end => i = j

\* While the clock is steady every delay is plausible.
SteadyClock ==
  steady =>
    /\ 0 <= now /\ now <= MaxPlausibleMs
    /\ flow.syn_ts <= now
    /\ \A i \in 1 .. Len(client.awaiting_ack) : client.awaiting_ack[i].ts <= now

IInv ==
  /\ FlowShape(flow)
  /\ Histories
  /\ ServerIdle
  /\ Originals(client.awaiting_ack, copies, first)
  /\ SteadyClock
  /\ SamplesCounted
  /\ T!Tracking

-----------------------------------------------------------------------------
(* The client's direction as a stream of SequenceTracker.                  *)

\* The client's segments meet the assumption of SequenceTracker on streams.
LEMMA StreamIsTracked ==
  /\ Isn \in T!SeqNums
  /\ Segments \in Nat /\ Segments + 1 < HalfSpace
  /\ \A sender \in {Client} :
       /\ sender.captures \in Nat
       /\ \A s \in sender.segs : s[1] \in Nat /\ s[2] \in Nat \ {0} /\ s[1] + s[2] <= Segments
<1>1. Isn \in T!SeqNums
  BY EstimatorAssumption DEF T!SeqNums, SeqNums, T!SeqSpace, SeqSpace
<1>2. Client.captures \in Nat
  BY DEF Client
<1>3. ASSUME NEW s \in Client.segs
      PROVE  s[1] \in Nat /\ s[2] \in Nat \ {0} /\ s[1] + s[2] <= Segments
  <2>1. PICK x \in Positions : s = <<x, 1>>
    BY DEF Client
  <2> QED  BY <2>1, EstimatorAssumption DEF Positions
<1> QED  BY <1>1, <1>2, <1>3, EstimatorAssumption

\* The operators of the instance are those of this specification.
LEMMA SameArithmetic ==
  /\ T!SeqNums = SeqNums
  /\ \A a, b : T!SeqAdd(a, b) = SeqAdd(a, b)
  /\ \A a, b : T!SeqDiff(a, b) = SeqDiff(a, b)
  /\ \A x : T!SeqAt(x) = SeqAt(x)
<1>1. T!SeqNums = SeqNums
  BY DEF T!SeqNums, SeqNums, T!SeqSpace, SeqSpace
<1>2. ASSUME NEW a, NEW b
      PROVE  T!SeqAdd(a, b) = SeqAdd(a, b) /\ T!SeqDiff(a, b) = SeqDiff(a, b)
  BY DEF T!SeqAdd, SeqAdd, T!SeqDiff, SeqDiff, T!SeqSpace, SeqSpace
<1>3. ASSUME NEW x PROVE T!SeqAt(x) = SeqAt(x)
  BY <1>2 DEF T!SeqAt, SeqAt
<1> QED  BY <1>1, <1>2, <1>3, Zenon

\* The verdict on a segment and the update of the direction are the same, too.
LEMMA SameTracker ==
  ASSUME NEW d, NEW p
  PROVE  /\ T!is_retransmit(T!classify(d, p)) = is_retransmit(classify(d, p))
         /\ T!track_sequence(d, p) = track_sequence(d, p)
<1>1. /\ T!seg_end(p) = seg_end(p) /\ T!fingerprint(p) = fingerprint(p)
      /\ T!holes_hit(d, p) = holes_hit(d, p)
  BY DEF T!seg_end, seg_end, T!fingerprint, fingerprint, T!holes_hit, holes_hit,
         T!ranges_overlap, ranges_overlap, T!seq_lt, seq_lt, T!SeqAdd, SeqAdd,
         T!SeqDiff, SeqDiff, T!SeqSpace, SeqSpace
<1>2. T!classify(d, p) = classify(d, p)
  BY <1>1 DEF T!classify, classify, T!fills_known_hole, fills_known_hole, T!Contains, Contains,
         T!seq_le, seq_le, T!seq_gt, seq_gt, T!seq_lt, seq_lt, T!SeqDiff, SeqDiff,
         T!SeqSpace, SeqSpace
<1>3. T!filled_holes(d, p) = filled_holes(d, p)
  BY <1>1 DEF T!filled_holes, filled_holes, T!Min, Min, T!RemoveAt, RemoveAt,
         T!seq_le, seq_le, T!seq_lt, seq_lt, T!SeqDiff, SeqDiff, T!SeqSpace, SeqSpace
<1>4. T!track_data(d, p) = track_data(d, p)
  BY <1>1, <1>2, <1>3 DEF T!track_data, track_data, T!Increment, Increment,
         T!is_retransmit, is_retransmit, T!is_out_of_order, is_out_of_order,
         T!push_bounded, push_bounded, T!skipped, skipped
<1>5. T!track_control(d, p) = track_control(d, p)
  BY DEF T!track_control, track_control, T!SeqAdd, SeqAdd, T!seq_gt, seq_gt,
         T!seq_lt, seq_lt, T!SeqDiff, SeqDiff, T!SeqSpace, SeqSpace
<1> QED  BY <1>2, <1>4, <1>5 DEF T!track_sequence, track_sequence, T!is_retransmit, is_retransmit

\* track_sequence leaves the fields of track_rtt alone.
LEMMA TrackKeeps ==
  ASSUME NEW d, DirShape(d), NEW p
  PROVE  /\ DOMAIN track_sequence(d, p) = DOMAIN d
         /\ track_sequence(d, p).awaiting_ack = d.awaiting_ack
         /\ track_sequence(d, p).rtt = d.rtt
<1>1. PICK a, b, c, e, g, h :
        track_data(d, p) =
          [d EXCEPT !.retransmits = a, !.out_of_order = b, !.seq_valid = c,
                    !.next_seq = e, !.holes = g, !.recent_segments = h]
  BY Zenon DEF track_data
<1>2. PICK u, v : track_control(d, p) = [d EXCEPT !.seq_valid = u, !.next_seq = v]
  BY Zenon DEF track_control
<1>3. CASE p.len = 0
  BY <1>2, <1>3 DEF track_sequence, DirShape
<1>4. CASE p.len # 0
  BY <1>1, <1>4 DEF track_sequence, DirShape
<1> QED  BY <1>3, <1>4

-----------------------------------------------------------------------------
(* RttStats::add.                                                          *)

\* Multiplication with a positive number keeps the order.
LEMMA ScaleKeepsOrder ==
  ASSUME NEW a \in Int, NEW b \in Int, NEW c \in Nat, a <= b
  PROVE  a * c <= b * c
<1>1. (b - a) * c >= 0
  OBVIOUS
<1>2. (b - a) * c = b * c - a * c
  OBVIOUS
<1>3. PICK u \in Int, v \in Int : u = a * c /\ v = b * c
  OBVIOUS
<1> QED  BY <1>1, <1>2, <1>3

\* 7/8 of an estimate and 1/8 of a sample lie between bounds of both.
LEMMA Smoothing ==
  ASSUME NEW lo \in Int, NEW hi \in Int, NEW ms \in Int, NEW num \in Int, NEW den \in Nat,
         lo * den <= num, num <= hi * den, lo <= ms, ms <= hi
  PROVE  /\ lo * (8 * den) <= 7 * num + ms * den
         /\ 7 * num + ms * den <= hi * (8 * den)
<1>1. lo * den <= ms * den /\ ms * den <= hi * den
  BY ScaleKeepsOrder
<1>2. lo * (8 * den) = 8 * (lo * den) /\ hi * (8 * den) = 8 * (hi * den)
  OBVIOUS
<1>3. PICK a \in Int, b \in Int, c \in Int : a = lo * den /\ b = ms * den /\ c = hi * den
  OBVIOUS
<1>4. a <= b /\ b <= c /\ a <= num /\ num <= c
  BY <1>1, <1>3, Zenon
<1>5. 8 * a <= 7 * num + b /\ 7 * num + b <= 8 * c
  BY <1>3, <1>4
<1> QED  BY <1>2, <1>3, <1>5, Zenon

\* A sample within the bounds keeps the estimate between the extremes and is counted;
\* another one changes nothing.
LEMMA AddKeeps ==
  ASSUME NEW rtt, RttOK(rtt), NEW ms \in Int
  PROVE  /\ RttOK(add(rtt, ms))
         /\ plausible(ms) => add(rtt, ms).samples = rtt.samples + 1
         /\ ~plausible(ms) => add(rtt, ms) = rtt
<1>1. CASE ~plausible(ms)
  BY <1>1 DEF add
<1>2. CASE plausible(ms) /\ rtt.samples = 0
  <2>1. add(rtt, ms) = [samples |-> 1, min_ms |-> ms, max_ms |-> ms, last_ms |-> ms,
                        srtt_num |-> ms, srtt_den |-> 1]
    BY <1>2 DEF add
  <2> QED  BY <1>2, <2>1, RttAssumption DEF RttOK, plausible
<1>3. CASE plausible(ms) /\ rtt.samples # 0
  <2>1. PICK n \in Nat, lo \in Int, hi \in Int, num \in Int, den \in Nat \ {0} :
          /\ n = rtt.samples /\ lo = rtt.min_ms /\ hi = rtt.max_ms
          /\ num = rtt.srtt_num /\ den = rtt.srtt_den
    BY DEF RttOK
  <2>2. PICK l \in Int, h \in Int :
          /\ l = (IF ms < lo THEN ms ELSE lo) /\ h = (IF ms > hi THEN ms ELSE hi)
    BY <2>1
  <2>3. add(rtt, ms) = [samples |-> n + 1, min_ms |-> l, max_ms |-> h, last_ms |-> ms,
                        srtt_num |-> 7 * num + ms * den, srtt_den |-> 8 * den]
    BY <1>3, <2>1, <2>2, Zenon DEF add, smoothed
  <2>4. /\ lo * den <= num /\ num <= hi * den /\ 0 <= lo /\ hi <= MaxPlausibleMs
    <3>1. rtt.samples > 0
      BY <1>3 DEF RttOK
    <3> QED  BY <2>1, <3>1, Zenon DEF RttOK
  <2>5. /\ l <= ms /\ ms <= h /\ l <= lo /\ hi <= h /\ 0 <= l /\ h <= MaxPlausibleMs
    BY <1>3, <2>2, <2>4, RttAssumption DEF plausible
  <2>6. l * den <= num /\ num <= h * den
    <3>1. l * den <= lo * den /\ hi * den <= h * den
      BY <2>5, ScaleKeepsOrder
    <3>2. PICK a \in Int, b \in Int, c \in Int, d \in Int :
            a = l * den /\ b = lo * den /\ c = hi * den /\ d = h * den
      OBVIOUS
    <3>3. a <= b /\ c <= d /\ b <= num /\ num <= c
      BY <2>4, <3>1, <3>2, Zenon
    <3>4. a <= num /\ num <= d
      BY <3>2, <3>3
    <3> QED  BY <3>2, <3>4, Zenon
  <2>7. l * (8 * den) <= 7 * num + ms * den /\ 7 * num + ms * den <= h * (8 * den)
    BY <2>5, <2>6, Smoothing
  <2>8. PICK u \in Int, v \in Nat \ {0} : u = 7 * num + ms * den /\ v = 8 * den
    OBVIOUS
  <2>9. add(rtt, ms) = [samples |-> n + 1, min_ms |-> l, max_ms |-> h, last_ms |-> ms,
                        srtt_num |-> u, srtt_den |-> v]
    BY <2>3, <2>8, Zenon
  <2>10. l * v <= u /\ u <= h * v
    BY <2>7, <2>8, Zenon
  <2>11. PICK r : r = add(rtt, ms)
    OBVIOUS
  <2>12. /\ r \in [samples : Nat, min_ms : Int, max_ms : Int, last_ms : Int,
                   srtt_num : Int, srtt_den : Nat \ {0}]
         /\ r.samples = n + 1 /\ r.min_ms = l /\ r.max_ms = h /\ r.last_ms = ms
         /\ r.srtt_num = u /\ r.srtt_den = v
    BY <2>1, <2>2, <2>8, <2>9, <2>11
  <2>13. RttOK(r)
    BY <2>5, <2>10, <2>12, Zenon DEF RttOK
  <2> QED  BY <1>3, <2>1, <2>11, <2>12, <2>13, Zenon
<1> QED  BY <1>1, <1>2, <1>3

-----------------------------------------------------------------------------
(* The queue of unacknowledged segments.                                   *)

\* A non-empty set of numbers below a bound has a greatest element, so that Max is one.
LEMMA MaxIsElement ==
  ASSUME NEW n \in Nat, NEW S \in SUBSET (0 .. n), S # {}
  PROVE  Max(S) \in S
<1> DEFINE R == {n - y : y \in S}
<1>1. R \in SUBSET Nat /\ R # {}
  <2>1. \A y \in S : y \in 0 .. n /\ n - y \in Nat
    OBVIOUS
  <2>2. R \subseteq Nat
    BY <2>1, Zenon
  <2>3. R # {}
    OBVIOUS
  <2> QED  BY <2>2, <2>3
<1>2. PICK x \in R : \A y \in R : ~(<<y, x>> \in OpToRel(<, Nat))
  BY <1>1, NatLessThanWellFounded, WFMin
<1>3. \A y \in R : x =< y
  <2>1. \A y \in Nat : y < x => <<y, x>> \in OpToRel(<, Nat)
    BY <1>1 DEF OpToRel
  <2>2. \A y \in R : ~(y < x)
    BY <1>1, <1>2, <2>1, Zenon
  <2> QED  BY <1>1, <2>2
<1>4. PICK m \in S : x = n - m
  OBVIOUS
<1>5. \A y \in S : m >= y
  <2> SUFFICES ASSUME NEW y \in S PROVE m >= y
    OBVIOUS
  <2>1. n - y \in R
    OBVIOUS
  <2>2. x <= n - y
    BY <1>3, <2>1
  <2> QED  BY <1>4, <2>2
<1> QED  BY <1>5 DEF Max

\* A packet acknowledges some number of segments at the front of the queue.
LEMMA RetiredRange ==
  ASSUME NEW q \in Seq(Waiting), NEW p
  PROVE  /\ retired(q, p) \in 0 .. Len(q)
         /\ "ACK" \notin p.flags => retired(q, p) = 0
<1>1. Len(q) \in Nat
  BY LenProperties
<1> DEFINE S == {n \in 0 .. Len(q) : \A i \in 1 .. n : seq_le(q[i].end, p.ack)}
<1>2. S \in SUBSET (0 .. Len(q)) /\ 0 \in S
  BY <1>1
<1>3. Max(S) \in S
  BY <1>1, <1>2, MaxIsElement
<1> QED  BY <1>1, <1>2, <1>3 DEF retired

\* An acknowledgement takes segments from the front of the queue and times the first.
LEMMA RetireEffect ==
  ASSUME NEW d, DirShape(d), NEW p, p.ts \in Int
  PROVE  /\ DOMAIN retire(d, p) = DOMAIN d
         /\ retired(d.awaiting_ack, p) = 0 => retire(d, p) = d
         /\ \E k \in 0 .. Len(d.awaiting_ack) :
              /\ k = retired(d.awaiting_ack, p)
              /\ retire(d, p).awaiting_ack \in Seq(Waiting)
              /\ Len(retire(d, p).awaiting_ack) = Len(d.awaiting_ack) - k
              /\ \A i \in 1 .. Len(d.awaiting_ack) - k :
                   retire(d, p).awaiting_ack[i] = d.awaiting_ack[i + k]
              /\ k > 0 => retire(d, p).rtt = add(d.rtt, p.ts - d.awaiting_ack[1].ts)
         /\ \A f \in {"retransmits", "out_of_order", "seq_valid", "next_seq",
                      "recent_segments", "holes"} : retire(d, p)[f] = d[f]
<1>1. PICK q \in Seq(Waiting) : q = d.awaiting_ack
  BY DEF DirShape
<1>2. PICK k \in 0 .. Len(q) : k = retired(q, p)
  BY RetiredRange
<1>3. Len(q) \in Nat
  BY LenProperties
<1>4. CASE k = 0
  <2>1. retire(d, p) = d
    BY <1>1, <1>2, <1>4 DEF retire
  <2> QED  BY <1>1, <1>2, <1>3, <1>4, <2>1
<1>5. CASE k > 0
  <2>1. PICK r, s : r = SubSeq(q, k + 1, Len(q)) /\ s = add(d.rtt, p.ts - q[1].ts)
    OBVIOUS
  <2>2. retire(d, p) = [d EXCEPT !.awaiting_ack = r, !.rtt = s]
    BY <1>1, <1>2, <1>5, <2>1 DEF retire
  <2>3. /\ r \in Seq(Waiting) /\ Len(r) = Len(q) - k
        /\ \A i \in 1 .. Len(q) - k : r[i] = q[i + k]
    <3>1. k + 1 \in Int /\ Len(q) \in Int /\ \A i \in k + 1 .. Len(q) : q[i] \in Waiting
      BY <1>3, ElementOfSeq
    <3>2. /\ SubSeq(q, k + 1, Len(q)) \in Seq(Waiting)
          /\ Len(SubSeq(q, k + 1, Len(q)))
               = IF k + 1 <= Len(q) THEN Len(q) - (k + 1) + 1 ELSE 0
          /\ \A i \in 1 .. Len(q) - (k + 1) + 1 :
               SubSeq(q, k + 1, Len(q))[i] = q[(k + 1) + i - 1]
      BY <3>1, SubSeqProperties
    <3> QED  BY <1>3, <2>1, <3>2
  <2>4. /\ DOMAIN retire(d, p) = DOMAIN d
        /\ retire(d, p).awaiting_ack = r /\ retire(d, p).rtt = s
        /\ \A f \in {"retransmits", "out_of_order", "seq_valid", "next_seq",
                     "recent_segments", "holes"} : retire(d, p)[f] = d[f]
    BY <2>2 DEF DirShape
  <2>5. retired(d.awaiting_ack, p) # 0
    BY <1>1, <1>2, <1>5
  <2>6. k > 0 => retire(d, p).rtt = add(d.rtt, p.ts - d.awaiting_ack[1].ts)
    BY <1>1, <2>1, <2>4, Zenon
  <2> QED  BY <1>1, <1>2, <2>1, <2>3, <2>4, <2>5, <2>6, Zenon
<1> QED  BY <1>2, <1>4, <1>5

\* What a data segment leaves in the queue: the segment itself at the end, and the
\* queue shifted by one if it was full.
LEMMA PushWaiting ==
  ASSUME NEW q \in Seq(Waiting), Len(q) <= kMaxAwaitingAck, NEW w \in Waiting
  PROVE  \E r \in Seq(Waiting), k \in {0, 1} :
           /\ r = push_bounded(q, w, kMaxAwaitingAck)
           /\ Len(r) <= kMaxAwaitingAck /\ Len(r) = Len(q) + 1 - k
           /\ r[Len(q) + 1 - k] = w
           /\ \A i \in 1 .. Len(q) - k : r[i] = q[i + k]
<1>1. PICK r : r = push_bounded(q, w, kMaxAwaitingAck)
  OBVIOUS
<1>2. r = T!push_bounded(q, w, kMaxAwaitingAck)
  BY <1>1 DEF push_bounded, T!push_bounded
<1>3. kMaxAwaitingAck \in Nat \ {0}
  BY RttAssumption
<1>4. /\ r \in Seq(Waiting) /\ Len(r) <= kMaxAwaitingAck
      /\ \E k \in {0, 1} :
           /\ Len(r) = Len(q) + 1 - k /\ r[Len(q) + 1 - k] = w
           /\ \A i \in 1 .. Len(q) - k : r[i] = q[i + k]
  BY <1>2, <1>3, T!PushBounded, StreamIsTracked, HalfSpaceAssumption, ReassemblyAssumption,
     SequenceTrackingAssumption
<1> QED  BY <1>1, <1>4, Zenon

\* The effect of a packet of direction d on the flow record.
AfterPacket(p, d) ==
  /\ DOMAIN flow' = DOMAIN flow /\ DOMAIN flow'.dir = Dirs
  /\ flow'.dir[d] = [track_sequence(flow.dir[d], p) EXCEPT
                       !.awaiting_ack = remember(flow.dir[d].awaiting_ack, p,
                                                 is_retransmit(classify(flow.dir[d], p)))]
  /\ flow'.dir[Peer(d)] = retire(flow.dir[Peer(d)], p)
  /\ flow'.handshake_rtt_ms = IF ~starts_timer(p) /\ times_handshake(flow, p)
                              THEN p.ts - flow.syn_ts ELSE flow.handshake_rtt_ms
  /\ flow'.syn_ts = IF starts_timer(p) THEN p.ts ELSE flow.syn_ts
  /\ flow'.syn_seen = IF starts_timer(p) THEN TRUE ELSE flow.syn_seen
  /\ total_rtt_samples' = total_rtt_samples + Bit(times_handshake(flow, p))
                            + Bit(retired(flow.dir[Peer(d)].awaiting_ack, p) # 0)

\* FlowTable::update, the sequence and RTT part: the sender's direction is tracked and
\* queued, the peer's queue is acknowledged.
LEMMA CapturedEffect ==
  ASSUME FlowShape(flow), Histories, NEW d \in Dirs, NEW p, Captured(p, d)
  PROVE  AfterPacket(p, d)
<1>1. PICK t, r, o : /\ t = track_sequence(flow.dir[d], p)
                     /\ r = is_retransmit(classify(flow.dir[d], p))
                     /\ o = flow.dir[Peer(d)]
  OBVIOUS
<1>2. Peer(d) \in Dirs /\ Peer(d) # d /\ Dirs = {d, Peer(d)}
  BY DEF Dirs, Peer
<1>3. PICK g : g = [flow EXCEPT !.dir = [flow.dir EXCEPT ![d] = t]]
  OBVIOUS
<1>4. flow' = track_rtt(g, p, d, r)
  BY <1>1, <1>3, Zenon DEF Captured
<1>5. /\ DOMAIN g = DOMAIN flow /\ DOMAIN g.dir = Dirs
      /\ g.dir[d] = t /\ g.dir[Peer(d)] = o
      /\ g.handshake_rtt_ms = flow.handshake_rtt_ms /\ g.syn_ts = flow.syn_ts
      /\ g.syn_seen = flow.syn_seen
  BY <1>1, <1>2, <1>3 DEF FlowShape
<1>6. PICK h : h = track_handshake(g, p)
  OBVIOUS
<1>7. times_handshake(g, p) = times_handshake(flow, p)
  BY <1>5, Zenon DEF times_handshake
<1>8. /\ DOMAIN h = DOMAIN flow /\ h.dir = g.dir
      /\ h.handshake_rtt_ms = IF ~starts_timer(p) /\ times_handshake(flow, p)
                              THEN p.ts - flow.syn_ts ELSE flow.handshake_rtt_ms
      /\ h.syn_ts = IF starts_timer(p) THEN p.ts ELSE flow.syn_ts
      /\ h.syn_seen = IF starts_timer(p) THEN TRUE ELSE flow.syn_seen
  <2>1. CASE starts_timer(p)
    BY <1>5, <1>6, <2>1 DEF track_handshake, FlowShape
  <2>2. CASE ~starts_timer(p) /\ times_handshake(flow, p)
    BY <1>5, <1>6, <1>7, <2>2 DEF track_handshake, FlowShape
  <2>3. CASE ~starts_timer(p) /\ ~times_handshake(flow, p)
    BY <1>5, <1>6, <1>7, <2>3 DEF track_handshake
  <2> QED  BY <2>1, <2>2, <2>3
<1>9. PICK a, b, ds : /\ a = [t EXCEPT !.awaiting_ack = remember(t.awaiting_ack, p, r)]
                      /\ b = retire(o, p)
                      /\ ds = [[g.dir EXCEPT ![d] = a] EXCEPT ![Peer(d)] = b]
  OBVIOUS
<1>10. flow' = [h EXCEPT !.dir = ds]
  <2>1. flow' = [h EXCEPT !.dir = [g.dir EXCEPT ![d].awaiting_ack = remember(@, p, r),
                                                ![Peer(d)] = retire(@, p)]]
    BY <1>4, <1>6, Zenon DEF track_rtt
  <2>2. [g.dir EXCEPT ![d].awaiting_ack = remember(@, p, r), ![Peer(d)] = retire(@, p)] = ds
    BY <1>2, <1>5, <1>9
  <2> QED  BY <2>1, <2>2, Zenon
<1>11. DOMAIN ds = Dirs /\ ds[d] = a /\ ds[Peer(d)] = b
  BY <1>2, <1>5, <1>8, <1>9
<1>12. /\ DOMAIN flow' = DOMAIN h /\ flow'.dir = ds
       /\ flow'.handshake_rtt_ms = h.handshake_rtt_ms /\ flow'.syn_ts = h.syn_ts
       /\ flow'.syn_seen = h.syn_seen
  BY <1>8, <1>10 DEF FlowShape
<1>13. t.awaiting_ack = flow.dir[d].awaiting_ack
  BY <1>1, TrackKeeps DEF FlowShape
<1>14. total_rtt_samples' = total_rtt_samples + Bit(times_handshake(flow, p))
                              + Bit(retired(flow.dir[Peer(d)].awaiting_ack, p) # 0)
  <2>1. PICK x \in Nat, y \in Nat :
          /\ x = Bit(times_handshake(flow, p))
          /\ y = Bit(retired(flow.dir[Peer(d)].awaiting_ack, p) # 0)
    BY DEF Bit
  <2>2. total_rtt_samples' = total_rtt_samples + (x + y)
    BY <2>1, Zenon DEF Captured, rtt_samples_taken
  <2>3. total_rtt_samples' = total_rtt_samples + x + y
    BY <2>2 DEF Histories
  <2> QED  BY <2>1, <2>3, Zenon
<1>15. /\ flow'.dir[d] = [track_sequence(flow.dir[d], p) EXCEPT
                            !.awaiting_ack = remember(flow.dir[d].awaiting_ack, p,
                                                 is_retransmit(classify(flow.dir[d], p)))]
       /\ flow'.dir[Peer(d)] = retire(flow.dir[Peer(d)], p)
  BY <1>1, <1>9, <1>11, <1>12, <1>13, Zenon
<1> QED  BY <1>8, <1>11, <1>12, <1>14, <1>15, Zenon DEF AfterPacket

-----------------------------------------------------------------------------
(* The two directions after a packet.                                      *)

\* The sender's direction d after packet p, with the queue q.
IsSender(e, d, p, q) == e = [track_sequence(d, p) EXCEPT !.awaiting_ack = q]

\* The sender's direction: only the fields of track_sequence and the queue change.
LEMMA SenderKeeps ==
  ASSUME NEW d, DirShape(d), NEW p, NEW q \in Seq(Waiting), Len(q) <= kMaxAwaitingAck,
         NEW e, IsSender(e, d, p, q)
  PROVE  /\ DirShape(e) /\ e.awaiting_ack = q /\ e.rtt = d.rtt
         /\ T!Agree(e, T!track_sequence(d, p))
<1>1. PICK t : t = track_sequence(d, p)
  OBVIOUS
<1>2. DOMAIN t = DOMAIN d /\ t.awaiting_ack = d.awaiting_ack /\ t.rtt = d.rtt
  BY <1>1, TrackKeeps
<1>3. {"retransmits", "out_of_order", "seq_valid", "next_seq", "recent_segments", "holes",
       "awaiting_ack", "rtt"} \subseteq DOMAIN t
  BY <1>2 DEF DirShape
<1>4. /\ DOMAIN e = DOMAIN t /\ e.awaiting_ack = q /\ e.rtt = t.rtt
      /\ e.retransmits = t.retransmits /\ e.out_of_order = t.out_of_order
      /\ e.seq_valid = t.seq_valid /\ e.next_seq = t.next_seq
      /\ e.recent_segments = t.recent_segments /\ e.holes = t.holes
  BY <1>1, <1>3 DEF IsSender
<1>5. T!track_sequence(d, p) = t
  BY <1>1, SameTracker
<1> QED  BY <1>2, <1>3, <1>4, <1>5 DEF DirShape, T!Agree

\* A segment without data leaves the sender's queue alone.
SenderKept(e, d, p) ==
  /\ DirShape(e) /\ e.awaiting_ack = d.awaiting_ack /\ e.rtt = d.rtt
  /\ T!Agree(e, T!track_sequence(d, p))

\* It is only tracked.
LEMMA ControlSender ==
  ASSUME NEW d, DirShape(d), NEW p, p.len = 0, NEW r, NEW e,
         IsSender(e, d, p, remember(d.awaiting_ack, p, r))
  PROVE  SenderKept(e, d, p)
<1>1. PICK q \in Seq(Waiting) : q = d.awaiting_ack /\ Len(q) <= kMaxAwaitingAck
  BY DEF DirShape
<1>2. remember(d.awaiting_ack, p, r) = q
  BY <1>1 DEF remember
<1>3. IsSender(e, d, p, q)
  BY <1>2
<1> QED  BY <1>1, <1>3, SenderKeeps DEF SenderKept

\* The receiver's direction: only the queue and the estimate change.
LEMMA ReceiverKeeps ==
  ASSUME NEW d, DirShape(d), NEW p, p.ts \in Int, NEW e, e = retire(d, p)
  PROVE  DirShape(e) /\ T!Agree(e, d)
<1>1. /\ DOMAIN e = DOMAIN d
      /\ \A f \in {"retransmits", "out_of_order", "seq_valid", "next_seq",
                   "recent_segments", "holes"} : e[f] = d[f]
  BY RetireEffect
<1>2. T!Agree(e, d)
  BY <1>1 DEF DirShape, T!Agree
<1>3. PICK k \in 0 .. Len(d.awaiting_ack) :
        /\ k = retired(d.awaiting_ack, p)
        /\ e.awaiting_ack \in Seq(Waiting)
        /\ Len(e.awaiting_ack) = Len(d.awaiting_ack) - k
        /\ k > 0 => e.rtt = add(d.rtt, p.ts - d.awaiting_ack[1].ts)
  BY RetireEffect
<1>4. d.awaiting_ack \in Seq(Waiting) /\ Len(d.awaiting_ack) \in Nat
  BY LenProperties DEF DirShape
<1>5. Len(e.awaiting_ack) <= kMaxAwaitingAck
  BY <1>3, <1>4, RttAssumption DEF DirShape
<1>6. RttOK(e.rtt)
  <2>1. CASE k = 0
    <3>1. e = d
      BY <1>3, <2>1, RetireEffect
    <3> QED  BY <3>1 DEF DirShape
  <2>2. CASE k > 0
    <3>1. d.awaiting_ack[1] \in Waiting
      BY <1>3, <1>4, <2>2, ElementOfSeq
    <3>2. p.ts - d.awaiting_ack[1].ts \in Int
      BY <3>1 DEF Waiting
    <3> QED  BY <1>3, <2>2, <3>2, AddKeeps DEF DirShape
  <2> QED  BY <1>3, <2>1, <2>2
<1> QED  BY <1>1, <1>2, <1>3, <1>5, <1>6 DEF DirShape

\* The parts of the invariant that only a packet with data disturbs.
LEMMA SameHistory ==
  ASSUME UNCHANGED copies
  PROVE  Sent' = Sent /\ Client' = Client
  BY DEF Sent, Client, Positions

\* The samples of the flow after a packet of the server, while the clock is steady: the
\* handshake is timed once, and the delay of the first acknowledged segment is added.
LEMMA ServerSamples ==
  ASSUME IInv, NEW p, p.len = 0, "ACK" \in p.flags, p.ts = now, AfterPacket(p, "rev"),
         UNCHANGED <<now, steady, copies, first>>, flow'.dir["rev"].rtt = flow.dir["rev"].rtt
  PROVE  SamplesCounted'
<1> SUFFICES ASSUME steady
             PROVE  total_rtt_samples' = client'.rtt.samples + flow'.dir["rev"].rtt.samples
                                           + Bit(flow'.handshake_rtt_ms >= 0)
  BY Zenon DEF SamplesCounted
<1>1. DirShape(client) /\ "rev" \in Dirs /\ Peer("rev") = "fwd" /\ DirShape(flow.dir["rev"])
  BY DEF IInv, FlowShape, Dirs, Peer, client
<1>2. PICK q \in Seq(Waiting) : q = client.awaiting_ack
  BY <1>1 DEF DirShape
<1>3. PICK a \in Nat, b \in Nat, t \in Nat :
        /\ a = client.rtt.samples /\ b = flow.dir["rev"].rtt.samples /\ t = total_rtt_samples
  BY <1>1 DEF DirShape, RttOK, IInv, Histories
<1>4. PICK k \in 0 .. Len(q) :
        /\ k = retired(q, p)
        /\ k > 0 => client'.rtt = add(client.rtt, now - q[1].ts)
        /\ k = 0 => client'.rtt = client.rtt
  <2>1. client' = retire(client, p)
    BY <1>1, Zenon DEF AfterPacket, client
  <2>2. now \in Int
    BY EstimatorAssumption DEF IInv, Histories
  <2> QED  BY <1>1, <1>2, <2>1, <2>2, RetireEffect
<1>5. PICK h \in Int, y \in Int : h = flow.handshake_rtt_ms /\ y = flow.syn_ts
  BY EstimatorAssumption DEF IInv, FlowShape
<1>6. now \in Int /\ 0 <= now /\ now <= MaxPlausibleMs /\ 0 <= y /\ y <= now
  BY <1>5, EstimatorAssumption DEF IInv, Histories, SteadyClock, FlowShape
<1>7. client'.rtt.samples = a + Bit(k # 0)
  <2>1. CASE k = 0
    BY <1>3, <1>4, <2>1 DEF Bit
  <2>2. CASE k > 0
    <3>1. q[1] \in Waiting /\ q[1].ts <= now
      <4>1. 1 \in 1 .. Len(q)
        BY <1>2, <2>2, LenProperties
      <4> QED  BY <1>2, <4>1, ElementOfSeq DEF IInv, SteadyClock
    <3>2. now - q[1].ts \in Int /\ plausible(now - q[1].ts)
      BY <1>6, <3>1, EstimatorAssumption, RttAssumption DEF plausible, Waiting
    <3>3. client'.rtt.samples = client.rtt.samples + 1
      BY <1>1, <1>4, <2>2, <3>2, AddKeeps DEF DirShape
    <3> QED  BY <1>3, <2>2, <3>3 DEF Bit
  <2> QED  BY <1>4, <2>1, <2>2
<1>8. Bit(flow'.handshake_rtt_ms >= 0) = Bit(h >= 0) + Bit(times_handshake(flow, p))
  <2>1. ~starts_timer(p)
    BY DEF starts_timer
  <2>2. CASE times_handshake(flow, p)
    <3>1. flow'.handshake_rtt_ms = now - y /\ h < 0
      BY <1>5, <2>1, <2>2 DEF AfterPacket, times_handshake
    <3>2. flow'.handshake_rtt_ms >= 0 /\ ~(h >= 0)
      BY <1>5, <1>6, <3>1
    <3> QED  BY <2>2, <3>2 DEF Bit
  <2>3. CASE ~times_handshake(flow, p)
    <3>1. flow'.handshake_rtt_ms = h
      BY <1>5, <2>3 DEF AfterPacket
    <3>2. Bit(h >= 0) \in Nat
      BY DEF Bit
    <3> QED  BY <2>3, <3>1, <3>2 DEF Bit
  <2> QED  BY <2>2, <2>3
<1>9. t = a + b + Bit(h >= 0)
  BY <1>3, <1>5, Zenon DEF IInv, SamplesCounted
<1>10. PICK u \in Nat, v \in Nat, w \in Nat :
         u = Bit(times_handshake(flow, p)) /\ v = Bit(k # 0) /\ w = Bit(h >= 0)
  BY DEF Bit
<1>11. total_rtt_samples' = t + u + v
  BY <1>1, <1>2, <1>3, <1>4, <1>10, Zenon DEF AfterPacket, client
<1>12. client'.rtt.samples = a + v /\ flow'.dir["rev"].rtt.samples = b
       /\ Bit(flow'.handshake_rtt_ms >= 0) = w + u /\ t = a + b + w
  BY <1>3, <1>7, <1>8, <1>9, <1>10, Zenon
<1> QED  BY <1>11, <1>12

\* The flow record keeps its shape when its two directions and its times do.
LEMMA FlowKeepsShape ==
  ASSUME FlowShape(flow), NEW p, p.ts \in 0 .. MaxTime, NEW d \in Dirs, AfterPacket(p, d),
         \A e \in Dirs : DirShape(flow'.dir[e])
  PROVE  FlowShape(flow')
<1>1. p.ts \in Int /\ flow.syn_ts \in Int
  BY EstimatorAssumption DEF FlowShape
<1>2. flow'.handshake_rtt_ms \in Int /\ flow'.syn_ts \in 0 .. MaxTime
  BY <1>1 DEF FlowShape, AfterPacket
<1>3. flow'.syn_seen \in BOOLEAN
  BY Zenon DEF FlowShape, AfterPacket
<1> QED  BY <1>2, <1>3 DEF FlowShape, AfterPacket

\* Segments leave the queue from the front: what still waits waited before.
LEMMA ShorterQueue ==
  ASSUME NEW q \in Seq(Waiting), NEW r \in Seq(Waiting), NEW k \in 0 .. Len(q),
         Len(r) = Len(q) - k, \A i \in 1 .. Len(q) - k : r[i] = q[i + k],
         Originals(q, copies, first)
  PROVE  /\ Originals(r, copies, first)
         /\ \A i \in 1 .. Len(r) : \E j \in 1 .. Len(q) : r[i] = q[j]
<1>1. Len(q) \in Nat
  BY LenProperties
<1>2. \A i \in 1 .. Len(r) : i + k \in 1 .. Len(q) /\ r[i] = q[i + k]
  BY <1>1
<1>3. ASSUME NEW i \in 1 .. Len(r), NEW j \in 1 .. Len(r), r[i].end = r[j].end
      PROVE  i = j
  <2>1. i + k = j + k
    BY <1>2, <1>3 DEF Originals
  <2> QED  BY <1>1, <2>1
<1>4. \A i \in 1 .. Len(r) :
        \E x \in Positions : r[i].end = SeqAt(x + 1) /\ copies[x] > 0 /\ r[i].ts = first[x]
  BY <1>2 DEF Originals
<1> QED  BY <1>2, <1>3, <1>4, Zenon DEF Originals

\* A packet of the server: its own direction keeps an empty queue, the client's queue is
\* acknowledged, and the client's stream is tracked as before.
LEMMA ServerKeeps ==
  ASSUME IInv, NEW p, p.len = 0, "ACK" \in p.flags, p.ts = now, Captured(p, "rev"),
         UNCHANGED <<now, steady, copies, first>>
  PROVE  IInv'
<1>1. /\ DirShape(client) /\ "rev" \in Dirs /\ Peer("rev") = "fwd" /\ DirShape(flow.dir["rev"])
      /\ Dirs = {"fwd", "rev"} /\ FlowShape(flow) /\ Histories
  <2>1. FlowShape(flow) /\ Histories
    BY DEF IInv
  <2> QED  BY <2>1 DEF FlowShape, Dirs, Peer, client
<1>2. AfterPacket(p, "rev")
  BY <1>1, CapturedEffect
<1>3. client' = retire(client, p)
  BY <1>1, <1>2, Zenon DEF AfterPacket, client
<1>4. p.ts \in Int /\ p.ts \in 0 .. MaxTime
  BY EstimatorAssumption DEF IInv, Histories
<1>5. DirShape(client') /\ T!Agree(client', client)
  BY <1>1, <1>3, <1>4, ReceiverKeeps
<1>6. /\ DirShape(flow'.dir["rev"]) /\ flow'.dir["rev"].awaiting_ack = << >>
      /\ flow'.dir["rev"].rtt = flow.dir["rev"].rtt
  <2>1. IsSender(flow'.dir["rev"], flow.dir["rev"], p,
                 remember(flow.dir["rev"].awaiting_ack, p,
                          is_retransmit(classify(flow.dir["rev"], p))))
    BY <1>2, Zenon DEF AfterPacket, IsSender
  <2>2. SenderKept(flow'.dir["rev"], flow.dir["rev"], p)
    BY <1>1, <2>1, ControlSender
  <2> QED  BY <2>2 DEF SenderKept, IInv, ServerIdle
<1>7. FlowShape(flow')
  <2>1. \A e \in Dirs : DirShape(flow'.dir[e])
    BY <1>1, <1>5, <1>6 DEF client
  <2> QED  BY <1>1, <1>2, <1>4, <2>1, FlowKeepsShape
<1>8. Histories'
  <2>1. total_rtt_samples' \in Nat
    BY <1>1, <1>2 DEF Histories, AfterPacket, Bit
  <2> QED  BY <1>1, <2>1 DEF Histories
<1>9. PICK q \in Seq(Waiting) : q = client.awaiting_ack
  BY <1>1 DEF DirShape
<1>10. PICK r \in Seq(Waiting), k \in 0 .. Len(q) :
         /\ r = client'.awaiting_ack
         /\ Len(r) = Len(q) - k /\ \A i \in 1 .. Len(q) - k : r[i] = q[i + k]
  BY <1>1, <1>3, <1>4, <1>9, RetireEffect
<1>11. /\ Originals(r, copies, first)
       /\ \A i \in 1 .. Len(r) : \E j \in 1 .. Len(q) : r[i] = q[j]
  <2>1. Originals(q, copies, first)
    BY <1>9 DEF IInv
  <2> QED  BY <1>10, <2>1, ShorterQueue
<1>12. Originals(client.awaiting_ack, copies, first)'
  BY <1>10, <1>11 DEF Originals, Positions, SeqAt
<1>13. SteadyClock'
  <2>1. ~starts_timer(p)
    BY DEF starts_timer
  <2>2. flow'.syn_ts = flow.syn_ts
    BY <1>2, <2>1 DEF AfterPacket
  <2>3. steady => \A i \in 1 .. Len(r) : r[i].ts <= now
    BY <1>9, <1>11 DEF IInv, SteadyClock
  <2> QED  BY <1>10, <2>2, <2>3 DEF IInv, SteadyClock
<1>14. SamplesCounted'
  BY <1>2, <1>6, ServerSamples
<1>15. T!Tracking'
  <2>1. Sent' = Sent /\ Client' = Client
    BY SameHistory
  <2>2. ClientMark' = ClientMark
    BY <1>5 DEF ClientMark, T!Agree, SeqDiff, SeqSpace
  <2>3. T!Tracking
    BY DEF IInv
  <2> QED  BY <1>5, <2>1, <2>2, <2>3, T!SameTracking,
              StreamIsTracked, HalfSpaceAssumption, ReassemblyAssumption, SequenceTrackingAssumption
<1> QED  BY <1>6, <1>7, <1>8, <1>12, <1>13, <1>14, <1>15 DEF IInv, ServerIdle

-----------------------------------------------------------------------------
(* Packets of the client.                                                  *)

\* What a packet of the client leaves alone: the server's direction, which has nothing
\* to acknowledge, and the number of samples.
ClientSends(p) ==
  /\ FlowShape(flow') /\ flow'.dir["rev"] = flow.dir["rev"]
  /\ total_rtt_samples' = total_rtt_samples
  /\ flow'.handshake_rtt_ms = flow.handshake_rtt_ms
  /\ flow'.syn_ts \in {flow.syn_ts, now}

\* The server's queue is empty, and a segment that is not a SYN/ACK ends no handshake.
LEMMA ClientPacket ==
  ASSUME IInv, NEW p, p.ts = now, AfterPacket(p, "fwd"), ~({"SYN", "ACK"} \subseteq p.flags),
         DirShape(client')
  PROVE  ClientSends(p)
<1>1. FlowShape(flow) /\ Histories /\ ServerIdle
  BY DEF IInv
<1>2. /\ DirShape(flow.dir["rev"]) /\ "fwd" \in Dirs /\ Peer("fwd") = "rev"
      /\ Dirs = {"fwd", "rev"}
  BY <1>1 DEF FlowShape, Dirs, Peer
<1>3. p.ts \in Int /\ p.ts \in 0 .. MaxTime
  BY <1>1, EstimatorAssumption DEF Histories
<1>4. retired(flow.dir["rev"].awaiting_ack, p) = 0
  <2>1. PICK q \in Seq(Waiting) : q = flow.dir["rev"].awaiting_ack /\ Len(q) = 0
    BY <1>1, <1>2 DEF DirShape, ServerIdle
  <2>2. retired(q, p) \in 0 .. 0
    BY <2>1, RetiredRange
  <2> QED  BY <2>1, <2>2
<1>5. flow'.dir["rev"] = flow.dir["rev"]
  <2>1. flow'.dir["rev"] = retire(flow.dir["rev"], p)
    BY <1>2, Zenon DEF AfterPacket
  <2> QED  BY <1>2, <1>3, <1>4, <2>1, RetireEffect
<1>6. FlowShape(flow')
  <2>1. \A e \in Dirs : DirShape(flow'.dir[e])
    BY <1>2, <1>5 DEF client
  <2> QED  BY <1>1, <1>2, <1>3, <2>1, FlowKeepsShape
<1>7. ~times_handshake(flow, p)
  BY DEF times_handshake
<1>8. total_rtt_samples' = total_rtt_samples
  <2>1. total_rtt_samples' = total_rtt_samples + Bit(times_handshake(flow, p))
                               + Bit(retired(flow.dir["rev"].awaiting_ack, p) # 0)
    BY <1>2, Zenon DEF AfterPacket
  <2>2. Bit(times_handshake(flow, p)) = 0
    BY <1>7 DEF Bit
  <2>3. Bit(retired(flow.dir["rev"].awaiting_ack, p) # 0) = 0
    BY <1>4 DEF Bit
  <2> QED  BY <1>1, <2>1, <2>2, <2>3 DEF Histories
<1>9. flow'.handshake_rtt_ms = flow.handshake_rtt_ms /\ flow'.syn_ts \in {flow.syn_ts, now}
  BY <1>7, Zenon DEF AfterPacket
<1> QED  BY <1>5, <1>6, <1>8, <1>9 DEF ClientSends

\* The mark of the client's stream is read off its record.
LEMMA MarkOfClient ==
  ASSUME NEW e, T!Agree(client', e)
  PROVE  ClientMark' = T!Mark(e)
<1>1. client'.seq_valid = e.seq_valid /\ client'.next_seq = e.next_seq
  BY DEF T!Agree
<1>2. ClientMark' = IF client'.seq_valid THEN SeqDiff(client'.next_seq, Isn) ELSE -1
  BY DEF ClientMark, SeqDiff, SeqSpace
<1>3. T!Mark(e) = IF e.seq_valid THEN SeqDiff(e.next_seq, Isn) ELSE -1
  BY SameArithmetic, Zenon DEF T!Mark, T!Pos
<1> QED  BY <1>1, <1>2, <1>3

\* A SYN of the client restarts the handshake timer and is tracked.
LEMMA SynKeeps ==
  ASSUME IInv, Syn
  PROVE  IInv'
<1>1. PICK p : p = Packet({"SYN"}, SeqAt(-1), 0, 0)
  OBVIOUS
<1>2. /\ p.flags = {"SYN"} /\ p.seq = SeqAt(-1) /\ p.len = 0 /\ p.ts = now
  BY <1>1 DEF Packet
<1>3. Captured(p, "fwd") /\ UNCHANGED <<now, steady, copies, first>>
  BY <1>1, Zenon DEF Syn
<1>4. FlowShape(flow) /\ Histories /\ T!Tracking
  BY DEF IInv
<1>5. "fwd" \in Dirs /\ DirShape(client)
  BY <1>4 DEF FlowShape, Dirs, client
<1>6. AfterPacket(p, "fwd")
  BY <1>3, <1>4, <1>5, CapturedEffect
<1>7. SenderKept(client', client, p)
  <2>1. IsSender(client', client, p,
                 remember(client.awaiting_ack, p, is_retransmit(classify(client, p))))
    BY <1>6, Zenon DEF AfterPacket, IsSender, client
  <2> QED  BY <1>2, <1>5, <2>1, ControlSender
<1>8. /\ DirShape(client') /\ client'.awaiting_ack = client.awaiting_ack
      /\ client'.rtt = client.rtt /\ T!Agree(client', T!track_sequence(client, p))
  BY <1>7, Zenon DEF SenderKept
<1>9. ClientSends(p)
  <2>1. ~({"SYN", "ACK"} \subseteq p.flags)
    BY <1>2
  <2> QED  BY <1>2, <1>6, <1>8, <2>1, ClientPacket
<1>10. T!Tracking'
  <2>1. Sent' = Sent /\ Client' = Client
    BY <1>3, SameHistory
  <2>2. T!IsControl(p, -1)
    <3>1. p.seq = T!SeqAt(-1)
      BY <1>2, SameArithmetic
    <3>2. p.flags \cap {"SYN", "FIN"} # {}
      BY <1>2
    <3> QED  BY <1>2, <3>1, <3>2, EstimatorAssumption DEF T!IsControl
  <2>3. ClientMark' = T!HighAfterControl(-1, p)
    <3>1. T!Mark(T!track_sequence(client, p)) = T!HighAfterControl(-1, p)
      BY <1>4, <2>2, T!ControlMark,
         StreamIsTracked, HalfSpaceAssumption, ReassemblyAssumption, SequenceTrackingAssumption
    <3> QED  BY <1>8, <3>1, MarkOfClient
  <2> QED  BY <1>4, <1>8, <2>1, <2>2, <2>3, T!ControlTracking,
              StreamIsTracked, HalfSpaceAssumption, ReassemblyAssumption, SequenceTrackingAssumption
<1>11. Histories' /\ ServerIdle' /\ SamplesCounted'
  BY <1>3, <1>4, <1>8, <1>9 DEF Histories, ClientSends, IInv, ServerIdle, SamplesCounted
<1>12. Originals(client.awaiting_ack, copies, first)'
  BY <1>3, <1>8 DEF IInv, Originals, Positions, SeqAt, SeqAdd, SeqSpace
<1>13. SteadyClock'
  <2>1. now \in Int
    BY <1>4, EstimatorAssumption DEF Histories
  <2> QED  BY <1>3, <1>8, <1>9, <2>1 DEF IInv, SteadyClock, ClientSends
<1> QED  BY <1>9, <1>10, <1>11, <1>12, <1>13 DEF IInv, ClientSends

\* The client resends segments as it first sent them.
LEMMA ClientKeepsBoundaries == T!KeepsBoundaries
<1> SUFFICES ASSUME NEW s \in Client.segs, NEW t \in Client.segs, s # t
             PROVE  T!Positions(s) \cap T!Positions(t) = {}
  BY Zenon DEF T!KeepsBoundaries
<1>1. PICK x \in Positions, y \in Positions : s = <<x, 1>> /\ t = <<y, 1>>
  BY DEF Client
<1>2. x \in Int /\ y \in Int /\ x # y
  BY <1>1, EstimatorAssumption DEF Positions
<1> QED  BY <1>1, <1>2 DEF T!Positions

\* Different segments end at different sequence numbers.
LEMMA EndsDiffer ==
  ASSUME NEW x \in Positions, NEW y \in Positions, SeqAt(x + 1) = SeqAt(y + 1)
  PROVE  x = y
<1>1. x \in Int /\ y \in Int /\ x + 1 \in 0 .. Segments + 1 /\ y + 1 \in 0 .. Segments + 1
  BY EstimatorAssumption DEF Positions
<1>2. \A z \in 0 .. Segments + 1 : T!Pos(SeqAt(z)) = z
  BY T!Positioned, SameArithmetic, StreamIsTracked, HalfSpaceAssumption, ReassemblyAssumption,
     SequenceTrackingAssumption
<1>3. x + 1 = y + 1
  BY <1>1, <1>2, Zenon
<1> QED  BY <1>1, <1>3

\* The queue after a data segment x that is not a retransmission: x was never captured
\* before, so that the new entry is the original, and the others stay what they were.
LEMMA QueueGrows ==
  ASSUME NEW x \in Positions, Histories, copies[x] = 0,
         copies' = [copies EXCEPT ![x] = @ + 1], first' = [first EXCEPT ![x] = now],
         NEW q \in Seq(Waiting), NEW r \in Seq(Waiting), NEW k \in {0, 1},
         Originals(q, copies, first), Len(r) = Len(q) + 1 - k,
         r[Len(q) + 1 - k] = [end |-> SeqAt(x + 1), ts |-> now],
         \A i \in 1 .. Len(q) - k : r[i] = q[i + k]
  PROVE  Originals(r, copies', first')
<1>1. Len(q) \in Nat
  BY LenProperties
<1>2. PICK n \in Nat : n = Len(q) + 1 - k
  <2>1. CASE k = 0  BY <1>1, <2>1
  <2>2. CASE k = 1  BY <1>1, <2>2
  <2> QED  BY <2>1, <2>2
<1>3. Len(r) = n /\ r[n].end = SeqAt(x + 1) /\ r[n].ts = now
  BY <1>2
<1>4. copies'[x] > 0 /\ first'[x] = now
  <2>1. copies \in [Positions -> Nat] /\ first \in [Positions -> 0 .. MaxTime]
    BY DEF Histories
  <2>2. copies'[x] = 0 + 1 /\ first'[x] = now
    BY <2>1, Zenon
  <2> QED  BY <2>2
<1>5. ASSUME NEW i \in 1 .. n, i # n
      PROVE  /\ i + k \in 1 .. Len(q) /\ r[i] = q[i + k]
             /\ \E y \in Positions : y # x /\ r[i].end = SeqAt(y + 1) /\ copies'[y] > 0
                                     /\ r[i].ts = first'[y]
  <2>1. i + k \in 1 .. Len(q) /\ r[i] = q[i + k]
    BY <1>1, <1>2, <1>5
  <2>2. PICK y \in Positions : r[i].end = SeqAt(y + 1) /\ copies[y] > 0 /\ r[i].ts = first[y]
    BY <2>1 DEF Originals
  <2>3. y # x
    BY <2>2
  <2>4. copies'[y] = copies[y] /\ first'[y] = first[y]
    BY <2>3 DEF Histories
  <2> QED  BY <2>1, <2>2, <2>3, <2>4
<1>6. ASSUME NEW i \in 1 .. Len(r)
      PROVE  \E y \in Positions : r[i].end = SeqAt(y + 1) /\ copies'[y] > 0 /\ r[i].ts = first'[y]
  BY <1>3, <1>4, <1>5
<1>7. ASSUME NEW i \in 1 .. Len(r), NEW j \in 1 .. Len(r), r[i].end = r[j].end
      PROVE  i = j
  <2>1. CASE i = n /\ j = n
    BY <2>1
  <2>2. CASE i # n /\ j # n
    <3>1. i + k \in 1 .. Len(q) /\ j + k \in 1 .. Len(q) /\ q[i + k].end = q[j + k].end
      BY <1>3, <1>5, <1>7, <2>2
    <3>2. i + k = j + k
      BY <3>1, Zenon DEF Originals
    <3> QED  BY <1>2, <1>3, <3>2
  <2>3. CASE i = n /\ j # n
    BY <1>3, <1>5, <1>7, <2>3, EndsDiffer
  <2>4. CASE i # n /\ j = n
    BY <1>3, <1>5, <1>7, <2>4, EndsDiffer
  <2> QED  BY <2>1, <2>2, <2>3, <2>4
<1> QED  BY <1>6, <1>7, Zenon DEF Originals

\* A retransmission is not queued and changes no first capture of a queued segment.
LEMMA QueueStays ==
  ASSUME NEW x \in Positions, Histories, copies' = [copies EXCEPT ![x] = @ + 1],
         first' = IF copies[x] = 0 THEN [first EXCEPT ![x] = now] ELSE first,
         NEW q \in Seq(Waiting), Originals(q, copies, first)
  PROVE  Originals(q, copies', first')
<1>1. ASSUME NEW y \in Positions, copies[y] > 0
      PROVE  copies'[y] > 0 /\ first'[y] = first[y]
  BY <1>1 DEF Histories
<1> QED  BY <1>1 DEF Originals

\* What a data segment of the client does to its queue.
LEMMA DataQueue ==
  ASSUME IInv, NEW x \in Positions, NEW p, p.seq = SeqAt(x), p.len = 1, p.ts = now,
         copies' = [copies EXCEPT ![x] = @ + 1],
         first' = IF copies[x] = 0 THEN [first EXCEPT ![x] = now] ELSE first
  PROVE  \E r \in Seq(Waiting) :
           /\ r = remember(client.awaiting_ack, p, is_retransmit(classify(client, p)))
           /\ Len(r) <= kMaxAwaitingAck /\ Originals(r, copies', first')
           /\ steady => \A i \in 1 .. Len(r) : r[i].ts <= now
<1>1. FlowShape(flow) /\ Histories /\ T!Tracking
  BY DEF IInv
<1>2. "fwd" \in Dirs /\ DirShape(client)
  BY <1>1 DEF FlowShape, Dirs, client
<1>3. PICK q \in Seq(Waiting) :
        /\ q = client.awaiting_ack /\ Len(q) <= kMaxAwaitingAck /\ Originals(q, copies, first)
        /\ steady => \A i \in 1 .. Len(q) : q[i].ts <= now
  BY <1>2 DEF DirShape, IInv, SteadyClock
<1>4. CASE is_retransmit(classify(client, p))
  <2>1. remember(q, p, is_retransmit(classify(client, p))) = q
    BY <1>4 DEF remember
  <2>2. Originals(q, copies', first')
    BY <1>1, <1>3, QueueStays
  <2> QED  BY <1>3, <2>1, <2>2, Zenon
<1>5. CASE ~is_retransmit(classify(client, p))
  <2>1. copies[x] = 0
    <3>1. SUFFICES ASSUME copies[x] # 0 PROVE FALSE
      OBVIOUS
    <3>2. PICK s : s = <<x, 1>>
      OBVIOUS
    <3>3. s \in Client.segs /\ s \in Sent
      <4>1. copies[x] > 0
        BY <1>1, <3>1 DEF Histories
      <4> QED  BY <3>2, <4>1 DEF Client, Sent
    <3>4. T!Carries(p, s)
      BY <3>2, SameArithmetic DEF T!Carries
    <3>5. T!is_retransmit(T!classify(client, p))
      BY <1>1, <3>3, <3>4, ClientKeepsBoundaries, T!RepeatsJudged,
         StreamIsTracked, HalfSpaceAssumption, ReassemblyAssumption, SequenceTrackingAssumption
    <3> QED  BY <1>5, <3>5, SameTracker
  <2>2. PICK w \in Waiting : w = [end |-> SeqAt(x + 1), ts |-> now]
    <3>1. x + 1 \in Int
      BY EstimatorAssumption DEF Positions
    <3>2. SeqAt(x + 1) \in SeqNums
      BY <3>1, T!Positioned, SameArithmetic, StreamIsTracked, HalfSpaceAssumption,
         ReassemblyAssumption, SequenceTrackingAssumption
    <3> QED  BY <1>1, <3>2 DEF Waiting, Histories
  <2>3. SeqAdd(p.seq, p.len) = SeqAt(x + 1)
    <3>1. x \in Int /\ 1 \in Int
      BY EstimatorAssumption DEF Positions
    <3> QED  BY <3>1, T!Positioned, SameArithmetic, StreamIsTracked, HalfSpaceAssumption,
                ReassemblyAssumption, SequenceTrackingAssumption
  <2>4. remember(q, p, is_retransmit(classify(client, p))) = push_bounded(q, w, kMaxAwaitingAck)
    <3>1. p.len > 0
      OBVIOUS
    <3> QED  BY <1>5, <2>2, <2>3, <3>1, Zenon DEF remember
  <2>5. PICK r \in Seq(Waiting), k \in {0, 1} :
           /\ r = push_bounded(q, w, kMaxAwaitingAck)
           /\ Len(r) <= kMaxAwaitingAck /\ Len(r) = Len(q) + 1 - k
           /\ r[Len(q) + 1 - k] = w
           /\ \A i \in 1 .. Len(q) - k : r[i] = q[i + k]
    BY <1>3, PushWaiting
  <2>6. Originals(r, copies', first')
    <3>1. first' = [first EXCEPT ![x] = now]
      BY <2>1
    <3>2. r[Len(q) + 1 - k] = [end |-> SeqAt(x + 1), ts |-> now]
      BY <2>2, <2>5, Zenon
    <3>3. Len(r) = Len(q) + 1 - k /\ \A i \in 1 .. Len(q) - k : r[i] = q[i + k]
      BY <2>5
    <3> QED  BY <1>1, <1>3, <2>1, <3>1, <3>2, <3>3, QueueGrows
  <2>7. steady => \A i \in 1 .. Len(r) : r[i].ts <= now
    <3>1. Len(q) \in Nat /\ now \in Int
      BY <1>1, LenProperties, EstimatorAssumption DEF Histories
    <3>2. ASSUME steady, NEW i \in 1 .. Len(r) PROVE r[i].ts <= now
      <4>1. CASE i = Len(q) + 1 - k
        BY <2>2, <2>5, <3>1, <4>1
      <4>2. CASE i # Len(q) + 1 - k
        <5>1. i \in 1 .. Len(q) - k /\ i + k \in 1 .. Len(q)
          BY <2>5, <3>1, <4>2
        <5> QED  BY <1>3, <2>5, <3>2, <5>1
      <4> QED  BY <4>1, <4>2
    <3> QED  BY <3>2
  <2> QED  BY <1>3, <2>4, <2>5, <2>6, <2>7, Zenon
<1> QED  BY <1>4, <1>5

\* A data segment of the client, sent for the first time or again.
LEMMA DataKeeps ==
  ASSUME IInv, NEW x \in Positions, Data(x)
  PROVE  IInv'
<1>1. PICK p : p = Packet({"ACK"}, SeqAt(x), ServerIsn + 1, 1)
  OBVIOUS
<1>2. /\ p.flags = {"ACK"} /\ p.seq = SeqAt(x) /\ p.len = 1 /\ p.ts = now
  BY <1>1 DEF Packet
<1>3. /\ Captured(p, "fwd") /\ now' = now /\ steady' = steady
      /\ copies' = [copies EXCEPT ![x] = @ + 1]
      /\ first' = IF copies[x] = 0 THEN [first EXCEPT ![x] = now] ELSE first
  BY <1>1, Zenon DEF Data
<1>4. FlowShape(flow) /\ Histories /\ T!Tracking
  BY DEF IInv
<1>5. "fwd" \in Dirs /\ DirShape(client)
  BY <1>4 DEF FlowShape, Dirs, client
<1>6. AfterPacket(p, "fwd")
  BY <1>3, <1>4, <1>5, CapturedEffect
<1>7. PICK r \in Seq(Waiting) :
        /\ r = remember(client.awaiting_ack, p, is_retransmit(classify(client, p)))
        /\ Len(r) <= kMaxAwaitingAck /\ Originals(r, copies', first')
        /\ steady => \A i \in 1 .. Len(r) : r[i].ts <= now
  BY <1>2, <1>3, DataQueue
<1>8. /\ DirShape(client') /\ client'.awaiting_ack = r
      /\ client'.rtt = client.rtt /\ T!Agree(client', T!track_sequence(client, p))
  <2>1. IsSender(client', client, p, r)
    BY <1>6, <1>7, Zenon DEF AfterPacket, IsSender, client
  <2>2. r \in Seq(Waiting) /\ Len(r) <= kMaxAwaitingAck
    BY <1>7
  <2> QED  BY <1>5, <2>1, <2>2, SenderKeeps
<1>9. ClientSends(p)
  <2>1. ~({"SYN", "ACK"} \subseteq p.flags)
    BY <1>2
  <2> QED  BY <1>2, <1>6, <1>8, <2>1, ClientPacket
<1>10. /\ copies \in [Positions -> Nat] /\ first \in [Positions -> 0 .. MaxTime]
       /\ now \in 0 .. MaxTime
  BY <1>4 DEF Histories
<1>11. T!Tracking'
  <2>1. PICK s : s = <<x, 1>>
    OBVIOUS
  <2>2. s \in Client.segs /\ T!Carries(p, s)
    BY <1>2, <2>1, SameArithmetic DEF Client, T!Carries
  <2>3. Client' = Client
    BY DEF Client, Positions
  <2>4. Sent' = Sent \cup {s}
    <3>1. \A y \in Positions : copies'[y] > 0 <=> copies[y] > 0 \/ y = x
      BY <1>3, <1>10
    <3> QED  BY <2>1, <3>1 DEF Sent, Positions
  <2>5. ClientMark' = T!HighAfter(s)
    <3>1. T!Mark(T!track_sequence(client, p)) = T!HighAfter(s)
      BY <1>4, <2>2, T!DataMark,
         StreamIsTracked, HalfSpaceAssumption, ReassemblyAssumption, SequenceTrackingAssumption
    <3> QED  BY <1>8, <3>1, MarkOfClient
  <2> QED  BY <1>4, <1>8, <2>2, <2>3, <2>4, <2>5, T!DataTracking,
              StreamIsTracked, HalfSpaceAssumption, ReassemblyAssumption, SequenceTrackingAssumption
<1>12. Histories'
  <2>1. copies' \in [Positions -> Nat] /\ first' \in [Positions -> 0 .. MaxTime]
    BY <1>3, <1>10
  <2>2. total_rtt_samples' \in Nat /\ now' \in 0 .. MaxTime /\ steady' \in BOOLEAN
    BY <1>3, <1>4, <1>9 DEF Histories, ClientSends
  <2> QED  BY <2>1, <2>2 DEF Histories, Positions
<1>13. ServerIdle' /\ SamplesCounted'
  BY <1>3, <1>8, <1>9 DEF ClientSends, IInv, ServerIdle, SamplesCounted
<1>14. Originals(client.awaiting_ack, copies, first)'
  BY <1>7, <1>8 DEF Originals, Positions, SeqAt, SeqAdd, SeqSpace
<1>15. SteadyClock'
  <2>1. now \in Int
    BY <1>10, EstimatorAssumption
  <2> QED  BY <1>3, <1>7, <1>8, <1>9, <2>1 DEF IInv, SteadyClock, ClientSends
<1> QED  BY <1>9, <1>11, <1>12, <1>13, <1>14, <1>15 DEF IInv, ClientSends

-----------------------------------------------------------------------------
(* The other steps.                                                        *)

\* Steps that leave the flow and the captures alone keep what is known about them.
LEMMA SameFlow ==
  ASSUME IInv, UNCHANGED <<flow, total_rtt_samples, copies, first>>
  PROVE  /\ FlowShape(flow') /\ ServerIdle' /\ T!Tracking'
         /\ Originals(client.awaiting_ack, copies, first)'
<1>1. FlowShape(flow) /\ T!Tracking /\ client' = client
  BY DEF IInv, client
<1>2. T!Tracking'
  <2>1. Sent' = Sent /\ Client' = Client
    BY SameHistory
  <2>2. DirShape(client)
    BY <1>1 DEF FlowShape, client, Dirs
  <2>3. T!Agree(client', client)
    BY <1>1, <2>2 DEF DirShape, T!Agree
  <2>4. ClientMark' = ClientMark
    BY <1>1 DEF ClientMark, SeqDiff, SeqSpace
  <2> QED  BY <1>1, <2>1, <2>3, <2>4, T!SameTracking,
              StreamIsTracked, HalfSpaceAssumption, ReassemblyAssumption, SequenceTrackingAssumption
<1>3. Originals(client.awaiting_ack, copies, first)'
  BY <1>1 DEF IInv, Originals, Positions, SeqAt, SeqAdd, SeqSpace
<1> QED  BY <1>1, <1>2, <1>3 DEF IInv, ServerIdle

\* The clock moves, forward or back; it stays steady only while it moves forward.
LEMMA TickKeeps ==
  ASSUME IInv, Tick
  PROVE  IInv'
<1>1. /\ UNCHANGED <<flow, total_rtt_samples, copies, first>> /\ now' \in 0 .. MaxTime
      /\ steady' = (steady /\ now' >= now /\ plausible(now'))
  BY DEF Tick
<1>2. /\ FlowShape(flow') /\ ServerIdle' /\ T!Tracking'
      /\ Originals(client.awaiting_ack, copies, first)'
  BY <1>1, SameFlow
<1>3. Histories /\ FlowShape(flow)
  BY DEF IInv
<1>4. Histories'
  <2>1. steady' \in BOOLEAN
    BY <1>1, Zenon
  <2> QED  BY <1>1, <1>3, <2>1 DEF Histories
<1>5. steady' => steady /\ now' >= now /\ plausible(now')
  BY <1>1, Zenon
<1>6. SamplesCounted'
  BY <1>1, <1>5 DEF IInv, SamplesCounted, client
<1>7. SteadyClock'
  <2> SUFFICES ASSUME steady' PROVE SteadyClock'
    BY DEF SteadyClock
  <2>1. now \in Int /\ now' \in Int /\ flow.syn_ts \in Int /\ now' >= now /\ plausible(now')
    BY <1>1, <1>3, <1>5, EstimatorAssumption DEF Histories, FlowShape
  <2>2. PICK q \in Seq(Waiting) :
          /\ q = client.awaiting_ack /\ q = client'.awaiting_ack
          /\ \A i \in 1 .. Len(q) : q[i].ts <= now
    <3>1. client.awaiting_ack \in Seq(Waiting) /\ client' = client
      BY <1>1, <1>3 DEF FlowShape, DirShape, client, Dirs
    <3> QED  BY <1>5, <3>1 DEF IInv, SteadyClock
  <2>3. \A i \in 1 .. Len(q) : q[i].ts \in Int
    <3>1. \A i \in 1 .. Len(q) : q[i] \in Waiting
      BY ElementOfSeq
    <3> QED  BY <3>1, EstimatorAssumption DEF Waiting
  <2>4. \A i \in 1 .. Len(q) : q[i].ts <= now'
    BY <2>1, <2>2, <2>3
  <2>5. 0 <= now' /\ now' <= MaxPlausibleMs /\ flow'.syn_ts <= now'
    BY <1>1, <1>5, <2>1, RttAssumption DEF plausible, IInv, SteadyClock
  <2> QED  BY <2>2, <2>4, <2>5 DEF SteadyClock
<1> QED  BY <1>2, <1>4, <1>6, <1>7 DEF IInv

-----------------------------------------------------------------------------
(* The initial states and the theorems.                                    *)

\* The initial states satisfy the invariant.
LEMMA InitIInv == Init => IInv
<1> SUFFICES ASSUME Init PROVE IInv
  OBVIOUS
<1>1. PICK d0, ds : /\ d0 = Join(InitSequence, InitRttDirection)
                    /\ ds = [d \in Dirs |-> d0]
                    /\ flow = Join(InitHandshake, [dir |-> ds])
  BY Zenon DEF Init
<1>2. /\ {"retransmits", "out_of_order", "seq_valid", "next_seq", "recent_segments", "holes",
          "awaiting_ack", "rtt"} \subseteq DOMAIN d0
      /\ d0.awaiting_ack = << >> /\ d0.rtt = InitRtt
      /\ T!Agree(d0, T!InitSequence)
  BY <1>1 DEF Join, InitSequence, InitRttDirection, T!Agree, T!InitSequence
<1>3. /\ {"handshake_rtt_ms", "syn_ts", "syn_seen", "dir"} \subseteq DOMAIN flow
      /\ flow.handshake_rtt_ms = -1 /\ flow.syn_ts = 0 /\ flow.syn_seen = FALSE
      /\ flow.dir = ds
  BY <1>1 DEF Join, InitHandshake
<1>4. "fwd" \in Dirs /\ "rev" \in Dirs /\ ds["fwd"] = d0 /\ ds["rev"] = d0
  BY <1>1 DEF Dirs
<1>5. client = d0 /\ flow.dir["rev"] = d0
  BY <1>3, <1>4 DEF client
<1>6. RttOK(InitRtt) /\ InitRtt.samples = 0
  BY DEF RttOK, InitRtt
<1>7. DirShape(d0)
  <2>1. << >> \in Seq(Waiting) /\ Len(<< >>) <= kMaxAwaitingAck
    BY EmptySeq, RttAssumption
  <2> QED  BY <1>2, <1>6, <2>1 DEF DirShape
<1>8. FlowShape(flow)
  <2>1. /\ flow.handshake_rtt_ms \in Int /\ flow.syn_ts \in 0 .. MaxTime
        /\ DOMAIN flow.dir = Dirs /\ \A d \in Dirs : DirShape(flow.dir[d])
    BY <1>1, <1>3, <1>7, EstimatorAssumption
  <2>2. flow.syn_seen \in BOOLEAN
    BY <1>3, Zenon
  <2> QED  BY <1>3, <2>1, <2>2 DEF FlowShape
<1>9. Histories
  BY EstimatorAssumption DEF Init, Histories
<1>10. ServerIdle /\ Originals(client.awaiting_ack, copies, first)
  BY <1>2, <1>5 DEF ServerIdle, Originals
<1>11. SteadyClock
  <2>1. Len(client.awaiting_ack) = 0
    BY <1>2, <1>5
  <2> QED  BY <1>3, <2>1, RttAssumption DEF Init, SteadyClock
<1>12. SamplesCounted
  <2>1. client.rtt.samples = 0 /\ flow.dir["rev"].rtt.samples = 0 /\ total_rtt_samples = 0
    BY <1>2, <1>5, <1>6 DEF Init
  <2>2. Bit(flow.handshake_rtt_ms >= 0) = 0
    BY <1>3 DEF Bit
  <2> QED  BY <2>1, <2>2 DEF SamplesCounted
<1>13. T!Tracking
  <2>1. Sent = {}
    BY DEF Init, Sent
  <2>2. ClientMark = -1
    BY <1>2, <1>5 DEF ClientMark, T!Agree, T!InitSequence
  <2>3. Client \in {Client} /\ T!Agree(client, T!InitSequence)
    BY <1>2, <1>5
  <2> QED  BY <2>1, <2>2, <2>3, T!InitTracking,
              StreamIsTracked, HalfSpaceAssumption, ReassemblyAssumption, SequenceTrackingAssumption
<1> QED  BY <1>8, <1>9, <1>10, <1>11, <1>12, <1>13 DEF IInv

\* Every step keeps the invariant.
LEMMA NextIInv == IInv /\ [Next]_vars => IInv'
<1> SUFFICES ASSUME IInv, [Next]_vars PROVE IInv'
  OBVIOUS
<1>1. CASE Syn
  BY <1>1, SynKeeps
<1>2. CASE SynAck
  <2>1. PICK p : p = Packet({"SYN", "ACK"}, ServerIsn, SeqAt(0), 0)
    OBVIOUS
  <2>2. p.len = 0 /\ "ACK" \in p.flags /\ p.ts = now
    BY <2>1 DEF Packet
  <2>3. Captured(p, "rev") /\ UNCHANGED <<now, steady, copies, first>>
    BY <1>2, <2>1 DEF SynAck
  <2> QED  BY <2>2, <2>3, ServerKeeps
<1>3. ASSUME NEW x \in Positions, Data(x) PROVE IInv'
  BY <1>3, DataKeeps
<1>4. ASSUME NEW x \in 0 .. Segments, Ack(x) PROVE IInv'
  <2>1. PICK p : p = Packet({"ACK"}, ServerIsn + 1, SeqAt(x), 0)
    OBVIOUS
  <2>2. p.len = 0 /\ "ACK" \in p.flags /\ p.ts = now
    BY <2>1 DEF Packet
  <2>3. Captured(p, "rev") /\ UNCHANGED <<now, steady, copies, first>>
    BY <1>4, <2>1 DEF Ack
  <2> QED  BY <2>2, <2>3, ServerKeeps
<1>5. CASE Tick
  BY <1>5, TickKeeps
<1>6. CASE UNCHANGED vars
  <2>1. UNCHANGED <<flow, total_rtt_samples, copies, first>> /\ now' = now /\ steady' = steady
    BY <1>6 DEF vars
  <2>2. /\ FlowShape(flow') /\ ServerIdle' /\ T!Tracking'
        /\ Originals(client.awaiting_ack, copies, first)'
    BY <2>1, SameFlow
  <2>3. Histories' /\ SteadyClock' /\ SamplesCounted'
    BY <2>1 DEF IInv, Histories, SteadyClock, SamplesCounted, client
  <2> QED  BY <2>2, <2>3 DEF IInv
<1> QED  BY <1>1, <1>2, <1>3, <1>4, <1>5, <1>6 DEF Next

\* IInv holds in every state that track_rtt reaches.
THEOREM Invariance == Spec => []IInv
  BY InitIInv, NextIInv, PTL DEF Spec

\* The queues of unacknowledged segments never outgrow kMaxAwaitingAck, and every
\* counter keeps its type.
THEOREM TypeCorrect == Spec => []TypeOK
<1>1. IInv => TypeOK
  BY DEF IInv, TypeOK, FlowShape, DirShape, Waiting, Histories, RttOK
<1> QED  BY <1>1, Invariance, PTL

\* The smoothed and the last round-trip time of the client's direction lie between the
\* extreme samples, none of which is negative or longer than MaxPlausibleMs, however the
\* clock moves: an estimate is never a value that was not between two measured ones.
THEOREM EstimateIsBounded == Spec => []SrttWithinSamples
<1>1. IInv => SrttWithinSamples
  <2> SUFFICES ASSUME IInv PROVE SrttWithinSamples
    OBVIOUS
  <2>1. RttOK(client.rtt)
    BY DEF IInv, FlowShape, DirShape, client, Dirs
  <2>2. PICK rtt : rtt = client.rtt
    OBVIOUS
  <2>3. ASSUME rtt.samples > 0 PROVE rtt.last_ms \in rtt.min_ms .. rtt.max_ms
    BY <2>1, <2>2, <2>3 DEF RttOK
  <2> QED  BY <2>1, <2>2, <2>3, Zenon DEF RttOK, SrttWithinSamples
<1> QED  BY <1>1, Invariance, PTL

\* Karn's rule: no sample ever starts from a retransmission, whatever the number of
\* segments, the pattern of repeats and the size of the fingerprint window.
THEOREM OnlyOriginalsAreTimed == Spec => []AwaitsOriginals
<1>1. ASSUME NEW x \in Positions PROVE SegmentEndingAt(SeqAt(x + 1)) = x
  <2>1. Isn \in Int /\ x \in Int /\ HalfSpace \in Nat /\ 0 <= x /\ x < SeqSpace
    BY EstimatorAssumption, HalfSpaceAssumption DEF Positions, SeqNums, SeqSpace
  <2>2. SeqDiff(SeqAdd(Isn, x + 1), SeqAdd(Isn, 1)) = (x + 1) - 1
    BY <2>1, DiffOfPositions
  <2> QED  BY <2>1, <2>2 DEF SegmentEndingAt, SeqAt
<1>2. IInv => AwaitsOriginals
  <2> SUFFICES ASSUME IInv PROVE AwaitsOriginals
    OBVIOUS
  <2>1. PICK q \in Seq(Waiting) : q = client.awaiting_ack
    BY DEF IInv, FlowShape, DirShape, client, Dirs
  <2>2. DOMAIN q = 1 .. Len(q) /\ Originals(q, copies, first)
    BY <2>1, LenProperties DEF IInv
  <2>3. ASSUME NEW i \in 1 .. Len(q) PROVE q[i].ts = first[SegmentEndingAt(q[i].end)]
    BY <1>1, <2>2 DEF Originals
  <2> QED  BY <2>1, <2>2, <2>3, Zenon DEF AwaitsOriginals, Originals
<1> QED  BY <1>2, Invariance, PTL

\* While the clock gives no cause for a rejection, total_rtt_samples is the number of
\* samples the flow holds, the handshake counted once however often SYN and SYN/ACK repeat.
THEOREM SamplesAreCounted == Spec => []SamplesCounted
<1>1. IInv => SamplesCounted
  BY DEF IInv
<1> QED  BY <1>1, Invariance, PTL
=============================================================================
