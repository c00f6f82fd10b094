----------------------- MODULE SequenceTrackerProofs -----------------------
(***************************************************************************)
(* Proofs about FlowTable::track_sequence on one direction of a flow: for  *)
(* every initial sequence number, every stream shorter than half the       *)
(* sequence space, every set of segments and every bound of the two deques.*)
(***************************************************************************)
EXTENDS SequenceWrap, SegmentLemmas

-----------------------------------------------------------------------------
(* The inductive invariant: what track_sequence keeps in sequence numbers, *)
(* stated in stream positions.                                             *)

Directions ==
  [retransmits : Nat, out_of_order : Nat, seq_valid : BOOLEAN, next_seq : SeqNums,
   recent_segments : Seq(SeqNums \X Nat), holes : Seq(Hole)]

\* Position of a sequence number.
Pos(n) == SeqDiff(n, Isn)

\* Captured segments end at or below the high-water mark; their number is finite.
CapturedBelowHigh ==
  /\ IsFiniteSet(captured)
  /\ \A s \in captured : s[1] + s[2] <= high

\* Before the first segment nothing is remembered, and only captured segments are.
Remembered ==
  /\ ~dir.seq_valid => dir.recent_segments = << >> /\ dir.holes = << >>
  /\ \A i \in 1 .. Len(dir.recent_segments) :
       \E s \in captured : dir.recent_segments[i] = <<SeqAt(s[1]), s[2]>>

\* The holes are non-empty ranges in stream order, with room between them, below top.
Ordered(hs, top) ==
  /\ \A i \in 1 .. Len(hs) : Pos(hs[i].lo) < Pos(hs[i].hi) /\ Pos(hs[i].hi) < top
  /\ \A i, j \in 1 .. Len(hs) : i < j => Pos(hs[i].hi) < Pos(hs[j].lo)

\* Each hole ends where a captured segment begins, and no captured segment touches it.
Uncaptured(hs, segs) ==
  \A i \in 1 .. Len(hs) :
    /\ \E t \in segs : t[1] = Pos(hs[i].hi)
    /\ \A s \in segs : s[1] + s[2] <= Pos(hs[i].lo) \/ Pos(hs[i].hi) <= s[1]

\* A DirectionStats record with at least the fields of InitSequence.
Shape(d) ==
  /\ {"retransmits", "out_of_order", "seq_valid", "next_seq", "recent_segments", "holes"}
       \subseteq DOMAIN d
  /\ d.retransmits \in Nat /\ d.out_of_order \in Nat
  /\ d.seq_valid \in BOOLEAN /\ d.next_seq \in SeqNums
  /\ d.recent_segments \in Seq(SeqNums \X Nat)
  /\ Len(d.recent_segments) <= kRecentSegmentWindow
  /\ d.holes \in Seq(Hole) /\ Len(d.holes) <= kMaxTrackedHoles

Tracking ==
  /\ Shape(dir)
  /\ from \in Senders /\ captured \subseteq from.segs
  /\ high \in -1 .. StreamLen + 1
  /\ NextSeqIsHighWater
  /\ CapturedBelowHigh
  /\ Remembered
  /\ Ordered(dir.holes, high)
  /\ KeepsBoundaries => Uncaptured(dir.holes, captured)

IInv == TypeOK /\ Tracking /\ RepeatsCounted

-----------------------------------------------------------------------------
(* Sequences.                                                              *)

\* A non-empty set of naturals has a least element, so that Min is one of them.
LEMMA MinIsElement ==
  ASSUME NEW S \in SUBSET Nat, S # {}
  PROVE  Min(S) \in S
<1>1. PICK x \in S : \A y \in S : ~(<<y, x>> \in OpToRel(<, Nat))
  BY NatLessThanWellFounded, WFMin
<1>2. \A y \in S : x =< y
  <2>1. \A y \in Nat : y < x => <<y, x>> \in OpToRel(<, Nat)
    BY DEF OpToRel
  <2>2. \A y \in S : ~(y < x)
    BY <1>1, <2>1, Zenon
  <2> QED  BY <2>2
<1> QED  BY <1>2 DEF Min

\* push_back and pop_front: the deque is shifted by one element if it was full.
LEMMA PushBounded ==
  ASSUME NEW S, NEW q \in Seq(S), NEW x \in S, NEW max \in Nat \ {0}, Len(q) <= max
  PROVE  /\ push_bounded(q, x, max) \in Seq(S)
         /\ Len(push_bounded(q, x, max)) <= max
         /\ \E k \in {0, 1} :
              /\ Len(push_bounded(q, x, max)) = Len(q) + 1 - k
              /\ push_bounded(q, x, max)[Len(q) + 1 - k] = x
              /\ \A i \in 1 .. Len(q) - k : push_bounded(q, x, max)[i] = q[i + k]
<1> DEFINE r == Append(q, x)
<1>1. /\ r \in Seq(S) /\ r # << >> /\ Len(r) = Len(q) + 1
      /\ \A i \in 1 .. Len(q) : r[i] = q[i]
      /\ r[Len(q) + 1] = x
  BY AppendProperties
<1>2. Len(q) \in Nat
  BY LenProperties
<1> HIDE DEF r
<1>3. CASE Len(r) > max
  <2>1. push_bounded(q, x, max) = Tail(r)
    BY <1>3 DEF push_bounded, r
  <2>2. /\ Tail(r) \in Seq(S) /\ Len(Tail(r)) = Len(r) - 1
        /\ \A i \in 1 .. Len(Tail(r)) : Tail(r)[i] = r[i + 1]
    BY <1>1, HeadTailProperties
  <2>3. /\ Len(Tail(r)) = Len(q) + 1 - 1 /\ Len(Tail(r)) <= max
        /\ Tail(r)[Len(q) + 1 - 1] = x
        /\ \A i \in 1 .. Len(q) - 1 : Tail(r)[i] = q[i + 1]
    BY <1>1, <1>2, <1>3, <2>2
  <2> QED  BY <2>1, <2>2, <2>3
<1>4. CASE Len(r) <= max
  <2>1. push_bounded(q, x, max) = r
    BY <1>1, <1>2, <1>4 DEF push_bounded, r
  <2>2. /\ Len(r) = Len(q) + 1 - 0
        /\ r[Len(q) + 1 - 0] = x
        /\ \A i \in 1 .. Len(q) - 0 : r[i] = q[i + 0]
    BY <1>1, <1>2
  <2> QED  BY <1>1, <1>4, <2>1, <2>2
<1> QED  BY <1>1, <1>2, <1>3, <1>4

\* erase: the elements behind the i-th move up.
LEMMA RemoveAtProperties ==
  ASSUME NEW S, NEW q \in Seq(S), NEW i \in 1 .. Len(q)
  PROVE  /\ RemoveAt(q, i) \in Seq(S)
         /\ Len(RemoveAt(q, i)) = Len(q) - 1
         /\ \A j \in 1 .. Len(q) - 1 :
              RemoveAt(q, i)[j] = IF j < i THEN q[j] ELSE q[j + 1]
<1>1. Len(q) \in Nat /\ \A j \in 1 .. Len(q) : q[j] \in S
  BY LenProperties, ElementOfSeq
<1>2. PICK a, b : a = SubSeq(q, 1, i - 1) /\ b = SubSeq(q, i + 1, Len(q))
  OBVIOUS
<1>3. /\ a \in Seq(S) /\ Len(a) = i - 1 /\ \A j \in 1 .. i - 1 : a[j] = q[j]
  <2>1. i - 1 \in Int /\ 1 \in Int /\ \A j \in 1 .. i - 1 : q[j] \in S
    BY <1>1
  <2>2. /\ SubSeq(q, 1, i - 1) \in Seq(S)
        /\ Len(SubSeq(q, 1, i - 1)) = IF 1 <= i - 1 THEN (i - 1) - 1 + 1 ELSE 0
        /\ \A j \in 1 .. (i - 1) - 1 + 1 : SubSeq(q, 1, i - 1)[j] = q[1 + j - 1]
    BY <2>1, SubSeqProperties
  <2> QED  BY <1>1, <1>2, <2>2
<1>4. /\ b \in Seq(S) /\ Len(b) = Len(q) - i
      /\ \A j \in 1 .. Len(q) - i : b[j] = q[i + j]
  <2>1. i + 1 \in Int /\ Len(q) \in Int /\ \A j \in i + 1 .. Len(q) : q[j] \in S
    BY <1>1
  <2>2. /\ SubSeq(q, i + 1, Len(q)) \in Seq(S)
        /\ Len(SubSeq(q, i + 1, Len(q)))
             = IF i + 1 <= Len(q) THEN Len(q) - (i + 1) + 1 ELSE 0
        /\ \A j \in 1 .. Len(q) - (i + 1) + 1 :
             SubSeq(q, i + 1, Len(q))[j] = q[(i + 1) + j - 1]
    BY <2>1, SubSeqProperties
  <2> QED  BY <1>1, <1>2, <2>2
<1>5. /\ a \o b \in Seq(S)
      /\ Len(a \o b) = Len(a) + Len(b)
      /\ \A j \in 1 .. Len(a) + Len(b) :
           (a \o b)[j] = IF j <= Len(a) THEN a[j] ELSE b[j - Len(a)]
  BY <1>3, <1>4, ConcatProperties
<1>6. RemoveAt(q, i) = a \o b
  BY <1>2, Zenon DEF RemoveAt
<1>7. Len(a \o b) = Len(q) - 1
  BY <1>1, <1>3, <1>4, <1>5
<1>8. ASSUME NEW j \in 1 .. Len(q) - 1
      PROVE  (a \o b)[j] = IF j < i THEN q[j] ELSE q[j + 1]
  <2>1. CASE j < i
    BY <1>1, <1>3, <1>4, <1>5, <2>1
  <2>2. CASE ~(j < i)
    <3>1. PICK k \in 1 .. Len(q) - i : k = j - Len(a)
      BY <1>1, <1>3, <2>2
    <3>2. (a \o b)[j] = b[k]
      <4>1. j \in 1 .. Len(a) + Len(b) /\ ~(j <= Len(a))
        BY <1>1, <1>3, <1>4, <2>2
      <4> QED  BY <1>5, <3>1, <4>1, Zenon
    <3>3. b[k] = q[i + k] /\ i + k = j + 1
      BY <1>1, <1>3, <1>4, <3>1
    <3> QED  BY <2>2, <3>2, <3>3
  <2> QED  BY <2>1, <2>2
<1> QED  BY <1>5, <1>6, <1>7, <1>8

-----------------------------------------------------------------------------
(* Positions of the stream.                                                *)

\* The constants.
LEMMA StreamFacts ==
  /\ Isn \in SeqNums /\ Isn \in Int
  /\ StreamLen \in Nat /\ HalfSpace \in Nat /\ StreamLen + 1 < HalfSpace
  /\ SeqSpace = 2 * HalfSpace
  BY StreamAssumption, HalfSpaceAssumption DEF SeqNums, SeqSpace

\* A position of the stream and its sequence number determine each other.
LEMMA Positioned ==
  /\ \A x \in Int : SeqAt(x) \in SeqNums
  /\ \A x \in 0 .. StreamLen + 1 : Pos(SeqAt(x)) = x
  /\ \A n \in SeqNums : Pos(n) \in Nat /\ SeqAt(Pos(n)) = n
  /\ \A x, n \in Int : SeqAdd(SeqAt(x), n) = SeqAt(x + n)
<1>1. \A x \in Int : SeqAt(x) \in SeqNums
  BY StreamFacts, SpaceType DEF SeqAt
<1>2. ASSUME NEW x \in 0 .. StreamLen + 1 PROVE Pos(SeqAt(x)) = x
  <2>1. SeqAdd(Isn, 0) = Isn
    BY StreamFacts DEF SeqAdd, SeqNums
  <2>2. SeqDiff(SeqAdd(Isn, x), SeqAdd(Isn, 0)) = x - 0
    BY StreamFacts, DiffOfPositions
  <2> QED  BY StreamFacts, <2>1, <2>2 DEF Pos, SeqAt
<1>3. ASSUME NEW n \in SeqNums PROVE Pos(n) \in Nat /\ SeqAt(Pos(n)) = n
  <2>1. n \in Int
    BY StreamFacts DEF SeqNums
  <2>2. SeqDiff(n, Isn) \in SeqNums
    BY <2>1, StreamFacts, SpaceType
  <2> QED  BY <2>2, StreamFacts, AddDiff DEF Pos, SeqAt, SeqNums
<1>4. \A x, n \in Int : SeqAdd(SeqAt(x), n) = SeqAt(x + n)
  BY StreamFacts, AddAdd DEF SeqAt
<1> QED  BY <1>1, <1>2, <1>3, <1>4

\* The program's comparisons are comparisons of positions.
LEMMA Compare ==
  ASSUME NEW a \in SeqNums, NEW b \in SeqNums,
         Pos(a) <= StreamLen + 1, Pos(b) <= StreamLen + 1
  PROVE  /\ a = b <=> Pos(a) = Pos(b)
         /\ seq_lt(a, b) <=> Pos(a) < Pos(b)
         /\ seq_le(a, b) <=> Pos(a) <= Pos(b)
         /\ seq_gt(a, b) <=> Pos(a) > Pos(b)
<1>1. PICK x \in Int, y \in Int :
        /\ x = Pos(a) /\ y = Pos(b) /\ a = SeqAdd(Isn, x) /\ b = SeqAdd(Isn, y)
        /\ x - y < HalfSpace /\ y - x < HalfSpace
  <2>1. /\ Pos(a) \in Nat /\ a = SeqAdd(Isn, Pos(a))
        /\ Pos(b) \in Nat /\ b = SeqAdd(Isn, Pos(b))
    BY Positioned, Zenon DEF SeqAt
  <2>2. Pos(a) - Pos(b) < HalfSpace /\ Pos(b) - Pos(a) < HalfSpace
    BY <2>1, StreamFacts
  <2> QED  BY <2>1, <2>2
<1>2. /\ SeqAdd(Isn, x) = SeqAdd(Isn, y) <=> x = y
      /\ seq_lt(SeqAdd(Isn, x), SeqAdd(Isn, y)) <=> x < y
      /\ seq_le(SeqAdd(Isn, x), SeqAdd(Isn, y)) <=> x <= y
      /\ seq_gt(SeqAdd(Isn, x), SeqAdd(Isn, y)) <=> x > y
  BY <1>1, StreamFacts, ComparePositions
<1> QED  BY <1>1, <1>2, Zenon

\* A data segment of the sender: where it starts and ends.
LEMMA SegmentPositions ==
  ASSUME NEW s, s[1] \in Nat, s[2] \in Nat \ {0}, s[1] + s[2] <= StreamLen, NEW p,
         p.seq = SeqAt(s[1]), p.len = s[2]
  PROVE  /\ p.seq \in SeqNums /\ Pos(p.seq) = s[1]
         /\ seg_end(p) \in SeqNums /\ Pos(seg_end(p)) = s[1] + s[2]
<1>1. PICK x \in Int, n \in Int, e \in Int : x = s[1] /\ n = s[2] /\ e = x + n
  OBVIOUS
<1>2. p.seq = SeqAt(x) /\ seg_end(p) = SeqAt(e)
  <2>1. seg_end(p) = SeqAdd(SeqAt(x), n)
    BY <1>1, Zenon DEF seg_end
  <2>2. SeqAdd(SeqAt(x), n) = SeqAt(x + n)
    BY Positioned, Zenon
  <2> QED  BY <1>1, <2>1, <2>2, Zenon
<1>3. x \in 0 .. StreamLen + 1 /\ e \in 0 .. StreamLen + 1
  BY <1>1, StreamFacts
<1>4. SeqAt(x) \in SeqNums /\ SeqAt(e) \in SeqNums /\ Pos(SeqAt(x)) = x /\ Pos(SeqAt(e)) = e
  BY <1>3, Positioned, Zenon
<1> QED  BY <1>1, <1>2, <1>4

-----------------------------------------------------------------------------
(* Holes.                                                                  *)

\* A record of a direction and a data segment <<x, e>> in positions, as the lemmas on
\* holes need them.
HoleContext(d, p, x, e, top) ==
  /\ d.holes \in Seq(Hole)
  /\ top \in Int /\ top <= StreamLen + 1
  /\ Ordered(d.holes, top)
  /\ p.seq \in SeqNums /\ Pos(p.seq) = x
  /\ seg_end(p) \in SeqNums /\ Pos(seg_end(p)) = e
  /\ x \in Nat /\ e \in Nat /\ x < e /\ e <= StreamLen

\* The elements of a sequence of holes, and their positions.
LEMMA HoleTypes ==
  ASSUME NEW hs \in Seq(Hole), NEW top \in Int, top <= StreamLen + 1, Ordered(hs, top),
         NEW i \in 1 .. Len(hs)
  PROVE  /\ Len(hs) \in Nat /\ DOMAIN hs = 1 .. Len(hs)
         /\ hs[i] \in Hole /\ hs[i].lo \in SeqNums /\ hs[i].hi \in SeqNums
         /\ Pos(hs[i].lo) \in Nat /\ Pos(hs[i].hi) \in Nat
         /\ Pos(hs[i].lo) <= StreamLen + 1 /\ Pos(hs[i].hi) <= StreamLen + 1
<1>1. Len(hs) \in Nat /\ DOMAIN hs = 1 .. Len(hs) /\ hs[i] \in Hole
  BY LenProperties, ElementOfSeq
<1>2. hs[i].lo \in SeqNums /\ hs[i].hi \in SeqNums
  BY <1>1 DEF Hole
<1>3. Pos(hs[i].lo) \in Nat /\ Pos(hs[i].hi) \in Nat
  BY <1>2, Positioned
<1> QED  BY <1>1, <1>2, <1>3, StreamFacts DEF Ordered

\* Cutting a hole at one side.
LEMMA CutHole ==
  ASSUME NEW h \in Hole, NEW n \in SeqNums
  PROVE  /\ [h EXCEPT !.lo = n] \in Hole
         /\ [h EXCEPT !.lo = n].lo = n /\ [h EXCEPT !.lo = n].hi = h.hi
         /\ [h EXCEPT !.hi = n] \in Hole
         /\ [h EXCEPT !.hi = n].lo = h.lo /\ [h EXCEPT !.hi = n].hi = n
  BY DEF Hole

\* A hole is hit when it shares a position with the segment.
LEMMA HolesHit ==
  ASSUME NEW d, NEW p, NEW x, NEW e, NEW top, HoleContext(d, p, x, e, top)
  PROVE  \A i : i \in holes_hit(d, p) <=>
           /\ i \in 1 .. Len(d.holes)
           /\ x < Pos(d.holes[i].hi) /\ Pos(d.holes[i].lo) < e
<1>1. DOMAIN d.holes = 1 .. Len(d.holes)
  BY LenProperties DEF HoleContext
<1>2. ASSUME NEW i \in 1 .. Len(d.holes)
      PROVE  ranges_overlap(p.seq, seg_end(p), d.holes[i].lo, d.holes[i].hi) <=>
               x < Pos(d.holes[i].hi) /\ Pos(d.holes[i].lo) < e
  <2>1. /\ d.holes[i].lo \in SeqNums /\ Pos(d.holes[i].lo) <= StreamLen + 1
        /\ d.holes[i].hi \in SeqNums /\ Pos(d.holes[i].hi) <= StreamLen + 1
    BY HoleTypes DEF HoleContext
  <2>2. Pos(p.seq) <= StreamLen + 1 /\ Pos(seg_end(p)) <= StreamLen + 1
    BY StreamFacts DEF HoleContext
  <2>3. seq_lt(p.seq, d.holes[i].hi) <=> Pos(p.seq) < Pos(d.holes[i].hi)
    BY <2>1, <2>2, Compare DEF HoleContext
  <2>4. seq_lt(d.holes[i].lo, seg_end(p)) <=> Pos(d.holes[i].lo) < Pos(seg_end(p))
    BY <2>1, <2>2, Compare DEF HoleContext
  <2> QED  BY <2>3, <2>4 DEF ranges_overlap, HoleContext
<1> QED  BY <1>1, <1>2 DEF holes_hit

\* A late segment removes one of the holes it hits, or cuts it at one side.
LEMMA FilledHoles ==
  ASSUME NEW d, NEW p, NEW x, NEW e, NEW top, HoleContext(d, p, x, e, top),
         fills_known_hole(d, p)
  PROVE  \E i \in 1 .. Len(d.holes) :
           /\ x < Pos(d.holes[i].hi) /\ Pos(d.holes[i].lo) < e
           /\ \/ filled_holes(d, p) = RemoveAt(d.holes, i)
              \/ \E h \in Hole :
                   /\ filled_holes(d, p) = [d.holes EXCEPT ![i] = h]
                   /\ Pos(d.holes[i].lo) <= Pos(h.lo) /\ Pos(h.lo) < Pos(h.hi)
                   /\ \/ Pos(h.hi) = Pos(d.holes[i].hi) /\ e <= Pos(h.lo)
                      \/ Pos(h.hi) = x /\ x < Pos(d.holes[i].hi)
<1>1. holes_hit(d, p) # {} /\ holes_hit(d, p) \in SUBSET Nat
  <2>1. \A i \in holes_hit(d, p) : i \in 1 .. Len(d.holes)
    BY HolesHit
  <2> QED  BY <2>1 DEF fills_known_hole
<1>2. PICK i \in holes_hit(d, p) : i = Min(holes_hit(d, p))
  BY <1>1, MinIsElement
<1>3. /\ i \in 1 .. Len(d.holes)
      /\ x < Pos(d.holes[i].hi) /\ Pos(d.holes[i].lo) < e
  BY <1>2, HolesHit
<1>4. PICK h : h = d.holes[i]
  OBVIOUS
<1>5. /\ h \in Hole /\ h.lo \in SeqNums /\ h.hi \in SeqNums
      /\ Pos(h.lo) \in Nat /\ Pos(h.hi) \in Nat
      /\ Pos(h.lo) <= StreamLen + 1 /\ Pos(h.hi) <= StreamLen + 1
      /\ d.holes \in Seq(Hole)
  BY <1>3, <1>4, HoleTypes DEF HoleContext
<1>6. /\ p.seq \in SeqNums /\ seg_end(p) \in SeqNums /\ Pos(p.seq) = x /\ Pos(seg_end(p)) = e
      /\ x \in Nat /\ e \in Nat /\ Pos(p.seq) <= StreamLen + 1 /\ Pos(seg_end(p)) <= StreamLen + 1
  BY StreamFacts DEF HoleContext
<1>7. /\ seq_le(p.seq, h.lo) <=> x <= Pos(h.lo)
      /\ seq_le(h.hi, seg_end(p)) <=> Pos(h.hi) <= e
  BY <1>5, <1>6, Compare
<1>8. CASE seq_le(p.seq, h.lo) /\ seq_le(h.hi, seg_end(p))
  <2>1. filled_holes(d, p) = RemoveAt(d.holes, i)
    BY <1>2, <1>4, <1>8, Zenon DEF filled_holes
  <2> QED  BY <1>3, <2>1
<1>9. CASE seq_le(p.seq, h.lo) /\ ~seq_le(h.hi, seg_end(p))
  <2>1. filled_holes(d, p) = [d.holes EXCEPT ![i] = [d.holes[i] EXCEPT !.lo = seg_end(p)]]
    BY <1>2, <1>4, <1>9, Zenon DEF filled_holes
  <2>2. PICK g \in Hole : g = [h EXCEPT !.lo = seg_end(p)] /\ g.lo = seg_end(p) /\ g.hi = h.hi
    BY <1>5, <1>6, CutHole, Zenon
  <2>3. filled_holes(d, p) = [d.holes EXCEPT ![i] = g]
    BY <1>4, <2>1, <2>2, Zenon
  <2>4. /\ Pos(d.holes[i].lo) <= Pos(g.lo) /\ Pos(g.lo) < Pos(g.hi)
        /\ Pos(g.hi) = Pos(d.holes[i].hi) /\ e <= Pos(g.lo)
    BY <1>3, <1>4, <1>5, <1>6, <1>7, <1>9, <2>2
  <2> QED  BY <1>3, <2>3, <2>4
<1>10. CASE ~seq_le(p.seq, h.lo)
  <2>1. filled_holes(d, p) = [d.holes EXCEPT ![i] = [d.holes[i] EXCEPT !.hi = p.seq]]
    BY <1>2, <1>4, <1>10, Zenon DEF filled_holes
  <2>2. PICK g \in Hole : g = [h EXCEPT !.hi = p.seq] /\ g.lo = h.lo /\ g.hi = p.seq
    <3>1. h \in Hole /\ p.seq \in SeqNums
      BY <1>5, <1>6
    <3>2. /\ [h EXCEPT !.hi = p.seq] \in Hole
          /\ [h EXCEPT !.hi = p.seq].lo = h.lo /\ [h EXCEPT !.hi = p.seq].hi = p.seq
      BY <3>1, CutHole
    <3> QED  BY <3>2, Zenon
  <2>3. filled_holes(d, p) = [d.holes EXCEPT ![i] = g]
    BY <1>4, <2>1, <2>2, Zenon
  <2>4. /\ Pos(d.holes[i].lo) <= Pos(g.lo) /\ Pos(g.lo) < Pos(g.hi)
        /\ Pos(g.hi) = x /\ x < Pos(d.holes[i].hi)
    BY <1>3, <1>4, <1>5, <1>6, <1>7, <1>10, <2>2
  <2> QED  BY <1>3, <2>3, <2>4
<1> QED  BY <1>8, <1>9, <1>10

\* Removing a hole keeps the others in order.
LEMMA RemoveKeepsOrder ==
  ASSUME NEW hs \in Seq(Hole), NEW top \in Int, Ordered(hs, top), NEW i \in 1 .. Len(hs)
  PROVE  Ordered(RemoveAt(hs, i), top)
<1>1. PICK r : r = RemoveAt(hs, i)
  OBVIOUS
<1>2. /\ Len(hs) \in Nat /\ Len(r) = Len(hs) - 1
      /\ \A j \in 1 .. Len(hs) - 1 : r[j] = IF j < i THEN hs[j] ELSE hs[j + 1]
  BY <1>1, RemoveAtProperties, LenProperties
<1>3. \A j \in 1 .. Len(r) : \E k \in 1 .. Len(hs) :
        r[j] = hs[k] /\ k = IF j < i THEN j ELSE j + 1
  BY <1>2
<1>4. ASSUME NEW j \in 1 .. Len(r)
      PROVE  Pos(r[j].lo) < Pos(r[j].hi) /\ Pos(r[j].hi) < top
  BY <1>3 DEF Ordered
<1>5. ASSUME NEW j \in 1 .. Len(r), NEW m \in 1 .. Len(r), j < m
      PROVE  Pos(r[j].hi) < Pos(r[m].lo)
  <2>1. PICK a \in 1 .. Len(hs) : r[j] = hs[a] /\ a = IF j < i THEN j ELSE j + 1
    BY <1>3
  <2>2. PICK b \in 1 .. Len(hs) : r[m] = hs[b] /\ b = IF m < i THEN m ELSE m + 1
    BY <1>3
  <2>3. a < b
    BY <1>5, <2>1, <2>2
  <2> QED  BY <2>1, <2>2, <2>3 DEF Ordered
<1> QED  BY <1>1, <1>4, <1>5 DEF Ordered

\* Cutting a hole keeps the order.
LEMMA CutKeepsOrder ==
  ASSUME NEW hs \in Seq(Hole), NEW top \in Int, top <= StreamLen + 1, Ordered(hs, top),
         NEW i \in 1 .. Len(hs), NEW g \in Hole,
         Pos(hs[i].lo) <= Pos(g.lo), Pos(g.lo) < Pos(g.hi), Pos(g.hi) <= Pos(hs[i].hi)
  PROVE  Ordered([hs EXCEPT ![i] = g], top)
<1>1. PICK r : r = [hs EXCEPT ![i] = g]
  OBVIOUS
<1>2. Len(r) = Len(hs) /\ r[i] = g /\ \A j \in 1 .. Len(hs) : j # i => r[j] = hs[j]
  BY <1>1, ExceptSeq, LenProperties
<1>3. Pos(g.lo) \in Nat /\ Pos(g.hi) \in Nat
  BY Positioned DEF Hole
<1>4. \A j \in 1 .. Len(hs) : Pos(hs[j].lo) \in Nat /\ Pos(hs[j].hi) \in Nat
  BY HoleTypes
<1>5. ASSUME NEW j \in 1 .. Len(r)
      PROVE  /\ Pos(r[j].lo) < Pos(r[j].hi) /\ Pos(r[j].hi) < top
             /\ Pos(hs[j].lo) <= Pos(r[j].lo) /\ Pos(r[j].hi) <= Pos(hs[j].hi)
             /\ Pos(r[j].lo) \in Nat /\ Pos(r[j].hi) \in Nat
  <2>1. CASE j = i
    BY <1>2, <1>3, <1>4, <2>1 DEF Ordered
  <2>2. CASE j # i
    BY <1>2, <1>4, <2>2 DEF Ordered
  <2> QED  BY <2>1, <2>2
<1>6. ASSUME NEW j \in 1 .. Len(r), NEW m \in 1 .. Len(r), j < m
      PROVE  Pos(r[j].hi) < Pos(r[m].lo)
  <2>1. Pos(hs[j].hi) < Pos(hs[m].lo)
    BY <1>2, <1>6 DEF Ordered
  <2>2. /\ Pos(r[j].hi) <= Pos(hs[j].hi) /\ Pos(hs[m].lo) <= Pos(r[m].lo)
        /\ Pos(r[j].hi) \in Nat /\ Pos(r[m].lo) \in Nat
    BY <1>5
  <2>3. Pos(hs[j].hi) \in Nat /\ Pos(hs[m].lo) \in Nat
    BY <1>2, <1>4
  <2> QED  BY <2>1, <2>2, <2>3
<1> QED  BY <1>1, <1>5, <1>6 DEF Ordered

\* A forward jump appends a hole behind the others.
LEMMA JumpKeepsOrder ==
  ASSUME NEW hs \in Seq(Hole), NEW top \in Int, top <= StreamLen + 1, Ordered(hs, top),
         Len(hs) <= kMaxTrackedHoles, NEW h \in Hole,
         Pos(h.lo) = top, top < Pos(h.hi), NEW newtop \in Int, Pos(h.hi) < newtop
  PROVE  Ordered(push_bounded(hs, h, kMaxTrackedHoles), newtop)
<1>1. PICK r : r = push_bounded(hs, h, kMaxTrackedHoles)
  OBVIOUS
<1>2. PICK k \in {0, 1} :
        /\ Len(r) = Len(hs) + 1 - k /\ r[Len(hs) + 1 - k] = h
        /\ \A i \in 1 .. Len(hs) - k : r[i] = hs[i + k]
  <2>1. kMaxTrackedHoles \in Nat \ {0}
    BY SequenceTrackingAssumption
  <2>2. \E k \in {0, 1} :
          /\ Len(push_bounded(hs, h, kMaxTrackedHoles)) = Len(hs) + 1 - k
          /\ push_bounded(hs, h, kMaxTrackedHoles)[Len(hs) + 1 - k] = h
          /\ \A i \in 1 .. Len(hs) - k : push_bounded(hs, h, kMaxTrackedHoles)[i] = hs[i + k]
    BY <2>1, PushBounded
  <2> QED  BY <1>1, <2>2, Zenon
<1>3. Len(hs) \in Nat /\ Pos(h.hi) \in Nat
  BY LenProperties, Positioned DEF Hole
<1>4. \A j \in 1 .. Len(hs) : Pos(hs[j].lo) \in Nat /\ Pos(hs[j].hi) \in Nat
  BY HoleTypes
<1>5. \A j \in 1 .. Len(r) : j = Len(r) \/ (\E m \in 1 .. Len(hs) : m = j + k /\ r[j] = hs[m])
  BY <1>2, <1>3
<1>6. ASSUME NEW j \in 1 .. Len(r)
      PROVE  Pos(r[j].lo) < Pos(r[j].hi) /\ Pos(r[j].hi) < newtop
  <2>1. CASE j = Len(r)
    BY <1>2, <1>3, <2>1
  <2>2. CASE j # Len(r)
    <3>1. PICK m \in 1 .. Len(hs) : r[j] = hs[m]
      BY <1>5, <2>2
    <3>2. Pos(hs[m].lo) < Pos(hs[m].hi) /\ Pos(hs[m].hi) < top
      BY DEF Ordered
    <3> QED  BY <1>3, <1>4, <3>1, <3>2
  <2> QED  BY <2>1, <2>2
<1>7. ASSUME NEW j \in 1 .. Len(r), NEW n \in 1 .. Len(r), j < n
      PROVE  Pos(r[j].hi) < Pos(r[n].lo)
  <2>1. PICK a \in 1 .. Len(hs) : a = j + k /\ r[j] = hs[a]
    BY <1>2, <1>3, <1>5, <1>7
  <2>2. CASE n = Len(r)
    BY <1>2, <2>1, <2>2 DEF Ordered
  <2>3. CASE n # Len(r)
    <3>1. PICK b \in 1 .. Len(hs) : b = n + k /\ r[n] = hs[b]
      BY <1>5, <2>3
    <3>2. a < b
      BY <1>7, <2>1, <3>1
    <3> QED  BY <2>1, <3>1, <3>2 DEF Ordered
  <2> QED  BY <2>2, <2>3
<1> QED  BY <1>1, <1>6, <1>7 DEF Ordered

-----------------------------------------------------------------------------
(* Senders that keep their segment boundaries.                             *)

IsSegment(s) == s[1] \in Nat /\ s[2] \in Nat \ {0} /\ s[1] + s[2] <= StreamLen

\* The segments of segs are equal to s or share no position with it.
ApartFrom(s, segs) ==
  \A u \in segs : IsSegment(u) /\ (u = s \/ u[1] + u[2] <= s[1] \/ s[1] + s[2] <= u[1])

\* A segment and the direction it meets.
Meets(d, p, s, top) == IsSegment(s) /\ HoleContext(d, p, s[1], s[1] + s[2], top)

\* Segments without a common position lie one behind the other.
LEMMA DisjointSegments ==
  ASSUME NEW s, NEW u, IsSegment(s), IsSegment(u), Positions(s) \cap Positions(u) = {}
  PROVE  u[1] + u[2] <= s[1] \/ s[1] + s[2] <= u[1]
<1>1. /\ \A z \in Int : s[1] <= z /\ z < s[1] + s[2] => z \in Positions(s)
      /\ \A z \in Int : u[1] <= z /\ z < u[1] + u[2] => z \in Positions(u)
  BY DEF Positions, IsSegment
<1>2. CASE s[1] <= u[1]
  <2>1. u[1] \in Positions(u) /\ u[1] \notin Positions(s)
    BY <1>1 DEF IsSegment
  <2> QED  BY <1>1, <1>2, <2>1 DEF IsSegment
<1>3. CASE u[1] < s[1]
  <2>1. s[1] \in Positions(s) /\ s[1] \notin Positions(u)
    BY <1>1 DEF IsSegment
  <2> QED  BY <1>1, <1>3, <2>1 DEF IsSegment
<1> QED  BY <1>2, <1>3 DEF IsSegment

\* A segment that meets a hole ends no later than the hole, and was not captured.
LEMMA FitsHole ==
  ASSUME NEW d, NEW p, NEW s, NEW top, Meets(d, p, s, top), NEW segs, ApartFrom(s, segs),
         Uncaptured(d.holes, segs), NEW i \in 1 .. Len(d.holes),
         s[1] < Pos(d.holes[i].hi), Pos(d.holes[i].lo) < s[1] + s[2]
  PROVE  s[1] + s[2] <= Pos(d.holes[i].hi) /\ s \notin segs
<1>1. Pos(d.holes[i].lo) \in Nat /\ Pos(d.holes[i].hi) \in Nat
  BY HoleTypes DEF Meets, HoleContext
<1>2. PICK u \in segs : u[1] = Pos(d.holes[i].hi)
  BY DEF Uncaptured
<1>3. IsSegment(u) /\ (u = s \/ u[1] + u[2] <= s[1] \/ s[1] + s[2] <= u[1])
  BY DEF ApartFrom
<1>4. s[1] + s[2] <= Pos(d.holes[i].hi)
  BY <1>1, <1>2, <1>3 DEF IsSegment, Meets
<1>5. s \notin segs
  BY <1>1 DEF Uncaptured, IsSegment, Meets
<1> QED  BY <1>4, <1>5

\* A segment meets at most one hole.
LEMMA OneHole ==
  ASSUME NEW d, NEW p, NEW s, NEW top, Meets(d, p, s, top), NEW segs, ApartFrom(s, segs),
         Uncaptured(d.holes, segs), NEW i \in 1 .. Len(d.holes), NEW j \in 1 .. Len(d.holes),
         i < j,
         s[1] < Pos(d.holes[i].hi), Pos(d.holes[i].lo) < s[1] + s[2]
  PROVE  s[1] + s[2] <= Pos(d.holes[j].lo)
<1>1. s[1] + s[2] <= Pos(d.holes[i].hi)
  BY FitsHole
<1>2. Pos(d.holes[i].hi) < Pos(d.holes[j].lo)
  BY DEF Ordered, Meets, HoleContext
<1>3. Pos(d.holes[i].hi) \in Nat /\ Pos(d.holes[j].lo) \in Nat
  BY HoleTypes DEF Meets, HoleContext
<1> QED  BY <1>1, <1>2, <1>3 DEF Meets, IsSegment

\* The holes a segment does not meet stay uncaptured.
LEMMA MissedHole ==
  ASSUME NEW d, NEW p, NEW s, NEW top, Meets(d, p, s, top), NEW segs,
         Uncaptured(d.holes, segs), NEW i \in 1 .. Len(d.holes),
         ~(s[1] < Pos(d.holes[i].hi) /\ Pos(d.holes[i].lo) < s[1] + s[2])
  PROVE  /\ \E u \in segs \cup {s} : u[1] = Pos(d.holes[i].hi)
         /\ \A u \in segs \cup {s} :
              u[1] + u[2] <= Pos(d.holes[i].lo) \/ Pos(d.holes[i].hi) <= u[1]
<1>1. Pos(d.holes[i].lo) \in Nat /\ Pos(d.holes[i].hi) \in Nat
  BY HoleTypes DEF Meets, HoleContext
<1>2. s[1] + s[2] <= Pos(d.holes[i].lo) \/ Pos(d.holes[i].hi) <= s[1]
  BY <1>1 DEF Meets, IsSegment
<1> QED  BY <1>2 DEF Uncaptured

\* A late segment leaves only what was not captured.
LEMMA FillKeepsUncaptured ==
  ASSUME NEW d, NEW p, NEW s, NEW top, Meets(d, p, s, top), NEW segs, ApartFrom(s, segs),
         Uncaptured(d.holes, segs), fills_known_hole(d, p)
  PROVE  Uncaptured(filled_holes(d, p), segs \cup {s})
<1> DEFINE hs == d.holes
<1> DEFINE Hit(i) == s[1] < Pos(hs[i].hi) /\ Pos(hs[i].lo) < s[1] + s[2]
<1>1. PICK i \in 1 .. Len(hs) :
        /\ Hit(i)
        /\ \/ filled_holes(d, p) = RemoveAt(hs, i)
           \/ \E h \in Hole :
                /\ filled_holes(d, p) = [hs EXCEPT ![i] = h]
                /\ Pos(hs[i].lo) <= Pos(h.lo) /\ Pos(h.lo) < Pos(h.hi)
                /\ \/ Pos(h.hi) = Pos(hs[i].hi) /\ s[1] + s[2] <= Pos(h.lo)
                   \/ Pos(h.hi) = s[1] /\ s[1] < Pos(hs[i].hi)
  BY FilledHoles DEF Meets
<1>2. Len(hs) \in Nat /\ hs \in Seq(Hole)
  BY LenProperties DEF Meets, HoleContext
<1>3. \A j \in 1 .. Len(hs) : Pos(hs[j].lo) \in Nat /\ Pos(hs[j].hi) \in Nat
  BY HoleTypes DEF Meets, HoleContext
<1>4. ASSUME NEW j \in 1 .. Len(hs), j # i PROVE ~Hit(j)
  <2>1. CASE i < j
    <3>1. s[1] + s[2] <= Pos(hs[j].lo)
      BY <1>1, <2>1, OneHole
    <3> QED  BY <1>3, <3>1 DEF Meets, IsSegment
  <2>2. CASE j < i
    <3>1. Hit(j) => s[1] + s[2] <= Pos(hs[i].lo)
      BY <2>2, OneHole
    <3> QED  BY <1>1, <1>3, <3>1 DEF Meets, IsSegment
  <2> QED  BY <1>4, <2>1, <2>2
<1>5. ASSUME NEW j \in 1 .. Len(hs), j # i
      PROVE  /\ \E u \in segs \cup {s} : u[1] = Pos(hs[j].hi)
             /\ \A u \in segs \cup {s} :
                  u[1] + u[2] <= Pos(hs[j].lo) \/ Pos(hs[j].hi) <= u[1]
  BY <1>4, <1>5, MissedHole
<1>6. CASE filled_holes(d, p) = RemoveAt(hs, i)
  <2>1. PICK r : r = RemoveAt(hs, i)
    OBVIOUS
  <2>2. /\ Len(r) = Len(hs) - 1
        /\ \A j \in 1 .. Len(hs) - 1 : r[j] = IF j < i THEN hs[j] ELSE hs[j + 1]
    BY <1>2, <2>1, RemoveAtProperties
  <2>3. \A j \in 1 .. Len(r) : \E k \in 1 .. Len(hs) : k # i /\ r[j] = hs[k]
    BY <1>2, <2>2
  <2> QED  BY <1>5, <1>6, <2>1, <2>3 DEF Uncaptured
<1>7. CASE \E h \in Hole :
                /\ filled_holes(d, p) = [hs EXCEPT ![i] = h]
                /\ Pos(hs[i].lo) <= Pos(h.lo) /\ Pos(h.lo) < Pos(h.hi)
                /\ \/ Pos(h.hi) = Pos(hs[i].hi) /\ s[1] + s[2] <= Pos(h.lo)
                   \/ Pos(h.hi) = s[1] /\ s[1] < Pos(hs[i].hi)
  <2>1. PICK h \in Hole :
                /\ filled_holes(d, p) = [hs EXCEPT ![i] = h]
                /\ Pos(hs[i].lo) <= Pos(h.lo) /\ Pos(h.lo) < Pos(h.hi)
                /\ \/ Pos(h.hi) = Pos(hs[i].hi) /\ s[1] + s[2] <= Pos(h.lo)
                   \/ Pos(h.hi) = s[1] /\ s[1] < Pos(hs[i].hi)
    BY <1>7
  <2>2. PICK r : r = [hs EXCEPT ![i] = h]
    OBVIOUS
  <2>3. Len(r) = Len(hs) /\ r[i] = h /\ \A j \in 1 .. Len(hs) : j # i => r[j] = hs[j]
    BY <1>2, <2>2, ExceptSeq, LenProperties
  <2>4. Pos(h.lo) \in Nat /\ Pos(h.hi) \in Nat
    BY Positioned DEF Hole
  <2>5. \E u \in segs \cup {s} : u[1] = Pos(h.hi)
    BY <2>1 DEF Uncaptured
  <2>6. ASSUME NEW u \in segs \cup {s} PROVE u[1] + u[2] <= Pos(h.lo) \/ Pos(h.hi) <= u[1]
    <3>1. CASE u = s
      BY <2>1, <2>4, <3>1 DEF Meets, IsSegment
    <3>2. CASE u \in segs
      <4>1. IsSegment(u)
        BY <3>2 DEF ApartFrom
      <4>2. u[1] + u[2] <= Pos(hs[i].lo) \/ Pos(hs[i].hi) <= u[1]
        BY <3>2 DEF Uncaptured
      <4>3. PICK a \in Int, b \in Int, lo \in Int, hi \in Int, gl \in Int, gh \in Int, x \in Int :
              /\ a = u[1] /\ b = u[1] + u[2] /\ lo = Pos(hs[i].lo) /\ hi = Pos(hs[i].hi)
              /\ gl = Pos(h.lo) /\ gh = Pos(h.hi) /\ x = s[1]
        <5>1. u[1] \in Int /\ u[1] + u[2] \in Int /\ s[1] \in Int
          BY <4>1 DEF Meets, IsSegment
        <5>2. /\ Pos(hs[i].lo) \in Int /\ Pos(hs[i].hi) \in Int
              /\ Pos(h.lo) \in Int /\ Pos(h.hi) \in Int
          BY <1>3, <2>4
        <5> QED  BY <5>1, <5>2, Zenon
      <4> QED  BY <2>1, <4>2, <4>3
    <3> QED  BY <3>1, <3>2
  <2>7. ASSUME NEW j \in 1 .. Len(r)
        PROVE  /\ \E u \in segs \cup {s} : u[1] = Pos(r[j].hi)
               /\ \A u \in segs \cup {s} :
                    u[1] + u[2] <= Pos(r[j].lo) \/ Pos(r[j].hi) <= u[1]
    BY <1>5, <2>3, <2>5, <2>6
  <2>8. Uncaptured(r, segs \cup {s})
    BY <2>7 DEF Uncaptured
  <2> QED  BY <2>1, <2>2, <2>8
<1> QED  BY <1>1, <1>6, <1>7

-----------------------------------------------------------------------------
(* One data segment.                                                       *)

\* A packet that carries the segment s.
Carries(p, s) == p.seq = SeqAt(s[1]) /\ p.len = s[2]

\* The types the steps need.
LEMMA Typed ==
  ASSUME Tracking
  PROVE  /\ dir.seq_valid \in BOOLEAN /\ dir.next_seq \in SeqNums
         /\ dir.retransmits \in Nat /\ dir.out_of_order \in Nat
         /\ dir.recent_segments \in Seq(SeqNums \X Nat) /\ dir.holes \in Seq(Hole)
         /\ Len(dir.recent_segments) <= kRecentSegmentWindow
         /\ Len(dir.holes) <= kMaxTrackedHoles
         /\ high \in Int /\ -1 <= high /\ high <= StreamLen + 1
         /\ \A s \in from.segs : IsSegment(s)
         /\ captured \subseteq from.segs
<1>1. high \in Int /\ -1 <= high /\ high <= StreamLen + 1
  BY StreamFacts DEF Tracking
<1>2. \A s \in from.segs : IsSegment(s)
  BY StreamAssumption DEF Tracking, IsSegment
<1> QED  BY <1>1, <1>2 DEF Tracking, Shape

\* The record the sniffer keeps and a segment of the sender, in positions.
LEMMA Meeting ==
  ASSUME Tracking, NEW s \in from.segs, NEW p, Carries(p, s)
  PROVE  /\ Meets(dir, p, s, high)
         /\ p.seq = SeqAt(s[1]) /\ p.len = s[2]
         /\ dir.seq_valid <=> high >= 0
         /\ high >= 0 => Pos(dir.next_seq) = high
         /\ Ordered(dir.holes, high)
<1>1. IsSegment(s)
  BY Typed
<1>2. p.seq = SeqAt(s[1]) /\ p.len = s[2]
  BY DEF Carries
<1>3. /\ p.seq \in SeqNums /\ Pos(p.seq) = s[1]
      /\ seg_end(p) \in SeqNums /\ Pos(seg_end(p)) = s[1] + s[2]
  BY <1>1, <1>2, SegmentPositions DEF IsSegment
<1>4. Ordered(dir.holes, high)
  BY DEF Tracking
<1>5. HoleContext(dir, p, s[1], s[1] + s[2], high)
  <2>1. s[1] \in Nat /\ s[1] + s[2] \in Nat /\ s[1] < s[1] + s[2] /\ s[1] + s[2] <= StreamLen
    BY <1>1, StreamFacts DEF IsSegment
  <2> QED  BY <1>3, <1>4, <2>1, Typed, Zenon DEF HoleContext
<1>6. dir.seq_valid <=> high >= 0
  BY Typed DEF Tracking, NextSeqIsHighWater
<1>7. high >= 0 => Pos(dir.next_seq) = high
  <2>1. SUFFICES ASSUME high >= 0 PROVE Pos(dir.next_seq) = high
    OBVIOUS
  <2>2. dir.next_seq = SeqAt(high)
    BY <1>6, <2>1 DEF Tracking, NextSeqIsHighWater
  <2>3. high \in 0 .. StreamLen + 1
    BY <2>1, Typed, StreamFacts
  <2> QED  BY <2>2, <2>3, Positioned
<1> QED  BY <1>1, <1>2, <1>4, <1>5, <1>6, <1>7 DEF Meets

\* When boundaries are kept, captured segments are apart from every other one.
LEMMA CapturedApart ==
  ASSUME Tracking, KeepsBoundaries, NEW s \in from.segs
  PROVE  ApartFrom(s, captured)
<1>1. ASSUME NEW u \in captured PROVE u \in from.segs /\ IsSegment(u) /\ IsSegment(s)
  BY <1>1, Typed
<1>2. ASSUME NEW u \in captured, u # s
      PROVE  u[1] + u[2] <= s[1] \/ s[1] + s[2] <= u[1]
  <2>1. Positions(s) \cap Positions(u) = {}
    BY <1>1, <1>2 DEF KeepsBoundaries
  <2> QED  BY <1>1, <2>1, DisjointSegments
<1> QED  BY <1>1, <1>2 DEF ApartFrom

\* A remembered fingerprint is that of a captured segment.
LEMMA FingerprintCaptured ==
  ASSUME Tracking, NEW s \in from.segs, NEW p, Carries(p, s),
         Contains(dir.recent_segments, fingerprint(p))
  PROVE  \E u \in captured : u[1] = s[1] /\ u[2] = s[2]
<1>1. PICK i \in 1 .. Len(dir.recent_segments) :
        dir.recent_segments[i] = fingerprint(p)
  BY DEF Contains
<1>2. PICK u \in captured : dir.recent_segments[i] = <<SeqAt(u[1]), u[2]>>
  BY DEF Tracking, Remembered
<1>3. fingerprint(p) = <<SeqAt(s[1]), s[2]>>
  BY DEF fingerprint, Carries
<1>4. SeqAt(u[1]) = SeqAt(s[1]) /\ u[2] = s[2]
  <2>1. <<SeqAt(u[1]), u[2]>> = <<SeqAt(s[1]), s[2]>>
    BY <1>1, <1>2, <1>3, Zenon
  <2> QED  BY <2>1, Zenon
<1>5. u[1] \in 0 .. StreamLen + 1 /\ s[1] \in 0 .. StreamLen + 1
  <2>1. IsSegment(u) /\ IsSegment(s)
    BY Typed
  <2> QED  BY <2>1, StreamFacts DEF IsSegment
<1>6. u[1] = s[1]
  BY <1>4, <1>5, Positioned, Zenon
<1> QED  BY <1>4, <1>6

\* What each judgement of classify means in positions.
LEMMA Judgements ==
  ASSUME Tracking, NEW s \in from.segs, NEW p, Carries(p, s), NEW c, c = classify(dir, p)
  PROVE  \/ c = "first" /\ high < 0
         \/ /\ c = "duplicate" /\ high >= 0 /\ s[1] + s[2] <= high
            /\ \E u \in captured : u[1] = s[1] /\ u[2] = s[2]
         \/ c = "late" /\ high >= 0 /\ s[1] + s[2] <= high /\ fills_known_hole(dir, p)
         \/ c = "resend" /\ high >= 0 /\ s[1] + s[2] <= high /\ ~fills_known_hole(dir, p)
         \/ c = "jump" /\ high >= 0 /\ s[1] > high
         \/ c = "advance" /\ high >= 0 /\ s[1] <= high /\ s[1] + s[2] > high
<1>1. p.len # 0 /\ IsSegment(s)
  BY Meeting, Typed DEF IsSegment
<1>2. /\ p.seq \in SeqNums /\ Pos(p.seq) = s[1]
      /\ seg_end(p) \in SeqNums /\ Pos(seg_end(p)) = s[1] + s[2]
  BY Meeting DEF Meets, HoleContext
<1>3. dir.seq_valid <=> high >= 0
  BY Meeting
<1>4. CASE high < 0
  <2>1. ~dir.seq_valid
    BY <1>3, <1>4, Typed
  <2> QED  BY <1>1, <1>4, <2>1 DEF classify
<1>5. CASE high >= 0
  <2>1. /\ Pos(dir.next_seq) = high /\ dir.next_seq \in SeqNums /\ dir.seq_valid
        /\ high <= StreamLen + 1 /\ high \in Int
    BY <1>3, <1>5, Meeting, Typed
  <2>2. s[1] <= StreamLen + 1 /\ s[1] + s[2] <= StreamLen + 1 /\ s[1] \in Int /\ s[1] + s[2] \in Int
    BY <1>1, StreamFacts DEF IsSegment
  <2>3. /\ seq_le(seg_end(p), dir.next_seq) <=> s[1] + s[2] <= high
        /\ seq_gt(p.seq, dir.next_seq) <=> s[1] > high
    BY <1>2, <2>1, <2>2, Compare
  <2>4. CASE Contains(dir.recent_segments, fingerprint(p))
    <3>1. c = "duplicate"
      BY <1>1, <2>1, <2>4 DEF classify
    <3>2. PICK u \in captured : u[1] = s[1] /\ u[2] = s[2]
      BY <2>4, FingerprintCaptured
    <3>3. u[1] + u[2] <= high
      BY DEF Tracking, CapturedBelowHigh
    <3> QED  BY <1>5, <3>1, <3>2, <3>3
  <2>5. CASE ~Contains(dir.recent_segments, fingerprint(p)) /\ s[1] + s[2] <= high
    <3>1. c = IF fills_known_hole(dir, p) THEN "late" ELSE "resend"
      BY <1>1, <2>1, <2>3, <2>5 DEF classify
    <3> QED  BY <1>5, <2>5, <3>1
  <2>6. CASE ~Contains(dir.recent_segments, fingerprint(p)) /\ ~(s[1] + s[2] <= high)
    <3>1. c = IF s[1] > high THEN "jump" ELSE "advance"
      BY <1>1, <2>1, <2>3, <2>6 DEF classify
    <3> QED  BY <1>5, <2>1, <2>2, <2>6, <3>1
  <2> QED  BY <2>4, <2>5, <2>6
<1> QED  BY <1>4, <1>5, Typed

\* The holes after a data segment judged c.
HolesAfter(c, p) ==
  CASE c = "late" -> filled_holes(dir, p)
    [] c = "jump" -> push_bounded(dir.holes, skipped(dir, p), kMaxTrackedHoles)
    [] OTHER -> dir.holes

\* The high-water mark after a data segment.
HighAfter(s) == IF s[1] + s[2] > high THEN s[1] + s[2] ELSE high

\* The hole a forward jump records.
LEMMA SkippedHole ==
  ASSUME Tracking, NEW s \in from.segs, NEW p, Carries(p, s), high >= 0
  PROVE  /\ skipped(dir, p) \in Hole
         /\ Pos(skipped(dir, p).lo) = high
         /\ Pos(skipped(dir, p).hi) = s[1]
<1>1. /\ p.seq \in SeqNums /\ Pos(p.seq) = s[1]
      /\ dir.next_seq \in SeqNums /\ Pos(dir.next_seq) = high
  BY Meeting, Typed DEF Meets, HoleContext
<1>2. PICK a \in SeqNums, b \in SeqNums :
        a = dir.next_seq /\ b = p.seq /\ skipped(dir, p) = [lo |-> a, hi |-> b]
  BY <1>1, Zenon DEF skipped
<1>3. [lo |-> a, hi |-> b] \in Hole /\ [lo |-> a, hi |-> b].lo = a /\ [lo |-> a, hi |-> b].hi = b
  BY DEF Hole
<1> QED  BY <1>1, <1>2, <1>3

\* The holes stay typed, bounded and in order.
LEMMA HolesStayOrdered ==
  ASSUME Tracking, NEW s \in from.segs, NEW p, Carries(p, s), NEW c, c = classify(dir, p)
  PROVE  /\ HolesAfter(c, p) \in Seq(Hole)
         /\ Len(HolesAfter(c, p)) <= kMaxTrackedHoles
         /\ Ordered(HolesAfter(c, p), HighAfter(s))
<1>1. /\ dir.holes \in Seq(Hole) /\ Len(dir.holes) <= kMaxTrackedHoles /\ Len(dir.holes) \in Nat
      /\ kMaxTrackedHoles \in Nat \ {0}
      /\ high \in Int /\ high <= StreamLen + 1 /\ Ordered(dir.holes, high)
      /\ HoleContext(dir, p, s[1], s[1] + s[2], high)
  BY Typed, Meeting, LenProperties, SequenceTrackingAssumption DEF Meets
<1>2. HighAfter(s) \in Int /\ high <= HighAfter(s) /\ s[1] + s[2] <= HighAfter(s) /\ IsSegment(s)
  BY <1>1, Typed DEF HighAfter, IsSegment
<1>3. \A hs \in Seq(Hole) : Ordered(hs, high) => Ordered(hs, HighAfter(s))
  <2>1. SUFFICES ASSUME NEW hs \in Seq(Hole), Ordered(hs, high) PROVE Ordered(hs, HighAfter(s))
    OBVIOUS
  <2>2. \A i \in 1 .. Len(hs) : Pos(hs[i].hi) \in Nat
    BY <1>1, <2>1, HoleTypes
  <2> QED  BY <1>1, <1>2, <2>1, <2>2 DEF Ordered
<1>4. CASE c = "late"
  <2>1. fills_known_hole(dir, p)
    BY <1>4, Judgements
  <2>2. PICK i \in 1 .. Len(dir.holes) :
          \/ filled_holes(dir, p) = RemoveAt(dir.holes, i)
          \/ \E h \in Hole :
               /\ filled_holes(dir, p) = [dir.holes EXCEPT ![i] = h]
               /\ Pos(dir.holes[i].lo) <= Pos(h.lo) /\ Pos(h.lo) < Pos(h.hi)
               /\ \/ Pos(h.hi) = Pos(dir.holes[i].hi) /\ s[1] + s[2] <= Pos(h.lo)
                  \/ Pos(h.hi) = s[1] /\ s[1] < Pos(dir.holes[i].hi)
    BY <1>1, <2>1, FilledHoles
  <2>3. HolesAfter(c, p) = filled_holes(dir, p)
    BY <1>4 DEF HolesAfter
  <2>4. CASE filled_holes(dir, p) = RemoveAt(dir.holes, i)
    <3>1. /\ RemoveAt(dir.holes, i) \in Seq(Hole)
          /\ Len(RemoveAt(dir.holes, i)) = Len(dir.holes) - 1
      BY <1>1, RemoveAtProperties
    <3>2. Ordered(RemoveAt(dir.holes, i), high)
      BY <1>1, RemoveKeepsOrder
    <3> QED  BY <1>1, <1>3, <2>3, <2>4, <3>1, <3>2
  <2>5. ASSUME NEW h \in Hole,
               filled_holes(dir, p) = [dir.holes EXCEPT ![i] = h],
               Pos(dir.holes[i].lo) <= Pos(h.lo), Pos(h.lo) < Pos(h.hi),
               \/ Pos(h.hi) = Pos(dir.holes[i].hi)
               \/ Pos(h.hi) = s[1] /\ s[1] < Pos(dir.holes[i].hi)
        PROVE  /\ HolesAfter(c, p) \in Seq(Hole)
               /\ Len(HolesAfter(c, p)) <= kMaxTrackedHoles
               /\ Ordered(HolesAfter(c, p), HighAfter(s))
    <3>1. PICK r : r = [dir.holes EXCEPT ![i] = h]
      OBVIOUS
    <3>2. r \in Seq(Hole) /\ Len(r) = Len(dir.holes)
      BY <1>1, <3>1, ExceptSeq, LenProperties
    <3>3. Pos(h.hi) <= Pos(dir.holes[i].hi)
      <4>1. Pos(dir.holes[i].hi) \in Nat
        BY <1>1, HoleTypes
      <4> QED  BY <1>2, <2>5, <4>1 DEF IsSegment
    <3>4. Ordered(r, high)
      BY <1>1, <2>5, <3>1, <3>3, CutKeepsOrder
    <3> QED  BY <1>1, <1>3, <2>3, <2>5, <3>1, <3>2, <3>4
  <2> QED  BY <2>2, <2>4, <2>5
<1>5. CASE c = "jump"
  <2>1. high >= 0 /\ s[1] > high
    BY <1>5, Judgements
  <2>2. PICK h \in Hole :
          h = skipped(dir, p) /\ Pos(h.lo) = high /\ Pos(h.hi) = s[1]
    BY <2>1, SkippedHole
  <2>3. HolesAfter(c, p) = push_bounded(dir.holes, h, kMaxTrackedHoles)
    BY <1>5, <2>2 DEF HolesAfter
  <2>4. /\ push_bounded(dir.holes, h, kMaxTrackedHoles) \in Seq(Hole)
        /\ Len(push_bounded(dir.holes, h, kMaxTrackedHoles)) <= kMaxTrackedHoles
    BY <1>1, PushBounded
  <2>5. high < Pos(h.hi) /\ Pos(h.hi) < HighAfter(s)
    BY <1>1, <1>2, <2>1, <2>2 DEF IsSegment
  <2>6. Ordered(push_bounded(dir.holes, h, kMaxTrackedHoles), HighAfter(s))
    BY <1>1, <1>2, <2>2, <2>5, JumpKeepsOrder
  <2> QED  BY <2>3, <2>4, <2>6
<1>6. CASE c # "late" /\ c # "jump"
  BY <1>1, <1>3, <1>6 DEF HolesAfter
<1> QED  BY <1>4, <1>5, <1>6

\* When boundaries are kept, the holes stay uncaptured.
LEMMA HolesStayUncaptured ==
  ASSUME Tracking, KeepsBoundaries, NEW s \in from.segs, NEW p, Carries(p, s),
         NEW c, c = classify(dir, p)
  PROVE  Uncaptured(HolesAfter(c, p), captured \cup {s})
<1>1. /\ Meets(dir, p, s, high) /\ ApartFrom(s, captured)
      /\ Uncaptured(dir.holes, captured) /\ IsSegment(s)
  BY Meeting, CapturedApart, Typed DEF Tracking
<1>2. ASSUME ~fills_known_hole(dir, p)
      PROVE  Uncaptured(dir.holes, captured \cup {s})
  <2>1. \A i \in 1 .. Len(dir.holes) :
          ~(s[1] < Pos(dir.holes[i].hi) /\ Pos(dir.holes[i].lo) < s[1] + s[2])
    BY <1>1, <1>2, HolesHit DEF Meets, fills_known_hole
  <2>2. \A i \in 1 .. Len(dir.holes) :
          /\ \E u \in captured \cup {s} : u[1] = Pos(dir.holes[i].hi)
          /\ \A u \in captured \cup {s} :
               u[1] + u[2] <= Pos(dir.holes[i].lo) \/ Pos(dir.holes[i].hi) <= u[1]
    BY <1>1, <2>1, MissedHole
  <2> QED  BY <2>2 DEF Uncaptured
<1>3. ASSUME high >= 0, ~(s[1] + s[2] <= high) PROVE ~fills_known_hole(dir, p)
  <2>1. SUFFICES ASSUME NEW i \in 1 .. Len(dir.holes),
                        s[1] < Pos(dir.holes[i].hi), Pos(dir.holes[i].lo) < s[1] + s[2]
                 PROVE  FALSE
    BY <1>1, HolesHit DEF Meets, fills_known_hole
  <2>2. s[1] + s[2] <= Pos(dir.holes[i].hi)
    BY <1>1, <2>1, FitsHole
  <2>3. Pos(dir.holes[i].hi) < high /\ Pos(dir.holes[i].hi) \in Nat
    BY Meeting, Typed, HoleTypes DEF Ordered
  <2> QED  BY <1>1, <1>3, <2>2, <2>3, Typed DEF IsSegment
<1>4. CASE c = "first"
  <2>1. high < 0
    BY <1>4, Judgements
  <2>2. dir.seq_valid <=> high >= 0
    BY Meeting
  <2>3. ~dir.seq_valid
    BY <2>1, <2>2, Typed
  <2>4. dir.holes = << >>
    BY <2>3 DEF Tracking, Remembered
  <2> QED  BY <1>4, <2>4 DEF HolesAfter, Uncaptured
<1>5. CASE c = "duplicate"
  <2>1. PICK u \in captured : u[1] = s[1] /\ u[2] = s[2]
    BY <1>5, Judgements
  <2>2. u = s
    <3>1. u = s \/ u[1] + u[2] <= s[1] \/ s[1] + s[2] <= u[1]
      BY <1>1 DEF ApartFrom
    <3> QED  BY <1>1, <2>1, <3>1 DEF IsSegment
  <2>3. captured \cup {s} = captured
    BY <2>2
  <2> QED  BY <1>1, <1>5, <2>3 DEF HolesAfter
<1>6. CASE c = "late"
  <2>1. Uncaptured(filled_holes(dir, p), captured \cup {s})
    BY <1>1, <1>6, Judgements, FillKeepsUncaptured
  <2> QED  BY <1>6, <2>1 DEF HolesAfter
<1>7. CASE c = "resend"
  <2>1. ~fills_known_hole(dir, p)
    BY <1>7, Judgements
  <2> QED  BY <1>2, <1>7, <2>1 DEF HolesAfter
<1>8. CASE c = "advance"
  <2>1. high >= 0 /\ s[1] + s[2] > high
    BY <1>8, Judgements
  <2>2. ~(s[1] + s[2] <= high)
    BY <1>1, <2>1, Typed DEF IsSegment
  <2> QED  BY <1>2, <1>3, <1>8, <2>1, <2>2 DEF HolesAfter
<1>9. CASE c = "jump"
  <2>1. high >= 0 /\ s[1] > high
    BY <1>9, Judgements
  <2>2. Uncaptured(dir.holes, captured \cup {s})
    <3>1. ~(s[1] + s[2] <= high)
      BY <1>1, <2>1, Typed DEF IsSegment
    <3> QED  BY <1>2, <1>3, <2>1, <3>1
  <2>3. PICK h \in Hole :
          h = skipped(dir, p) /\ Pos(h.lo) = high /\ Pos(h.hi) = s[1]
    BY <2>1, SkippedHole
  <2>4. PICK r : r = push_bounded(dir.holes, h, kMaxTrackedHoles)
    OBVIOUS
  <2>5. HolesAfter(c, p) = r
    BY <1>9, <2>3, <2>4 DEF HolesAfter
  <2>6. /\ kMaxTrackedHoles \in Nat \ {0} /\ Len(dir.holes) <= kMaxTrackedHoles
        /\ dir.holes \in Seq(Hole) /\ Len(dir.holes) \in Nat
    BY Typed, LenProperties, SequenceTrackingAssumption
  <2>7. PICK k \in {0, 1} :
          /\ Len(r) = Len(dir.holes) + 1 - k /\ r[Len(dir.holes) + 1 - k] = h
          /\ \A i \in 1 .. Len(dir.holes) - k : r[i] = dir.holes[i + k]
    <3>1. \E k \in {0, 1} :
            /\ Len(push_bounded(dir.holes, h, kMaxTrackedHoles)) = Len(dir.holes) + 1 - k
            /\ push_bounded(dir.holes, h, kMaxTrackedHoles)[Len(dir.holes) + 1 - k] = h
            /\ \A i \in 1 .. Len(dir.holes) - k :
                 push_bounded(dir.holes, h, kMaxTrackedHoles)[i] = dir.holes[i + k]
      BY <2>6, PushBounded
    <3> QED  BY <2>4, <3>1, Zenon
  <2>8. \A j \in 1 .. Len(r) : r[j] = h \/ \E m \in 1 .. Len(dir.holes) : r[j] = dir.holes[m]
    BY <2>6, <2>7
  <2>9. /\ \E u \in captured \cup {s} : u[1] = Pos(h.hi)
        /\ \A u \in captured \cup {s} : u[1] + u[2] <= Pos(h.lo) \/ Pos(h.hi) <= u[1]
    <3>1. \A u \in captured : u[1] + u[2] <= high
      BY DEF Tracking, CapturedBelowHigh
    <3>2. s[1] <= s[1]
      BY <1>1 DEF IsSegment
    <3> QED  BY <2>3, <3>1, <3>2
  <2>10. \A j \in 1 .. Len(r) :
           /\ \E u \in captured \cup {s} : u[1] = Pos(r[j].hi)
           /\ \A u \in captured \cup {s} : u[1] + u[2] <= Pos(r[j].lo) \/ Pos(r[j].hi) <= u[1]
    BY <2>2, <2>8, <2>9, Zenon DEF Uncaptured
  <2> QED  BY <2>5, <2>10 DEF Uncaptured
<1> QED  BY <1>4, <1>5, <1>6, <1>7, <1>8, <1>9, Judgements

\* A repeated capture is judged a retransmission when boundaries are kept.
LEMMA RepeatsJudged ==
  ASSUME Tracking, KeepsBoundaries, NEW s \in from.segs, NEW p, Carries(p, s), s \in captured
  PROVE  is_retransmit(classify(dir, p))
<1>1. PICK c : c = classify(dir, p)
  OBVIOUS
<1>2. s[1] + s[2] <= high /\ IsSegment(s) /\ high \in Int
  BY Typed DEF Tracking, CapturedBelowHigh
<1>3. ~fills_known_hole(dir, p)
  <2>1. /\ Meets(dir, p, s, high) /\ ApartFrom(s, captured)
        /\ Uncaptured(dir.holes, captured)
    BY Meeting, CapturedApart DEF Tracking
  <2>2. \A i \in 1 .. Len(dir.holes) :
          ~(s[1] < Pos(dir.holes[i].hi) /\ Pos(dir.holes[i].lo) < s[1] + s[2])
    BY <2>1, FitsHole
  <2> QED  BY <2>1, <2>2, HolesHit DEF Meets, fills_known_hole
<1>4. ~(high < 0) /\ ~(s[1] > high) /\ ~(s[1] + s[2] > high)
  BY <1>2 DEF IsSegment
<1>5. c = "duplicate" \/ c = "resend"
  BY <1>1, <1>3, <1>4, Judgements
<1> QED  BY <1>1, <1>5 DEF is_retransmit

\* What track_sequence does with a data segment judged c, field by field.
DataResult(d, p, c) ==
  /\ Shape(d)
  /\ dir \in Directions => d \in Directions
  /\ d.retransmits = Increment(dir.retransmits, is_retransmit(c))
  /\ d.out_of_order = Increment(dir.out_of_order, is_out_of_order(c))
  /\ d.seq_valid = TRUE
  /\ d.next_seq = IF c \in {"first", "jump", "advance"} THEN seg_end(p) ELSE dir.next_seq
  /\ d.holes = HolesAfter(c, p)
  /\ d.recent_segments =
       push_bounded(dir.recent_segments, fingerprint(p), kRecentSegmentWindow)

\* A data segment leaves the record as described.
LEMMA DataEffect ==
  ASSUME Tracking, NEW s \in from.segs, NEW p, Carries(p, s), NEW c, c = classify(dir, p),
         NEW d, d = track_sequence(dir, p)
  PROVE  DataResult(d, p, c)
<1>1. p.len # 0 /\ seg_end(p) \in SeqNums /\ fingerprint(p) \in SeqNums \X Nat
  <2>1. IsSegment(s) /\ p.len = s[2] /\ p.seq \in SeqNums /\ seg_end(p) \in SeqNums
    BY Meeting, Typed DEF Meets, HoleContext
  <2> QED  BY <2>1 DEF IsSegment, fingerprint
<1>2. PICK r \in Nat : r = Increment(dir.retransmits, is_retransmit(c))
  BY Typed DEF Increment
<1>3. PICK o \in Nat : o = Increment(dir.out_of_order, is_out_of_order(c))
  BY Typed DEF Increment
<1>4. PICK n \in SeqNums :
        n = IF c \in {"first", "jump", "advance"} THEN seg_end(p) ELSE dir.next_seq
  BY <1>1, Typed
<1>5. PICK hs \in Seq(Hole) : hs = HolesAfter(c, p)
  BY HolesStayOrdered
<1>6. PICK rs \in Seq(SeqNums \X Nat) :
        /\ rs = push_bounded(dir.recent_segments, fingerprint(p), kRecentSegmentWindow)
        /\ Len(rs) <= kRecentSegmentWindow
  <2>1. kRecentSegmentWindow \in Nat \ {0} /\ Len(dir.recent_segments) <= kRecentSegmentWindow
    BY SequenceTrackingAssumption, Typed
  <2>2. PICK q, fp, S : q = dir.recent_segments /\ fp = fingerprint(p) /\ S = SeqNums \X Nat
    OBVIOUS
  <2>3. q \in Seq(S) /\ fp \in S /\ Len(q) <= kRecentSegmentWindow
    BY <1>1, <2>1, <2>2, Typed
  <2>4. /\ push_bounded(q, fp, kRecentSegmentWindow) \in Seq(S)
        /\ Len(push_bounded(q, fp, kRecentSegmentWindow)) <= kRecentSegmentWindow
    BY <2>1, <2>3, PushBounded
  <2> QED  BY <2>2, <2>4
<1>7. d = track_data(dir, p)
  BY <1>1 DEF track_sequence
<1>8. d = [dir EXCEPT !.retransmits = r, !.out_of_order = o, !.seq_valid = TRUE,
                      !.next_seq = n, !.holes = hs, !.recent_segments = rs]
  <2>1. hs = CASE c = "late" -> filled_holes(dir, p)
               [] c = "jump" -> push_bounded(dir.holes, skipped(dir, p), kMaxTrackedHoles)
               [] OTHER -> dir.holes
    BY <1>5 DEF HolesAfter
  <2> QED  BY <1>2, <1>3, <1>4, <1>6, <1>7, <2>1, Zenon DEF track_data
<1>9. /\ d.retransmits = r /\ d.out_of_order = o /\ d.seq_valid = TRUE
      /\ d.next_seq = n /\ d.holes = hs /\ d.recent_segments = rs
      /\ DOMAIN d = DOMAIN dir
  BY <1>8 DEF Tracking, Shape
<1>10. Shape(d)
  <2>1. Len(hs) <= kMaxTrackedHoles
    BY <1>5, HolesStayOrdered
  <2> QED  BY <1>6, <1>9, <2>1 DEF Tracking, Shape
<1>11. dir \in Directions => d \in Directions
  BY <1>8 DEF Directions
<1> QED  BY <1>2, <1>3, <1>4, <1>5, <1>6, <1>9, <1>10, <1>11 DEF DataResult

\* Two records agree on the fields that track_sequence uses; a flow may keep others.
Agree(d, e) ==
  /\ {"retransmits", "out_of_order", "seq_valid", "next_seq", "recent_segments", "holes"}
       \subseteq DOMAIN d
  /\ d.retransmits = e.retransmits /\ d.out_of_order = e.out_of_order
  /\ d.seq_valid = e.seq_valid /\ d.next_seq = e.next_seq
  /\ d.recent_segments = e.recent_segments /\ d.holes = e.holes

\* A data segment keeps what is tracked; the lemma does not depend on the rest of the
\* specification, so that it also serves a flow with more state.
LEMMA DataTracking ==
  ASSUME Tracking, NEW s \in from.segs, NEW p, Carries(p, s),
         Agree(dir', track_sequence(dir, p)), high' = HighAfter(s),
         captured' = captured \cup {s}, from' = from
  PROVE  Tracking'
<1>1. from' \in Senders /\ captured' \subseteq from'.segs
  BY Typed DEF Tracking
<1>2. PICK c : c = classify(dir, p)
  OBVIOUS
<1>3. /\ Shape(dir') /\ dir'.seq_valid = TRUE
      /\ dir'.next_seq = IF c \in {"first", "jump", "advance"} THEN seg_end(p)
                                                               ELSE dir.next_seq
      /\ dir'.holes = HolesAfter(c, p)
      /\ dir'.recent_segments =
           push_bounded(dir.recent_segments, fingerprint(p), kRecentSegmentWindow)
  <2>1. PICK d : d = track_sequence(dir, p)
    OBVIOUS
  <2>2. DataResult(d, p, c)
    BY <1>2, <2>1, DataEffect, Zenon
  <2>3. Shape(dir')
    BY <2>1, <2>2 DEF DataResult, Agree, Shape
  <2> QED  BY <2>1, <2>2, <2>3 DEF DataResult, Agree
<1>4. Ordered(dir'.holes, high')
  BY <1>2, <1>3, HolesStayOrdered
<1>5. /\ IsSegment(s) /\ high \in Int /\ -1 <= high /\ high <= StreamLen + 1
      /\ s[1] \in Nat /\ s[1] + s[2] \in Nat /\ s[1] < s[1] + s[2] /\ s[1] + s[2] <= StreamLen
      /\ StreamLen \in Nat
  BY Typed, StreamFacts, SMTT(30) DEF IsSegment
<1>6. /\ high' \in Int /\ high <= high' /\ s[1] + s[2] <= high' /\ high' <= StreamLen + 1
      /\ high' = s[1] + s[2] \/ high' = high
  BY <1>5 DEF HighAfter
<1>7. high' \in -1 .. StreamLen + 1
  BY <1>5, <1>6
<1>8. NextSeqIsHighWater'
  <2>1. seg_end(p) = SeqAt(s[1] + s[2])
    <3>1. seg_end(p) \in SeqNums /\ Pos(seg_end(p)) = s[1] + s[2]
      BY Meeting DEF Meets, HoleContext
    <3> QED  BY <3>1, Positioned
  <2>2. dir'.next_seq = SeqAt(high')
    <3>1. CASE c \in {"first", "jump", "advance"}
      <4>1. s[1] + s[2] > high
        <5>1. high < 0 \/ s[1] > high \/ s[1] + s[2] > high
          BY <1>2, <3>1, Judgements
        <5> QED  BY <1>5, <5>1
      <4>2. high' = s[1] + s[2]
        BY <1>1, <4>1 DEF HighAfter
      <4> QED  BY <1>3, <2>1, <3>1, <4>2
    <3>2. CASE ~(c \in {"first", "jump", "advance"})
      <4>1. high >= 0 /\ s[1] + s[2] <= high
        BY <1>2, <3>2, Judgements
      <4>2. high' = high
        BY <1>1, <1>5, <4>1 DEF HighAfter
      <4>3. dir.next_seq = SeqAt(high)
        <5>1. dir.seq_valid <=> high >= 0
          BY Meeting
        <5> QED  BY <4>1, <5>1 DEF Tracking, NextSeqIsHighWater
      <4> QED  BY <1>3, <3>2, <4>2, <4>3
    <3> QED  BY <3>1, <3>2
  <2>3. high' >= 0
    BY <1>5, <1>6
  <2> QED  BY <1>3, <2>2, <2>3 DEF NextSeqIsHighWater
<1>9. CapturedBelowHigh'
  <2>1. IsFiniteSet(captured')
    BY <1>1, FS_AddElement DEF Tracking, CapturedBelowHigh
  <2>2. ASSUME NEW u \in captured' PROVE u[1] + u[2] <= high'
    <3>1. CASE u = s
      BY <1>6, <3>1
    <3>2. CASE u \in captured
      <4>1. u[1] + u[2] <= high /\ IsSegment(u)
        BY <3>2, Typed DEF Tracking, CapturedBelowHigh
      <4> QED  BY <1>5, <1>6, <4>1 DEF IsSegment
    <3> QED  BY <1>1, <3>1, <3>2
  <2> QED  BY <2>1, <2>2 DEF CapturedBelowHigh
<1>10. Remembered'
  <2>1. /\ kRecentSegmentWindow \in Nat \ {0} /\ Len(dir.recent_segments) <= kRecentSegmentWindow
        /\ dir.recent_segments \in Seq(SeqNums \X Nat) /\ Len(dir.recent_segments) \in Nat
    BY SequenceTrackingAssumption, Typed, LenProperties
  <2>2. fingerprint(p) \in SeqNums \X Nat /\ fingerprint(p) = <<SeqAt(s[1]), s[2]>>
    <3>1. p.seq = SeqAt(s[1]) /\ p.len = s[2] /\ p.seq \in SeqNums
      BY Meeting DEF Meets, HoleContext
    <3>2. s[2] \in Nat
      BY <1>5 DEF IsSegment
    <3> QED  BY <3>1, <3>2 DEF fingerprint
  <2>3. PICK q : q = push_bounded(dir.recent_segments, fingerprint(p), kRecentSegmentWindow)
    OBVIOUS
  <2>4. PICK k \in {0, 1} :
          /\ Len(q) = Len(dir.recent_segments) + 1 - k
          /\ q[Len(dir.recent_segments) + 1 - k] = fingerprint(p)
          /\ \A i \in 1 .. Len(dir.recent_segments) - k : q[i] = dir.recent_segments[i + k]
    <3>1. PICK S, rs, fp :
            rs \in Seq(S) /\ fp \in S
            /\ rs = dir.recent_segments /\ fp = fingerprint(p) /\ Len(rs) <= kRecentSegmentWindow
      BY <2>1, <2>2, Zenon
    <3>2. \E k \in {0, 1} :
            /\ Len(push_bounded(rs, fp, kRecentSegmentWindow)) = Len(rs) + 1 - k
            /\ push_bounded(rs, fp, kRecentSegmentWindow)[Len(rs) + 1 - k] = fp
            /\ \A i \in 1 .. Len(rs) - k : push_bounded(rs, fp, kRecentSegmentWindow)[i] = rs[i + k]
      <4>1. kRecentSegmentWindow \in Nat \ {0}
        BY <2>1
      <4> QED  BY <3>1, <4>1, PushBounded
    <3> QED  BY <2>3, <3>1, <3>2, Zenon
  <2>5. \A j \in 1 .. Len(q) :
          \/ q[j] = fingerprint(p)
          \/ \E m \in 1 .. Len(dir.recent_segments) : q[j] = dir.recent_segments[m]
    <3>1. PICK n \in Nat : n = Len(dir.recent_segments)
      BY <2>1
    <3> SUFFICES ASSUME NEW j \in 1 .. Len(q), j # n + 1 - k
                 PROVE  \E m \in 1 .. n : q[j] = dir.recent_segments[m]
      BY <2>4, <3>1
    <3>2. j \in 1 .. n - k /\ j + k \in 1 .. n
      BY <2>4, <3>1
    <3> QED  BY <2>4, <3>1, <3>2
  <2>6. \A m \in 1 .. Len(dir.recent_segments) :
          \E u \in captured : dir.recent_segments[m] = <<SeqAt(u[1]), u[2]>>
    BY DEF Tracking, Remembered
  <2>7. \A j \in 1 .. Len(q) : \E u \in captured \cup {s} : q[j] = <<SeqAt(u[1]), u[2]>>
    BY <2>2, <2>5, <2>6, ZenonT(30)
  <2> QED  BY <1>1, <1>3, <2>3, <2>7 DEF Remembered
<1>11. (KeepsBoundaries => Uncaptured(dir.holes, captured))'
  <2>1. KeepsBoundaries => Uncaptured(HolesAfter(c, p), captured \cup {s})
    BY <1>2, HolesStayUncaptured
  <2> QED  BY <1>1, <1>3, <2>1 DEF KeepsBoundaries, Uncaptured
<1> QED  BY <1>1, <1>3, <1>4, <1>7, <1>8, <1>9, <1>10, <1>11 DEF Tracking

\* The high-water mark, read off the record.
Mark(d) == IF d.seq_valid THEN Pos(d.next_seq) ELSE -1

\* The record alone determines the mark, before and after a data segment.
LEMMA DataMark ==
  ASSUME Tracking, NEW s \in from.segs, NEW p, Carries(p, s)
  PROVE  Mark(track_sequence(dir, p)) = HighAfter(s)
<1>1. PICK c, d : c = classify(dir, p) /\ d = track_sequence(dir, p)
  OBVIOUS
<1>2. DataResult(d, p, c)
  BY <1>1, DataEffect, Zenon
<1>3. /\ d.seq_valid = TRUE
      /\ d.next_seq = IF c \in {"first", "jump", "advance"} THEN seg_end(p) ELSE dir.next_seq
  BY <1>2 DEF DataResult
<1>4. Pos(seg_end(p)) = s[1] + s[2] /\ IsSegment(s) /\ high \in Int
  BY Meeting, Typed DEF Meets, HoleContext
<1>5. CASE c \in {"first", "jump", "advance"}
  <2>1. high < 0 \/ s[1] > high \/ s[1] + s[2] > high
    BY <1>1, <1>5, Judgements
  <2>2. s[1] + s[2] > high
    BY <1>4, <2>1 DEF IsSegment
  <2> QED  BY <1>1, <1>3, <1>4, <1>5, <2>2 DEF Mark, HighAfter
<1>6. CASE ~(c \in {"first", "jump", "advance"})
  <2>1. high >= 0 /\ s[1] + s[2] <= high
    BY <1>1, <1>6, Judgements
  <2>2. Pos(dir.next_seq) = high
    BY <2>1, Meeting
  <2>3. ~(s[1] + s[2] > high)
    BY <1>4, <2>1 DEF IsSegment
  <2> QED  BY <1>1, <1>3, <1>6, <2>2, <2>3 DEF Mark, HighAfter
<1> QED  BY <1>5, <1>6

\* A data segment keeps the invariant.
LEMMA DataIInv ==
  ASSUME IInv, NEW s \in from.segs, Data(s)
  PROVE  IInv'
<1>1. PICK p : p = [flags |-> {"ACK"}, seq |-> SeqAt(s[1]), len |-> s[2]]
  OBVIOUS
<1>2. Carries(p, s) /\ Tracking
  BY <1>1 DEF Carries, IInv
<1>3. /\ dir' = track_sequence(dir, p) /\ data_segments' = data_segments + 1
      /\ high' = HighAfter(s) /\ captured' = captured \cup {s} /\ from' = from
      /\ missing' = (missing \cup (IF high >= 0 THEN high .. s[1] - 1 ELSE {})) \ Positions(s)
  BY <1>1 DEF Data, HighAfter
<1>4. Tracking'
  <2>1. Agree(dir', track_sequence(dir, p))
    <3>1. DataResult(dir', p, classify(dir, p))
      BY <1>2, <1>3, DataEffect, Zenon
    <3> QED  BY <1>3, <3>1 DEF Agree, DataResult, Shape
  <2> QED  BY <1>2, <1>3, <2>1, DataTracking
<1>5. PICK c : c = classify(dir, p)
  OBVIOUS
<1>6. /\ dir \in Directions => dir' \in Directions
      /\ dir'.retransmits = Increment(dir.retransmits, is_retransmit(c))
      /\ dir'.out_of_order = Increment(dir.out_of_order, is_out_of_order(c))
  <2>1. DataResult(dir', p, c)
    BY <1>2, <1>3, <1>5, DataEffect, Zenon
  <2> QED  BY <2>1 DEF DataResult
<1>7. TypeOK'
  <2>1. missing' \subseteq 0 .. StreamLen - 1
    <3>1. missing \subseteq 0 .. StreamLen - 1
      BY DEF IInv, TypeOK
    <3>2. IsSegment(s) /\ high \in Int /\ StreamLen \in Nat
      BY <1>2, Typed, StreamFacts
    <3>3. \A y \in high .. s[1] - 1 : high >= 0 => y \in 0 .. StreamLen - 1
      BY <3>2 DEF IsSegment
    <3> QED  BY <1>3, <3>1, <3>3
  <2>2. dir \in Directions /\ data_segments \in Nat
    BY DEF IInv, TypeOK, Directions
  <2> QED  BY <1>3, <1>4, <1>6, <2>1, <2>2 DEF TypeOK, Tracking, Shape, Directions
<1>8. RepeatsCounted'
  <2>1. PICK rt \in Nat, oo \in Nat, n \in Nat, k \in Nat :
          /\ rt = dir.retransmits /\ oo = dir.out_of_order /\ n = data_segments
          /\ k = Cardinality(captured) /\ rt + oo <= n
          /\ KeepsBoundaries => rt >= n - k
    <3>1. Cardinality(captured) \in Nat
      BY <1>2, FS_CardinalityType DEF Tracking, CapturedBelowHigh
    <3>2. data_segments \in Nat /\ dir.retransmits \in Nat /\ dir.out_of_order \in Nat
      BY <1>2, Typed DEF IInv, TypeOK
    <3> QED  BY <3>1, <3>2 DEF IInv, RepeatsCounted
  <2>2. Cardinality(captured \cup {s}) = IF s \in captured THEN k ELSE k + 1
    BY <1>2, <2>1, FS_AddElement DEF Tracking, CapturedBelowHigh
  <2>3. ~(is_retransmit(c) /\ is_out_of_order(c))
    BY DEF is_retransmit, is_out_of_order
  <2>4. KeepsBoundaries /\ s \in captured => is_retransmit(c)
    BY <1>2, <1>5, RepeatsJudged
  <2>5. dir'.retransmits + dir'.out_of_order <= data_segments'
    BY <1>3, <1>6, <2>1, <2>3 DEF Increment
  <2>6. KeepsBoundaries => dir'.retransmits >= data_segments' - Cardinality(captured')
    BY <1>3, <1>6, <2>1, <2>2, <2>4 DEF Increment
  <2> QED  BY <1>3, <2>5, <2>6 DEF RepeatsCounted, KeepsBoundaries
<1> QED  BY <1>4, <1>7, <1>8 DEF IInv

-----------------------------------------------------------------------------
(* One segment without data, and the steps of the specification.           *)

\* The holes stay below a mark that rises.
LEMMA OrderedBelow ==
  ASSUME NEW hs \in Seq(Hole), NEW top \in Int, top <= StreamLen + 1, Ordered(hs, top),
         NEW newtop \in Int, top <= newtop
  PROVE  Ordered(hs, newtop)
<1>1. \A i \in 1 .. Len(hs) : Pos(hs[i].hi) \in Nat
  BY HoleTypes
<1> QED  BY <1>1 DEF Ordered

\* The high-water mark after a segment without data at position x.
HighAfterControl(x, p) ==
  LET end == IF p.flags \cap {"SYN", "FIN"} # {} THEN x + 1 ELSE x
  IN IF end > high THEN end ELSE high

\* A segment without data at a position where the sender may send one.
IsControl(p, x) ==
  /\ x \in Int /\ -1 <= x /\ x <= StreamLen
  /\ p.len = 0 /\ p.seq = SeqAt(x)
  /\ x = -1 => p.flags \cap {"SYN", "FIN"} # {}

\* What track_sequence does with a segment without data, field by field.
ControlResult(d, top) ==
  /\ DOMAIN d = DOMAIN dir
  /\ d.seq_valid = TRUE /\ d.next_seq = SeqAt(top) /\ d.next_seq \in SeqNums
  /\ top \in Int /\ 0 <= top /\ high <= top /\ top <= StreamLen + 1
  /\ d.retransmits = dir.retransmits /\ d.out_of_order = dir.out_of_order
  /\ d.recent_segments = dir.recent_segments /\ d.holes = dir.holes
  /\ dir \in Directions => d \in Directions

\* A segment without data leaves the record as described.
LEMMA ControlEffect ==
  ASSUME Tracking, NEW x, NEW p, IsControl(p, x),
         NEW d, d = track_sequence(dir, p), NEW top, top = HighAfterControl(x, p)
  PROVE  ControlResult(d, top)
<1>1. PICK n \in {0, 1} :
        n = (IF p.flags \cap {"SYN", "FIN"} # {} THEN 1 ELSE 0) /\ (x = -1 => n = 1)
  BY DEF IsControl
<1>2. PICK end \in Int : end = x + n /\ 0 <= end /\ end <= StreamLen + 1
  <2>1. x + n \in Int /\ x + n <= StreamLen + 1
    BY StreamFacts DEF IsControl
  <2>2. 0 <= x + n
    <3>1. CASE x = -1
      BY <1>1, <3>1
    <3>2. CASE x # -1
      BY <3>2 DEF IsControl
    <3> QED  BY <3>1, <3>2
  <2> QED  BY <2>1, <2>2
<1>3. top = IF end > high THEN end ELSE high
  <2>1. end = IF p.flags \cap {"SYN", "FIN"} # {} THEN x + 1 ELSE x
    BY <1>1, <1>2 DEF IsControl
  <2> QED  BY <2>1, Zenon DEF HighAfterControl
<1>4. /\ SeqAt(end) \in SeqNums /\ Pos(SeqAt(end)) = end
      /\ SeqAdd(p.seq, IF p.flags \cap {"SYN", "FIN"} # {} THEN 1 ELSE 0) = SeqAt(end)
  <2>1. end \in 0 .. StreamLen + 1
    BY <1>2, StreamFacts
  <2>2. SeqAdd(p.seq, n) = SeqAt(end)
    BY <1>2, Positioned DEF IsControl
  <2> QED  BY <1>1, <2>1, <2>2, Positioned
<1>5. high \in Int /\ -1 <= high /\ high <= StreamLen + 1
  BY Typed
<1>6. /\ dir.seq_valid <=> high >= 0
      /\ high >= 0 => dir.next_seq = SeqAt(high) /\ Pos(dir.next_seq) = high
  <2>1. dir.seq_valid <=> high >= 0
    BY Typed DEF Tracking, NextSeqIsHighWater
  <2>2. SUFFICES ASSUME high >= 0
                 PROVE  dir.next_seq = SeqAt(high) /\ Pos(dir.next_seq) = high
    BY <2>1
  <2>3. dir.next_seq = SeqAt(high)
    BY <2>1, <2>2 DEF Tracking, NextSeqIsHighWater
  <2>4. high \in 0 .. StreamLen + 1
    BY <1>5, <2>2, StreamFacts
  <2> QED  BY <2>3, <2>4, Positioned
<1>7. PICK m \in SeqNums :
        m = IF ~dir.seq_valid \/ seq_gt(SeqAt(end), dir.next_seq) THEN SeqAt(end) ELSE dir.next_seq
  BY <1>4, Typed
<1>8. d = [dir EXCEPT !.seq_valid = TRUE, !.next_seq = m]
  <2>1. d = track_control(dir, p)
    BY Zenon DEF track_sequence, IsControl
  <2> QED  BY <1>4, <1>7, <2>1, Zenon DEF track_control
<1>9. /\ d.seq_valid = TRUE /\ d.next_seq = m
      /\ d.retransmits = dir.retransmits /\ d.out_of_order = dir.out_of_order
      /\ d.recent_segments = dir.recent_segments /\ d.holes = dir.holes
      /\ DOMAIN d = DOMAIN dir
  BY <1>8 DEF Tracking, Shape
<1>10. top \in Int /\ 0 <= top /\ high <= top /\ top <= StreamLen + 1
  BY <1>2, <1>3, <1>5
<1>11. m = SeqAt(top)
  <2>1. CASE ~dir.seq_valid
    BY <1>2, <1>3, <1>5, <1>6, <1>7, <2>1
  <2>2. CASE dir.seq_valid
    <3>1. seq_gt(SeqAt(end), dir.next_seq) <=> end > high
      <4>1. /\ dir.next_seq \in SeqNums /\ Pos(dir.next_seq) = high
        BY <1>6, <2>2, Typed
      <4> QED  BY <1>2, <1>4, <1>5, <4>1, Compare
    <3> QED  BY <1>3, <1>6, <1>7, <2>2, <3>1
  <2> QED  BY <2>1, <2>2
<1>12. dir \in Directions => d \in Directions
  BY <1>8 DEF Directions
<1> QED  BY <1>9, <1>10, <1>11, <1>12 DEF ControlResult

\* The record alone determines the mark after a segment without data, too.
LEMMA ControlMark ==
  ASSUME Tracking, NEW x, NEW p, IsControl(p, x)
  PROVE  Mark(track_sequence(dir, p)) = HighAfterControl(x, p)
<1>1. PICK d, top : d = track_sequence(dir, p) /\ top = HighAfterControl(x, p)
  OBVIOUS
<1>2. ControlResult(d, top)
  BY <1>1, ControlEffect, Zenon
<1>3. top \in 0 .. StreamLen + 1
  BY <1>2, StreamFacts DEF ControlResult
<1>4. Pos(SeqAt(top)) = top
  BY <1>3, Positioned
<1> QED  BY <1>1, <1>2, <1>4 DEF Mark, ControlResult

\* A segment without data keeps what is tracked.
LEMMA ControlTracking ==
  ASSUME Tracking, NEW x, NEW p, IsControl(p, x),
         Agree(dir', track_sequence(dir, p)), high' = HighAfterControl(x, p),
         from' = from, captured' = captured
  PROVE  Tracking'
<1>1. /\ dir'.seq_valid = TRUE /\ dir'.next_seq = SeqAt(high') /\ dir'.next_seq \in SeqNums
      /\ high' \in Int /\ 0 <= high' /\ high <= high' /\ high' <= StreamLen + 1
      /\ dir'.retransmits = dir.retransmits /\ dir'.out_of_order = dir.out_of_order
      /\ dir'.recent_segments = dir.recent_segments /\ dir'.holes = dir.holes
  <2>1. PICK d : d = track_sequence(dir, p)
    OBVIOUS
  <2>2. ControlResult(d, high')
    BY <2>1, ControlEffect, Zenon
  <2> QED  BY <2>1, <2>2 DEF ControlResult, Agree
<1>2. Shape(dir')
  BY <1>1 DEF Tracking, Shape, Agree
<1>3. high' \in -1 .. StreamLen + 1
  BY <1>1, StreamFacts
<1>4. NextSeqIsHighWater'
  BY <1>1 DEF NextSeqIsHighWater
<1>5. CapturedBelowHigh'
  <2>1. \A u \in captured : u[1] + u[2] <= high /\ u[1] + u[2] \in Int
    BY Typed DEF Tracking, CapturedBelowHigh, IsSegment
  <2>2. high \in Int /\ high' \in Int /\ high <= high'
    BY <1>1, Typed
  <2> QED  BY <2>1, <2>2 DEF Tracking, CapturedBelowHigh
<1>6. Remembered'
  BY <1>1 DEF Tracking, Remembered
<1>7. Ordered(dir'.holes, high')
  <2>1. /\ Ordered(dir.holes, high) /\ dir.holes \in Seq(Hole)
        /\ high \in Int /\ high <= StreamLen + 1
    BY Typed DEF Tracking
  <2>2. dir'.holes = dir.holes /\ high' \in Int /\ high <= high'
    BY <1>1
  <2> QED  BY <2>1, <2>2, OrderedBelow
<1>8. (KeepsBoundaries => Uncaptured(dir.holes, captured))'
  <2>1. dir'.holes = dir.holes
    BY <1>1
  <2> QED  BY <2>1 DEF Tracking, KeepsBoundaries, Uncaptured
<1>9. from' \in Senders /\ captured' \subseteq from'.segs
  BY DEF Tracking
<1> QED  BY <1>2, <1>3, <1>4, <1>5, <1>6, <1>7, <1>8, <1>9 DEF Tracking

\* Steps that leave the fields of track_sequence alone keep what is tracked.
LEMMA SameTracking ==
  ASSUME Tracking, Agree(dir', dir), high' = high, from' = from, captured' = captured
  PROVE  Tracking'
<1>1. Shape(dir')
  BY DEF Tracking, Shape, Agree
<1>2. NextSeqIsHighWater'
  BY DEF Tracking, NextSeqIsHighWater, Agree
<1>3. CapturedBelowHigh'
  BY DEF Tracking, CapturedBelowHigh
<1>4. Remembered'
  BY DEF Tracking, Remembered, Agree
<1>5. dir'.holes = dir.holes
  BY DEF Agree
<1>6. Ordered(dir'.holes, high') /\ (KeepsBoundaries => Uncaptured(dir.holes, captured))'
  BY <1>5 DEF Tracking, Ordered, KeepsBoundaries, Uncaptured
<1> QED  BY <1>1, <1>2, <1>3, <1>4, <1>6 DEF Tracking

\* A SYN, a FIN or a pure ACK keeps the invariant.
LEMMA ControlIInv ==
  ASSUME IInv, NEW x \in Int, NEW f, Control(x, f), -1 <= x, x <= StreamLen,
         x = -1 => f \cap {"SYN", "FIN"} # {}
  PROVE  IInv'
<1>1. PICK p : p = [flags |-> f, seq |-> SeqAt(x), len |-> 0]
  OBVIOUS
<1>2. p.flags = f /\ IsControl(p, x) /\ Tracking
  BY <1>1 DEF IInv, IsControl
<1>3. /\ dir' = track_sequence(dir, p) /\ high' = HighAfterControl(x, p)
      /\ from' = from /\ data_segments' = data_segments /\ captured' = captured
      /\ missing' = missing
  BY <1>1, <1>2, Zenon DEF Control, HighAfterControl
<1>4. /\ Tracking'
      /\ dir \in Directions => dir' \in Directions
      /\ dir'.retransmits = dir.retransmits /\ dir'.out_of_order = dir.out_of_order
  <2>1. ControlResult(dir', high')
    BY <1>2, <1>3, ControlEffect, Zenon
  <2>2. Agree(dir', track_sequence(dir, p))
    BY <1>2, <1>3, <2>1 DEF Agree, ControlResult, Tracking, Shape
  <2>3. Tracking'
    BY <1>2, <1>3, <2>2, ControlTracking
  <2> QED  BY <2>1, <2>3 DEF ControlResult
<1>5. TypeOK'
  <2>1. dir \in Directions /\ data_segments' \in Nat /\ missing' \subseteq 0 .. StreamLen - 1
    BY <1>3 DEF IInv, TypeOK, Directions
  <2> QED  BY <1>3, <1>4, <2>1 DEF TypeOK, Tracking, Shape, Directions
<1>6. RepeatsCounted'
  BY <1>3, <1>4 DEF IInv, RepeatsCounted, KeepsBoundaries
<1> QED  BY <1>4, <1>5, <1>6 DEF IInv

\* Before the first segment nothing is tracked.
LEMMA InitTracking ==
  ASSUME Agree(dir, InitSequence), from \in Senders, high = -1, captured = {}
  PROVE  Tracking
<1>1. /\ dir.retransmits = 0 /\ dir.out_of_order = 0 /\ dir.seq_valid = FALSE
      /\ dir.next_seq = 0 /\ dir.recent_segments = << >> /\ dir.holes = << >>
  BY DEF InitSequence, Agree
<1>2. Len(dir.recent_segments) = 0 /\ Len(dir.holes) = 0
  BY <1>1
<1>3. Shape(dir)
  <2>1. 0 \in SeqNums
    BY SpaceType DEF SeqNums
  <2>2. dir.recent_segments \in Seq(SeqNums \X Nat) /\ dir.holes \in Seq(Hole)
    BY <1>1, EmptySeq
  <2>3. Len(dir.recent_segments) <= kRecentSegmentWindow /\ Len(dir.holes) <= kMaxTrackedHoles
    BY <1>2, SequenceTrackingAssumption
  <2>4. {"retransmits", "out_of_order", "seq_valid", "next_seq", "recent_segments", "holes"}
          \subseteq DOMAIN dir
    BY Zenon DEF Agree
  <2>5. dir.retransmits \in Nat /\ dir.out_of_order \in Nat /\ dir.next_seq \in SeqNums
    BY <1>1, <2>1
  <2>6. dir.seq_valid \in BOOLEAN
    BY <1>1, Zenon
  <2> QED  BY <2>2, <2>3, <2>4, <2>5, <2>6, Zenon DEF Shape
<1>4. high \in -1 .. StreamLen + 1
  BY StreamFacts
<1>5. NextSeqIsHighWater
  <2>1. (high >= 0) = FALSE
    OBVIOUS
  <2> QED  BY <1>1, <2>1, Zenon DEF NextSeqIsHighWater
<1>6. CapturedBelowHigh
  BY FS_EmptySet DEF CapturedBelowHigh
<1>7. Remembered
  BY <1>1, <1>2 DEF Remembered
<1>8. Ordered(dir.holes, high) /\ Uncaptured(dir.holes, captured)
  BY <1>2 DEF Ordered, Uncaptured
<1> QED  BY <1>3, <1>4, <1>5, <1>6, <1>7, <1>8 DEF Tracking

\* The initial states satisfy the invariant.
LEMMA InitIInv == Init => IInv
<1> SUFFICES ASSUME Init PROVE IInv
  OBVIOUS
<1>1. /\ dir = InitSequence /\ data_segments = 0 /\ high = -1 /\ captured = {} /\ missing = {}
      /\ from \in Senders
  BY DEF Init
<1>2. Tracking
  <2>1. Agree(dir, InitSequence)
    BY <1>1 DEF Agree, InitSequence
  <2> QED  BY <1>1, <2>1, InitTracking
<1>3. TypeOK
  <2>1. dir \in Directions
    BY <1>1, <1>2 DEF Tracking, Shape, InitSequence, Directions
  <2>2. data_segments \in Nat /\ missing \subseteq 0 .. StreamLen - 1
    BY <1>1
  <2>3. /\ Len(dir.recent_segments) <= kRecentSegmentWindow /\ Len(dir.holes) <= kMaxTrackedHoles
        /\ high \in -1 .. StreamLen + 1 /\ from \in Senders /\ captured \subseteq from.segs
    BY <1>2, Zenon DEF Tracking, Shape
  <2> QED  BY <2>1, <2>2, <2>3, Zenon DEF TypeOK, Directions
<1>4. RepeatsCounted
  <2>1. Cardinality(captured) = 0
    BY <1>1, FS_EmptySet
  <2>2. dir.retransmits = 0 /\ dir.out_of_order = 0
    BY <1>1 DEF InitSequence
  <2> QED  BY <1>1, <2>1, <2>2 DEF RepeatsCounted
<1> QED  BY <1>2, <1>3, <1>4 DEF IInv

\* Every step keeps the invariant.
LEMMA NextIInv == IInv /\ [Next]_vars => IInv'
<1> SUFFICES ASSUME IInv, [Next]_vars PROVE IInv'
  OBVIOUS
<1>1. ASSUME NEW s \in from.segs, Data(s) PROVE IInv'
  BY <1>1, DataIInv
<1>2. CASE Control(-1, {"SYN"})
  BY <1>2, ControlIInv, StreamFacts
<1>3. CASE Control(StreamLen, {"FIN", "ACK"})
  BY <1>3, ControlIInv, StreamFacts
<1>4. ASSUME NEW x \in 0 .. StreamLen, Control(x, {"ACK"}) PROVE IInv'
  BY <1>4, ControlIInv, StreamFacts
<1>5. CASE UNCHANGED vars
  BY <1>5 DEF vars, IInv, Tracking, Shape, TypeOK, NextSeqIsHighWater, CapturedBelowHigh,
              Remembered, Ordered, Uncaptured, KeepsBoundaries, RepeatsCounted
<1> QED  BY <1>1, <1>2, <1>3, <1>4, <1>5 DEF Next

-----------------------------------------------------------------------------
(* The theorems.                                                           *)

\* IInv holds in every state that track_sequence reaches.
THEOREM Invariance == Spec => []IInv
  BY InitIInv, NextIInv, PTL DEF Spec

\* The counters, the deques and the marks keep their types, and the deques of
\* fingerprints and of holes never outgrow kRecentSegmentWindow and kMaxTrackedHoles.
THEOREM TypeCorrect == Spec => []TypeOK
<1>1. IInv => TypeOK
  BY DEF IInv, Tracking
<1> QED  BY <1>1, Invariance, PTL

\* For every order of capture and every initial sequence number, next_seq is the end of
\* the highest segment captured.
THEOREM HighWater == Spec => []NextSeqIsHighWater
<1>1. IInv => NextSeqIsHighWater
  BY DEF IInv, Tracking
<1> QED  BY <1>1, Invariance, PTL

\* A repeated capture is always counted as a retransmission when segments are resent as
\* they were sent, and no segment is counted twice.
THEOREM RepeatsAreCounted == Spec => []RepeatsCounted
<1>1. IInv => RepeatsCounted
  BY DEF IInv, Tracking
<1> QED  BY <1>1, Invariance, PTL

\* The distance of a bound of a hole from next_seq, in positions.
LEMMA BehindHigh ==
  ASSUME Tracking, dir.holes # << >>, NEW n \in SeqNums, Pos(n) <= high
  PROVE  Behind(n) = high - Pos(n)
<1>1. dir.next_seq = SeqAt(high)
  BY Typed DEF Tracking, Remembered, NextSeqIsHighWater
<1>2. Pos(n) \in Nat /\ n = SeqAt(Pos(n))
  BY Positioned
<1>3. Isn \in Int /\ high \in Int /\ high - Pos(n) < SeqSpace /\ 0 <= high - Pos(n)
  BY <1>2, StreamFacts, Typed
<1>4. SeqDiff(SeqAdd(Isn, high), SeqAdd(Isn, Pos(n))) = high - Pos(n)
  BY <1>2, <1>3, DiffOfPositions
<1> QED  BY <1>1, <1>2, <1>4, Zenon DEF Behind, SeqAt

\* The holes are non-empty, disjoint, in stream order and below next_seq, in the
\* program's own wrapping arithmetic, whatever the shape of the segments that cut them.
THEOREM HolesStayInOrder == Spec => []HolesOrdered
<1>1. IInv => HolesOrdered
  <2> SUFFICES ASSUME Tracking PROVE HolesOrdered
    BY DEF IInv
  <2> DEFINE hs == dir.holes
  <2>1. /\ hs \in Seq(Hole) /\ Len(hs) \in Nat /\ DOMAIN hs = 1 .. Len(hs)
        /\ high \in Int /\ high <= StreamLen + 1 /\ Ordered(hs, high)
    BY Typed, LenProperties DEF Tracking
  <2>2. ASSUME NEW i \in 1 .. Len(hs)
        PROVE  /\ hs # << >> /\ Pos(hs[i].lo) \in Nat /\ Pos(hs[i].hi) \in Nat
               /\ hs[i].lo \in SeqNums /\ hs[i].hi \in SeqNums
               /\ Pos(hs[i].lo) < Pos(hs[i].hi) /\ Pos(hs[i].hi) < high
    <3>1. PICK q, top : q = hs /\ top = high
      OBVIOUS
    <3>2. /\ q[i].lo \in SeqNums /\ q[i].hi \in SeqNums
          /\ Pos(q[i].lo) \in Nat /\ Pos(q[i].hi) \in Nat
      BY <2>1, <3>1, HoleTypes
    <3>3. Pos(q[i].lo) < Pos(q[i].hi) /\ Pos(q[i].hi) < top
      BY <2>1, <3>1, Zenon DEF Ordered
    <3>4. hs # << >>
      BY <2>1, EmptySeq
    <3> QED  BY <3>1, <3>2, <3>3, <3>4
  <2>3. ASSUME NEW i \in 1 .. Len(hs)
        PROVE  /\ Behind(hs[i].lo) = high - Pos(hs[i].lo)
               /\ Behind(hs[i].hi) = high - Pos(hs[i].hi)
    <3>1. Pos(hs[i].lo) <= high /\ Pos(hs[i].hi) <= high
      BY <2>1, <2>2
    <3> QED  BY <2>2, <3>1, BehindHigh
  <2>4. \A i \in DOMAIN hs : Behind(hs[i].lo) > Behind(hs[i].hi)
    BY <2>1, <2>2, <2>3
  <2>5. ASSUME NEW i \in 1 .. Len(hs) - 1 PROVE Behind(hs[i].hi) > Behind(hs[i + 1].lo)
    <3>1. i \in 1 .. Len(hs) /\ i + 1 \in 1 .. Len(hs) /\ i < i + 1
      BY <2>1
    <3>2. Pos(hs[i].hi) < Pos(hs[i + 1].lo)
      BY <2>1, <3>1 DEF Ordered
    <3> QED  BY <2>1, <2>2, <2>3, <3>1, <3>2
  <2>6. hs # << >> => Behind(hs[Len(hs)].hi) > 0
    <3>1. SUFFICES ASSUME hs # << >> PROVE Behind(hs[Len(hs)].hi) > 0
      OBVIOUS
    <3>2. Len(hs) \in 1 .. Len(hs)
      BY <2>1, <3>1, EmptySeq
    <3> QED  BY <2>1, <2>2, <2>3, <3>2, SMTT(30)
  <2> QED  BY <2>4, <2>5, <2>6 DEF HolesOrdered
<1> QED  BY <1>1, Invariance, PTL

\* No captured byte lies in a recorded hole when segments are resent as they were sent.
THEOREM HolesStayMissing == Spec => []HolesAreMissing
<1>1. IInv => HolesAreMissing
  <2> SUFFICES ASSUME Tracking, KeepsBoundaries, NEW x \in HoleBytes, NEW s \in captured,
                      x \in Positions(s)
               PROVE  FALSE
    BY DEF HolesAreMissing, CapturedBytes, IInv
  <2>1. PICK i \in DOMAIN dir.holes :
          seq_le(dir.holes[i].lo, SeqAt(x)) /\ seq_lt(SeqAt(x), dir.holes[i].hi)
    BY DEF HoleBytes
  <2>2. x \in 0 .. StreamLen
    BY DEF HoleBytes
  <2>3. /\ dir.holes \in Seq(Hole) /\ Ordered(dir.holes, high)
        /\ high \in Int /\ high <= StreamLen + 1
    BY Typed DEF Tracking
  <2>4. i \in 1 .. Len(dir.holes)
    BY <2>3, LenProperties
  <2>5. /\ dir.holes[i].lo \in SeqNums /\ dir.holes[i].hi \in SeqNums
        /\ Pos(dir.holes[i].lo) \in Nat /\ Pos(dir.holes[i].hi) \in Nat
        /\ Pos(dir.holes[i].lo) <= StreamLen + 1 /\ Pos(dir.holes[i].hi) <= StreamLen + 1
    BY <2>3, <2>4, HoleTypes
  <2>6. SeqAt(x) \in SeqNums /\ Pos(SeqAt(x)) = x /\ x <= StreamLen + 1 /\ x \in Int
    BY <2>2, Positioned, StreamFacts
  <2>7. Pos(dir.holes[i].lo) <= x
    BY <2>1, <2>5, <2>6, Compare
  <2>8. x < Pos(dir.holes[i].hi)
    BY <2>1, <2>5, <2>6, Compare
  <2>9. s[1] + s[2] <= Pos(dir.holes[i].lo) \/ Pos(dir.holes[i].hi) <= s[1]
    BY <2>4 DEF Tracking, Uncaptured
  <2>10. IsSegment(s) /\ s[1] <= x /\ x < s[1] + s[2]
    <3>1. IsSegment(s)
      BY Typed
    <3> QED  BY <2>6, <3>1 DEF Positions, IsSegment
  <2> QED  BY <2>5, <2>6, <2>7, <2>8, <2>9, <2>10 DEF IsSegment
<1> QED  BY <1>1, Invariance, PTL

-----------------------------------------------------------------------------
(* Sequences seen through a function on their elements.                    *)

Mapped(q, f) == [i \in DOMAIN q |-> f[q[i]]]
Maps(f, S) == \A x \in S : f[x] \in S
Injects(f, S) == \A x, y \in S : f[x] = f[y] => x = y

\* The image has the same length, and the images of the elements.
LEMMA MappedType ==
  ASSUME NEW S, NEW f, Maps(f, S), NEW q \in Seq(S)
  PROVE  /\ Mapped(q, f) \in Seq(S) /\ Len(Mapped(q, f)) = Len(q) /\ Len(q) \in Nat
         /\ \A i \in 1 .. Len(q) : q[i] \in S /\ Mapped(q, f)[i] = f[q[i]]
         /\ DOMAIN Mapped(q, f) = DOMAIN q /\ DOMAIN q = 1 .. Len(q)
<1>1. Len(q) \in Nat /\ DOMAIN q = 1 .. Len(q) /\ \A i \in 1 .. Len(q) : q[i] \in S
  BY LenProperties, ElementOfSeq
<1>2. PICK m : m = [i \in 1 .. Len(q) |-> f[q[i]]]
  OBVIOUS
<1>3. m = Mapped(q, f)
  BY <1>1, <1>2 DEF Mapped
<1>4. m \in Seq(S) /\ Len(m) = Len(q)
  BY <1>1, <1>2 DEF Maps
<1> QED  BY <1>1, <1>2, <1>3, <1>4

\* push_back with a bound, before or after the function.
LEMMA MappedPush ==
  ASSUME NEW S, NEW f, Maps(f, S), NEW q \in Seq(S), NEW x \in S,
         NEW max \in Nat \ {0}
  PROVE  /\ push_bounded(q, x, max) \in Seq(S)
         /\ Mapped(push_bounded(q, x, max), f) = push_bounded(Mapped(q, f), f[x], max)
<1>1. PICK r, m, g : r = Append(q, x) /\ m = Mapped(q, f) /\ g = Append(m, f[x])
  OBVIOUS
<1>2. /\ m \in Seq(S) /\ Len(m) = Len(q) /\ Len(q) \in Nat
      /\ \A i \in 1 .. Len(q) : m[i] = f[q[i]]
  BY <1>1, MappedType
<1>3. /\ r \in Seq(S) /\ r # << >> /\ Len(r) = Len(q) + 1
      /\ (\A i \in 1 .. Len(q) : r[i] = q[i]) /\ r[Len(q) + 1] = x
  BY <1>1, AppendProperties
<1>4. /\ g \in Seq(S) /\ g # << >> /\ Len(g) = Len(q) + 1
      /\ (\A i \in 1 .. Len(q) : g[i] = m[i]) /\ g[Len(q) + 1] = f[x]
  <2>1. f[x] \in S
    BY DEF Maps
  <2> QED  BY <1>1, <1>2, <2>1, AppendProperties
<1>5. \A i \in 1 .. Len(r) : g[i] = f[r[i]]
  BY <1>2, <1>3, <1>4
<1>6. CASE Len(r) > max
  <2>1. push_bounded(q, x, max) = Tail(r)
    BY <1>1, <1>6 DEF push_bounded
  <2>2. push_bounded(m, f[x], max) = Tail(g)
    BY <1>1, <1>3, <1>4, <1>6 DEF push_bounded
  <2>3. /\ Tail(r) \in Seq(S) /\ Len(Tail(r)) = Len(r) - 1
        /\ \A i \in 1 .. Len(Tail(r)) : Tail(r)[i] = r[i + 1]
    BY <1>3, HeadTailProperties
  <2>4. /\ Tail(g) \in Seq(S) /\ Len(Tail(g)) = Len(g) - 1
        /\ \A i \in 1 .. Len(Tail(g)) : Tail(g)[i] = g[i + 1]
    BY <1>4, HeadTailProperties
  <2>5. PICK a, b, c : a = Tail(r) /\ b = Mapped(a, f) /\ c = Tail(g)
    OBVIOUS
  <2>6. b \in Seq(S) /\ Len(b) = Len(a) /\ \A i \in 1 .. Len(a) : b[i] = f[a[i]]
    <3>1. a \in Seq(S) /\ b = Mapped(a, f)
      BY <2>3, <2>5
    <3> QED  BY <3>1, MappedType
  <2>7. b = c
    <3>1. Len(b) = Len(c)
      BY <1>3, <1>4, <2>3, <2>4, <2>5, <2>6
    <3>2. ASSUME NEW i \in 1 .. Len(b) PROVE b[i] = c[i]
      <4>1. i \in 1 .. Len(a) /\ i \in 1 .. Len(c) /\ i + 1 \in 1 .. Len(r)
        BY <1>2, <1>3, <1>4, <2>3, <2>4, <2>5, <2>6
      <4>2. b[i] = f[a[i]] /\ a[i] = r[i + 1] /\ c[i] = g[i + 1]
        BY <2>3, <2>4, <2>5, <2>6, <4>1, Zenon
      <4>3. g[i + 1] = f[r[i + 1]]
        BY <1>5, <4>1, Zenon
      <4> QED  BY <4>2, <4>3
    <3> QED  BY <2>4, <2>5, <2>6, <3>1, <3>2, SeqEqual
  <2> QED  BY <1>1, <2>1, <2>2, <2>3, <2>5, <2>7
<1>7. CASE ~(Len(r) > max)
  <2>1. push_bounded(q, x, max) = r /\ push_bounded(m, f[x], max) = g
    BY <1>1, <1>3, <1>4, <1>7 DEF push_bounded
  <2>2. PICK b : b = Mapped(r, f)
    OBVIOUS
  <2>3. b \in Seq(S) /\ Len(b) = Len(r) /\ \A i \in 1 .. Len(r) : b[i] = f[r[i]]
    BY <1>3, <2>2, MappedType
  <2>4. b = g
    <3>1. Len(b) = Len(g) /\ \A i \in 1 .. Len(b) : b[i] = g[i]
      BY <1>3, <1>4, <1>5, <2>3
    <3> QED  BY <1>4, <2>3, <3>1, SeqEqual
  <2> QED  BY <1>1, <1>3, <2>1, <2>2, <2>4
<1> QED  BY <1>6, <1>7

\* erase.
LEMMA MappedRemove ==
  ASSUME NEW S, NEW f, Maps(f, S), NEW q \in Seq(S), NEW i \in 1 .. Len(q)
  PROVE  Mapped(RemoveAt(q, i), f) = RemoveAt(Mapped(q, f), i)
<1>1. PICK m : m = Mapped(q, f)
  OBVIOUS
<1>2. m \in Seq(S) /\ Len(m) = Len(q) /\ Len(q) \in Nat /\ \A j \in 1 .. Len(q) : m[j] = f[q[j]]
  BY <1>1, MappedType
<1>3. PICK a, b, c : a = RemoveAt(q, i) /\ b = Mapped(a, f) /\ c = RemoveAt(m, i)
  OBVIOUS
<1>4. /\ a \in Seq(S) /\ Len(a) = Len(q) - 1
      /\ \A j \in 1 .. Len(q) - 1 : a[j] = IF j < i THEN q[j] ELSE q[j + 1]
  BY <1>3, RemoveAtProperties
<1>5. /\ c \in Seq(S) /\ Len(c) = Len(q) - 1
      /\ \A j \in 1 .. Len(q) - 1 : c[j] = IF j < i THEN m[j] ELSE m[j + 1]
  <2>1. m \in Seq(S) /\ i \in 1 .. Len(m) /\ Len(m) = Len(q)
    BY <1>2
  <2> QED  BY <1>3, <2>1, RemoveAtProperties
<1>6. b \in Seq(S) /\ Len(b) = Len(a) /\ \A j \in 1 .. Len(a) : b[j] = f[a[j]]
  BY <1>3, <1>4, MappedType
<1>7. Len(b) = Len(c)
  BY <1>4, <1>5, <1>6
<1>8. ASSUME NEW j \in 1 .. Len(b) PROVE b[j] = c[j]
  <2>1. j \in 1 .. Len(q) - 1 /\ j \in 1 .. Len(a) /\ j \in 1 .. Len(q) /\ j + 1 \in 1 .. Len(q)
    BY <1>2, <1>4, <1>6
  <2>2. b[j] = f[a[j]] /\ m[j] = f[q[j]] /\ m[j + 1] = f[q[j + 1]]
    BY <1>2, <1>6, <2>1
  <2>3. CASE j < i
    BY <1>4, <1>5, <2>1, <2>2, <2>3
  <2>4. CASE ~(j < i)
    BY <1>4, <1>5, <2>1, <2>2, <2>4
  <2> QED  BY <2>3, <2>4
<1> QED  BY <1>1, <1>3, <1>5, <1>6, <1>7, <1>8, SeqEqual

\* One element is replaced.
LEMMA MappedReplace ==
  ASSUME NEW S, NEW f, Maps(f, S), NEW q \in Seq(S), NEW i \in 1 .. Len(q),
         NEW g \in S
  PROVE  /\ [q EXCEPT ![i] = g] \in Seq(S)
         /\ Mapped([q EXCEPT ![i] = g], f) = [Mapped(q, f) EXCEPT ![i] = f[g]]
<1>1. /\ Len(q) \in Nat /\ DOMAIN q = 1 .. Len(q)
      /\ \A j \in 1 .. Len(q) : q[j] \in S /\ Mapped(q, f)[j] = f[q[j]]
  BY MappedType
<1>2. PICK a : a = [q EXCEPT ![i] = g]
  OBVIOUS
<1>3. /\ DOMAIN a = 1 .. Len(q) /\ \A j \in 1 .. Len(q) : a[j] = IF j = i THEN g ELSE q[j]
  BY <1>1, <1>2
<1>4. a \in Seq(S)
  BY <1>1, <1>2
<1>5. [j \in DOMAIN a |-> f[a[j]]] = [Mapped(q, f) EXCEPT ![i] = f[g]]
  BY <1>1, <1>3 DEF Mapped
<1> QED  BY <1>2, <1>4, <1>5 DEF Mapped

\* What is contained, when the function is injective.
LEMMA MappedContains ==
  ASSUME NEW S, NEW f, Maps(f, S), Injects(f, S),
         NEW q \in Seq(S), NEW x \in S
  PROVE  Contains(Mapped(q, f), f[x]) <=> Contains(q, x)
<1>1. PICK m : m = Mapped(q, f)
  OBVIOUS
<1>2. /\ Len(m) = Len(q) /\ Len(q) \in Nat
      /\ \A i \in 1 .. Len(q) : q[i] \in S /\ m[i] = f[q[i]]
  BY <1>1, MappedType
<1>3. (\E i \in 1 .. Len(m) : m[i] = f[x]) <=> (\E i \in 1 .. Len(q) : q[i] = x)
  BY <1>2 DEF Injects
<1> QED  BY <1>1, <1>3 DEF Contains

-----------------------------------------------------------------------------
(* Offset is a translation of the sequence space.                          *)

\* Adding a multiple of the modulus does not change a remainder.
LEMMA AddMultiple ==
  ASSUME NEW m \in Nat \ {0}, NEW z \in Int, NEW q \in Int
  PROVE  (z + q * m) % m = z % m
<1>1. PICK k \in Int, r \in 0 .. m - 1 : r = z % m /\ z = k * m + r
  BY Division
<1>2. PICK j \in Int : j = k + q
  OBVIOUS
<1>3. z + q * m = j * m + r
  <2>1. j * m = k * m + q * m
    BY <1>2
  <2>2. PICK a \in Int, b \in Int, c \in Int : a = j * m /\ b = k * m /\ c = q * m
    OBVIOUS
  <2>3. a = b + c /\ z = b + r
    BY <1>1, <2>1, <2>2
  <2>4. z + c = a + r
    BY <2>3
  <2> QED  BY <2>2, <2>4
<1>4. (j * m + r) % m = r
  BY RemainderUnique
<1> QED  BY <1>1, <1>3, <1>4

\* Moving every sequence number by a constant commutes with adding a length to it.
LEMMA OffsetAdds ==
  /\ \A n \in SeqNums : Offset(n) \in SeqNums
  /\ \A a \in SeqNums, n \in Int : Offset(SeqAdd(a, n)) = SeqAdd(Offset(a), n)
  /\ \A x \in Int : Offset(SeqAt(x)) = SeqAdd(1, x)
<1>1. PICK k \in SeqNums : k = SeqAt(-1)
  BY Positioned
<1>2. \A n \in SeqNums : n \in Int
  BY DEF SeqNums
<1>3. \A n : Offset(n) = SeqDiff(n, k)
  BY <1>1 DEF Offset
<1>4. ASSUME NEW a \in Int PROVE Offset(a) = SeqAdd(a, -k)
  <2>1. a - k = a + (-k)
    BY <1>2
  <2> QED  BY <1>3, <2>1 DEF SeqDiff, SeqAdd
<1>5. \A n \in SeqNums : Offset(n) \in SeqNums
  BY <1>2, <1>3, SpaceType
<1>6. ASSUME NEW a \in SeqNums, NEW n \in Int
      PROVE  Offset(SeqAdd(a, n)) = SeqAdd(Offset(a), n)
  <2>1. a \in Int /\ -k \in Int /\ SeqAdd(a, n) \in Int
    <3>1. a \in Int /\ k \in Int
      BY <1>2
    <3>2. SeqAdd(a, n) \in SeqNums
      BY <3>1, SpaceType
    <3>3. SeqAdd(a, n) \in Int
      BY <1>2, <3>2, Zenon
    <3> QED  BY <3>1, <3>3
  <2>2. SeqAdd(SeqAdd(a, n), -k) = SeqAdd(a, n + (-k))
    BY <2>1, AddAdd
  <2>3. SeqAdd(SeqAdd(a, -k), n) = SeqAdd(a, (-k) + n)
    BY <2>1, AddAdd
  <2>4. n + (-k) = (-k) + n
    BY <2>1
  <2>5. Offset(SeqAdd(a, n)) = SeqAdd(SeqAdd(a, n), -k) /\ Offset(a) = SeqAdd(a, -k)
    BY <1>4, <2>1, Zenon
  <2> QED  BY <2>2, <2>3, <2>4, <2>5, Zenon
<1>7. ASSUME NEW x \in Int PROVE Offset(SeqAt(x)) = SeqAdd(1, x)
  <2>1. SeqAdd(SeqAt(-1), x + 1) = SeqAt(x)
    <3>1. (-1) + (x + 1) = x
      OBVIOUS
    <3>2. SeqAdd(SeqAt(-1), x + 1) = SeqAt((-1) + (x + 1))
      BY Positioned
    <3> QED  BY <3>1, <3>2
  <2>2. Offset(k) = 0
    <3>1. SeqSpace \in Nat \ {0} /\ k - k = 0
      BY <1>2, SpaceType
    <3>2. 0 % SeqSpace = 0
      BY <3>1
    <3> QED  BY <1>3, <3>1, <3>2 DEF SeqDiff
  <2>3. Offset(SeqAt(x)) = SeqAdd(0, x + 1)
    BY <1>1, <1>6, <2>1, <2>2
  <2>4. 0 + (x + 1) = 1 + x
    OBVIOUS
  <2> QED  BY <2>3, <2>4 DEF SeqAdd
<1> QED  BY <1>5, <1>6, <1>7

\* The serial comparisons of seq.hpp do not see a constant offset, wrap or no wrap.
LEMMA OffsetKeepsOrder ==
  ASSUME NEW a \in SeqNums, NEW b \in SeqNums
  PROVE  /\ Offset(a) = Offset(b) <=> a = b
         /\ seq_lt(Offset(a), Offset(b)) <=> seq_lt(a, b)
         /\ seq_le(Offset(a), Offset(b)) <=> seq_le(a, b)
         /\ seq_gt(Offset(a), Offset(b)) <=> seq_gt(a, b)
<1>1. PICK k \in SeqNums : k = SeqAt(-1)
  BY Positioned
<1>2. a \in Int /\ b \in Int /\ k \in Int
  BY DEF SeqNums
<1>3. Offset(a) = SeqDiff(a, k) /\ Offset(b) = SeqDiff(b, k)
  BY <1>1 DEF Offset
<1>4. SeqAdd(k, Offset(a)) = a /\ SeqAdd(k, Offset(b)) = b
  BY <1>2, <1>3, AddDiff
<1>5. Offset(a) = Offset(b) <=> a = b
  BY <1>4
<1>6. SeqDiff(Offset(a), Offset(b)) = SeqDiff(a, b)
  <2>1. PICK m \in Nat \ {0} : m = SeqSpace
    BY SpaceType
  <2>2. PICK u \in Int, v \in Int : u = a - k /\ v = b - k
    BY <1>2
  <2>3. Offset(a) = u % m /\ Offset(b) = v % m
    BY <1>3, <2>1, <2>2 DEF SeqDiff
  <2>4. PICK q \in Int, r \in 0 .. m - 1 : r = v % m /\ v = q * m + r
    BY Division
  <2>5. ((u % m) + (-r)) % m = (u + (-r)) % m
    <3>1. -r \in Int
      OBVIOUS
    <3> QED  BY <3>1, RemainderAdd
  <2>6. u + (-r) = (a - b) + q * m
    <3>1. PICK t \in Int : t = q * m
      OBVIOUS
    <3>2. v = t + r
      BY <2>4, <3>1
    <3>3. u + (-r) = (a - b) + t
      BY <1>2, <2>2, <3>2
    <3> QED  BY <3>1, <3>3
  <2>7. ((a - b) + q * m) % m = (a - b) % m
    <3>1. a - b \in Int
      BY <1>2
    <3> QED  BY <3>1, AddMultiple
  <2>8. (u % m) - r = (u % m) + (-r)
    BY Division
  <2>9. ((u % m) - (v % m)) % m = (a - b) % m
    BY <2>4, <2>5, <2>6, <2>7, <2>8
  <2> QED  BY <2>1, <2>3, <2>9 DEF SeqDiff
<1> QED  BY <1>5, <1>6 DEF seq_lt, seq_le, seq_gt

-----------------------------------------------------------------------------
(* track_sequence on the translated stream.                                *)

Prints == SeqNums \X Nat
OffsetHole == [h \in Hole |-> [lo |-> Offset(h.lo), hi |-> Offset(h.hi)]]
OffsetPrint == [r \in Prints |-> <<Offset(r[1]), r[2]>>]
OffsetNext(d) == IF d.seq_valid THEN Offset(d.next_seq) ELSE 0

\* OffsetDir, for any direction.
OffsetOf(d) ==
  [d EXCEPT !.next_seq = OffsetNext(d),
            !.recent_segments = Mapped(@, OffsetPrint),
            !.holes = Mapped(@, OffsetHole)]

\* The same segment, translated.
Translated(q, p) ==
  /\ p.seq \in SeqNums /\ p.len \in Nat
  /\ q.flags = p.flags /\ q.len = p.len /\ q.seq = Offset(p.seq)

\* Holes move to holes, and fingerprints to fingerprints, no two to the same one.
LEMMA OffsetMaps ==
  /\ Maps(OffsetHole, Hole)
  /\ Maps(OffsetPrint, Prints) /\ Injects(OffsetPrint, Prints)
<1>1. \A n \in SeqNums : Offset(n) \in SeqNums
  BY OffsetAdds
<1>2. \A a, b \in SeqNums : Offset(a) = Offset(b) => a = b
  BY OffsetKeepsOrder
<1>3. Maps(OffsetHole, Hole)
  BY <1>1 DEF Maps, OffsetHole, Hole
<1>4. Maps(OffsetPrint, Prints)
  BY <1>1 DEF Maps, OffsetPrint, Prints
<1>5. ASSUME NEW x \in Prints, NEW y \in Prints, OffsetPrint[x] = OffsetPrint[y] PROVE x = y
  <2>1. <<Offset(x[1]), x[2]>> = <<Offset(y[1]), y[2]>>
    BY <1>5 DEF OffsetPrint
  <2>2. x[1] = y[1] /\ x[2] = y[2]
    BY <1>2, <2>1 DEF Prints
  <2> QED  BY <2>2 DEF Prints
<1> QED  BY <1>3, <1>4, <1>5 DEF Injects

\* Its fields.
OffsetFields(e, d) ==
  /\ e.retransmits = d.retransmits /\ e.out_of_order = d.out_of_order
  /\ e.seq_valid = d.seq_valid /\ e.next_seq = OffsetNext(d)
  /\ e.recent_segments = Mapped(d.recent_segments, OffsetPrint)
  /\ e.holes = Mapped(d.holes, OffsetHole)

\* A direction moved by the offset is a direction, changed only where it holds positions.
LEMMA OffsetType ==
  ASSUME NEW d \in Directions
  PROVE  /\ OffsetOf(d) \in Directions /\ OffsetFields(OffsetOf(d), d)
         /\ OffsetNext(d) \in SeqNums
<1>1. /\ d.next_seq \in SeqNums /\ d.recent_segments \in Seq(Prints) /\ d.holes \in Seq(Hole)
  BY DEF Directions, Prints
<1>2. PICK a, b, c : /\ a = OffsetNext(d) /\ b = Mapped(d.recent_segments, OffsetPrint)
                     /\ c = Mapped(d.holes, OffsetHole)
  OBVIOUS
<1>3. a \in SeqNums
  <2>1. Offset(d.next_seq) \in SeqNums
    BY <1>1, OffsetAdds
  <2>2. 0 \in SeqNums
    BY SpaceType DEF SeqNums
  <2> QED  BY <1>2, <2>1, <2>2 DEF OffsetNext
<1>4. b \in Seq(Prints)
  BY <1>1, <1>2, OffsetMaps, MappedType
<1>5. c \in Seq(Hole)
  BY <1>1, <1>2, OffsetMaps, MappedType
<1>6. PICK e : e = [d EXCEPT !.next_seq = a, !.recent_segments = b, !.holes = c]
  OBVIOUS
<1>7. OffsetOf(d) = e
  BY <1>2, <1>6, Zenon DEF OffsetOf
<1>8. e \in Directions
  BY <1>3, <1>4, <1>5, <1>6 DEF Directions, Prints
<1>9. /\ e.retransmits = d.retransmits /\ e.out_of_order = d.out_of_order
      /\ e.seq_valid = d.seq_valid /\ e.next_seq = a /\ e.recent_segments = b /\ e.holes = c
  BY <1>6 DEF Directions
<1> QED  BY <1>2, <1>3, <1>7, <1>8, <1>9 DEF OffsetFields

\* Directions with the same fields are equal.
LEMMA SameDirection ==
  ASSUME NEW d \in Directions, NEW e \in Directions,
         d.retransmits = e.retransmits, d.out_of_order = e.out_of_order,
         d.seq_valid = e.seq_valid, d.next_seq = e.next_seq,
         d.recent_segments = e.recent_segments, d.holes = e.holes
  PROVE  d = e
<1>1. /\ d = [retransmits |-> d.retransmits, out_of_order |-> d.out_of_order,
             seq_valid |-> d.seq_valid, next_seq |-> d.next_seq,
             recent_segments |-> d.recent_segments, holes |-> d.holes]
      /\ e = [retransmits |-> e.retransmits, out_of_order |-> e.out_of_order,
             seq_valid |-> e.seq_valid, next_seq |-> e.next_seq,
             recent_segments |-> e.recent_segments, holes |-> e.holes]
  BY DEF Directions
<1> QED  BY <1>1, Zenon

\* The end and the fingerprint of the translated segment.
LEMMA TranslatedFacts ==
  ASSUME NEW p, NEW q, Translated(q, p)
  PROVE  /\ seg_end(p) \in SeqNums /\ seg_end(q) = Offset(seg_end(p))
         /\ fingerprint(p) \in Prints /\ fingerprint(q) = OffsetPrint[fingerprint(p)]
<1>1. p.seq \in SeqNums /\ p.len \in Nat /\ p.len \in Int /\ p.seq \in Int
      /\ q.len = p.len /\ q.seq = Offset(p.seq)
  BY DEF Translated, SeqNums
<1>2. seg_end(p) \in SeqNums
  BY <1>1, SpaceType DEF seg_end
<1>3. seg_end(q) = Offset(seg_end(p))
  BY <1>1, OffsetAdds DEF seg_end
<1>4. fingerprint(p) \in Prints
  BY <1>1 DEF fingerprint, Prints
<1>5. OffsetPrint[fingerprint(p)] = <<Offset(p.seq), p.len>>
  BY <1>4 DEF OffsetPrint, fingerprint
<1> QED  BY <1>1, <1>2, <1>3, <1>4, <1>5 DEF fingerprint

\* The holes that a translated segment hits.
LEMMA TranslatedHits ==
  ASSUME NEW d \in Directions, NEW e, e = OffsetOf(d), NEW p, NEW q, Translated(q, p)
  PROVE  holes_hit(e, q) = holes_hit(d, p)
<1>1. d.holes \in Seq(Hole) /\ e.holes = Mapped(d.holes, OffsetHole)
  BY OffsetType DEF OffsetFields, Directions
<1>2. /\ DOMAIN e.holes = DOMAIN d.holes /\ DOMAIN d.holes = 1 .. Len(d.holes)
      /\ \A i \in 1 .. Len(d.holes) : d.holes[i] \in Hole /\ e.holes[i] = OffsetHole[d.holes[i]]
  BY <1>1, OffsetMaps, MappedType
<1>3. ASSUME NEW i \in DOMAIN d.holes
      PROVE  ranges_overlap(q.seq, seg_end(q), e.holes[i].lo, e.holes[i].hi)
               <=> ranges_overlap(p.seq, seg_end(p), d.holes[i].lo, d.holes[i].hi)
  <2>1. PICK h \in Hole : h = d.holes[i]
    BY <1>2
  <2>2. h.lo \in SeqNums /\ h.hi \in SeqNums
    BY DEF Hole
  <2>3. e.holes[i].lo = Offset(h.lo) /\ e.holes[i].hi = Offset(h.hi)
    <3>1. e.holes[i] = OffsetHole[h]
      BY <1>2, <2>1
    <3>2. OffsetHole[h] = [lo |-> Offset(h.lo), hi |-> Offset(h.hi)]
      BY DEF OffsetHole
    <3> QED  BY <3>1, <3>2
  <2>4. p.seq \in SeqNums /\ q.seq = Offset(p.seq)
    BY DEF Translated
  <2>5. seq_lt(q.seq, e.holes[i].hi) <=> seq_lt(p.seq, h.hi)
    BY <2>2, <2>3, <2>4, OffsetKeepsOrder
  <2>6. seq_lt(e.holes[i].lo, seg_end(q)) <=> seq_lt(h.lo, seg_end(p))
    BY <2>2, <2>3, TranslatedFacts, OffsetKeepsOrder
  <2> QED  BY <2>1, <2>5, <2>6 DEF ranges_overlap
<1> QED  BY <1>2, <1>3 DEF holes_hit

\* The verdict does not change.
LEMMA TranslatedVerdict ==
  ASSUME NEW d \in Directions, NEW e, e = OffsetOf(d), NEW p, NEW q, Translated(q, p)
  PROVE  classify(e, q) = classify(d, p)
<1>1. OffsetFields(e, d) /\ d.next_seq \in SeqNums /\ d.recent_segments \in Seq(Prints)
  BY OffsetType DEF Directions, Prints
<1>2. q.len = p.len /\ p.seq \in SeqNums /\ q.seq = Offset(p.seq)
  BY DEF Translated
<1>3. e.seq_valid = d.seq_valid
  BY <1>1 DEF OffsetFields
<1>4. Contains(e.recent_segments, fingerprint(q)) <=> Contains(d.recent_segments, fingerprint(p))
  <2>1. PICK x \in Prints : x = fingerprint(p) /\ fingerprint(q) = OffsetPrint[x]
    BY TranslatedFacts
  <2>2. Contains(Mapped(d.recent_segments, OffsetPrint), OffsetPrint[x])
          <=> Contains(d.recent_segments, x)
    BY <1>1, OffsetMaps, MappedContains
  <2> QED  BY <1>1, <2>1, <2>2 DEF OffsetFields
<1>5. fills_known_hole(e, q) <=> fills_known_hole(d, p)
  BY TranslatedHits DEF fills_known_hole
<1>6. CASE d.seq_valid
  <2>1. e.next_seq = Offset(d.next_seq)
    BY <1>1, <1>6 DEF OffsetFields, OffsetNext
  <2>2. seq_le(seg_end(q), e.next_seq) <=> seq_le(seg_end(p), d.next_seq)
    BY <1>1, <2>1, TranslatedFacts, OffsetKeepsOrder
  <2>3. seq_gt(q.seq, e.next_seq) <=> seq_gt(p.seq, d.next_seq)
    BY <1>1, <1>2, <2>1, OffsetKeepsOrder
  <2> QED  BY <1>2, <1>3, <1>4, <1>5, <2>2, <2>3 DEF classify
<1>7. CASE ~d.seq_valid
  BY <1>2, <1>3, <1>7 DEF classify
<1> QED  BY <1>6, <1>7

\* The hole that a translated segment fills.
LEMMA TranslatedFill ==
  ASSUME NEW d \in Directions, NEW e, e = OffsetOf(d), NEW p, NEW q, Translated(q, p),
         holes_hit(d, p) # {}
  PROVE  /\ filled_holes(d, p) \in Seq(Hole)
         /\ filled_holes(e, q) = Mapped(filled_holes(d, p), OffsetHole)
<1>1. d.holes \in Seq(Hole) /\ e.holes = Mapped(d.holes, OffsetHole)
  BY OffsetType DEF OffsetFields, Directions
<1>2. /\ DOMAIN d.holes = 1 .. Len(d.holes) /\ Len(d.holes) \in Nat
      /\ \A i \in 1 .. Len(d.holes) : d.holes[i] \in Hole /\ e.holes[i] = OffsetHole[d.holes[i]]
      /\ DOMAIN e.holes = 1 .. Len(d.holes)
  BY <1>1, OffsetMaps, MappedType
<1>3. PICK i : i = Min(holes_hit(d, p)) /\ i = Min(holes_hit(e, q))
  BY TranslatedHits
<1>4. i \in 1 .. Len(d.holes)
  <2>1. holes_hit(d, p) \in SUBSET (1 .. Len(d.holes))
    BY <1>2 DEF holes_hit
  <2>2. holes_hit(d, p) \in SUBSET Nat
    BY <1>2, <2>1
  <2>3. i \in holes_hit(d, p)
    BY <1>3, <2>2, MinIsElement
  <2> QED  BY <2>1, <2>3
<1>5. PICK h, g : h \in Hole /\ h = d.holes[i] /\ g = e.holes[i] /\ g = OffsetHole[h]
  BY <1>2, <1>4
<1>6. h.lo \in SeqNums /\ h.hi \in SeqNums
  BY <1>5 DEF Hole
<1>7. g = [lo |-> Offset(h.lo), hi |-> Offset(h.hi)]
  BY <1>5 DEF OffsetHole
<1>8. PICK a, z : a = p.seq /\ z = seg_end(p)
  OBVIOUS
<1>9. /\ a \in SeqNums /\ z \in SeqNums /\ q.seq = Offset(a) /\ seg_end(q) = Offset(z)
  BY <1>8, TranslatedFacts DEF Translated
<1>10. /\ seq_le(q.seq, g.lo) <=> seq_le(a, h.lo)
       /\ seq_le(g.hi, seg_end(q)) <=> seq_le(h.hi, z)
  BY <1>6, <1>7, <1>9, OffsetKeepsOrder
<1>11. CASE seq_le(a, h.lo) /\ seq_le(h.hi, z)
  <2>1. filled_holes(d, p) = RemoveAt(d.holes, i)
    BY <1>3, <1>5, <1>8, <1>11 DEF filled_holes
  <2>2. filled_holes(e, q) = RemoveAt(e.holes, i)
    BY <1>3, <1>5, <1>10, <1>11 DEF filled_holes
  <2>3. RemoveAt(d.holes, i) \in Seq(Hole)
    BY <1>1, <1>4, RemoveAtProperties
  <2>4. Mapped(RemoveAt(d.holes, i), OffsetHole) = RemoveAt(e.holes, i)
    BY <1>1, <1>4, OffsetMaps, MappedRemove
  <2> QED  BY <2>1, <2>2, <2>3, <2>4
<1>12. CASE seq_le(a, h.lo) /\ ~seq_le(h.hi, z)
  <2>1. PICK hc, gc : hc = [h EXCEPT !.lo = z] /\ gc = [g EXCEPT !.lo = Offset(z)]
    OBVIOUS
  <2>2. hc \in Hole /\ hc.lo = z /\ hc.hi = h.hi
    BY <1>5, <1>9, <2>1, CutHole
  <2>3. gc = OffsetHole[hc]
    <3>1. gc = [lo |-> Offset(z), hi |-> Offset(h.hi)]
      BY <1>7, <2>1
    <3>2. OffsetHole[hc] = [lo |-> Offset(hc.lo), hi |-> Offset(hc.hi)]
      BY <2>2 DEF OffsetHole
    <3> QED  BY <2>2, <3>1, <3>2
  <2>4. filled_holes(d, p) = [d.holes EXCEPT ![i].lo = z]
    BY <1>3, <1>5, <1>8, <1>12 DEF filled_holes
  <2>5. filled_holes(e, q) = [e.holes EXCEPT ![i].lo = Offset(z)]
    BY <1>3, <1>5, <1>9, <1>10, <1>12 DEF filled_holes
  <2>6. [d.holes EXCEPT ![i].lo = z] = [d.holes EXCEPT ![i] = hc]
    BY <1>5, <2>1, Zenon
  <2>7. [e.holes EXCEPT ![i].lo = Offset(z)] = [e.holes EXCEPT ![i] = gc]
    BY <1>5, <2>1, Zenon
  <2>8. /\ [d.holes EXCEPT ![i] = hc] \in Seq(Hole)
        /\ Mapped([d.holes EXCEPT ![i] = hc], OffsetHole) = [e.holes EXCEPT ![i] = OffsetHole[hc]]
    BY <1>1, <1>4, <2>2, OffsetMaps, MappedReplace
  <2> QED  BY <2>3, <2>4, <2>5, <2>6, <2>7, <2>8
<1>13. CASE ~seq_le(a, h.lo)
  <2>1. PICK hc, gc : hc = [h EXCEPT !.hi = a] /\ gc = [g EXCEPT !.hi = Offset(a)]
    OBVIOUS
  <2>2. hc \in Hole /\ hc.hi = a /\ hc.lo = h.lo
    BY <1>5, <1>9, <2>1, CutHole
  <2>3. gc = OffsetHole[hc]
    <3>1. gc = [lo |-> Offset(h.lo), hi |-> Offset(a)]
      BY <1>7, <2>1
    <3>2. OffsetHole[hc] = [lo |-> Offset(hc.lo), hi |-> Offset(hc.hi)]
      BY <2>2 DEF OffsetHole
    <3> QED  BY <2>2, <3>1, <3>2
  <2>4. filled_holes(d, p) = [d.holes EXCEPT ![i].hi = a]
    BY <1>3, <1>5, <1>8, <1>13 DEF filled_holes
  <2>5. filled_holes(e, q) = [e.holes EXCEPT ![i].hi = Offset(a)]
    BY <1>3, <1>5, <1>9, <1>10, <1>13 DEF filled_holes
  <2>6. [d.holes EXCEPT ![i].hi = a] = [d.holes EXCEPT ![i] = hc]
    BY <1>5, <2>1, Zenon
  <2>7. [e.holes EXCEPT ![i].hi = Offset(a)] = [e.holes EXCEPT ![i] = gc]
    BY <1>5, <2>1, Zenon
  <2>8. /\ [d.holes EXCEPT ![i] = hc] \in Seq(Hole)
        /\ Mapped([d.holes EXCEPT ![i] = hc], OffsetHole) = [e.holes EXCEPT ![i] = OffsetHole[hc]]
    BY <1>1, <1>4, <2>2, OffsetMaps, MappedReplace
  <2> QED  BY <2>3, <2>4, <2>5, <2>6, <2>7, <2>8
<1> QED  BY <1>11, <1>12, <1>13

\* The holes and the mark after a data segment that is judged c.
HolesNext(d, p, c) ==
  CASE c = "late" -> filled_holes(d, p)
    [] c = "jump" -> push_bounded(d.holes, skipped(d, p), kMaxTrackedHoles)
    [] OTHER -> d.holes
MarkNext(d, p, c) == IF c \in {"first", "jump", "advance"} THEN seg_end(p) ELSE d.next_seq

\* What classify says of the direction.
LEMMA VerdictFacts ==
  ASSUME NEW d, NEW p, p.len # 0, NEW c, c = classify(d, p)
  PROVE  /\ c = "late" => holes_hit(d, p) # {}
         /\ c # "first" => d.seq_valid
BY DEF classify, fills_known_hole

\* The hole list after a moved segment is the moved hole list after the segment.
LEMMA TranslatedHoles ==
  ASSUME NEW d \in Directions, NEW e, e = OffsetOf(d), NEW p, NEW q, Translated(q, p),
         p.len # 0, NEW c, c = classify(d, p)
  PROVE  /\ HolesNext(d, p, c) \in Seq(Hole)
         /\ HolesNext(e, q, c) = Mapped(HolesNext(d, p, c), OffsetHole)
<1>1. d.holes \in Seq(Hole) /\ e.holes = Mapped(d.holes, OffsetHole) /\ d.next_seq \in SeqNums
  BY OffsetType DEF OffsetFields, Directions
<1>2. CASE c = "late"
  <2>1. holes_hit(d, p) # {}
    BY <1>2, VerdictFacts
  <2> QED  BY <1>2, <2>1, TranslatedFill DEF HolesNext
<1>3. CASE c = "jump"
  <2>1. d.seq_valid
    BY <1>3, VerdictFacts
  <2>2. e.next_seq = Offset(d.next_seq) /\ p.seq \in SeqNums /\ q.seq = Offset(p.seq)
    BY <2>1, OffsetType DEF OffsetFields, OffsetNext, Translated
  <2>3. PICK h : h = skipped(d, p)
    OBVIOUS
  <2>4. h \in Hole /\ skipped(e, q) = OffsetHole[h]
    BY <1>1, <2>2, <2>3 DEF skipped, Hole, OffsetHole
  <2>5. /\ push_bounded(d.holes, h, kMaxTrackedHoles) \in Seq(Hole)
        /\ Mapped(push_bounded(d.holes, h, kMaxTrackedHoles), OffsetHole)
             = push_bounded(e.holes, OffsetHole[h], kMaxTrackedHoles)
    BY <1>1, <2>4, OffsetMaps, MappedPush, SequenceTrackingAssumption
  <2> QED  BY <1>3, <2>3, <2>4, <2>5 DEF HolesNext
<1>4. CASE c \notin {"late", "jump"}
  BY <1>1, <1>4 DEF HolesNext
<1> QED  BY <1>2, <1>3, <1>4

\* track_data, field by field.
DataFields(t, d, p, c, n, hs) ==
  /\ t.retransmits = Increment(d.retransmits, is_retransmit(c))
  /\ t.out_of_order = Increment(d.out_of_order, is_out_of_order(c))
  /\ t.seq_valid = TRUE /\ t.next_seq = n /\ t.holes = hs
  /\ t.recent_segments = push_bounded(d.recent_segments, fingerprint(p), kRecentSegmentWindow)

\* What track_data leaves in each field, in terms of the verdict and of the new mark.
LEMMA TrackDataFields ==
  ASSUME NEW d \in Directions, NEW p, NEW c, c = classify(d, p), NEW hs \in Seq(Hole),
         hs = HolesNext(d, p, c), NEW n \in SeqNums, n = MarkNext(d, p, c),
         fingerprint(p) \in Prints, NEW t, t = track_data(d, p)
  PROVE  t \in Directions /\ DataFields(t, d, p, c, n, hs)
<1>1. /\ d.retransmits \in Nat /\ d.out_of_order \in Nat /\ d.recent_segments \in Seq(Prints)
  BY DEF Directions, Prints
<1>2. PICK u, v, rs : /\ u = Increment(d.retransmits, is_retransmit(c))
                      /\ v = Increment(d.out_of_order, is_out_of_order(c))
                      /\ rs = push_bounded(d.recent_segments, fingerprint(p), kRecentSegmentWindow)
  OBVIOUS
<1>3. u \in Nat /\ v \in Nat
  BY <1>1, <1>2 DEF Increment
<1>4. rs \in Seq(Prints)
  BY <1>1, <1>2, OffsetMaps, MappedPush, SequenceTrackingAssumption
<1>5. PICK w : w = [d EXCEPT !.retransmits = u, !.out_of_order = v, !.seq_valid = TRUE,
                             !.next_seq = n, !.holes = hs, !.recent_segments = rs]
  OBVIOUS
<1>6. t = w
  BY <1>2, <1>5, Zenon DEF track_data, HolesNext, MarkNext
<1>7. w \in Directions
  BY <1>3, <1>4, <1>5 DEF Directions, Prints
<1>8. /\ w.retransmits = u /\ w.out_of_order = v /\ w.seq_valid = TRUE /\ w.next_seq = n
      /\ w.holes = hs /\ w.recent_segments = rs
  BY <1>5 DEF Directions
<1> QED  BY <1>2, <1>6, <1>7, <1>8, Zenon DEF DataFields

\* A data segment.
LEMMA TranslatedData ==
  ASSUME NEW d \in Directions, NEW p, NEW q, Translated(q, p), p.len # 0
  PROVE  /\ track_data(d, p) \in Directions
         /\ OffsetOf(track_data(d, p)) = track_data(OffsetOf(d), q)
<1>1. PICK e \in Directions : e = OffsetOf(d) /\ OffsetFields(e, d)
  <2>1. OffsetOf(d) \in Directions /\ OffsetFields(OffsetOf(d), d)
    BY OffsetType
  <2> QED  BY <2>1, Zenon
<1>2. PICK c : c = classify(d, p) /\ c = classify(e, q)
  BY <1>1, TranslatedVerdict
<1>3. q.len # 0
  BY DEF Translated
<1>4. PICK hs, gs : hs = HolesNext(d, p, c) /\ gs = HolesNext(e, q, c)
  OBVIOUS
<1>5. hs \in Seq(Hole) /\ gs = Mapped(hs, OffsetHole)
  <2>1. e = OffsetOf(d) /\ c = classify(d, p)
    BY <1>1, <1>2
  <2>2. HolesNext(d, p, c) \in Seq(Hole)
    BY <2>1, TranslatedHoles
  <2>3. HolesNext(e, q, c) = Mapped(HolesNext(d, p, c), OffsetHole)
    BY <2>1, TranslatedHoles
  <2> QED  BY <1>4, <2>2, <2>3
<1>6. gs \in Seq(Hole)
  BY <1>5, OffsetMaps, MappedType
<1>7. /\ seg_end(p) \in SeqNums /\ seg_end(q) = Offset(seg_end(p))
      /\ fingerprint(p) \in Prints /\ fingerprint(q) = OffsetPrint[fingerprint(p)]
  BY TranslatedFacts
<1>8. d.next_seq \in SeqNums /\ d.recent_segments \in Seq(Prints)
  BY DEF Directions, Prints
<1>9. PICK n, k : n = MarkNext(d, p, c) /\ k = MarkNext(e, q, c)
  OBVIOUS
<1>10. n \in SeqNums /\ k = Offset(n)
  <2>1. CASE c \in {"first", "jump", "advance"}
    BY <1>7, <1>9, <2>1 DEF MarkNext
  <2>2. CASE c \notin {"first", "jump", "advance"}
    <3>1. d.seq_valid
      BY <1>2, <2>2, VerdictFacts
    <3>2. e.next_seq = Offset(d.next_seq)
      BY <1>1, <3>1 DEF OffsetFields, OffsetNext
    <3> QED  BY <1>8, <1>9, <2>2, <3>2 DEF MarkNext
  <2> QED  BY <2>1, <2>2
<1>11. k \in SeqNums
  BY <1>10, OffsetAdds
<1>12. fingerprint(q) \in Prints
  BY <1>7, OffsetMaps DEF Maps
<1>13. PICK t, u : t = track_data(d, p) /\ u = track_data(e, q)
  OBVIOUS
<1>14. t \in Directions /\ DataFields(t, d, p, c, n, hs)
  BY <1>2, <1>4, <1>5, <1>7, <1>9, <1>10, <1>13, TrackDataFields, Zenon
<1>15. u \in Directions /\ DataFields(u, e, q, c, k, gs)
  BY <1>1, <1>2, <1>4, <1>6, <1>9, <1>11, <1>12, <1>13, TrackDataFields, Zenon
<1>16. Mapped(t.recent_segments, OffsetPrint) = u.recent_segments
  <2>1. PICK r, x : r = d.recent_segments /\ x = fingerprint(p)
    OBVIOUS
  <2>2. Mapped(push_bounded(r, x, kRecentSegmentWindow), OffsetPrint)
          = push_bounded(Mapped(r, OffsetPrint), OffsetPrint[x], kRecentSegmentWindow)
    BY <1>7, <1>8, <2>1, OffsetMaps, MappedPush, SequenceTrackingAssumption
  <2>3. e.recent_segments = Mapped(r, OffsetPrint)
    BY <1>1, <2>1 DEF OffsetFields
  <2> QED  BY <1>7, <1>14, <1>15, <2>1, <2>2, <2>3, Zenon DEF DataFields
<1>17. PICK o \in Directions : o = OffsetOf(t) /\ OffsetFields(o, t)
  <2>1. OffsetOf(t) \in Directions /\ OffsetFields(OffsetOf(t), t)
    BY <1>14, OffsetType
  <2> QED  BY <2>1, Zenon
<1>18. OffsetNext(t) = Offset(n)
  BY <1>14 DEF OffsetNext, DataFields
<1>19. e.retransmits = d.retransmits /\ e.out_of_order = d.out_of_order
  BY <1>1 DEF OffsetFields
<1>20. /\ o.retransmits = u.retransmits /\ o.out_of_order = u.out_of_order
       /\ o.seq_valid = u.seq_valid /\ o.next_seq = u.next_seq
       /\ o.recent_segments = u.recent_segments /\ o.holes = u.holes
  BY <1>5, <1>10, <1>14, <1>15, <1>16, <1>17, <1>18, <1>19, Zenon DEF OffsetFields, DataFields
<1>21. o = u
  BY <1>15, <1>20, SameDirection
<1> QED  BY <1>1, <1>13, <1>14, <1>17, <1>21

\* A segment without data.
LEMMA TranslatedControl ==
  ASSUME NEW d \in Directions, NEW p, NEW q, Translated(q, p)
  PROVE  /\ track_control(d, p) \in Directions
         /\ OffsetOf(track_control(d, p)) = track_control(OffsetOf(d), q)
<1>1. PICK e \in Directions : e = OffsetOf(d) /\ OffsetFields(e, d)
  <2>1. OffsetOf(d) \in Directions /\ OffsetFields(OffsetOf(d), d)
    BY OffsetType
  <2> QED  BY <2>1, Zenon
<1>2. p.seq \in SeqNums /\ p.seq \in Int /\ q.seq = Offset(p.seq) /\ q.flags = p.flags
  BY DEF Translated, SeqNums
<1>3. PICK one \in Int : one = IF p.flags \cap {"SYN", "FIN"} # {} THEN 1 ELSE 0
  OBVIOUS
<1>4. PICK a, b : a = SeqAdd(p.seq, one) /\ b = SeqAdd(q.seq, one)
  OBVIOUS
<1>5. a \in SeqNums /\ b = Offset(a) /\ b \in SeqNums
  <2>1. a \in SeqNums
    BY <1>2, <1>4, SpaceType
  <2>2. b = Offset(a)
    BY <1>2, <1>4, OffsetAdds
  <2> QED  BY <2>1, <2>2, OffsetAdds
<1>6. d.next_seq \in SeqNums /\ d.seq_valid \in BOOLEAN
  BY DEF Directions
<1>7. PICK n, k : /\ n = IF ~d.seq_valid \/ seq_gt(a, d.next_seq) THEN a ELSE d.next_seq
                  /\ k = IF ~e.seq_valid \/ seq_gt(b, e.next_seq) THEN b ELSE e.next_seq
  OBVIOUS
<1>8. e.seq_valid = d.seq_valid /\ e.next_seq = OffsetNext(d)
  BY <1>1 DEF OffsetFields
<1>9. n \in SeqNums /\ k = Offset(n)
  <2>1. CASE d.seq_valid
    <3>1. e.next_seq = Offset(d.next_seq)
      BY <1>8, <2>1 DEF OffsetNext
    <3>2. seq_gt(b, e.next_seq) <=> seq_gt(a, d.next_seq)
      BY <1>5, <1>6, <3>1, OffsetKeepsOrder
    <3> QED  BY <1>5, <1>6, <1>7, <1>8, <3>1, <3>2
  <2>2. CASE ~d.seq_valid
    BY <1>5, <1>7, <1>8, <2>2
  <2> QED  BY <2>1, <2>2
<1>10. k \in SeqNums
  BY <1>9, OffsetAdds
<1>11. PICK t, u : /\ t = [d EXCEPT !.seq_valid = TRUE, !.next_seq = n]
                   /\ u = [e EXCEPT !.seq_valid = TRUE, !.next_seq = k]
  OBVIOUS
<1>12. track_control(d, p) = t
  BY <1>3, <1>4, <1>7, <1>11, Zenon DEF track_control
<1>13. track_control(e, q) = u
  BY <1>2, <1>3, <1>4, <1>7, <1>11, Zenon DEF track_control
<1>14. /\ t \in Directions /\ t.retransmits = d.retransmits /\ t.out_of_order = d.out_of_order
       /\ t.seq_valid = TRUE /\ t.next_seq = n
       /\ t.recent_segments = d.recent_segments /\ t.holes = d.holes
  BY <1>9, <1>11 DEF Directions
<1>15. /\ u \in Directions /\ u.retransmits = e.retransmits /\ u.out_of_order = e.out_of_order
       /\ u.seq_valid = TRUE /\ u.next_seq = k
       /\ u.recent_segments = e.recent_segments /\ u.holes = e.holes
  BY <1>10, <1>11 DEF Directions
<1>16. PICK o \in Directions : o = OffsetOf(t) /\ OffsetFields(o, t)
  <2>1. OffsetOf(t) \in Directions /\ OffsetFields(OffsetOf(t), t)
    BY <1>14, OffsetType
  <2> QED  BY <2>1, Zenon
<1>17. OffsetNext(t) = Offset(n)
  BY <1>14 DEF OffsetNext
<1>18. /\ o.retransmits = u.retransmits /\ o.out_of_order = u.out_of_order
       /\ o.seq_valid = u.seq_valid /\ o.next_seq = u.next_seq
       /\ o.recent_segments = u.recent_segments /\ o.holes = u.holes
  BY <1>1, <1>9, <1>14, <1>15, <1>16, <1>17, Zenon DEF OffsetFields
<1>19. o = u
  BY <1>15, <1>18, SameDirection
<1> QED  BY <1>1, <1>12, <1>13, <1>14, <1>16, <1>19

\* track_sequence commutes with the translation.
LEMMA TranslatedStep ==
  ASSUME NEW d \in Directions, NEW p, NEW q, Translated(q, p)
  PROVE  OffsetOf(track_sequence(d, p)) = track_sequence(OffsetOf(d), q)
<1>1. q.len = p.len
  BY DEF Translated
<1>2. CASE p.len = 0
  BY <1>1, <1>2, TranslatedControl DEF track_sequence
<1>3. CASE p.len # 0
  BY <1>1, <1>3, TranslatedData DEF track_sequence
<1> QED  BY <1>2, <1>3

-----------------------------------------------------------------------------
(* The stream at the bottom of the sequence space.                         *)

\* The tracker of the translated stream is the same tracker.
LEMMA UnwrappedTracker ==
  ASSUME NEW d, NEW p
  PROVE  Unwrapped!track_sequence(d, p) = track_sequence(d, p)
<1>1. /\ Unwrapped!seg_end(p) = seg_end(p) /\ Unwrapped!fingerprint(p) = fingerprint(p)
      /\ Unwrapped!holes_hit(d, p) = holes_hit(d, p)
  BY DEF Unwrapped!seg_end, seg_end, Unwrapped!fingerprint, fingerprint,
         Unwrapped!holes_hit, holes_hit, Unwrapped!ranges_overlap, ranges_overlap,
         Unwrapped!seq_lt, seq_lt, Unwrapped!SeqAdd, SeqAdd, Unwrapped!SeqDiff, SeqDiff,
         Unwrapped!SeqSpace, SeqSpace
<1>2. Unwrapped!classify(d, p) = classify(d, p)
  BY <1>1 DEF Unwrapped!classify, classify, Unwrapped!fills_known_hole, fills_known_hole,
         Unwrapped!Contains, Contains, Unwrapped!seq_le, seq_le, Unwrapped!seq_gt, seq_gt,
         Unwrapped!seq_lt, seq_lt, Unwrapped!SeqDiff, SeqDiff, Unwrapped!SeqSpace, SeqSpace
<1>3. Unwrapped!filled_holes(d, p) = filled_holes(d, p)
  BY <1>1 DEF Unwrapped!filled_holes, filled_holes, Unwrapped!Min, Min,
         Unwrapped!RemoveAt, RemoveAt, Unwrapped!seq_le, seq_le, Unwrapped!seq_lt, seq_lt,
         Unwrapped!SeqDiff, SeqDiff, Unwrapped!SeqSpace, SeqSpace
<1>4. Unwrapped!track_data(d, p) = track_data(d, p)
  BY <1>1, <1>2, <1>3 DEF Unwrapped!track_data, track_data, Unwrapped!Increment, Increment,
         Unwrapped!is_retransmit, is_retransmit, Unwrapped!is_out_of_order, is_out_of_order,
         Unwrapped!push_bounded, push_bounded, Unwrapped!skipped, skipped
<1>5. Unwrapped!track_control(d, p) = track_control(d, p)
  BY DEF Unwrapped!track_control, track_control, Unwrapped!SeqAdd, SeqAdd,
         Unwrapped!seq_gt, seq_gt, Unwrapped!seq_lt, seq_lt, Unwrapped!SeqDiff, SeqDiff,
         Unwrapped!SeqSpace, SeqSpace
<1> QED  BY <1>4, <1>5 DEF Unwrapped!track_sequence, track_sequence

\* OffsetDir is the translation of dir, before and after a step.
LEMMA OffsetDirIs ==
  ASSUME dir \in Directions
  PROVE  OffsetDir = OffsetOf(dir)
<1>1. dir.recent_segments \in Seq(Prints) /\ dir.holes \in Seq(Hole)
  BY DEF Directions, Prints
<1>2. Mapped(dir.recent_segments, OffsetPrint)
        = [i \in DOMAIN dir.recent_segments |->
             <<Offset(dir.recent_segments[i][1]), dir.recent_segments[i][2]>>]
  <2>1. \A i \in DOMAIN dir.recent_segments : dir.recent_segments[i] \in Prints
    BY <1>1, LenProperties, ElementOfSeq
  <2> QED  BY <2>1 DEF Mapped, OffsetPrint
<1>3. Mapped(dir.holes, OffsetHole)
        = [i \in DOMAIN dir.holes |->
             [lo |-> Offset(dir.holes[i].lo), hi |-> Offset(dir.holes[i].hi)]]
  <2>1. \A i \in DOMAIN dir.holes : dir.holes[i] \in Hole
    BY <1>1, LenProperties, ElementOfSeq
  <2> QED  BY <2>1 DEF Mapped, OffsetHole
<1> QED  BY <1>2, <1>3, Zenon DEF OffsetDir, OffsetOf, OffsetNext

\* A captured segment of the stream, at both places.
LEMMA TranslatedSegment ==
  ASSUME NEW x \in Int, NEW f, NEW n \in Nat,
         NEW p, p = [flags |-> f, seq |-> SeqAt(x), len |-> n],
         NEW q, q = [flags |-> f, seq |-> Unwrapped!SeqAt(x), len |-> n]
  PROVE  Translated(q, p)
<1>1. Unwrapped!SeqAt(x) = SeqAdd(1, x)
  BY DEF Unwrapped!SeqAt, Unwrapped!SeqAdd, SeqAdd, Unwrapped!SeqSpace, SeqSpace
<1>2. Offset(SeqAt(x)) = SeqAdd(1, x) /\ SeqAt(x) \in SeqNums
  BY OffsetAdds, Positioned
<1> QED  BY <1>1, <1>2 DEF Translated

\* A step that tracks a segment is one of the translated stream.
LEMMA UnwrappedStep ==
  ASSUME dir \in Directions, dir' \in Directions, NEW p, NEW q, Translated(q, p),
         dir' = track_sequence(dir, p)
  PROVE  OffsetDir' = Unwrapped!track_sequence(OffsetDir, q)
<1>1. OffsetDir = OffsetOf(dir)
  BY OffsetDirIs
<1>2. OffsetDir' = OffsetOf(dir')
  <2>1. (dir \in Directions)' => (OffsetDir = OffsetOf(dir))'
    BY OffsetDirIs, PTL
  <2> QED  BY <2>1
<1>3. PICK d : d = dir
  OBVIOUS
<1>4. OffsetOf(track_sequence(d, p)) = track_sequence(OffsetOf(d), q)
  BY <1>3, TranslatedStep
<1> QED  BY <1>1, <1>2, <1>3, <1>4, UnwrappedTracker

\* Where the stream lies in the sequence space does not matter: for every initial sequence
\* number, track_sequence behaves as on the same stream at the bottom of the space.
THEOREM WrapIsInvisible == Spec => WrapInvisible
<1>1. Init => Unwrapped!Init
  <2>1. SUFFICES ASSUME Init PROVE Unwrapped!Init
    OBVIOUS
  <2>2. dir = InitSequence
    BY <2>1 DEF Init
  <2>3. PICK none : none = << >>
    OBVIOUS
  <2>4. none \in Seq(Prints) /\ none \in Seq(Hole) /\ DOMAIN none = {}
    BY <2>3
  <2>5. Mapped(none, OffsetPrint) = none /\ Mapped(none, OffsetHole) = none
    BY <2>3, <2>4 DEF Mapped
  <2>6. PICK d : d = [retransmits |-> 0, out_of_order |-> 0, seq_valid |-> FALSE,
                      next_seq |-> 0, recent_segments |-> none, holes |-> none]
    OBVIOUS
  <2>7. dir = d /\ d = Unwrapped!InitSequence
    BY <2>2, <2>3, <2>6, Zenon DEF InitSequence, Unwrapped!InitSequence
  <2>8. d \in Directions
    <3>1. 0 \in SeqNums
      BY SpaceType DEF SeqNums
    <3> QED  BY <2>4, <2>6, <3>1 DEF Directions, Prints
  <2>9. ~d.seq_valid /\ d.next_seq = 0 /\ d.recent_segments = none /\ d.holes = none
    BY <2>6
  <2>10. PICK e \in Directions : e = OffsetOf(d) /\ OffsetFields(e, d)
    <3>1. OffsetOf(d) \in Directions /\ OffsetFields(OffsetOf(d), d)
      BY <2>8, OffsetType
    <3> QED  BY <3>1, Zenon
  <2>11. OffsetNext(d) = 0
    BY <2>9 DEF OffsetNext
  <2>12. /\ e.retransmits = d.retransmits /\ e.out_of_order = d.out_of_order
         /\ e.seq_valid = d.seq_valid /\ e.next_seq = d.next_seq
         /\ e.recent_segments = d.recent_segments /\ e.holes = d.holes
    BY <2>5, <2>9, <2>10, <2>11, Zenon DEF OffsetFields
  <2>13. e = d
    BY <2>8, <2>12, SameDirection
  <2>14. OffsetDir = d
    BY <2>7, <2>8, <2>10, <2>13, OffsetDirIs
  <2> QED  BY <2>1, <2>7, <2>14 DEF Init, Unwrapped!Init
<1>2. TypeOK /\ TypeOK' /\ [Next]_vars => [Unwrapped!Next]_(Unwrapped!vars)
  <2>1. SUFFICES ASSUME TypeOK, TypeOK', [Next]_vars
                 PROVE  [Unwrapped!Next]_(Unwrapped!vars)
    OBVIOUS
  <2>2. dir \in Directions /\ dir' \in Directions /\ from \in Senders
    BY <2>1 DEF TypeOK, Directions
  <2>3. ASSUME NEW s \in from.segs, Data(s) PROVE Unwrapped!Data(s)
    <3>1. s[1] \in Int /\ s[2] \in Nat
      BY <2>2, StreamAssumption
    <3>2. PICK p, q : /\ p = [flags |-> {"ACK"}, seq |-> SeqAt(s[1]), len |-> s[2]]
                      /\ q = [flags |-> {"ACK"}, seq |-> Unwrapped!SeqAt(s[1]), len |-> s[2]]
      OBVIOUS
    <3>3. Translated(q, p)
      BY <3>1, <3>2, TranslatedSegment
    <3>4. dir' = track_sequence(dir, p)
      BY <2>3, <3>2 DEF Data
    <3>5. OffsetDir' = Unwrapped!track_sequence(OffsetDir, q)
      BY <2>2, <3>3, <3>4, UnwrappedStep
    <3> QED  BY <2>3, <3>2, <3>5, Zenon DEF Data, Unwrapped!Data, Positions, Unwrapped!Positions
  <2>4. ASSUME NEW x \in Int, NEW f, Control(x, f) PROVE Unwrapped!Control(x, f)
    <3>1. PICK p, q : /\ p = [flags |-> f, seq |-> SeqAt(x), len |-> 0]
                      /\ q = [flags |-> f, seq |-> Unwrapped!SeqAt(x), len |-> 0]
      OBVIOUS
    <3>2. Translated(q, p)
      BY <3>1, TranslatedSegment
    <3>3. dir' = track_sequence(dir, p)
      BY <2>4, <3>1 DEF Control
    <3>4. OffsetDir' = Unwrapped!track_sequence(OffsetDir, q)
      BY <2>2, <3>2, <3>3, UnwrappedStep
    <3> QED  BY <2>4, <3>1, <3>4, Zenon DEF Control, Unwrapped!Control
  <2>5. CASE UNCHANGED vars
    BY <2>5 DEF vars, Unwrapped!vars, OffsetDir
  <2>6. -1 \in Int /\ StreamLen \in Int /\ \A x \in 0 .. StreamLen : x \in Int
    BY StreamFacts
  <2> QED  BY <2>1, <2>3, <2>4, <2>5, <2>6 DEF Next, Unwrapped!Next
<1> QED  BY <1>1, <1>2, TypeCorrect, PTL DEF Spec, WrapInvisible, Unwrapped!Spec

=============================================================================
