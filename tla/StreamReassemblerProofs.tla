----------------------- MODULE StreamReassemblerProofs -----------------------
(***************************************************************************)
(* The reassembler on the segments of one stream.  The invariant says      *)
(* where every byte is: the prefix is the beginning of what was delivered, *)
(* next_seq is the number of the first byte that was not, and every held   *)
(* segment is a piece of the stream under the number of its first byte.    *)
(***************************************************************************)
EXTENDS StreamReassembler, SegmentLemmas

Stream == 0 .. StreamLen - 1

\* s is a piece of the stream, and it starts at x.
IsPiece(s) ==
  s # << >> /\ s[1] + Len(s) <= StreamLen /\ \A i \in 1 .. Len(s) : s[i] = s[1] + i - 1
Follows(s, x) ==
  x + Len(s) <= StreamLen /\ \A i \in 1 .. Len(s) : s[i] = x + i - 1

\* Every held segment is a piece of the stream a .. and has its first byte's number.
InPlace(a, q) == \A n \in DOMAIN q : IsPiece(q[n]) /\ n = SeqAdd(a, q[n][1])

\* The reassemblers that have read the stream with first number a from position o on.
OnStream(a, o) ==
  {s \in Budgeted(Stream) :
     /\ s.initialized = TRUE
     /\ o + s.delivered <= StreamLen
     /\ s.next_seq = SeqAdd(a, o + s.delivered)
     /\ Len(s.prefix) = Min({s.delivered, max_prefix})
     /\ \A i \in 1 .. Len(s.prefix) : s.prefix[i] = o + i - 1
     /\ InPlace(a, s.pending)}

\* The bytes of K are delivered or held.
Holds(q, x) == \E n \in DOMAIN q : q[n][1] <= x /\ x < q[n][1] + Len(q[n])
Covers(s, o, K) == \A x \in K : x >= o + s.delivered => Holds(s.pending, x)

\* There is a hole in front of every held segment.
NoneDue(s, o) == \A n \in DOMAIN s.pending : s.pending[n][1] > o + s.delivered

\* The stream is shorter than half the sequence space.
LEMMA StreamFacts ==
  /\ StreamLen \in Nat /\ StreamLen + 1 < HalfSpace /\ HalfSpace \in Nat
  /\ SeqSpace = 2 * HalfSpace /\ \A a \in SeqNums : a \in Int /\ a \in Nat /\ a < SeqSpace
  /\ \A a \in Isns : a \in SeqNums
<1>1. SeqSpace = 2 * HalfSpace /\ HalfSpace \in Nat
  BY HalfSpaceAssumption DEF SeqSpace
<1> QED  BY <1>1, StreamAssumption DEF SeqNums

\* Sequence numbers of the stream compare as the positions do.
LEMMA Positions ==
  ASSUME NEW a \in SeqNums, NEW x \in 0 .. StreamLen, NEW y \in 0 .. StreamLen
  PROVE  /\ SeqAdd(a, x) = SeqAdd(a, y) <=> x = y
         /\ seq_lt(SeqAdd(a, x), SeqAdd(a, y)) <=> x < y
         /\ seq_gt(SeqAdd(a, x), SeqAdd(a, y)) <=> x > y
         /\ x <= y => SeqDiff(SeqAdd(a, y), SeqAdd(a, x)) = y - x
         /\ SeqAdd(a, x) \in SeqNums
<1>1. /\ a \in Int /\ x \in Int /\ y \in Int /\ x - y < HalfSpace /\ y - x < HalfSpace
      /\ y - x < SeqSpace
  BY StreamFacts
<1>2. x <= y => SeqDiff(SeqAdd(a, y), SeqAdd(a, x)) = y - x
  BY <1>1, DiffOfPositions
<1>3. SeqAdd(a, x) \in SeqNums
  BY <1>1, SpaceType
<1> QED  BY <1>1, <1>2, <1>3, ComparePositions

\* What is known of a reassembler on the stream.
LEMMA OnStreamFacts ==
  ASSUME NEW a \in SeqNums, NEW o \in 0 .. StreamLen, NEW s \in OnStream(a, o)
  PROVE  /\ s \in Budgeted(Stream) /\ s \in Reassemblers(Stream)
         /\ s.delivered \in Nat /\ o + s.delivered \in 0 .. StreamLen
         /\ s.next_seq = SeqAdd(a, o + s.delivered)
         /\ s.prefix \in Seq(Stream) /\ Len(s.prefix) <= max_prefix
         /\ s.pending \in Pendings(Stream)
<1>1. s \in Budgeted(Stream) /\ o + s.delivered <= StreamLen
      /\ s.next_seq = SeqAdd(a, o + s.delivered)
  BY DEF OnStream
<1>2. s \in Reassemblers(Stream) /\ Len(s.prefix) <= max_prefix
  BY <1>1 DEF Budgeted
<1>3. s.delivered \in Nat /\ s.prefix \in Seq(Stream) /\ s.pending \in Pendings(Stream)
  BY <1>2, Fields
<1>4. o + s.delivered \in 0 .. StreamLen
  BY <1>1, <1>3, StreamFacts
<1> QED  BY <1>1, <1>2, <1>3, <1>4

\* The first byte of a held segment, and its number.
LEMMA HeldPiece ==
  ASSUME NEW a \in SeqNums, NEW o \in 0 .. StreamLen, NEW s \in OnStream(a, o),
         NEW n \in DOMAIN s.pending
  PROVE  /\ s.pending[n] \in Seq(Stream) /\ Len(s.pending[n]) \in Nat
         /\ Len(s.pending[n]) > 0
         /\ s.pending[n][1] \in 0 .. StreamLen - 1
         /\ s.pending[n][1] + Len(s.pending[n]) <= StreamLen
         /\ \A i \in 1 .. Len(s.pending[n]) : s.pending[n][i] = s.pending[n][1] + i - 1
         /\ n = SeqAdd(a, s.pending[n][1])
<1>1. PICK p : p = s.pending[n]
  OBVIOUS
<1>2. p \in Seq(Stream) /\ Len(p) \in Nat
  BY <1>1, OnStreamFacts, PendingFacts
<1>3. IsPiece(p) /\ n = SeqAdd(a, p[1])
  BY <1>1 DEF OnStream, InPlace
<1>4. Len(p) > 0
  BY <1>2, <1>3, EmptySeq DEF IsPiece
<1>5. p[1] \in Stream
  BY <1>2, <1>4
<1> QED  BY <1>1, <1>2, <1>3, <1>4, <1>5 DEF IsPiece, Stream

\* Bytes that follow what was delivered keep the reassembler on the stream.
LEMMA Advances ==
  ASSUME NEW a \in SeqNums, NEW o \in 0 .. StreamLen, NEW s \in OnStream(a, o),
         NEW rest \in Seq(Stream), Follows(rest, o + s.delivered),
         NEW d \in Budgeted(Stream),
         d.initialized = s.initialized,
         d.next_seq = SeqAdd(s.next_seq, Len(rest)),
         d.prefix = append(s.prefix, rest),
         d.delivered = s.delivered + Len(rest),
         InPlace(a, d.pending)
  PROVE  d \in OnStream(a, o)
<1>1. PICK k \in Nat, p \in Seq(Stream), e \in Nat, l \in Nat :
        k = Len(rest) /\ p = s.prefix /\ e = s.delivered /\ l = Len(p)
  BY OnStreamFacts
<1>2. /\ o + e \in 0 .. StreamLen /\ s.next_seq = SeqAdd(a, o + e)
      /\ l <= max_prefix /\ max_prefix \in Nat
  BY <1>1, OnStreamFacts, ReassemblyAssumption
<1>3. /\ l = Min({e, max_prefix}) /\ \A i \in 1 .. l : p[i] = o + i - 1
  BY <1>1 DEF OnStream
<1>4. o + (e + k) <= StreamLen /\ \A i \in 1 .. k : rest[i] = (o + e) + i - 1
  BY <1>1, <1>2 DEF Follows
<1>5. d.next_seq = SeqAdd(a, o + d.delivered)
  <2>1. SeqAdd(SeqAdd(a, o + e), k) = SeqAdd(a, (o + e) + k)
    <3>1. PICK y \in Int, b \in Int : y = o + e /\ b = a
      BY <1>1, <1>2, StreamFacts
    <3>2. SeqAdd(SeqAdd(b, y), k) = SeqAdd(b, y + k)
      BY AddAdd
    <3> QED  BY <3>1, <3>2
  <2>2. (o + e) + k = o + (e + k)
    BY <1>1, <1>2
  <2> QED  BY <1>1, <1>2, <2>1, <2>2
<1>6. PICK t : t = append(p, rest)
  OBVIOUS
<1>7. /\ Len(t) = Min({l + k, max_prefix}) /\ Len(t) \in l .. l + k /\ Len(t) <= max_prefix
      /\ \A i \in 1 .. Len(t) : t[i] = IF i <= l THEN p[i] ELSE rest[i - l]
  <2>1. Len(p) <= max_prefix
    BY <1>1, <1>2
  <2>2. /\ Len(t) = Min({Len(p) + Len(rest), max_prefix})
        /\ Len(t) \in Len(p) .. Len(p) + Len(rest) /\ Len(t) <= max_prefix
        /\ \A i \in 1 .. Len(t) : t[i] = IF i <= Len(p) THEN p[i] ELSE rest[i - Len(p)]
    BY <1>6, <2>1, AppendPiece
  <2> QED  BY <1>1, <2>2
<1>8. l = (IF e <= max_prefix THEN e ELSE max_prefix)
  BY <1>2, <1>3, MinOfTwo
<1>9. Len(t) = Min({e + k, max_prefix})
  <2>1. Min({l + k, max_prefix}) = IF l + k <= max_prefix THEN l + k ELSE max_prefix
    BY <1>2, MinOfTwo
  <2>2. Min({e + k, max_prefix}) = IF e + k <= max_prefix THEN e + k ELSE max_prefix
    BY <1>2, MinOfTwo
  <2> QED  BY <1>2, <1>7, <1>8, <2>1, <2>2
<1>10. ASSUME NEW i \in 1 .. Len(t) PROVE t[i] = o + i - 1
  <2>0. Len(t) \in Nat /\ i \in Nat /\ i >= 1 /\ i <= l + k
    BY <1>7
  <2>3. t[i] = IF i <= l THEN p[i] ELSE rest[i - l]
    BY <1>7, Zenon
  <2>1. CASE i <= l
    <3>1. i \in 1 .. l /\ t[i] = p[i]
      BY <2>0, <2>1, <2>3
    <3> QED  BY <1>3, <3>1
  <2>2. CASE i > l
    <3>1. e = l /\ i - l \in 1 .. k
      BY <1>2, <1>7, <1>8, <2>0, <2>2
    <3>2. t[i] = rest[i - l]
      BY <2>0, <2>2, <2>3
    <3>3. t[i] = (o + e) + (i - l) - 1
      BY <1>4, <3>1, <3>2
    <3> QED  BY <1>2, <2>0, <3>1, <3>3
  <2> QED  BY <2>0, <2>1, <2>2
<1>11. s.initialized = TRUE
  BY DEF OnStream
<1>12. /\ d.initialized = TRUE /\ o + d.delivered <= StreamLen
       /\ Len(d.prefix) = Min({d.delivered, max_prefix})
       /\ \A i \in 1 .. Len(d.prefix) : d.prefix[i] = o + i - 1
  BY <1>1, <1>4, <1>6, <1>9, <1>10, <1>11
<1> QED  BY <1>5, <1>12 DEF OnStream

\* A turn of drain() releases bytes that follow what was delivered, and reaches the end
\* of the segment it takes from the map.
LEMMA ReleaseOnStream ==
  ASSUME NEW a \in SeqNums, NEW o \in 0 .. StreamLen, NEW s \in OnStream(a, o),
         drainable(s)
  PROVE  /\ drain_first(s) \in OnStream(a, o)
         /\ First(s) \in DOMAIN s.pending
         /\ drain_first(s).pending = without(s.pending, First(s))
         /\ drain_first(s).delivered \in Nat
         /\ drain_first(s).delivered >= s.delivered
         /\ o + drain_first(s).delivered
              >= s.pending[First(s)][1] + Len(s.pending[First(s)])
<1>1. DOMAIN s.pending # {} /\ ~seq_gt(First(s), s.next_seq)
  BY DEF drainable, First
<1>2. /\ s \in Budgeted(Stream) /\ s \in Reassemblers(Stream) /\ s.delivered \in Nat
      /\ o + s.delivered \in 0 .. StreamLen /\ s.next_seq = SeqAdd(a, o + s.delivered)
      /\ s.pending \in Pendings(Stream)
  BY OnStreamFacts
<1>3. First(s) \in DOMAIN s.pending /\ Rest(s) \in Seq(Stream)
  BY <1>1, <1>2, FirstSegment
<1>4. PICK d : d = drain_first(s)
  OBVIOUS
<1>5. /\ d \in Budgeted(Stream) /\ d.initialized = s.initialized
      /\ d.next_seq = SeqAdd(s.next_seq, Len(Rest(s)))
      /\ d.prefix = append(s.prefix, Rest(s))
      /\ d.pending = without(s.pending, First(s))
      /\ d.delivered = s.delivered + Len(Rest(s))
  BY <1>1, <1>2, <1>4, ReleaseEffect
<1>6. PICK p, n, e : p = s.pending[First(s)] /\ n = First(s) /\ e = o + s.delivered
  OBVIOUS
<1>7. /\ p \in Seq(Stream) /\ Len(p) \in Nat /\ Len(p) > 0 /\ p[1] \in 0 .. StreamLen - 1
      /\ p[1] + Len(p) <= StreamLen /\ n = SeqAdd(a, p[1])
      /\ \A i \in 1 .. Len(p) : p[i] = p[1] + i - 1
  BY <1>3, <1>6, HeldPiece
<1>8. PICK x \in 0 .. StreamLen : x = p[1]
  BY <1>7, StreamFacts
<1>9. e \in 0 .. StreamLen /\ s.next_seq = SeqAdd(a, e)
  BY <1>2, <1>6
<1>10. x <= e /\ SeqDiff(s.next_seq, n) = e - x
  <2>1. ~(x > e)
    BY <1>1, <1>6, <1>7, <1>8, <1>9, Positions
  <2>2. x <= e
    BY <1>8, <1>9, <2>1, StreamFacts
  <2> QED  BY <1>7, <1>8, <1>9, <2>2, Positions
<1>11. PICK k \in Nat : k = e - x
  BY <1>9, <1>10, StreamFacts
<1>12. Rest(s) = Drop(p, k)
  BY <1>6, <1>10, <1>11 DEF Rest
<1>13. /\ Len(Rest(s)) = IF k < Len(p) THEN Len(p) - k ELSE 0
       /\ \A i \in 1 .. Len(p) - k : Rest(s)[i] = p[k + i]
  <2>1. /\ Len(Drop(p, k)) = IF k < Len(p) THEN Len(p) - k ELSE 0
        /\ \A i \in 1 .. Len(p) - k : Drop(p, k)[i] = p[k + i]
    BY <1>7, DropPiece
  <2> QED  BY <1>12, <2>1
<1>14. Follows(Rest(s), e)
  <2>1. e + Len(Rest(s)) <= StreamLen
    BY <1>7, <1>8, <1>9, <1>11, <1>13, StreamFacts, SMTT(30)
  <2>2. ASSUME NEW i \in 1 .. Len(Rest(s)) PROVE Rest(s)[i] = e + i - 1
    <3>1. i \in 1 .. Len(p) - k /\ k + i \in 1 .. Len(p)
      BY <1>7, <1>13
    <3>2. Rest(s)[i] = p[1] + (k + i) - 1
      BY <1>7, <1>13, <3>1
    <3>3. i \in Nat /\ x \in Nat /\ e \in Nat
      BY <1>9, <1>13, StreamFacts
    <3> QED  BY <1>8, <1>11, <3>2, <3>3, SMTT(30)
  <2> QED  BY <2>1, <2>2 DEF Follows
<1>15. InPlace(a, d.pending)
  <2>1. PICK q : q = s.pending
    OBVIOUS
  <2>2. InPlace(a, q) /\ q \in Pendings(Stream) /\ n \in DOMAIN q
    BY <1>2, <1>3, <1>6, <2>1 DEF OnStream
  <2>3. /\ DOMAIN without(q, n) = DOMAIN q \ {n}
        /\ \A m \in DOMAIN q \ {n} : without(q, n)[m] = q[m]
    BY <2>2, WithoutOne
  <2>4. InPlace(a, without(q, n))
    BY <2>2, <2>3 DEF InPlace
  <2> QED  BY <1>5, <1>6, <2>1, <2>4
<1>16. d \in OnStream(a, o)
  BY <1>3, <1>5, <1>6, <1>14, <1>15, Advances
<1>17. Len(Rest(s)) \in Nat /\ d.delivered \in Nat /\ d.delivered >= s.delivered
  BY <1>2, <1>3, <1>5
<1>18. o + d.delivered >= p[1] + Len(p)
  <2>1. e + Len(Rest(s)) >= x + Len(p)
    BY <1>7, <1>9, <1>11, <1>13, StreamFacts
  <2>2. o + d.delivered = e + Len(Rest(s))
    BY <1>2, <1>5, <1>6, <1>17
  <2> QED  BY <1>8, <2>1, <2>2
<1> QED  BY <1>3, <1>4, <1>5, <1>6, <1>16, <1>17, <1>18

\* A turn of drain() loses no byte.
LEMMA ReleaseCovers ==
  ASSUME NEW a \in SeqNums, NEW o \in 0 .. StreamLen, NEW s \in OnStream(a, o),
         drainable(s), NEW K \in SUBSET Int, Covers(s, o, K)
  PROVE  Covers(drain_first(s), o, K)
<1>1. PICK d, q, n : d = drain_first(s) /\ q = s.pending /\ n = First(s)
  OBVIOUS
<1>2. /\ n \in DOMAIN q /\ d.pending = without(q, n) /\ d.delivered \in Nat
      /\ d.delivered >= s.delivered /\ o + d.delivered >= q[n][1] + Len(q[n])
      /\ s.delivered \in Nat /\ q \in Pendings(Stream)
  BY <1>1, ReleaseOnStream, OnStreamFacts
<1>3. /\ DOMAIN d.pending = DOMAIN q \ {n}
      /\ \A m \in DOMAIN q \ {n} : d.pending[m] = q[m]
  <2>1. /\ DOMAIN without(q, n) = DOMAIN q \ {n}
        /\ \A m \in DOMAIN q \ {n} : without(q, n)[m] = q[m]
    BY <1>2, WithoutOne
  <2> QED  BY <1>2, <2>1
<1>4. q[n][1] \in Int /\ Len(q[n]) \in Nat
  BY <1>1, <1>2, HeldPiece
<1>5. SUFFICES ASSUME NEW x \in K, x >= o + d.delivered PROVE Holds(d.pending, x)
  BY <1>1 DEF Covers
<1>6. x \in Int /\ x >= o + s.delivered /\ ~(x < q[n][1] + Len(q[n]))
  BY <1>2, <1>4, <1>5
<1>7. PICK m \in DOMAIN q : q[m][1] <= x /\ x < q[m][1] + Len(q[m])
  BY <1>1, <1>6 DEF Covers, Holds
<1>8. m # n
  BY <1>6, <1>7
<1> QED  BY <1>3, <1>7, <1>8 DEF Holds

\* drain() stays on the stream, goes forward, loses no byte and stops at a hole.
LEMMA DrainOnStream ==
  ASSUME NEW a \in SeqNums, NEW o \in 0 .. StreamLen, NEW s \in OnStream(a, o),
         NEW K \in SUBSET Int, Covers(s, o, K)
  PROVE  /\ drain(s) \in OnStream(a, o) /\ Covers(drain(s), o, K)
         /\ drain(s).delivered >= s.delivered /\ ~drainable(drain(s))
<1> DEFINE G == {t \in OnStream(a, o) : Covers(t, o, K) /\ t.delivered >= s.delivered}
<1>1. s \in G
  <2>1. s.delivered \in Nat
    BY OnStreamFacts
  <2> QED  BY <2>1
<1>2. G \in SUBSET Budgeted(Stream)
  BY DEF OnStream
<1>3. ASSUME NEW t \in G, drainable(t) PROVE drain_first(t) \in G
  <2>1. t \in OnStream(a, o) /\ Covers(t, o, K) /\ t.delivered >= s.delivered
    OBVIOUS
  <2>2. /\ drain_first(t) \in OnStream(a, o) /\ drain_first(t).delivered \in Nat
        /\ drain_first(t).delivered >= t.delivered
    BY <1>3, <2>1, ReleaseOnStream
  <2>3. Covers(drain_first(t), o, K)
    BY <1>3, <2>1, ReleaseCovers
  <2>4. t.delivered \in Nat /\ s.delivered \in Nat
    BY <2>1, OnStreamFacts
  <2>5. drain_first(t).delivered >= s.delivered
    BY <2>1, <2>2, <2>4
  <2> QED  BY <2>2, <2>3, <2>5
<1> HIDE DEF G
<1>4. drain(s) \in G /\ ~drainable(drain(s))
  BY <1>1, <1>2, <1>3, DrainKeeps
<1> QED  BY <1>4 DEF G

\* Inside the sequence space the numbers are not reduced.
LEMMA NoWrap ==
  ASSUME NEW a \in SeqNums, NEW x \in 0 .. StreamLen - 1, a + StreamLen <= SeqSpace
  PROVE  SeqAdd(a, x) = a + x
<1>1. PICK m \in Nat \ {0} : m = SeqSpace
  BY SpaceType
<1>2. PICK b \in 0 .. m - 1 : b = a + x
  BY <1>1, StreamFacts
<1>3. (0 * m + b) % m = b
  BY RemainderUnique
<1>4. 0 * m + b = a + x
  BY <1>2
<1> QED  BY <1>1, <1>2, <1>3, <1>4 DEF SeqAdd

\* When drain() has stopped and the stream does not wrap, there is a hole in front of
\* every held segment: the first key of the map is the first segment of the stream.
LEMMA NothingDue ==
  ASSUME NEW a \in SeqNums, a + StreamLen <= SeqSpace,
         NEW o \in 0 .. StreamLen, NEW s \in OnStream(a, o), ~drainable(s)
  PROVE  NoneDue(s, o)
<1>1. SUFFICES ASSUME NEW n \in DOMAIN s.pending PROVE s.pending[n][1] > o + s.delivered
  BY DEF NoneDue
<1>2. /\ s \in Reassemblers(Stream) /\ s.next_seq = SeqAdd(a, o + s.delivered)
      /\ o + s.delivered \in 0 .. StreamLen
  BY OnStreamFacts
<1>3. seq_gt(First(s), s.next_seq)
  BY <1>1 DEF drainable, First
<1>4. First(s) \in DOMAIN s.pending /\ First(s) <= n
  BY <1>1, <1>2, FirstSegment
<1>5. PICK x \in 0 .. StreamLen - 1 : x = s.pending[n][1] /\ n = SeqAdd(a, x)
  BY <1>1, HeldPiece
<1>6. PICK y \in 0 .. StreamLen - 1 : y = s.pending[First(s)][1] /\ First(s) = SeqAdd(a, y)
  BY <1>4, HeldPiece
<1>7. n = a + x /\ First(s) = a + y
  BY <1>5, <1>6, NoWrap
<1>8. y <= x
  BY <1>4, <1>7, StreamFacts
<1>9. PICK e \in 0 .. StreamLen : e = o + s.delivered
  BY <1>2
<1>10. y \in 0 .. StreamLen /\ seq_gt(SeqAdd(a, y), SeqAdd(a, e))
  BY <1>2, <1>3, <1>6, <1>9, StreamFacts
<1>11. y > e
  BY <1>10, Positions
<1> QED  BY <1>5, <1>8, <1>9, <1>11, StreamFacts

\* The first byte of a piece that starts at x.
LEMMA PieceStart ==
  ASSUME NEW data \in Seq(Stream), data # << >>, NEW x \in Int, Follows(data, x)
  PROVE  data[1] = x /\ IsPiece(data) /\ Len(data) \in Nat /\ Len(data) > 0
<1>1. Len(data) \in Nat /\ Len(data) > 0
  BY EmptySeq
<1>2. data[1] = x + 1 - 1
  BY <1>1 DEF Follows
<1>3. data[1] = x
  BY <1>2
<1> QED  BY <1>1, <1>3 DEF IsPiece, Follows

\* A segment behind a hole is held under the number of its first byte.
LEMMA HoldOnStream ==
  ASSUME NEW a \in SeqNums, NEW o \in 0 .. StreamLen, NEW s \in OnStream(a, o),
         NEW x \in 0 .. StreamLen, x > o + s.delivered,
         NEW data \in Seq(Stream), data # << >>, Follows(data, x)
  PROVE  /\ hold(s, SeqAdd(a, x), data) \in OnStream(a, o)
         /\ hold(s, SeqAdd(a, x), data).delivered = s.delivered
         /\ NoneDue(s, o) => NoneDue(hold(s, SeqAdd(a, x), data), o)
<1>1. PICK n, h, q, p : /\ n = SeqAdd(a, x) /\ h = hold(s, n, data)
                        /\ q = s.pending /\ p = h.pending
  OBVIOUS
<1>2. n \in SeqNums /\ x \in Int
  BY <1>1, Positions, StreamFacts
<1>3. data[1] = x /\ IsPiece(data)
  BY <1>2, PieceStart
<1>4. s \in Budgeted(Stream) /\ q \in Pendings(Stream)
  BY <1>1, OnStreamFacts
<1>5. /\ h \in Budgeted(Stream) /\ h.initialized = s.initialized
      /\ h.next_seq = s.next_seq /\ h.prefix = s.prefix /\ h.delivered = s.delivered
      /\ ~Taken(s, n, data) => h = s
      /\ Taken(s, n, data) => h.pending = with(s.pending, n, data)
  BY <1>1, <1>2, <1>4, HoldEffect
<1>6. CASE ~Taken(s, n, data)
  BY <1>1, <1>5, <1>6
<1>7. CASE Taken(s, n, data)
  <2>1. Updates(p, q, n, data)
    BY <1>1, <1>2, <1>4, <1>5, <1>7, WithOne
  <2>2. DOMAIN p = DOMAIN q \cup {n} /\ p[n] = data /\ \A m \in DOMAIN q \ {n} : p[m] = q[m]
    BY <2>1, Zenon DEF Updates
  <2>3. InPlace(a, q)
    BY <1>1 DEF OnStream
  <2>4. InPlace(a, p)
    <3>1. SUFFICES ASSUME NEW m \in DOMAIN p PROVE IsPiece(p[m]) /\ m = SeqAdd(a, p[m][1])
      BY DEF InPlace
    <3>2. CASE m = n
      BY <1>1, <1>3, <2>2, <3>2
    <3>3. CASE m # n
      BY <2>2, <2>3, <3>3 DEF InPlace
    <3> QED  BY <3>2, <3>3
  <2>5. h \in OnStream(a, o)
    BY <1>1, <1>5, <2>4 DEF OnStream
  <2>6. NoneDue(s, o) => NoneDue(h, o)
    <3>1. SUFFICES ASSUME NoneDue(s, o), NEW m \in DOMAIN p
                   PROVE  p[m][1] > o + h.delivered
      BY <1>1 DEF NoneDue
    <3>2. CASE m = n
      BY <1>3, <1>5, <2>2, <3>2
    <3>3. CASE m # n
      BY <1>1, <1>5, <2>2, <3>1, <3>3 DEF NoneDue
    <3> QED  BY <3>2, <3>3
  <2> QED  BY <1>1, <1>5, <2>5, <2>6
<1> QED  BY <1>6, <1>7

\* hold() loses no byte, and it has the new ones unless there was no room for them.
LEMMA HoldCovers ==
  ASSUME NEW a \in SeqNums, NEW o \in 0 .. StreamLen, NEW s \in OnStream(a, o),
         NEW x \in 0 .. StreamLen,
         NEW data \in Seq(Stream), data # << >>, Follows(data, x),
         NEW K \in SUBSET Int, Covers(s, o, K)
  PROVE  /\ Covers(hold(s, SeqAdd(a, x), data), o, K)
         /\ fits(s, Len(data)) =>
              Covers(hold(s, SeqAdd(a, x), data), o, K \cup (x .. x + Len(data) - 1))
<1>1. PICK n, h, q, p : /\ n = SeqAdd(a, x) /\ h = hold(s, n, data)
                        /\ q = s.pending /\ p = h.pending
  OBVIOUS
<1>2. n \in SeqNums /\ x \in Int
  BY <1>1, Positions, StreamFacts
<1>3. data[1] = x /\ Len(data) \in Nat /\ Len(data) > 0
  BY <1>2, PieceStart
<1>4. s \in Budgeted(Stream) /\ q \in Pendings(Stream) /\ s.delivered \in Nat
  BY <1>1, OnStreamFacts
<1>5. /\ h.delivered = s.delivered
      /\ ~Taken(s, n, data) => h = s
      /\ Taken(s, n, data) => h.pending = with(s.pending, n, data)
  BY <1>1, <1>2, <1>4, HoldEffect
<1>6. ASSUME n \in DOMAIN q PROVE q[n][1] = x /\ Len(q[n]) \in Nat
  <2>1. PICK y \in 0 .. StreamLen : y = q[n][1] /\ n = SeqAdd(a, y) /\ Len(q[n]) \in Nat
    BY <1>1, <1>6, HeldPiece, StreamFacts, SMTT(30)
  <2> QED  BY <1>1, <2>1, Positions
<1>7. CASE ~Taken(s, n, data)
  <2>1. h = s
    BY <1>5, <1>7
  <2>2. ASSUME fits(s, Len(data)), NEW y \in x .. x + Len(data) - 1 PROVE Holds(q, y)
    <3>1. ~(Len(data) > Copy(q, n))
      BY <1>1, <1>7, <2>2 DEF Taken
    <3>2. n \in DOMAIN q /\ Len(q[n]) >= Len(data)
      BY <1>3, <1>6, <3>1 DEF Copy
    <3>3. q[n][1] <= y /\ y < q[n][1] + Len(q[n])
      BY <1>2, <1>3, <1>6, <2>2, <3>2
    <3> QED  BY <3>2, <3>3 DEF Holds
  <2> QED  BY <1>1, <2>1, <2>2 DEF Covers
<1>8. CASE Taken(s, n, data)
  <2>1. Updates(p, q, n, data)
    BY <1>1, <1>2, <1>4, <1>5, <1>8, WithOne
  <2>2. DOMAIN p = DOMAIN q \cup {n} /\ p[n] = data /\ \A m \in DOMAIN q \ {n} : p[m] = q[m]
    BY <2>1, Zenon DEF Updates
  <2>3. ASSUME NEW y \in x .. x + Len(data) - 1 PROVE Holds(p, y)
    <3>1. n \in DOMAIN p /\ p[n][1] <= y /\ y < p[n][1] + Len(p[n])
      BY <1>2, <1>3, <2>2
    <3> QED  BY <3>1 DEF Holds
  <2>4. ASSUME NEW y \in Int, Holds(q, y) PROVE Holds(p, y)
    <3>1. PICK m \in DOMAIN q : q[m][1] <= y /\ y < q[m][1] + Len(q[m])
      BY <2>4 DEF Holds
    <3>2. CASE m # n
      BY <2>2, <3>1, <3>2 DEF Holds
    <3>3. CASE m = n
      <4>1. Len(data) > Len(q[n])
        BY <1>1, <1>8, <3>1, <3>3 DEF Taken, Copy
      <4>2. y \in x .. x + Len(data) - 1
        BY <1>2, <1>3, <1>6, <2>4, <3>1, <3>3, <4>1
      <4> QED  BY <2>3, <4>2
    <3> QED  BY <3>2, <3>3
  <2>5. Covers(h, o, K) /\ Covers(h, o, K \cup (x .. x + Len(data) - 1))
    BY <1>1, <1>5, <2>3, <2>4 DEF Covers
  <2> QED  BY <1>1, <2>5
<1> QED  BY <1>7, <1>8

\* What push() makes of a segment <<x, len>> of the stream when e is the next byte: the
\* part that is new, and where it starts.
LEMMA NewPart ==
  ASSUME NEW a \in SeqNums, NEW o \in 0 .. StreamLen, NEW s \in OnStream(a, o),
         NEW x \in 0 .. StreamLen, NEW len \in 1 .. StreamLen, x + len <= StreamLen
  PROVE  \E y \in 0 .. StreamLen, rest \in Seq(Stream) :
           /\ y = (IF x < o + s.delivered THEN o + s.delivered ELSE x)
           /\ rest = Drop(Bytes(x, len), already(s, SeqAdd(a, x)))
           /\ SeqAdd(SeqAdd(a, x), already(s, SeqAdd(a, x))) = SeqAdd(a, y)
           /\ rest = << >> <=> x + len <= o + s.delivered
           /\ rest # << >> => Follows(rest, y) /\ y + Len(rest) = x + len
<1>1. PICK e \in 0 .. StreamLen : e = o + s.delivered /\ s.next_seq = SeqAdd(a, e)
  BY OnStreamFacts
<1>2. /\ x \in Nat /\ len \in Nat /\ e \in Nat /\ a \in Int /\ StreamLen \in Nat
  BY StreamFacts
<1>3. PICK k \in Nat : k = IF x < e THEN e - x ELSE 0
  <2>1. (IF x < e THEN e - x ELSE 0) \in Nat
    BY <1>2
  <2> QED  BY <2>1
<1>4. already(s, SeqAdd(a, x)) = k
  <2>1. seq_lt(SeqAdd(a, x), SeqAdd(a, e)) <=> x < e
    BY Positions
  <2>2. x <= e => SeqDiff(SeqAdd(a, e), SeqAdd(a, x)) = e - x
    BY Positions
  <2> QED  BY <1>1, <1>2, <1>3, <2>1, <2>2 DEF already
<1>5. PICK y \in 0 .. StreamLen : y = x + k
  BY <1>2, <1>3
<1>6. y = IF x < e THEN e ELSE x
  BY <1>2, <1>3, <1>5
<1>7. SeqAdd(SeqAdd(a, x), k) = SeqAdd(a, y)
  <2>1. PICK u \in Int, v \in Int, w \in Int : u = a /\ v = x /\ w = k
    BY <1>2
  <2>2. SeqAdd(SeqAdd(u, v), w) = SeqAdd(u, v + w)
    BY AddAdd
  <2> QED  BY <1>5, <2>1, <2>2
<1>8. PICK b : b = Bytes(x, len)
  OBVIOUS
<1>9. b \in Seq(Stream) /\ Len(b) = len /\ \A i \in 1 .. len : b[i] = x + i - 1
  <2>1. \A i \in 1 .. len : x + i - 1 \in Stream
    BY <1>2 DEF Stream
  <2> QED  BY <1>2, <1>8, <2>1 DEF Bytes
<1>10. PICK rest : rest = Drop(b, k)
  OBVIOUS
<1>11. /\ rest \in Seq(Stream) /\ Len(rest) = (IF k < len THEN len - k ELSE 0)
       /\ \A i \in 1 .. len - k : rest[i] = b[k + i]
       /\ rest = << >> <=> k >= len
  <2>1. /\ Drop(b, k) \in Seq(Stream)
        /\ Len(Drop(b, k)) = IF k < Len(b) THEN Len(b) - k ELSE 0
        /\ \A i \in 1 .. Len(b) - k : Drop(b, k)[i] = b[k + i]
        /\ Drop(b, k) = << >> <=> k >= Len(b)
    BY <1>9, DropPiece
  <2> QED  BY <1>9, <1>10, <2>1
<1>12. rest = << >> <=> x + len <= e
  BY <1>2, <1>3, <1>11
<1>13. ASSUME rest # << >> PROVE Follows(rest, y) /\ y + Len(rest) = x + len
  <2>1. k < len /\ Len(rest) = len - k
    BY <1>2, <1>11, <1>13
  <2>2. y + Len(rest) = x + len
    BY <1>2, <1>5, <2>1
  <2>3. ASSUME NEW i \in 1 .. Len(rest) PROVE rest[i] = y + i - 1
    <3>1. i \in 1 .. len - k /\ k + i \in 1 .. len /\ i \in Nat
      BY <1>2, <2>1
    <3>2. rest[i] = x + (k + i) - 1
      BY <1>9, <1>11, <3>1
    <3> QED  BY <1>2, <1>5, <3>1, <3>2
  <2> QED  BY <2>2, <2>3 DEF Follows
<1> QED  BY <1>1, <1>4, <1>6, <1>7, <1>8, <1>10, <1>11, <1>12, <1>13

\* push() on a reassembler that has seen its first segment.
LEMMA PushOnStream ==
  ASSUME NEW a \in SeqNums, NEW o \in 0 .. StreamLen, NEW s \in OnStream(a, o),
         NEW x \in 0 .. StreamLen, NEW len \in 1 .. StreamLen, x + len <= StreamLen,
         NEW K \in SUBSET Int, Covers(s, o, K),
         a + StreamLen <= SeqSpace => NoneDue(s, o)
  PROVE  LET t   == push(s, SeqAdd(a, x), Bytes(x, len), FALSE)
             e   == o + s.delivered
             new == {b \in x .. x + len - 1 : b >= e}
         IN /\ t \in OnStream(a, o)
            /\ Covers(t, o, IF x <= e \/ fits(s, len) THEN K \cup new ELSE K)
            /\ a + StreamLen <= SeqSpace => NoneDue(t, o)
<1>1. PICK t, e, new : /\ t = push(s, SeqAdd(a, x), Bytes(x, len), FALSE)
                       /\ e = o + s.delivered
                       /\ new = {b \in x .. x + len - 1 : b >= o + s.delivered}
  OBVIOUS
<1>2. PICK y \in 0 .. StreamLen, rest \in Seq(Stream) :
        /\ y = (IF x < e THEN e ELSE x)
        /\ rest = Drop(Bytes(x, len), already(s, SeqAdd(a, x)))
        /\ SeqAdd(SeqAdd(a, x), already(s, SeqAdd(a, x))) = SeqAdd(a, y)
        /\ rest = << >> <=> x + len <= e
        /\ rest # << >> => Follows(rest, y) /\ y + Len(rest) = x + len
  BY <1>1, NewPart
<1>3. /\ x \in Nat /\ len \in Nat /\ len >= 1 /\ StreamLen \in Nat /\ y \in Nat
      /\ e \in Nat /\ e \in 0 .. StreamLen
      /\ s \in Budgeted(Stream) /\ s \in Reassemblers(Stream) /\ Len(s.prefix) <= max_prefix
      /\ s.next_seq = SeqAdd(a, e) /\ s.delivered \in Nat
  BY <1>1, StreamFacts, OnStreamFacts
<1>4. s.initialized = TRUE
  BY DEF OnStream
<1>5. t = IF rest = << >> THEN s
          ELSE IF in_order(s, SeqAdd(a, y)) THEN drain(deliver(s, rest))
          ELSE hold(s, SeqAdd(a, y), rest)
  <2>1. anchor(s, SeqAdd(a, x), FALSE) = s
    BY <1>4, Zenon DEF anchor
  <2> QED  BY <1>1, <1>2, <2>1, Zenon DEF push
<1>6. new \subseteq Int
  BY <1>1, <1>3
<1>7. SUFFICES /\ t \in OnStream(a, o)
               /\ Covers(t, o, IF x <= e \/ fits(s, len) THEN K \cup new ELSE K)
               /\ a + StreamLen <= SeqSpace => NoneDue(t, o)
  BY <1>1, Zenon
<1>8. CASE rest = << >>
  <2>1. t = s /\ x + len <= e
    BY <1>2, <1>5, <1>8
  <2>2. new = {}
    BY <1>1, <1>3, <2>1
  <2>3. K \cup new = K
    BY <2>2
  <2>4. (IF x <= e \/ fits(s, len) THEN K \cup new ELSE K) = K
    BY <2>3
  <2> QED  BY <2>1, <2>4
<1>9. CASE rest # << >> /\ x <= e
  <2>1. y = e
    BY <1>2, <1>3, <1>9
  <2>2. in_order(s, SeqAdd(a, y))
    BY <1>3, <2>1 DEF in_order
  <2>3. t = drain(deliver(s, rest))
    BY <1>5, <1>9, <2>2
  <2>4. PICK d : d = deliver(s, rest)
    OBVIOUS
  <2>5. /\ d \in Budgeted(Stream) /\ d.initialized = s.initialized
        /\ d.next_seq = SeqAdd(s.next_seq, Len(rest)) /\ d.prefix = append(s.prefix, rest)
        /\ d.pending = s.pending /\ d.delivered = s.delivered + Len(rest)
    BY <1>3, <2>4, DeliverEffect, DeliverKeepsBudget
  <2>6. d \in OnStream(a, o)
    <3>1. InPlace(a, d.pending)
      BY <2>5 DEF OnStream
    <3>2. Follows(rest, o + s.delivered)
      BY <1>1, <1>2, <1>9, <2>1
    <3> QED  BY <2>5, <3>1, <3>2, Advances
  <2>7. Covers(d, o, K \cup new)
    <3>1. SUFFICES ASSUME NEW b \in K \cup new, b >= o + d.delivered
                   PROVE  Holds(d.pending, b)
      BY DEF Covers
    <3>2. b \in Int /\ Len(rest) \in Nat
      BY <1>6, <3>1
    <3>4. e + Len(rest) = x + len /\ e + Len(rest) = o + d.delivered
      BY <1>1, <1>2, <1>3, <1>9, <2>1, <2>5, <3>2, SMTT(30)
    <3>5. b >= o + s.delivered /\ b >= x + len
      BY <1>1, <1>3, <3>1, <3>2, <3>4
    <3>3. b \notin new
      BY <1>1, <1>3, <3>2, <3>5
    <3> QED  BY <2>5, <3>1, <3>3, <3>5 DEF Covers
  <2>8. K \cup new \in SUBSET Int
    BY <1>6
  <2>9. t \in OnStream(a, o) /\ Covers(t, o, K \cup new) /\ ~drainable(t)
    BY <2>3, <2>4, <2>6, <2>7, <2>8, DrainOnStream
  <2>10. a + StreamLen <= SeqSpace => NoneDue(t, o)
    BY <2>9, NothingDue
  <2>11. (IF x <= e \/ fits(s, len) THEN K \cup new ELSE K) = K \cup new
    BY <1>9
  <2> QED  BY <2>9, <2>10, <2>11
<1>10. CASE rest # << >> /\ ~(x <= e)
  <2>1. y = x /\ x > e
    BY <1>2, <1>3, <1>10
  <2>2. ~in_order(s, SeqAdd(a, y))
    <3>1. SeqAdd(a, y) # SeqAdd(a, e)
      BY <1>3, <2>1, Positions
    <3> QED  BY <1>3, <3>1 DEF in_order
  <2>3. t = hold(s, SeqAdd(a, x), rest)
    BY <1>5, <1>10, <2>1, <2>2
  <2>4. Follows(rest, x) /\ Len(rest) = len
    BY <1>2, <1>3, <1>10, <2>1
  <2>5. t \in OnStream(a, o) /\ (NoneDue(s, o) => NoneDue(t, o))
    BY <1>1, <1>10, <2>1, <2>3, <2>4, HoldOnStream
  <2>6. Covers(t, o, K) /\ (fits(s, len) => Covers(t, o, K \cup (x .. x + len - 1)))
    BY <1>10, <2>3, <2>4, HoldCovers
  <2>7. new \subseteq x .. x + len - 1
    BY <1>1
  <2>8. Covers(t, o, IF x <= e \/ fits(s, len) THEN K \cup new ELSE K)
    BY <1>10, <2>6, <2>7 DEF Covers
  <2> QED  BY <2>5, <2>8
<1> QED  BY <1>8, <1>9, <1>10

\* The first segment sets the origin of a fresh reassembler.
LEMMA FreshOnStream ==
  ASSUME NEW a \in SeqNums, NEW o \in 0 .. StreamLen, NEW n \in SeqNums,
         NEW syn \in BOOLEAN, (IF syn THEN SeqAdd(n, 1) ELSE n) = SeqAdd(a, o)
  PROVE  LET s == anchor(InitReassembler, n, syn)
         IN s \in OnStream(a, o) /\ s.delivered = 0 /\ s.pending = << >>
<1>1. PICK s, i : s = anchor(InitReassembler, n, syn) /\ i = InitReassembler
  OBVIOUS
<1>2. /\ i \in Budgeted(Stream) /\ ~i.initialized /\ i.prefix = << >> /\ i.pending = << >>
      /\ i.delivered = 0
  <2>1. i \in Budgeted(Stream)
    BY <1>1, FreshReassembler
  <2>2. ~i.initialized
    BY <1>1, Zenon DEF InitReassembler
  <2>3. i.prefix = << >> /\ i.pending = << >> /\ i.delivered = 0
    BY <1>1 DEF InitReassembler
  <2> QED  BY <2>1, <2>2, <2>3
<1>3. /\ s \in Budgeted(Stream) /\ s.initialized = TRUE
      /\ s.next_seq = (IF syn THEN SeqAdd(n, 1) ELSE n)
      /\ s.prefix = << >> /\ s.pending = << >> /\ s.delivered = 0
  <2>1. PICK h, x : h = anchor(i, n, syn) /\ x = IF syn THEN SeqAdd(n, 1) ELSE n
    OBVIOUS
  <2>2. i \in Budgeted(Stream)
    BY <1>2
  <2>3. h \in Budgeted(Stream)
    BY <2>1, <2>2, AnchorEffect
  <2>4. h.initialized = TRUE
    BY <2>1, <2>2, AnchorEffect, Zenon
  <2>5. h = [i EXCEPT !.initialized = TRUE, !.next_seq = x]
    BY <1>2, <2>1, Zenon DEF anchor
  <2>6. /\ h.next_seq = x /\ h.prefix = i.prefix /\ h.pending = i.pending
        /\ h.delivered = i.delivered
    BY <1>1, <2>5 DEF InitReassembler
  <2> QED  BY <1>1, <1>2, <2>1, <2>3, <2>4, <2>6, Zenon
<1>4. o + 0 = o /\ o <= StreamLen
  BY StreamFacts
<1>5. Len(<< >>) = Min({0, max_prefix})
  <2>1. max_prefix \in Nat /\ 0 \in Int /\ max_prefix \in Int /\ 0 <= max_prefix
    BY ReassemblyAssumption
  <2>2. Min({0, max_prefix}) = 0
    BY <2>1, MinOfTwo
  <2> QED  BY <2>2
<1>6. InPlace(a, << >>)
  BY DEF InPlace
<1>7. s \in OnStream(a, o)
  <2>1. o + s.delivered <= StreamLen /\ s.next_seq = SeqAdd(a, o + s.delivered)
    BY <1>3, <1>4
  <2>2. Len(s.prefix) = Min({s.delivered, max_prefix}) /\ InPlace(a, s.pending)
    BY <1>3, <1>5, <1>6
  <2>3. \A j \in 1 .. Len(s.prefix) : s.prefix[j] = o + j - 1
    BY <1>3
  <2>4. s \in Budgeted(Stream) /\ s.initialized = TRUE
    BY <1>3
  <2> QED  BY <2>1, <2>2, <2>3, <2>4, Zenon DEF OnStream
<1> QED  BY <1>1, <1>3, <1>7

\* Nothing held, nothing due and nothing missing.
LEMMA NothingHeld ==
  ASSUME NEW s, NEW o, s.pending = << >>
  PROVE  NoneDue(s, o) /\ Covers(s, o, {})
  BY DEF NoneDue, Covers

-----------------------------------------------------------------------------
(* The inductive invariant.                                                *)

\* Before the first segment nothing is known; from then on the reassembler is on the
\* stream and every accepted byte is in it.
Untouched == r = InitReassembler /\ origin = -1 /\ kept = {}
Reading ==
  /\ origin \in 0 .. StreamLen
  /\ r \in OnStream(isn, origin)
  /\ Covers(r, origin, kept)
  /\ isn + StreamLen <= SeqSpace => NoneDue(r, origin)

IInv ==
  /\ isn \in Isns /\ odd \in BOOLEAN /\ kept \in SUBSET Stream
  /\ Untouched \/ Reading

\* The invariant tells the two cases by the flag.
LEMMA Cases ==
  /\ Untouched => ~r.initialized
  /\ Reading => r.initialized = TRUE
  BY DEF Untouched, Reading, InitReassembler, OnStream

\* A fresh reassembler.
LEMMA InitIInv == Init => IInv
  BY DEF Init, IInv, Untouched

\* A data segment.
LEMMA PushIInv ==
  ASSUME IInv, NEW seg \in Segs, Push(seg[1], seg[2])
  PROVE  IInv'
<1>1. PICK x \in 0 .. StreamLen, len \in 1 .. StreamLen :
        x = seg[1] /\ len = seg[2] /\ x + len <= StreamLen
  BY StreamAssumption
<1>2. /\ r' = push(r, SeqAdd(isn, x), Bytes(x, len), FALSE)
      /\ origin' = (IF r.initialized THEN origin ELSE x)
      /\ kept' = (IF x <= (IF r.initialized THEN Expected ELSE x) \/ fits(r, len)
                  THEN kept \cup {b \in x .. x + len - 1 :
                                    b >= IF r.initialized THEN Expected ELSE x}
                  ELSE kept)
      /\ odd' = ~odd /\ isn' = isn
  BY <1>1 DEF Push, SeqAt
<1>3. isn \in Isns /\ isn \in SeqNums /\ odd \in BOOLEAN /\ kept \in SUBSET Stream
  BY StreamFacts DEF IInv
<1>4. isn' \in Isns /\ odd' \in BOOLEAN
  BY <1>2, <1>3
<1>5. kept' \in SUBSET Stream
  <2>1. x .. x + len - 1 \subseteq Stream
    BY <1>1, StreamFacts DEF Stream
  <2> QED  BY <1>2, <1>3, <2>1
<1>6. kept \in SUBSET Int
  BY <1>3 DEF Stream
<1>7. CASE Reading
  <2>1. r.initialized = TRUE
    BY <1>7, Cases
  <2>2. PICK e, new : e = origin + r.delivered /\ new = {b \in x .. x + len - 1 : b >= e}
    OBVIOUS
  <2>3. /\ origin' = origin
        /\ kept' = IF x <= e \/ fits(r, len) THEN kept \cup new ELSE kept
    BY <1>2, <2>1, <2>2, Zenon DEF Expected
  <2>4. /\ r' \in OnStream(isn, origin)
        /\ Covers(r', origin, IF x <= e \/ fits(r, len) THEN kept \cup new ELSE kept)
        /\ isn + StreamLen <= SeqSpace => NoneDue(r', origin)
    <3>1. PICK s, o, a, K : s = r /\ o = origin /\ a = isn /\ K = kept
      OBVIOUS
    <3>2. /\ o \in 0 .. StreamLen /\ a \in SeqNums /\ s \in OnStream(a, o)
          /\ K \in SUBSET Int /\ Covers(s, o, K)
          /\ a + StreamLen <= SeqSpace => NoneDue(s, o)
      BY <1>3, <1>6, <1>7, <3>1 DEF Reading
    <3>3. LET t == push(s, SeqAdd(a, x), Bytes(x, len), FALSE)
              f == o + s.delivered
              n == {b \in x .. x + len - 1 : b >= f}
          IN /\ t \in OnStream(a, o)
             /\ Covers(t, o, IF x <= f \/ fits(s, len) THEN K \cup n ELSE K)
             /\ a + StreamLen <= SeqSpace => NoneDue(t, o)
      BY <1>1, <3>2, PushOnStream
    <3> QED  BY <1>2, <2>2, <3>1, <3>3, Zenon
  <2>5. Reading'
    BY <1>2, <1>7, <2>3, <2>4 DEF Reading
  <2> QED  BY <1>4, <1>5, <2>5 DEF IInv
<1>8. CASE Untouched
  <2>1. ~r.initialized /\ kept = {} /\ r = InitReassembler
    BY <1>8, Cases DEF Untouched
  <2>2. PICK s : s = anchor(InitReassembler, SeqAdd(isn, x), FALSE)
    OBVIOUS
  <2>3. SeqAdd(isn, x) \in SeqNums
    BY <1>3, Positions
  <2>4. s \in OnStream(isn, x) /\ s.delivered = 0 /\ s.pending = << >>
    BY <1>3, <2>2, <2>3, FreshOnStream
  <2>5. NoneDue(s, x) /\ Covers(s, x, {})
    BY <2>4, NothingHeld
  <2>6. r' = push(s, SeqAdd(isn, x), Bytes(x, len), FALSE)
    <3>1. s.initialized
      BY <2>4 DEF OnStream
    <3>2. anchor(s, SeqAdd(isn, x), FALSE) = s
      BY <3>1, Zenon DEF anchor
    <3> QED  BY <1>2, <2>1, <2>2, <3>2, Zenon DEF push
  <2>7. x + s.delivered = x
    BY <2>4
  <2>8. PICK new : new = {b \in x .. x + len - 1 : b >= x + s.delivered}
    OBVIOUS
  <2>9. kept' = {} \cup new /\ origin' = x
    BY <1>2, <2>1, <2>7, <2>8
  <2>10. LET t == push(s, SeqAdd(isn, x), Bytes(x, len), FALSE)
             f == x + s.delivered
             n == {b \in x .. x + len - 1 : b >= f}
         IN /\ t \in OnStream(isn, x)
            /\ Covers(t, x, IF x <= f \/ fits(s, len) THEN {} \cup n ELSE {})
            /\ isn + StreamLen <= SeqSpace => NoneDue(t, x)
    <3>1. PICK K, a : K = {} /\ a = isn
      OBVIOUS
    <3>2. /\ K \in SUBSET Int /\ Covers(s, x, K) /\ a \in SeqNums /\ s \in OnStream(a, x)
          /\ a + StreamLen <= SeqSpace => NoneDue(s, x)
      BY <1>3, <2>4, <2>5, <3>1
    <3>3. LET t == push(s, SeqAdd(a, x), Bytes(x, len), FALSE)
              f == x + s.delivered
              n == {b \in x .. x + len - 1 : b >= f}
          IN /\ t \in OnStream(a, x)
             /\ Covers(t, x, IF x <= f \/ fits(s, len) THEN K \cup n ELSE K)
             /\ a + StreamLen <= SeqSpace => NoneDue(t, x)
      BY <1>1, <3>2, PushOnStream
    <3> QED  BY <3>1, <3>3, Zenon
  <2>11. /\ r' \in OnStream(isn, x) /\ Covers(r', x, {} \cup new)
         /\ isn + StreamLen <= SeqSpace => NoneDue(r', x)
    <3>1. PICK t : t = push(s, SeqAdd(isn, x), Bytes(x, len), FALSE)
      OBVIOUS
    <3>2. /\ t \in OnStream(isn, x)
          /\ Covers(t, x, IF x <= x + s.delivered \/ fits(s, len) THEN {} \cup new ELSE {})
          /\ isn + StreamLen <= SeqSpace => NoneDue(t, x)
      BY <2>8, <2>10, <3>1, Zenon
    <3>3. x <= x + s.delivered
      BY <2>7
    <3> QED  BY <2>6, <3>1, <3>2, <3>3, Zenon
  <2>12. Reading'
    BY <1>2, <2>9, <2>11 DEF Reading
  <2> QED  BY <1>4, <1>5, <2>12 DEF IInv
<1> QED  BY <1>7, <1>8 DEF IInv

\* A SYN without data.
LEMMA SynIInv ==
  ASSUME IInv, PushSyn(0)
  PROVE  IInv'
<1>1. /\ r' = push(r, SeqAdd(isn, -1), Bytes(0, 0), TRUE)
      /\ origin' = (IF r.initialized THEN origin ELSE 0)
      /\ kept' = (IF ~r.initialized \/ Expected <= 0 THEN kept \cup (0 .. 0 - 1) ELSE kept)
      /\ odd' = ~odd /\ isn' = isn
  BY DEF PushSyn, SeqAt
<1>2. isn \in Isns /\ isn \in SeqNums /\ odd \in BOOLEAN /\ kept \in SUBSET Stream
  BY StreamFacts DEF IInv
<1>3. kept' = kept
  <2>1. 0 .. 0 - 1 = {}
    OBVIOUS
  <2> QED  BY <1>1, <2>1
<1>4. isn' \in Isns /\ odd' \in BOOLEAN /\ kept' \in SUBSET Stream
  BY <1>1, <1>2, <1>3
<1>5. PICK n \in SeqNums : n = SeqAdd(isn, -1)
  BY <1>2, StreamFacts, SpaceType
<1>6. r' = anchor(r, n, TRUE)
  <2>1. r \in Budgeted(Stream)
    BY FreshReassembler DEF IInv, Untouched, Reading, OnStream
  <2>2. PICK s : s = anchor(r, n, TRUE)
    OBVIOUS
  <2>3. s \in Budgeted(Stream)
    BY <2>1, <2>2, AnchorEffect
  <2>4. Bytes(0, 0) \in Seq(Stream) /\ Len(Bytes(0, 0)) = 0
    BY DEF Bytes
  <2>5. already(s, n) \in Nat
    BY <2>3, <2>4, PushParts
  <2>6. Drop(Bytes(0, 0), already(s, n)) = << >>
    BY <2>4, <2>5, DropPiece
  <2> QED  BY <1>1, <1>5, <2>2, <2>6, Zenon DEF push
<1>7. CASE Reading
  <2>1. r.initialized = TRUE
    BY <1>7, Cases
  <2>2. r' = r /\ origin' = origin
    BY <1>1, <1>6, <2>1, Zenon DEF anchor
  <2>3. Reading'
    BY <1>1, <1>3, <1>7, <2>2 DEF Reading
  <2> QED  BY <1>4, <2>3 DEF IInv
<1>8. CASE Untouched
  <2>1. ~r.initialized /\ kept = {} /\ r = InitReassembler
    BY <1>8, Cases DEF Untouched
  <2>2. SeqAdd(n, 1) = SeqAdd(isn, 0) /\ 0 \in 0 .. StreamLen
    <3>1. PICK a \in Int : a = isn
      BY <1>2, StreamFacts
    <3>2. SeqAdd(SeqAdd(a, -1), 1) = SeqAdd(a, -1 + 1)
      BY AddAdd
    <3> QED  BY <1>5, <3>1, <3>2, StreamFacts
  <2>3. r' \in OnStream(isn, 0) /\ r'.pending = << >>
    BY <1>2, <1>6, <2>1, <2>2, FreshOnStream
  <2>4. NoneDue(r', 0) /\ Covers(r', 0, {})
    BY <2>3, NothingHeld
  <2>5. Reading'
    BY <1>1, <1>3, <2>1, <2>2, <2>3, <2>4 DEF Reading
  <2> QED  BY <1>4, <2>5 DEF IInv
<1> QED  BY <1>7, <1>8 DEF IInv

\* Every step keeps the invariant.
LEMMA NextIInv ==
  ASSUME SynLens = {0}
  PROVE  IInv /\ [Next]_vars => IInv'
<1>1. SUFFICES ASSUME IInv, [Next]_vars PROVE IInv'
  OBVIOUS
<1>2. CASE \E s \in Segs : Push(s[1], s[2])
  BY <1>1, <1>2, PushIInv
<1>3. CASE \E len \in SynLens : PushSyn(len)
  <2>1. PushSyn(0)
    BY <1>3
  <2> QED  BY <1>1, <2>1, SynIInv
<1>4. CASE UNCHANGED vars
  BY <1>1, <1>4 DEF vars, IInv, Untouched, Reading
<1> QED  BY <1>1, <1>2, <1>3, <1>4 DEF Next

\* When no SYN carries data, the invariant holds in every state: what push() in
\* reassembly.cpp keeps true about the bytes, in whatever order they arrive.
THEOREM Invariance ==
  ASSUME SynLens = {0}
  PROVE  Spec => []IInv
<1>1. Init => IInv
  BY InitIInv
<1>2. IInv /\ [Next]_vars => IInv'
  BY NextIInv
<1> QED  BY <1>1, <1>2, PTL DEF Spec

-----------------------------------------------------------------------------
(* What the invariant gives.                                               *)

\* The types of the reassembler's fields (reassembly.hpp).
THEOREM TypeCorrect ==
  ASSUME SynLens = {0}
  PROVE  Spec => []TypeOK
<1>1. IInv => TypeOK
  <2>1. SUFFICES ASSUME IInv PROVE TypeOK
    OBVIOUS
  <2>2. isn \in Isns /\ odd \in BOOLEAN /\ kept \subseteq 0 .. StreamLen - 1
    BY <2>1 DEF IInv, Stream
  <2>3. /\ r \in Reassemblers(Stream) /\ origin \in -1 .. StreamLen
        /\ r.delivered \in 0 .. StreamLen
    <3>1. CASE Untouched
      <4>1. InitReassembler \in Reassemblers(Stream)
        BY FreshReassembler DEF Budgeted
      <4>2. InitReassembler.delivered = 0
        BY DEF InitReassembler
      <4> QED  BY <3>1, <4>1, <4>2, StreamFacts DEF Untouched
    <3>2. CASE Reading
      <4>1. /\ origin \in 0 .. StreamLen /\ r \in Reassemblers(Stream)
            /\ r.delivered \in Nat /\ origin + r.delivered \in 0 .. StreamLen
        BY <2>2, <3>2, StreamFacts, OnStreamFacts DEF Reading
      <4> QED  BY <4>1, StreamFacts
    <3> QED  BY <2>1, <3>1, <3>2 DEF IInv
  <2>4. /\ r.initialized \in BOOLEAN /\ r.next_seq \in SeqNums
        /\ r.prefix \in Seq(0 .. StreamLen - 1) /\ r.buffered_bytes \in Nat
        /\ r.pending \in Pendings(Stream)
    BY <2>3, Fields DEF Stream
  <2>5. DOMAIN r.pending \subseteq SeqNums
    BY <2>4, PendingFacts
  <2> QED  BY <2>2, <2>3, <2>4, <2>5 DEF TypeOK
<1> QED  BY <1>1, Invariance, PTL

\* reassembly.hpp: the prefix holds "the bytes in the order the receiving application
\* would" see them, and next_seq_ is the number of the first byte that is missing.
THEOREM InOrder ==
  ASSUME SynLens = {0}
  PROVE  Spec => []StreamOrder
<1>1. IInv => StreamOrder
  <2>1. SUFFICES ASSUME IInv, r.initialized
                 PROVE  /\ r.prefix = [i \in 1 .. Len(r.prefix) |-> origin + i - 1]
                        /\ Len(r.prefix) = Min({r.delivered, max_prefix})
                        /\ r.next_seq = SeqAt(Expected)
    BY DEF StreamOrder
  <2>2. Reading
    BY <2>1, Cases DEF IInv
  <2>3. isn \in SeqNums /\ origin \in 0 .. StreamLen
    BY <2>1, <2>2, StreamFacts DEF IInv, Reading
  <2>4. /\ r.next_seq = SeqAdd(isn, origin + r.delivered)
        /\ Len(r.prefix) = Min({r.delivered, max_prefix})
        /\ \A i \in 1 .. Len(r.prefix) : r.prefix[i] = origin + i - 1
    BY <2>2 DEF Reading, OnStream
  <2>5. r.prefix \in Seq(Stream)
    BY <2>2, <2>3, OnStreamFacts DEF Reading
  <2>6. r.prefix = [i \in 1 .. Len(r.prefix) |-> origin + i - 1]
    <3>1. PICK p : p = r.prefix
      OBVIOUS
    <3>2. DOMAIN p = 1 .. Len(p) /\ p = [i \in DOMAIN p |-> p[i]]
      BY <2>5, <3>1
    <3>3. \A i \in 1 .. Len(p) : p[i] = origin + i - 1
      BY <2>4, <3>1
    <3>4. p = [i \in 1 .. Len(p) |-> origin + i - 1]
      BY <3>2, <3>3
    <3> QED  BY <3>1, <3>4
  <2> QED  BY <2>4, <2>6 DEF SeqAt, Expected
<1> QED  BY <1>1, Invariance, PTL

\* drain() in reassembly.cpp leaves nothing behind: every byte push() accepted is
\* delivered or held, and the next one in order is never among the held ones, on a stream
\* that does not cross the end of the sequence space.
THEOREM NothingStranded ==
  ASSUME SynLens = {0}
  PROVE  Spec => []NothingContiguousHeld
<1>1. IInv => NothingContiguousHeld
  <2>1. SUFFICES ASSUME IInv PROVE NothingContiguousHeld
    OBVIOUS
  <2>2. CASE Untouched
    <3>1. kept = {} /\ r.pending = << >>
      BY <2>2 DEF Untouched, InitReassembler
    <3>2. DOMAIN r.pending = {}
      BY <3>1
    <3> QED  BY <3>1, <3>2 DEF NothingContiguousHeld
  <2>3. CASE Reading
    <3>1. /\ isn \in SeqNums /\ origin \in 0 .. StreamLen /\ r \in OnStream(isn, origin)
          /\ kept \subseteq Stream
      BY <2>1, <2>3, StreamFacts DEF IInv, Reading
    <3>2. ASSUME NEW n \in DOMAIN r.pending
          PROVE  /\ Len(r.pending[n]) \in Nat /\ r.pending[n][1] \in Int
                 /\ DOMAIN r.pending[n] = 1 .. Len(r.pending[n])
                 /\ \A i \in 1 .. Len(r.pending[n]) :
                      r.pending[n][i] = r.pending[n][1] + i - 1
      <4>1. r.pending[n] \in Seq(Stream) /\ r.pending[n][1] \in 0 .. StreamLen - 1
            /\ \A i \in 1 .. Len(r.pending[n]) :
                      r.pending[n][i] = r.pending[n][1] + i - 1
        BY <3>1, HeldPiece
      <4> QED  BY <4>1, StreamFacts
    <3>3. ASSUME NEW x \in kept, x >= Expected PROVE x \in HeldBytes
      <4>1. x \in Int /\ x >= origin + r.delivered
        BY <3>1, <3>3 DEF Expected, Stream
      <4>2. PICK n \in DOMAIN r.pending :
              r.pending[n][1] <= x /\ x < r.pending[n][1] + Len(r.pending[n])
        BY <2>3, <4>1 DEF Reading, Covers, Holds
      <4>3. PICK i \in Int : i = x - r.pending[n][1] + 1
        BY <3>2, <4>1
      <4>4. i \in 1 .. Len(r.pending[n]) /\ r.pending[n][1] + i - 1 = x
        BY <3>2, <4>1, <4>2, <4>3
      <4>5. i \in DOMAIN r.pending[n] /\ r.pending[n][i] = x
        BY <3>2, <4>4
      <4>6. x \in Range(r.pending[n])
        BY <4>5 DEF Range
      <4> QED  BY <4>6 DEF HeldBytes
    <3>4. ASSUME isn + StreamLen <= SeqSpace, NEW n \in DOMAIN r.pending
          PROVE  Expected \notin Range(r.pending[n])
      <4>1. r.pending[n][1] > origin + r.delivered
        BY <2>3, <3>4 DEF Reading, NoneDue
      <4>2. SUFFICES ASSUME NEW i \in DOMAIN r.pending[n], r.pending[n][i] = Expected
                     PROVE  FALSE
        BY DEF Range
      <4>3. i \in 1 .. Len(r.pending[n]) /\ r.pending[n][i] = r.pending[n][1] + i - 1
        BY <3>2, <4>2
      <4>4. origin + r.delivered \in Int /\ r.pending[n][1] \in Int /\ Len(r.pending[n]) \in Nat
        BY <3>1, <3>2, OnStreamFacts, StreamFacts
      <4> QED  BY <4>1, <4>2, <4>3, <4>4 DEF Expected
    <3> QED  BY <3>3, <3>4 DEF NothingContiguousHeld
  <2> QED  BY <2>1, <2>2, <2>3 DEF IInv
<1> QED  BY <1>1, Invariance, PTL

\* "Memory is therefore capped per direction" (reassembly.hpp), whatever is pushed: the
\* payload of a SYN included.
THEOREM MemoryIsCapped == Spec => []Budget
<1> DEFINE Inv == isn \in Isns /\ r \in Budgeted(Int)
<1>1. Init => Inv
  BY FreshReassembler DEF Init
<1>2. Inv /\ [Next]_vars => Inv'
  <2>1. SUFFICES ASSUME Inv, [Next]_vars PROVE Inv'
    OBVIOUS
  <2>2. isn \in SeqNums /\ isn \in Int
    BY <2>1, StreamFacts
  <2>3. ASSUME NEW x \in Int, NEW len \in Nat, NEW syn \in BOOLEAN,
               NEW n \in Int, isn' = isn, r' = push(r, SeqAt(n), Bytes(x, len), syn)
        PROVE  Inv'
    <3>1. SeqAt(n) \in SeqNums
      BY <2>2, SpaceType DEF SeqAt
    <3>2. Bytes(x, len) \in Seq(Int)
      <4>1. \A i \in 1 .. len : x + i - 1 \in Int
        OBVIOUS
      <4> QED  BY <4>1 DEF Bytes
    <3>3. r' \in Budgeted(Int)
      BY <2>1, <2>3, <3>1, <3>2, PushKeepsBudget
    <3> QED  BY <2>1, <2>3, <3>3
  <2>4. ASSUME NEW s \in Segs, Push(s[1], s[2]) PROVE Inv'
    <3>1. s[1] \in Int /\ s[2] \in Nat /\ s[1] \in 0 .. StreamLen
      BY StreamAssumption
    <3> QED  BY <2>3, <2>4, <3>1 DEF Push
  <2>5. ASSUME NEW len \in SynLens, PushSyn(len) PROVE Inv'
    <3>1. len \in Nat
      BY StreamAssumption
    <3>2. r' = push(r, SeqAt(-1), Bytes(0, len), TRUE) /\ isn' = isn
      BY <2>5, Zenon DEF PushSyn
    <3>3. -1 \in Int /\ 0 \in Int /\ TRUE \in BOOLEAN
      OBVIOUS
    <3> QED  BY <2>3, <3>1, <3>2, <3>3
  <2>6. CASE UNCHANGED vars
    BY <2>1, <2>6 DEF vars
  <2> QED  BY <2>1, <2>4, <2>5, <2>6 DEF Next
<1>3. Inv => Budget
  BY DEF Budgeted, Budget, HeldLength
<1> HIDE DEF Inv
<1> QED  BY <1>1, <1>2, <1>3, PTL DEF Spec
=============================================================================
