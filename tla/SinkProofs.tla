----------------------------- MODULE SinkProofs -----------------------------
(***************************************************************************)
(* Proofs about the sink of main(), which writes every packet to the file  *)
(* and then decodes and counts it: PcapWriter, for every snap length,      *)
(* flush interval and number of packets and failures, and Analyzer with    *)
(* the Parser and the Statistics it calls, for every frame, capture        *)
(* length, window and set of ports and talkers.                            *)
(***************************************************************************)
EXTENDS PcapWriter, Analyzer, SegmentLemmas

-----------------------------------------------------------------------------
(* Units and records.                                                      *)

\* The units of a file: its header, the units of record headers, and bytes.
Units ==
  {FileHeader, CutHeader} \cup ({"header"} \X Nat \X Nat \X (0 .. snaplen) \X Nat)
    \cup ({"byte"} \X Nat \X Nat)

\* How many units of data the record that begins with unit u claims.
Claim(u) == IF u[1] = "header" THEN u[4] ELSE 0

\* A record is as long as its header says.
Records ==
  {r \in Seq(Units) : r # << >> /\ Len(r) = HeaderUnits + Claim(r[1])}

\* No unit claims more than the snap length.
LEMMA ClaimBounded ==
  ASSUME NEW u \in Units
  PROVE  Claim(u) \in 0 .. snaplen /\ (u[1] = "header" => u[4] \in 0 .. snaplen)
<1>1. snaplen \in Nat
  BY WriterAssumption
<1>2. CASE u \in {FileHeader, CutHeader}
  <2>1. u[1] \in {"file", "cut"}
    BY <1>2 DEF FileHeader, CutHeader
  <2> QED  BY <1>1, <2>1 DEF Claim
<1>3. CASE u \in {"header"} \X Nat \X Nat \X (0 .. snaplen) \X Nat
  BY <1>3 DEF Claim
<1>4. CASE u \in {"byte"} \X Nat \X Nat
  <2>1. u[1] = "byte"
    BY <1>4
  <2> QED  BY <1>1, <2>1 DEF Claim
<1> QED  BY <1>2, <1>3, <1>4 DEF Units

\* stored_len and claimed_wirelen.
LEMMA StoredLength ==
  ASSUME NEW frame \in Frames
  PROVE  stored_len(frame) \in 0 .. snaplen /\ claimed_wirelen(frame) \in Nat
<1>1. frame.caplen \in Nat /\ frame.wirelen \in Nat /\ snaplen \in Nat
  BY WriterAssumption
<1> QED  BY <1>1 DEF stored_len, claimed_wirelen

\* What write() appends is a record.
LEMMA RecordIsWhole ==
  ASSUME NEW frame \in Frames, calls \in Nat
  PROVE  record(frame) \in Records /\ Len(record(frame)) \in Nat \ {0}
<1>1. PICK n \in 0 .. snaplen, w \in Nat : n = stored_len(frame) /\ w = claimed_wirelen(frame)
  BY StoredLength
<1>2. HeaderUnits \in Nat \ {0} /\ snaplen \in Nat
  BY WriterAssumption
<1>3. PICK c \in Nat : c = calls + 1
  OBVIOUS
<1>4. \A i \in 1 .. HeaderUnits : <<"header", c, i, n, w>> \in Units
  BY <1>1, <1>2, <1>3 DEF Units
<1>5. \A i \in 1 .. n : <<"byte", c, i>> \in Units
  BY <1>1, <1>2, <1>3 DEF Units
<1>6. PICK h : h = [i \in 1 .. HeaderUnits |-> <<"header", c, i, n, w>>]
  OBVIOUS
<1>7. PICK d : d = [i \in 1 .. n |-> <<"byte", c, i>>]
  OBVIOUS
<1>8. h \in Seq(Units) /\ Len(h) = HeaderUnits /\ h[1] = <<"header", c, 1, n, w>>
  BY <1>2, <1>4, <1>6
<1>9. d \in Seq(Units) /\ Len(d) = n
  BY <1>1, <1>2, <1>5, <1>7
<1>10. PICK r : r = h \o d
  OBVIOUS
<1>11. /\ r \in Seq(Units) /\ Len(r) = HeaderUnits + n
       /\ \A i \in 1 .. Len(h) + Len(d) : r[i] = IF i <= Len(h) THEN h[i] ELSE d[i - Len(h)]
  BY <1>8, <1>9, <1>10, ConcatProperties
<1>12. r[1] = h[1]
  BY <1>1, <1>2, <1>8, <1>9, <1>11
<1>13. Claim(r[1]) = n
  BY <1>8, <1>12 DEF Claim
<1>14. r # << >> /\ Len(r) \in Nat \ {0}
  BY <1>1, <1>2, <1>11
<1>15. record(frame) = r
  BY <1>1, <1>3, <1>6, <1>7, <1>10 DEF record, record_header, record_data
<1> QED  BY <1>11, <1>13, <1>14, <1>15 DEF Records

\* A part of a sequence.
LEMMA PartOf ==
  ASSUME NEW X, NEW s \in Seq(X), NEW a \in Nat \ {0}, NEW b \in Nat,
         b <= Len(s), a <= b + 1
  PROVE  /\ SubSeq(s, a, b) \in Seq(X) /\ Len(SubSeq(s, a, b)) = b - a + 1
         /\ \A i \in 1 .. b - a + 1 : SubSeq(s, a, b)[i] = s[a + i - 1]
<1>1. \A i \in a .. b : s[i] \in X
  OBVIOUS
<1>2. /\ SubSeq(s, a, b) \in Seq(X)
      /\ Len(SubSeq(s, a, b)) = IF a <= b THEN b - a + 1 ELSE 0
      /\ \A i \in 1 .. b - a + 1 : SubSeq(s, a, b)[i] = s[a + i - 1]
  BY <1>1, SubSeqProperties
<1> QED  BY <1>2

\* The first k elements of a sequence.
LEMMA FrontOf ==
  ASSUME NEW X, NEW s \in Seq(X), NEW k \in Nat, k <= Len(s)
  PROVE  /\ SubSeq(s, 1, k) \in Seq(X) /\ Len(SubSeq(s, 1, k)) = k
         /\ \A i \in 1 .. k : SubSeq(s, 1, k)[i] = s[i]
<1>1. 1 \in Nat \ {0} /\ 1 <= k + 1 /\ k - 1 + 1 = k
  OBVIOUS
<1>2. /\ SubSeq(s, 1, k) \in Seq(X) /\ Len(SubSeq(s, 1, k)) = k - 1 + 1
      /\ \A i \in 1 .. k - 1 + 1 : SubSeq(s, 1, k)[i] = s[1 + i - 1]
  BY <1>1, PartOf
<1>3. \A i \in 1 .. k : i \in 1 .. k - 1 + 1 /\ 1 + i - 1 = i
  OBVIOUS
<1> QED  BY <1>1, <1>2, <1>3

\* The first elements of the first elements.
LEMMA FrontOfFront ==
  ASSUME NEW X, NEW s \in Seq(X), NEW t \in Seq(X), Len(s) <= Len(t),
         s = SubSeq(t, 1, Len(s)), NEW m \in 0 .. Len(s)
  PROVE  SubSeq(s, 1, m) = SubSeq(t, 1, m)
<1>1. m \in Nat /\ m <= Len(s) /\ m <= Len(t) /\ Len(s) \in Nat
  OBVIOUS
<1>2. \A i \in 1 .. Len(s) : s[i] = t[i]
  BY <1>1, FrontOf
<1>3. PICK p : p = SubSeq(s, 1, m)
  OBVIOUS
<1>4. PICK q : q = SubSeq(t, 1, m)
  OBVIOUS
<1>5. p \in Seq(X) /\ Len(p) = m /\ \A i \in 1 .. m : p[i] = s[i]
  BY <1>1, <1>3, FrontOf
<1>6. q \in Seq(X) /\ Len(q) = m /\ \A i \in 1 .. m : q[i] = t[i]
  BY <1>1, <1>4, FrontOf
<1>7. \A i \in 1 .. m : p[i] = q[i]
  BY <1>2, <1>5, <1>6
<1> QED  BY <1>3, <1>4, <1>5, <1>6, <1>7, SeqEqual

\* The first elements stay when others are appended.
LEMMA FrontOfConcat ==
  ASSUME NEW X, NEW s \in Seq(X), NEW r \in Seq(X), NEW m \in 0 .. Len(s)
  PROVE  /\ s \o r \in Seq(X) /\ Len(s \o r) = Len(s) + Len(r)
         /\ SubSeq(s \o r, 1, m) = SubSeq(s, 1, m)
<1>1. PICK t : t = s \o r
  OBVIOUS
<1>2. /\ t \in Seq(X) /\ Len(t) = Len(s) + Len(r)
      /\ \A i \in 1 .. Len(s) + Len(r) : t[i] = IF i <= Len(s) THEN s[i] ELSE r[i - Len(s)]
  BY <1>1, ConcatProperties
<1>3. m \in Nat /\ m <= Len(s) /\ m <= Len(t) /\ \A i \in 1 .. m : t[i] = s[i]
  BY <1>2
<1>4. PICK p : p = SubSeq(s, 1, m)
  OBVIOUS
<1>5. PICK q : q = SubSeq(t, 1, m)
  OBVIOUS
<1>6. p \in Seq(X) /\ Len(p) = m /\ \A i \in 1 .. m : p[i] = s[i]
  BY <1>3, <1>4, FrontOf
<1>7. q \in Seq(X) /\ Len(q) = m /\ \A i \in 1 .. m : q[i] = t[i]
  BY <1>2, <1>3, <1>5, FrontOf
<1>8. \A i \in 1 .. m : q[i] = p[i]
  BY <1>3, <1>6, <1>7
<1>9. q = p
  BY <1>6, <1>7, <1>8, SeqEqual
<1> QED  BY <1>1, <1>2, <1>4, <1>5, <1>9

\* A sequence begins with the ones it was put together from, and with its parts.
LEMMA ConcatPrefix ==
  ASSUME NEW X, NEW s \in Seq(X), NEW t \in Seq(X)
  PROVE  IsPrefix(s, s \o t)
<1>1. PICK w : w = s \o t
  OBVIOUS
<1>2. /\ w \in Seq(X) /\ Len(w) = Len(s) + Len(t)
      /\ \A i \in 1 .. Len(s) + Len(t) : w[i] = IF i <= Len(s) THEN s[i] ELSE t[i - Len(s)]
  BY <1>1, ConcatProperties
<1>3. PICK v : v = SubSeq(w, 1, Len(s))
  OBVIOUS
<1>4. Len(s) \in Nat /\ Len(s) <= Len(w)
  BY <1>2
<1>5. v \in Seq(X) /\ Len(v) = Len(s) /\ \A i \in 1 .. Len(s) : v[i] = w[i]
  BY <1>2, <1>3, <1>4, FrontOf
<1>6. \A i \in 1 .. Len(s) : v[i] = s[i]
  BY <1>2, <1>5
<1>7. v = s
  BY <1>5, <1>6, SeqEqual
<1>8. SubSeq(s, 1, Len(s)) = s
  BY SubSeqFull
<1> QED  BY <1>1, <1>3, <1>4, <1>7, <1>8 DEF IsPrefix

\* The first k elements of a sequence are a prefix of it.
LEMMA FrontPrefix ==
  ASSUME NEW X, NEW s \in Seq(X), NEW k \in Nat, k <= Len(s)
  PROVE  IsPrefix(SubSeq(s, 1, k), s)
<1>1. PICK p : p = SubSeq(s, 1, k)
  OBVIOUS
<1>2. p \in Seq(X) /\ Len(p) = k
  BY <1>1, FrontOf
<1>3. SubSeq(p, 1, Len(p)) = p
  BY <1>2, SubSeqFull
<1> QED  BY <1>1, <1>2, <1>3 DEF IsPrefix

-----------------------------------------------------------------------------
(* The reader.                                                             *)

\* Where the record that begins at unit i of u should end, and f as the records that a
\* reader finds from each of the units k and later on.
End(u, i) == i + HeaderUnits + Claim(u[i])
ReadsFrom(f, u, k) ==
  f = [i \in k .. Len(u) + 1 |->
         IF i > Len(u) \/ End(u, i) > Len(u) + 1 THEN << >>
         ELSE <<SubSeq(u, i, End(u, i) - 1)>> \o f[End(u, i)]]

\* The reader moves forward.
LEMMA EndForward ==
  ASSUME NEW u \in Seq(Units), NEW i \in 1 .. Len(u)
  PROVE  End(u, i) \in Nat /\ End(u, i) > i
<1>1. u[i] \in Units /\ Len(u) \in Nat
  OBVIOUS
<1>2. Claim(u[i]) \in Nat
  BY <1>1, ClaimBounded, WriterAssumption
<1> QED  BY <1>1, <1>2, WriterAssumption DEF End

\* There is such a function, however early the reader begins.
LEMMA ReaderExists ==
  ASSUME NEW u \in Seq(Units), NEW k \in 1 .. Len(u) + 1
  PROVE  \E f : ReadsFrom(f, u, k)
<1>1. PICK n \in Nat : n = Len(u) + 1 /\ n > 0
  OBVIOUS
<1>2. PICK S \in SUBSET Nat :
        \A m \in Nat : m \in S <=> m < n /\ ~\E f : ReadsFrom(f, u, n - m)
  <2>1. {m \in Nat : m < n /\ ~\E f : ReadsFrom(f, u, n - m)} \in SUBSET Nat
    OBVIOUS
  <2> QED  BY <2>1, Zenon
<1>3. S = {}
  <2>1. SUFFICES ASSUME S # {} PROVE FALSE
    OBVIOUS
  <2>2. PICK m \in Nat : m \in S /\ \A y \in Nat : y < m => y \notin S
    BY <2>1, LeastElement
  <2>3. m < n /\ ~\E f : ReadsFrom(f, u, n - m)
    BY <1>2, <2>2, Zenon
  <2>4. PICK c \in 1 .. n : c = n - m
    BY <2>3
  <2>5. CASE m = 0
    <3>1. PICK f : f = [i \in n .. n |-> << >>]
      OBVIOUS
    <3>2. \A i \in n .. n : i > Len(u)
      BY <1>1
    <3>3. ReadsFrom(f, u, n)
      BY <1>1, <3>1, <3>2 DEF ReadsFrom
    <3> QED  BY <2>3, <2>5, <3>3
  <2>6. CASE m # 0
    <3>1. m - 1 \in Nat /\ m - 1 < m /\ m - 1 < n /\ n - (m - 1) = c + 1 /\ c <= Len(u)
      BY <1>1, <2>3, <2>4, <2>6
    <3>2. PICK f : ReadsFrom(f, u, c + 1)
      <4>1. m - 1 \notin S
        BY <2>2, <3>1
      <4> QED  BY <1>2, <3>1, <4>1
    <3>3. PICK g : g = [i \in c .. n |->
                          IF i = c
                            THEN IF End(u, c) > n THEN << >>
                                 ELSE <<SubSeq(u, c, End(u, c) - 1)>> \o f[End(u, c)]
                            ELSE f[i]]
      OBVIOUS
    <3>4. \A i \in c + 1 .. n : f[i] = IF i > Len(u) \/ End(u, i) > n THEN << >>
                                       ELSE <<SubSeq(u, i, End(u, i) - 1)>> \o f[End(u, i)]
      BY <1>1, <3>2 DEF ReadsFrom
    <3>5. \A i \in 1 .. Len(u) : End(u, i) \in Nat /\ End(u, i) > i
      BY EndForward
    <3>6. ASSUME NEW i \in c .. n
          PROVE  g[i] = IF i > Len(u) \/ End(u, i) > n THEN << >>
                        ELSE <<SubSeq(u, i, End(u, i) - 1)>> \o g[End(u, i)]
      <4>1. ASSUME i <= Len(u), End(u, i) <= n PROVE g[End(u, i)] = f[End(u, i)]
        <5>1. End(u, i) \in c .. n /\ End(u, i) # c
          BY <1>1, <2>4, <3>5, <4>1
        <5> QED  BY <3>3, <5>1
      <4>2. i \in Int /\ n \in Int /\ (i <= Len(u) => End(u, i) \in Int)
        BY <1>1, <2>4, <3>5
      <4>3. CASE i = c
        <5>1. i <= Len(u) /\ ~(i > Len(u))
          BY <1>1, <2>4, <3>1, <4>3
        <5>2. g[i] = IF End(u, i) > n THEN << >>
                     ELSE <<SubSeq(u, i, End(u, i) - 1)>> \o f[End(u, i)]
          BY <3>3, <4>3
        <5> QED  BY <4>1, <4>2, <5>1, <5>2
      <4>4. CASE i # c
        <5>1. i \in c + 1 .. n
          BY <1>1, <2>4, <4>4
        <5>2. g[i] = f[i]
          BY <3>3, <4>4
        <5> QED  BY <1>1, <3>4, <4>1, <4>2, <5>1, <5>2
      <4> QED  BY <4>3, <4>4
    <3>7. ReadsFrom(g, u, c)
      <4>1. g = [i \in c .. n |-> g[i]]
        BY <3>3
      <4> QED  BY <1>1, <3>6, <4>1 DEF ReadsFrom
    <3> QED  BY <2>3, <2>4, <3>7
  <2> QED  BY <2>5, <2>6
<1>4. PICK m \in Nat : m < n /\ n - m = k
  <2>1. n - k \in Nat /\ n - k < n /\ n - (n - k) = k
    BY <1>1
  <2> QED  BY <2>1
<1> QED  BY <1>2, <1>3, <1>4

\* records_from is that function.
LEMMA ReaderReads ==
  ASSUME NEW u \in Seq(Units)
  PROVE  ReadsFrom(records_from(u), u, 1)
<1>1. PICK h : h = CHOOSE f : ReadsFrom(f, u, 1)
  OBVIOUS
<1>2. ReadsFrom(h, u, 1)
  <2>1. 1 \in 1 .. Len(u) + 1
    OBVIOUS
  <2> QED  BY <1>1, <2>1, ReaderExists, Zenon
<1>3. records_from(u) = h
  BY <1>1 DEF records_from, ReadsFrom, End, Claim
<1> QED  BY <1>2, <1>3

\* In an empty file there is nothing to read.
LEMMA ReadNothing ==
  ASSUME NEW s
  PROVE  read(SubSeq(s, 1, 0)) = << >> /\ read(<< >>) = << >>
<1>1. SubSeq(s, 1, 0) = << >>
  BY SubSeqEmpty
<1>2. Len(<< >>) = 0
  OBVIOUS
<1> QED  BY <1>1, <1>2 DEF read

\* What a reader finds is a sequence of records.
LEMMA ReaderType ==
  ASSUME NEW u \in Seq(Units), NEW f, ReadsFrom(f, u, 1)
  PROVE  \A i \in 1 .. Len(u) + 1 : f[i] \in Seq(Seq(Units))
<1>1. PICK n \in Nat : n = Len(u) + 1
  OBVIOUS
<1>2. PICK S \in SUBSET Nat :
        \A m \in Nat : m \in S <=> m < n /\ f[n - m] \notin Seq(Seq(Units))
  <2>1. {m \in Nat : m < n /\ f[n - m] \notin Seq(Seq(Units))} \in SUBSET Nat
    OBVIOUS
  <2> QED  BY <2>1, Zenon
<1>3. S = {}
  <2>1. SUFFICES ASSUME S # {} PROVE FALSE
    OBVIOUS
  <2>2. PICK m \in Nat : m \in S /\ \A y \in Nat : y < m => y \notin S
    BY <2>1, LeastElement
  <2>3. PICK c \in 1 .. n : c = n - m /\ f[c] \notin Seq(Seq(Units))
    <3>1. m < n /\ f[n - m] \notin Seq(Seq(Units))
      BY <1>2, <2>2, Zenon
    <3>2. n - m \in 1 .. n
      BY <3>1
    <3> QED  BY <3>1, <3>2
  <2>4. f[c] = IF c > Len(u) \/ End(u, c) > n THEN << >>
               ELSE <<SubSeq(u, c, End(u, c) - 1)>> \o f[End(u, c)]
    BY <1>1 DEF ReadsFrom
  <2>5. ~(c > Len(u) \/ End(u, c) > n)
    BY <2>3, <2>4
  <2>6. c <= Len(u) /\ End(u, c) <= n /\ End(u, c) \in Nat /\ End(u, c) > c
    <3>1. c \in 1 .. Len(u)
      BY <1>1, <2>5
    <3> QED  BY <1>1, <2>5, <3>1, EndForward
  <2>7. PICK e \in Nat : e = End(u, c)
    BY <2>6
  <2>8. f[e] \in Seq(Seq(Units))
    <3>1. PICK y \in Nat : y = n - e
      BY <2>6, <2>7
    <3>2. y < m /\ y < n /\ n - y = e
      BY <2>3, <2>6, <2>7, <3>1
    <3>3. y \notin S
      BY <2>2, <3>2
    <3> QED  BY <1>2, <3>2, <3>3
  <2>9. PICK r \in Seq(Units) : r = SubSeq(u, c, e - 1)
    <3>1. e - 1 \in Nat /\ e - 1 <= Len(u) /\ c <= e - 1 + 1 /\ c \in Nat \ {0}
      BY <1>1, <2>6, <2>7
    <3> QED  BY <3>1, PartOf
  <2>10. PICK t \in Seq(Seq(Units)) : t = f[e]
    BY <2>8
  <2>11. <<r>> \o t \in Seq(Seq(Units))
    OBVIOUS
  <2>12. f[c] = <<r>> \o t
    BY <2>4, <2>5, <2>7, <2>9, <2>10, Zenon
  <2> QED  BY <2>3, <2>11, <2>12
<1>4. SUFFICES ASSUME NEW i \in 1 .. n PROVE f[i] \in Seq(Seq(Units))
  BY <1>1
<1>5. PICK m \in Nat : m < n /\ n - m = i
  <2>1. n - i \in Nat /\ n - i < n /\ n - (n - i) = i
    OBVIOUS
  <2> QED  BY <2>1
<1> QED  BY <1>2, <1>3, <1>5

\* What is read back is a sequence.
LEMMA ReadType ==
  ASSUME NEW u \in Seq(Units)
  PROVE  read(u) \in Seq(Seq(Units)) /\ Len(read(u)) \in Nat
<1>1. CASE Len(u) = 0
  <2>1. read(u) = << >>
    BY <1>1 DEF read
  <2> QED  BY <2>1
<1>2. CASE Len(u) # 0
  <2>1. PICK f : f = records_from(u)
    OBVIOUS
  <2>2. ReadsFrom(f, u, 1)
    BY <2>1, ReaderReads
  <2>3. 2 \in 1 .. Len(u) + 1
    BY <1>2
  <2>4. f[2] \in Seq(Seq(Units))
    BY <2>2, <2>3, ReaderType
  <2>5. read(u) = f[2]
    BY <1>2, <2>1 DEF read
  <2> QED  BY <2>4, <2>5
<1> QED  BY <1>1, <1>2

-----------------------------------------------------------------------------
(* A stream that holds records one after the other.                        *)

\* The records recs follow the file header of the stream s, the k-th from pos[k] on.
Laid(s, recs, pos) ==
  /\ pos \in [1 .. Len(recs) + 1 -> Nat] /\ pos[1] = 2
  /\ pos[Len(recs) + 1] <= Len(s) + 1
  /\ \A j, k \in 1 .. Len(recs) + 1 : j <= k => pos[j] <= pos[k]
  /\ \A k \in 1 .. Len(recs) :
       /\ pos[k + 1] = pos[k] + Len(recs[k])
       /\ \A j \in 1 .. Len(recs[k]) : s[pos[k] + j - 1] = recs[k][j]

\* The facts about one record.
LEMMA LaidRecord ==
  ASSUME NEW recs \in Seq(Records), NEW k \in 1 .. Len(recs)
  PROVE  /\ recs[k] \in Seq(Units) /\ Len(recs[k]) \in Nat \ {0}
         /\ Len(recs[k]) = HeaderUnits + Claim(recs[k][1])
<1>1. recs[k] \in Records
  OBVIOUS
<1>2. recs[k] \in Seq(Units) /\ recs[k] # << >> /\ Len(recs[k]) = HeaderUnits + Claim(recs[k][1])
  BY <1>1 DEF Records
<1> QED  BY <1>2

\* A reader that begins at a record finds it and goes on behind it.
LEMMA RecordRead ==
  ASSUME NEW u \in Seq(Units), NEW recs \in Seq(Records), NEW pos, Laid(u, recs, pos),
         NEW f, ReadsFrom(f, u, 1), NEW k \in 1 .. Len(recs)
  PROVE  f[pos[k]] = <<recs[k]>> \o f[pos[k + 1]]
<1>1. PICK r \in Seq(Units), n \in Nat \ {0} :
        r = recs[k] /\ n = Len(r) /\ n = HeaderUnits + Claim(r[1])
  BY LaidRecord
<1>2. /\ k \in 1 .. Len(recs) + 1 /\ k + 1 \in 1 .. Len(recs) + 1
      /\ Len(recs) + 1 \in 1 .. Len(recs) + 1
      /\ 1 <= k /\ k + 1 <= Len(recs) + 1 /\ 1 \in 1 .. Len(recs) + 1
  OBVIOUS
<1>3. PICK a \in Nat, b \in Nat : a = pos[k] /\ b = pos[k + 1]
  BY <1>2 DEF Laid
<1>4. /\ 2 <= a /\ b <= Len(u) + 1 /\ b = a + n
      /\ \A j \in 1 .. n : u[a + j - 1] = r[j]
  <2>1. pos[1] = 2 /\ pos[1] <= a /\ b <= pos[Len(recs) + 1] /\ pos[Len(recs) + 1] <= Len(u) + 1
        /\ pos[Len(recs) + 1] \in Nat
    BY <1>2, <1>3 DEF Laid
  <2>2. b = a + n /\ \A j \in 1 .. n : u[a + j - 1] = r[j]
    BY <1>1, <1>3 DEF Laid
  <2> QED  BY <2>1, <2>2
<1>5. /\ a \in 1 .. Len(u) /\ a \in 1 .. Len(u) + 1
      /\ b - 1 \in Nat /\ b - 1 <= Len(u) /\ a <= b - 1 + 1
      /\ a + 1 - 1 = a /\ b - 1 - a + 1 = n /\ 1 \in 1 .. n
  BY <1>4
<1>6. u[a] = r[1]
  BY <1>4, <1>5
<1>7. End(u, a) = b
  <2>1. Claim(r[1]) \in Nat
    <3>1. 1 \in 1 .. Len(r)
      BY <1>1, <1>5
    <3>2. r[1] \in Units
      BY <3>1, ElementOfSeq
    <3>3. Claim(r[1]) \in 0 .. snaplen
      BY <3>2, ClaimBounded
    <3> QED  BY <3>3, WriterAssumption
  <2> QED  BY <1>1, <1>4, <1>6, <2>1, WriterAssumption DEF End
<1>8. SubSeq(u, a, b - 1) = r
  <2>1. PICK t : t = SubSeq(u, a, b - 1)
    OBVIOUS
  <2>2. t \in Seq(Units) /\ Len(t) = n /\ \A i \in 1 .. n : t[i] = u[a + i - 1]
    <3>1. a \in Nat \ {0}
      BY <1>4
    <3> QED  BY <1>5, <2>1, <3>1, PartOf
  <2>3. Len(t) = Len(r) /\ \A i \in 1 .. Len(t) : t[i] = r[i]
    BY <1>1, <1>4, <2>2
  <2>4. t = r
    BY <2>2, <2>3, SeqEqual
  <2> QED  BY <2>1, <2>4
<1>9. f[a] = IF a > Len(u) \/ End(u, a) > Len(u) + 1 THEN << >>
             ELSE <<SubSeq(u, a, End(u, a) - 1)>> \o f[End(u, a)]
  BY <1>5 DEF ReadsFrom
<1>10. ~(a > Len(u)) /\ ~(b > Len(u) + 1)
  BY <1>4, <1>5
<1> QED  BY <1>1, <1>3, <1>7, <1>8, <1>9, <1>10

\* The next element of a sequence moved from the rest to the part in front.
LEMMA MoveOne ==
  ASSUME NEW X, NEW s \in Seq(X), NEW t \in Seq(X), NEW k \in Nat, k < Len(s)
  PROVE  SubSeq(s, 1, k) \o (<<s[k + 1]>> \o t) = SubSeq(s, 1, k + 1) \o t
<1>1. PICK x \in X : x = s[k + 1]
  OBVIOUS
<1>2. PICK p : p = SubSeq(s, 1, k)
  OBVIOUS
<1>3. PICK q : q = SubSeq(s, 1, k + 1)
  OBVIOUS
<1>4. PICK e : e = <<x>>
  OBVIOUS
<1>5. e \in Seq(X) /\ Len(e) = 1 /\ e[1] = x
  BY <1>4
<1>6. p \in Seq(X) /\ Len(p) = k /\ \A i \in 1 .. k : p[i] = s[i]
  BY <1>2, FrontOf
<1>7. q \in Seq(X) /\ Len(q) = k + 1 /\ \A i \in 1 .. k + 1 : q[i] = s[i]
  <2>1. k + 1 \in Nat /\ k + 1 <= Len(s)
    OBVIOUS
  <2> QED  BY <1>3, <2>1, FrontOf
<1>8. p \o e = q
  <2>1. PICK w : w = p \o e
    OBVIOUS
  <2>2. /\ w \in Seq(X) /\ Len(w) = Len(p) + Len(e)
        /\ \A i \in 1 .. Len(p) + Len(e) : w[i] = IF i <= Len(p) THEN p[i] ELSE e[i - Len(p)]
    BY <1>5, <1>6, <2>1, ConcatProperties
  <2>3. Len(w) = k + 1 /\ \A i \in 1 .. k + 1 : w[i] = q[i]
    <3>1. Len(w) = k + 1 /\ \A i \in 1 .. k + 1 : w[i] = IF i <= k THEN p[i] ELSE e[i - k]
      BY <1>5, <1>6, <2>2
    <3>2. \A i \in 1 .. k : w[i] = q[i]
      BY <1>6, <1>7, <3>1
    <3>3. w[k + 1] = q[k + 1]
      <4>1. k + 1 \in 1 .. k + 1 /\ ~(k + 1 <= k) /\ k + 1 - k = 1
        OBVIOUS
      <4> QED  BY <1>1, <1>5, <1>7, <3>1, <4>1
    <3> QED  BY <3>1, <3>2, <3>3
  <2>4. w = q
    BY <1>7, <2>2, <2>3, SeqEqual
  <2> QED  BY <2>1, <2>4
<1>9. (p \o e) \o t = p \o (e \o t)
  <2>1. p \in Seq(X) /\ e \in Seq(X)
    BY <1>5, <1>6
  <2> QED  BY <2>1, ConcatAssociative
<1> QED  BY <1>1, <1>2, <1>3, <1>4, <1>8, <1>9

\* The same for sequences of records.
LEMMA MoveRecord ==
  ASSUME NEW z \in Seq(Seq(Units)), NEW t \in Seq(Seq(Units)), NEW j \in Nat, j < Len(z)
  PROVE  SubSeq(z, 1, j) \o (<<z[j + 1]>> \o t) = SubSeq(z, 1, j + 1) \o t
<1>1. PICK X : X = Seq(Units)
  OBVIOUS
<1>2. z \in Seq(X) /\ t \in Seq(X)
  BY <1>1, Zenon
<1> QED  BY <1>2, MoveOne, Zenon

\* A reader finds the records that lie in a stream, whatever follows them.
LEMMA LaidReads ==
  ASSUME NEW u \in Seq(Units), NEW recs \in Seq(Records), NEW pos, Laid(u, recs, pos),
         NEW f, ReadsFrom(f, u, 1)
  PROVE  /\ f[2] = recs \o f[pos[Len(recs) + 1]]
         /\ f[pos[Len(recs) + 1]] \in Seq(Seq(Units)) /\ recs \in Seq(Seq(Units))
<1>1. PICK n \in Nat : n = Len(recs)
  OBVIOUS
<1>2. recs \in Seq(Seq(Units))
  BY DEF Records
<1>3. ASSUME NEW k \in 1 .. n + 1 PROVE pos[k] \in 1 .. Len(u) + 1 /\ f[pos[k]] \in Seq(Seq(Units))
  <2>1. pos[k] \in 1 .. Len(u) + 1
    <3>1. /\ 1 \in 1 .. n + 1 /\ n + 1 \in 1 .. n + 1 /\ 1 <= k /\ k <= n + 1
      OBVIOUS
    <3>2. pos[1] = 2 /\ pos[1] <= pos[k] /\ pos[k] <= pos[n + 1] /\ pos[n + 1] <= Len(u) + 1
          /\ pos[k] \in Nat /\ pos[n + 1] \in Nat
      BY <1>1, <3>1 DEF Laid
    <3> QED  BY <3>2
  <2> QED  BY <2>1, ReaderType
<1>4. PICK S \in SUBSET Nat :
        \A k \in Nat : k \in S <=> k <= n /\ f[2] # SubSeq(recs, 1, k) \o f[pos[k + 1]]
  <2>1. {k \in Nat : k <= n /\ f[2] # SubSeq(recs, 1, k) \o f[pos[k + 1]]} \in SUBSET Nat
    OBVIOUS
  <2> QED  BY <2>1, Zenon
<1>5. S = {}
  <2>1. SUFFICES ASSUME S # {} PROVE FALSE
    OBVIOUS
  <2>2. PICK k \in Nat : k \in S /\ \A y \in Nat : y < k => y \notin S
    BY <2>1, LeastElement
  <2>3. k <= n /\ f[2] # SubSeq(recs, 1, k) \o f[pos[k + 1]]
    BY <1>4, <2>2, Zenon
  <2>4. CASE k = 0
    <3>1. SubSeq(recs, 1, 0) = << >>
      BY SubSeqEmpty
    <3>2. pos[1] = 2 /\ 1 \in 1 .. n + 1
      BY DEF Laid
    <3>3. f[2] \in Seq(Seq(Units))
      BY <1>3, <3>2
    <3>4. << >> \o f[2] = f[2]
      BY <3>3, ConcatEmptySeq
    <3>5. k + 1 = 1
      BY <2>4
    <3> QED  BY <2>3, <2>4, <3>1, <3>2, <3>4, <3>5
  <2>5. CASE k # 0
    <3>1. PICK j \in Nat : j = k - 1
      BY <2>5
    <3>2. j < k /\ j <= n /\ j + 1 = k /\ j + 1 + 1 = k + 1 /\ j < Len(recs) /\ k \in 1 .. Len(recs)
          /\ k + 1 \in 1 .. n + 1
      BY <1>1, <2>3, <2>5, <3>1
    <3>3. f[2] = SubSeq(recs, 1, j) \o f[pos[k]]
      <4>1. j \notin S
        BY <2>2, <3>2
      <4> QED  BY <1>4, <3>2, <4>1
    <3>4. f[pos[k]] = <<recs[k]>> \o f[pos[k + 1]]
      BY <3>2, RecordRead
    <3>5. PICK t \in Seq(Seq(Units)) : t = f[pos[k + 1]]
      BY <1>3, <3>2
    <3>6. SubSeq(recs, 1, j) \o (<<recs[j + 1]>> \o t) = SubSeq(recs, 1, j + 1) \o t
      <4>1. PICK z \in Seq(Seq(Units)) : z = recs
        BY <1>2
      <4>2. j < Len(z)
        BY <3>2, <4>1
      <4>3. SubSeq(z, 1, j) \o (<<z[j + 1]>> \o t) = SubSeq(z, 1, j + 1) \o t
        BY <4>2, MoveRecord
      <4> QED  BY <4>1, <4>3
    <3> QED  BY <2>3, <3>2, <3>3, <3>4, <3>5, <3>6
  <2> QED  BY <2>4, <2>5
<1>6. f[2] = SubSeq(recs, 1, n) \o f[pos[n + 1]]
  <2>1. n \notin S /\ n <= n
    BY <1>5
  <2> QED  BY <1>4, <2>1, Zenon
<1>7. SubSeq(recs, 1, n) = recs
  BY <1>1, SubSeqFull
<1>8. n + 1 \in 1 .. n + 1
  OBVIOUS
<1> QED  BY <1>1, <1>2, <1>3, <1>6, <1>7, <1>8

\* What a reader finds begins with the records that lie in the stream.
LEMMA LaidPrefix ==
  ASSUME NEW u \in Seq(Units), NEW recs \in Seq(Records), NEW pos, Laid(u, recs, pos)
  PROVE  IsPrefix(recs, read(u))
<1>1. PICK f : f = records_from(u)
  OBVIOUS
<1>2. ReadsFrom(f, u, 1)
  BY <1>1, ReaderReads
<1>3. PICK t \in Seq(Seq(Units)) : f[2] = recs \o t /\ recs \in Seq(Seq(Units))
  <2>1. /\ f[2] = recs \o f[pos[Len(recs) + 1]]
        /\ f[pos[Len(recs) + 1]] \in Seq(Seq(Units)) /\ recs \in Seq(Seq(Units))
    BY <1>2, LaidReads
  <2> QED  BY <2>1, Zenon
<1>4. Len(u) # 0
  <2>1. 1 \in 1 .. Len(recs) + 1 /\ Len(recs) + 1 \in 1 .. Len(recs) + 1 /\ 1 <= Len(recs) + 1
    OBVIOUS
  <2>2. 2 <= pos[Len(recs) + 1] /\ pos[Len(recs) + 1] <= Len(u) + 1 /\ pos[Len(recs) + 1] \in Nat
    BY <2>1 DEF Laid
  <2> QED  BY <2>2
<1>5. read(u) = f[2]
  BY <1>1, <1>4 DEF read
<1> QED  BY <1>3, <1>5, ConcatPrefix

\* The records that lie in the first m units of a stream.
LEMMA LaidPart ==
  ASSUME NEW s \in Seq(Units), NEW recs \in Seq(Records), NEW pos, Laid(s, recs, pos),
         NEW k \in 0 .. Len(recs), NEW m \in 0 .. Len(s), pos[k + 1] <= m + 1
  PROVE  /\ SubSeq(s, 1, m) \in Seq(Units) /\ SubSeq(recs, 1, k) \in Seq(Records)
         /\ Len(SubSeq(s, 1, m)) = m /\ Len(SubSeq(recs, 1, k)) = k
         /\ Laid(SubSeq(s, 1, m), SubSeq(recs, 1, k), [i \in 1 .. k + 1 |-> pos[i]])
<1>1. PICK u : u = SubSeq(s, 1, m)
  OBVIOUS
<1>2. PICK p : p = SubSeq(recs, 1, k)
  OBVIOUS
<1>3. PICK q : q = [i \in 1 .. k + 1 |-> pos[i]]
  OBVIOUS
<1>4. u \in Seq(Units) /\ Len(u) = m /\ \A i \in 1 .. m : u[i] = s[i]
  <2>1. m \in Nat /\ m <= Len(s)
    OBVIOUS
  <2> QED  BY <1>1, <2>1, FrontOf
<1>5. p \in Seq(Records) /\ Len(p) = k /\ \A i \in 1 .. k : p[i] = recs[i]
  <2>1. k \in Nat /\ k <= Len(recs)
    OBVIOUS
  <2> QED  BY <1>2, <2>1, FrontOf
<1>6. \A i \in 1 .. k + 1 : i \in 1 .. Len(recs) + 1 /\ pos[i] \in Nat /\ q[i] = pos[i]
  <2>1. \A i \in 1 .. k + 1 : i \in 1 .. Len(recs) + 1
    OBVIOUS
  <2> QED  BY <1>3, <2>1 DEF Laid
<1>7. q \in [1 .. k + 1 -> Nat] /\ q[1] = 2
  <2>1. 1 \in 1 .. k + 1
    OBVIOUS
  <2> QED  BY <1>3, <1>6, <2>1 DEF Laid
<1>8. q[k + 1] <= m + 1
  BY <1>6
<1>9. \A i, j \in 1 .. k + 1 : i <= j => q[i] <= q[j]
  BY <1>6 DEF Laid
<1>10. ASSUME NEW i \in 1 .. k
       PROVE  /\ q[i + 1] = q[i] + Len(p[i])
              /\ \A j \in 1 .. Len(p[i]) : u[q[i] + j - 1] = p[i][j]
  <2>1. i \in 1 .. Len(recs) /\ i \in 1 .. k + 1 /\ i + 1 \in 1 .. k + 1 /\ k + 1 \in 1 .. k + 1
        /\ i + 1 <= k + 1 /\ 1 <= i /\ 1 \in 1 .. k + 1
    OBVIOUS
  <2>2. PICK r \in Seq(Units), n \in Nat \ {0} : r = recs[i] /\ n = Len(r)
    <3>1. recs[i] \in Seq(Units) /\ Len(recs[i]) \in Nat \ {0}
      BY <2>1, LaidRecord
    <3> QED  BY <3>1, Zenon
  <2>3. p[i] = r /\ q[i] = pos[i] /\ q[i + 1] = pos[i + 1] /\ q[i] \in Nat
    BY <1>5, <1>6, <2>1, <2>2
  <2>4. q[i + 1] = q[i] + n /\ \A j \in 1 .. n : s[q[i] + j - 1] = r[j]
    <3>1. /\ pos[i + 1] = pos[i] + Len(recs[i])
          /\ \A j \in 1 .. Len(recs[i]) : s[pos[i] + j - 1] = recs[i][j]
      BY <2>1 DEF Laid
    <3> QED  BY <2>2, <2>3, <3>1
  <2>5. q[i + 1] <= q[k + 1] /\ q[1] <= q[i] /\ q[k + 1] \in Nat
    BY <1>7, <1>9, <2>1
  <2>6. \A j \in 1 .. n : q[i] + j - 1 \in 1 .. m
    <3>1. PICK a \in Nat : a = q[i]
      BY <2>3
    <3>2. 2 <= a /\ a + n <= m + 1
      <4>1. PICK b \in Nat, c \in Nat : b = q[i + 1] /\ c = q[k + 1]
        <5>1. q[i + 1] \in Nat /\ q[k + 1] \in Nat
          <6>1. q[i + 1] = a + n
            BY <2>4, <3>1
          <6> QED  BY <2>5, <6>1
        <5> QED  BY <5>1, Zenon
      <4>2. 2 <= a /\ b = a + n /\ b <= c /\ c <= m + 1
        BY <1>7, <1>8, <2>4, <2>5, <3>1, <4>1
      <4> QED  BY <4>2
    <3>3. \A j \in 1 .. n : a + j - 1 \in 1 .. m
      BY <3>2
    <3> QED  BY <3>1, <3>3
  <2> QED  BY <1>4, <2>2, <2>3, <2>4, <2>6
<1>11. Laid(u, p, q)
  BY <1>4, <1>5, <1>7, <1>8, <1>9, <1>10 DEF Laid
<1> QED  BY <1>1, <1>2, <1>3, <1>4, <1>5, <1>11

\* Of a stream that holds records and nothing else, a reader of its first m units finds
\* the records that lie in them.
LEMMA WholeRead ==
  ASSUME NEW s \in Seq(Units), NEW recs \in Seq(Records), NEW pos, Laid(s, recs, pos),
         pos[Len(recs) + 1] = Len(s) + 1, NEW m \in 1 .. Len(s)
  PROVE  \E j \in 0 .. Len(recs) :
           /\ read(SubSeq(s, 1, m)) = SubSeq(recs, 1, j)
           /\ \A k \in 0 .. Len(recs) : k <= j <=> pos[k + 1] <= m + 1
<1>1. PICK n \in Nat : n = Len(recs)
  OBVIOUS
<1>2. \A k \in 1 .. n + 1 : pos[k] \in Nat
  BY <1>1 DEF Laid
<1>3. PICK j \in 0 .. n : \A k \in 0 .. n : k <= j <=> pos[k + 1] <= m + 1
  <2>1. PICK S \in SUBSET Nat : \A k \in Nat : k \in S <=> k <= n /\ ~(pos[k + 1] <= m + 1)
    <3>1. {k \in Nat : k <= n /\ ~(pos[k + 1] <= m + 1)} \in SUBSET Nat
      OBVIOUS
    <3> QED  BY <3>1, Zenon
  <2>2. CASE S = {}
    <3>1. \A k \in 0 .. n : k <= n /\ pos[k + 1] <= m + 1
      BY <2>1, <2>2
    <3>2. n \in 0 .. n
      OBVIOUS
    <3> QED  BY <3>1, <3>2
  <2>3. CASE S # {}
    <3>1. PICK l \in Nat : l \in S /\ \A y \in Nat : y < l => y \notin S
      BY <2>3, LeastElement
    <3>2. l <= n /\ ~(pos[l + 1] <= m + 1)
      BY <2>1, <3>1, Zenon
    <3>3. l # 0
      <4>1. pos[1] = 2
        BY DEF Laid
      <4> QED  BY <3>2, <4>1
    <3>4. l - 1 \in 0 .. n
      BY <3>2, <3>3
    <3>5. ASSUME NEW k \in 0 .. n PROVE k <= l - 1 <=> pos[k + 1] <= m + 1
      <4>1. CASE k <= l - 1
        <5>1. k \in Nat /\ k < l /\ k <= n
          BY <3>2, <4>1
        <5>2. k \notin S
          BY <3>1, <5>1
        <5> QED  BY <2>1, <4>1, <5>1, <5>2
      <4>2. CASE ~(k <= l - 1)
        <5>1. l + 1 \in 1 .. n + 1 /\ k + 1 \in 1 .. n + 1 /\ l + 1 <= k + 1
          BY <3>2, <4>2
        <5>2. pos[l + 1] <= pos[k + 1] /\ pos[l + 1] \in Nat /\ pos[k + 1] \in Nat
          BY <1>1, <1>2, <5>1 DEF Laid
        <5> QED  BY <3>2, <4>2, <5>2
      <4> QED  BY <4>1, <4>2
    <3> QED  BY <3>4, <3>5
  <2> QED  BY <2>2, <2>3
<1>4. PICK u : u = SubSeq(s, 1, m)
  OBVIOUS
<1>5. PICK p : p = SubSeq(recs, 1, j)
  OBVIOUS
<1>6. PICK q : q = [i \in 1 .. j + 1 |-> pos[i]]
  OBVIOUS
<1>7. j \in 0 .. n /\ j <= j /\ pos[j + 1] <= m + 1 /\ j + 1 \in 1 .. n + 1 /\ j + 1 \in 1 .. j + 1
  BY <1>3
<1>8. u \in Seq(Units) /\ Len(u) = m /\ p \in Seq(Records) /\ Len(p) = j /\ Laid(u, p, q)
  <2>1. m \in 0 .. Len(s) /\ j \in 0 .. Len(recs)
    BY <1>1
  <2> QED  BY <1>4, <1>5, <1>6, <1>7, <2>1, LaidPart
<1>9. PICK f : f = records_from(u)
  OBVIOUS
<1>10. ReadsFrom(f, u, 1)
  BY <1>8, <1>9, ReaderReads
<1>11. PICK a \in Nat : a = pos[j + 1]
  BY <1>2, <1>7
<1>12. q[j + 1] = a
  BY <1>6, <1>7, <1>11
<1>13. f[2] = p \o f[a] /\ p \in Seq(Seq(Units))
  BY <1>8, <1>10, <1>12, LaidReads
<1>14. 2 <= a /\ a <= m + 1
  <2>1. 1 \in 1 .. n + 1 /\ 1 <= j + 1
    OBVIOUS
  <2>2. pos[1] = 2 /\ pos[1] <= pos[j + 1]
    BY <1>1, <1>7, <2>1 DEF Laid
  <2> QED  BY <1>7, <1>11, <2>2
<1>15. f[a] = IF a > m \/ End(u, a) > m + 1 THEN << >>
              ELSE <<SubSeq(u, a, End(u, a) - 1)>> \o f[End(u, a)]
  <2>1. a \in 1 .. m + 1
    BY <1>14
  <2> QED  BY <1>8, <1>10, <2>1 DEF ReadsFrom
<1>16. f[a] = << >>
  <2>1. CASE j = n
    <3>1. a = Len(s) + 1
      BY <1>1, <1>11, <2>1
    <3>2. a > m
      BY <3>1
    <3> QED  BY <1>15, <3>2
  <2>2. CASE j # n /\ a > m
    BY <1>15, <2>2
  <2>3. CASE j # n /\ ~(a > m)
    <3>1. j + 1 \in 0 .. n /\ ~(j + 1 <= j) /\ j + 1 \in 1 .. Len(recs) /\ j + 1 + 1 \in 1 .. n + 1
      BY <1>1, <2>3
    <3>2. ~(pos[j + 1 + 1] <= m + 1)
      BY <1>3, <3>1
    <3>3. PICK r : r = recs[j + 1]
      OBVIOUS
    <3>4. r \in Seq(Units) /\ Len(r) \in Nat \ {0} /\ Len(r) = HeaderUnits + Claim(r[1])
      BY <3>1, <3>3, LaidRecord
    <3>5. pos[j + 1 + 1] = a + Len(r) /\ \A i \in 1 .. Len(r) : s[a + i - 1] = r[i]
      BY <1>11, <3>1, <3>3 DEF Laid
    <3>6. 1 \in 1 .. Len(r) /\ a + 1 - 1 = a
      BY <3>4
    <3>7. s[a] = r[1]
      BY <3>5, <3>6
    <3>8. u[a] = s[a]
      <4>1. m \in Nat /\ m <= Len(s) /\ a \in 1 .. m
        BY <1>14, <2>3
      <4> QED  BY <1>4, <4>1, FrontOf
    <3>9. Claim(r[1]) \in Nat
      <4>1. r[1] \in Units
        BY <3>4, <3>6, ElementOfSeq
      <4>2. Claim(r[1]) \in 0 .. snaplen
        BY <4>1, ClaimBounded
      <4> QED  BY <4>2, WriterAssumption
    <3>10. End(u, a) = a + Len(r)
      BY <3>4, <3>7, <3>8, <3>9, WriterAssumption DEF End
    <3>11. End(u, a) > m + 1
      BY <3>2, <3>4, <3>5, <3>10
    <3> QED  BY <1>15, <3>11
  <2> QED  BY <2>1, <2>2, <2>3
<1>17. p \o << >> = p
  BY <1>13, ConcatEmptySeq
<1>18. read(u) = p
  <2>1. Len(u) # 0
    BY <1>8
  <2> QED  BY <1>9, <1>13, <1>16, <1>17, <2>1 DEF read
<1> QED  BY <1>1, <1>3, <1>4, <1>5, <1>18

-----------------------------------------------------------------------------
(* What a stream keeps when it is written on, cut or flushed.              *)

\* The records lie in the first m units of the stream; and they are all that it holds.
Kept(s, recs, m) == \E pos : Laid(s, recs, pos) /\ pos[Len(recs) + 1] <= m + 1
Whole(s, recs) == \E pos : Laid(s, recs, pos) /\ pos[Len(recs) + 1] = Len(s) + 1

\* A reader of the first m units finds the records that lie in them.
LEMMA KeptRead ==
  ASSUME NEW s \in Seq(Units), NEW recs \in Seq(Records), NEW m \in 0 .. Len(s),
         Kept(s, recs, m)
  PROVE  IsPrefix(recs, read(SubSeq(s, 1, m)))
<1>1. PICK pos : Laid(s, recs, pos) /\ pos[Len(recs) + 1] <= m + 1
  BY DEF Kept
<1>2. PICK u : u = SubSeq(s, 1, m)
  OBVIOUS
<1>3. PICK q : q = [i \in 1 .. Len(recs) + 1 |-> pos[i]]
  OBVIOUS
<1>4. Len(recs) \in 0 .. Len(recs) /\ SubSeq(recs, 1, Len(recs)) = recs
  BY SubSeqFull
<1>5. u \in Seq(Units) /\ Laid(u, SubSeq(recs, 1, Len(recs)), q)
  <2>1. PICK n \in 0 .. Len(recs) : n = Len(recs)
    BY <1>4
  <2>2. pos[n + 1] <= m + 1
    BY <1>1, <2>1
  <2>3. /\ SubSeq(s, 1, m) \in Seq(Units)
        /\ Laid(SubSeq(s, 1, m), SubSeq(recs, 1, n), [i \in 1 .. n + 1 |-> pos[i]])
    BY <1>1, <2>2, LaidPart
  <2> QED  BY <1>2, <1>3, <2>1, <2>3
<1>6. Laid(u, recs, q)
  BY <1>4, <1>5
<1>7. IsPrefix(recs, read(u))
  BY <1>5, <1>6, LaidPrefix
<1> QED  BY <1>2, <1>7

\* The records stay where they are in every stream that begins with the same m units.
LEMMA KeptStays ==
  ASSUME NEW s \in Seq(Units), NEW t \in Seq(Units), NEW recs \in Seq(Records),
         NEW m \in 0 .. Len(s), NEW l \in Nat, m <= l, m <= Len(t), Kept(s, recs, m),
         \A i \in 1 .. m : t[i] = s[i]
  PROVE  Kept(t, recs, l)
<1>1. PICK pos : Laid(s, recs, pos) /\ pos[Len(recs) + 1] <= m + 1
  BY DEF Kept
<1>2. PICK n \in Nat : n = Len(recs)
  OBVIOUS
<1>3. /\ pos \in [1 .. n + 1 -> Nat] /\ pos[1] = 2
      /\ \A j, k \in 1 .. n + 1 : j <= k => pos[j] <= pos[k]
  BY <1>1, <1>2 DEF Laid
<1>4. pos[n + 1] \in Nat /\ pos[n + 1] <= m + 1
  <2>1. n + 1 \in 1 .. n + 1
    OBVIOUS
  <2> QED  BY <1>1, <1>2, <1>3, <2>1
<1>5. ASSUME NEW k \in 1 .. n
      PROVE  /\ pos[k + 1] = pos[k] + Len(recs[k])
             /\ \A j \in 1 .. Len(recs[k]) : t[pos[k] + j - 1] = recs[k][j]
  <2>1. PICK r : r = recs[k]
    OBVIOUS
  <2>2. r \in Seq(Units) /\ Len(r) \in Nat \ {0}
    BY <1>2, <2>1, LaidRecord
  <2>3. /\ k \in 1 .. n + 1 /\ 1 \in 1 .. n + 1 /\ 1 <= k
        /\ k + 1 \in 1 .. n + 1 /\ n + 1 \in 1 .. n + 1
        /\ k + 1 <= n + 1
    OBVIOUS
  <2>4. PICK a \in Nat : a = pos[k]
    BY <1>3, <2>3
  <2>5. pos[k + 1] = a + Len(r) /\ \A j \in 1 .. Len(r) : s[a + j - 1] = r[j]
    BY <1>1, <1>2, <2>1, <2>4 DEF Laid
  <2>6. pos[1] <= a /\ pos[k + 1] <= pos[n + 1]
    BY <1>3, <2>3, <2>4
  <2>7. 2 <= a /\ a + Len(r) <= m + 1
    BY <1>3, <1>4, <2>2, <2>5, <2>6
  <2>8. \A j \in 1 .. Len(r) : a + j - 1 \in 1 .. m
    BY <2>2, <2>7
  <2> QED  BY <2>1, <2>4, <2>5, <2>8
<1>6. pos[n + 1] <= Len(t) + 1 /\ pos[n + 1] <= l + 1
  BY <1>4
<1>7. Laid(t, recs, pos)
  BY <1>2, <1>3, <1>5, <1>6 DEF Laid
<1> QED  BY <1>2, <1>6, <1>7 DEF Kept

\* The new file.
LEMMA WholeNew == Whole(<<FileHeader>>, << >>)
<1>1. PICK pos : pos = [i \in 1 .. 1 |-> 2]
  OBVIOUS
<1>2. Len(<< >>) = 0 /\ Len(<<FileHeader>>) = 1
  OBVIOUS
<1>3. pos \in [1 .. 0 + 1 -> Nat] /\ pos[1] = 2 /\ pos[0 + 1] = 2 /\ 0 + 1 = 1
      /\ \A j, k \in 1 .. 0 + 1 : j <= k => pos[j] <= pos[k]
  BY <1>1
<1>4. Laid(<<FileHeader>>, << >>, pos)
  BY <1>2, <1>3 DEF Laid
<1> QED  BY <1>2, <1>3, <1>4 DEF Whole

\* A record more.
LEMMA WholeGrows ==
  ASSUME NEW s \in Seq(Units), NEW recs \in Seq(Records), NEW r \in Records, Whole(s, recs)
  PROVE  Whole(s \o r, Append(recs, r))
<1>1. PICK pos : Laid(s, recs, pos) /\ pos[Len(recs) + 1] = Len(s) + 1
  BY DEF Whole
<1>2. PICK n \in Nat : n = Len(recs)
  OBVIOUS
<1>3. r \in Seq(Units) /\ Len(r) \in Nat
  BY DEF Records
<1>4. PICK t : t = s \o r
  OBVIOUS
<1>5. /\ t \in Seq(Units) /\ Len(t) = Len(s) + Len(r)
      /\ \A i \in 1 .. Len(s) + Len(r) : t[i] = IF i <= Len(s) THEN s[i] ELSE r[i - Len(s)]
  BY <1>3, <1>4, ConcatProperties
<1>6. PICK more : more = Append(recs, r)
  OBVIOUS
<1>7. /\ more \in Seq(Records) /\ Len(more) = n + 1 /\ more[n + 1] = r
      /\ \A i \in 1 .. n : more[i] = recs[i]
  BY <1>2, <1>6, AppendProperties
<1>8. Len(s) \in Nat
  OBVIOUS
<1>9. PICK l \in Nat, z \in Nat : l = Len(s) /\ z = Len(s) + Len(r)
  BY <1>3, <1>8
<1>10. PICK q : q = [i \in 1 .. n + 2 |-> IF i = n + 2 THEN z + 1 ELSE pos[i]]
  OBVIOUS
<1>11. /\ pos \in [1 .. n + 1 -> Nat] /\ pos[1] = 2 /\ pos[n + 1] = l + 1
       /\ \A j, k \in 1 .. n + 1 : j <= k => pos[j] <= pos[k]
  BY <1>1, <1>2, <1>9 DEF Laid
<1>12. \A i \in 1 .. n + 1 : q[i] = pos[i] /\ pos[i] <= l + 1 /\ pos[i] \in Nat
  <2>1. \A i \in 1 .. n + 1 : i \in 1 .. n + 2 /\ i # n + 2 /\ i <= n + 1 /\ n + 1 \in 1 .. n + 1
    OBVIOUS
  <2> QED  BY <1>10, <1>11, <2>1
<1>13. q[n + 2] = z + 1 /\ l <= z
  BY <1>3, <1>9, <1>10
<1>14. q \in [1 .. n + 2 -> Nat] /\ q[1] = 2
  <2>1. 1 \in 1 .. n + 1
    OBVIOUS
  <2>2. \A i \in 1 .. n + 2 : q[i] \in Nat
    BY <1>12, <1>13
  <2> QED  BY <1>10, <1>11, <1>12, <2>1, <2>2
<1>15. ASSUME NEW j \in 1 .. n + 2, NEW k \in 1 .. n + 2, j <= k PROVE q[j] <= q[k]
  <2>1. CASE k = n + 2 /\ j = n + 2
    BY <1>13, <2>1
  <2>2. CASE k = n + 2 /\ j # n + 2
    <3>1. j \in 1 .. n + 1
      BY <2>2
    <3> QED  BY <1>12, <1>13, <2>2, <3>1
  <2>3. CASE k # n + 2
    <3>1. j \in 1 .. n + 1 /\ k \in 1 .. n + 1
      BY <1>15, <2>3
    <3> QED  BY <1>11, <1>12, <1>15, <3>1
  <2> QED  BY <2>1, <2>2, <2>3
<1>16. ASSUME NEW k \in 1 .. n + 1
       PROVE  /\ q[k + 1] = q[k] + Len(more[k])
              /\ \A j \in 1 .. Len(more[k]) : t[q[k] + j - 1] = more[k][j]
  <2>1. CASE k = n + 1
    <3>1. k + 1 = n + 2 /\ n + 1 \in 1 .. n + 1
      BY <2>1
    <3>2. q[k] = l + 1 /\ q[k + 1] = z + 1 /\ more[k] = r
      BY <1>7, <1>11, <1>12, <1>13, <2>1, <3>1
    <3>3. q[k + 1] = q[k] + Len(r)
      BY <1>3, <1>9, <3>2
    <3>4. PICK c \in Nat : c = Len(r)
      BY <1>3
    <3>5. \A j \in 1 .. c : /\ l + 1 + j - 1 = l + j /\ l + j \in 1 .. l + c
                            /\ ~(l + j <= l) /\ l + j - l = j
      OBVIOUS
    <3>6. \A i \in 1 .. l + c : t[i] = IF i <= l THEN s[i] ELSE r[i - l]
      BY <1>5, <1>9, <3>4
    <3>7. \A j \in 1 .. c : t[l + 1 + j - 1] = r[j]
      BY <3>5, <3>6
    <3>8. \A j \in 1 .. Len(r) : t[q[k] + j - 1] = r[j]
      BY <3>2, <3>4, <3>7
    <3> QED  BY <3>2, <3>3, <3>8
  <2>2. CASE k # n + 1
    <3>1. /\ k \in 1 .. n /\ k \in 1 .. n + 1 /\ k + 1 \in 1 .. n + 1
          /\ n + 1 \in 1 .. n + 1 /\ k + 1 <= n + 1
          /\ 1 \in 1 .. n + 1 /\ 1 <= k
      BY <2>2
    <3>2. PICK x : x = recs[k]
      OBVIOUS
    <3>3. x \in Seq(Units) /\ Len(x) \in Nat \ {0}
      BY <1>2, <3>1, <3>2, LaidRecord
    <3>4. PICK a \in Nat : a = pos[k]
      BY <1>12, <3>1
    <3>5. pos[k + 1] = a + Len(x) /\ \A j \in 1 .. Len(x) : s[a + j - 1] = x[j]
      BY <1>1, <1>2, <3>1, <3>2, <3>4 DEF Laid
    <3>6. pos[1] <= a /\ pos[k + 1] <= l + 1
      BY <1>11, <1>12, <3>1, <3>4
    <3>7. 2 <= a /\ a + Len(x) <= l + 1
      BY <1>11, <3>5, <3>6
    <3>8. \A j \in 1 .. Len(x) : a + j - 1 \in 1 .. l
      BY <3>3, <3>7
    <3>9. \A j \in 1 .. Len(x) : t[a + j - 1] = s[a + j - 1]
      <4>1. \A i \in 1 .. l : t[i] = s[i]
        BY <1>3, <1>5, <1>9
      <4> QED  BY <3>8, <4>1
    <3>10. q[k] = a /\ q[k + 1] = pos[k + 1] /\ more[k] = x
      BY <1>7, <1>12, <3>1, <3>2, <3>4
    <3> QED  BY <3>5, <3>9, <3>10
  <2> QED  BY <2>1, <2>2
<1>17. n + 1 + 1 = n + 2 /\ q[n + 1 + 1] = Len(t) + 1 /\ q[n + 1 + 1] <= Len(t) + 1
  BY <1>5, <1>9, <1>13
<1>18. Laid(t, more, q)
  BY <1>7, <1>14, <1>15, <1>16, <1>17 DEF Laid
<1>19. Whole(t, more)
  BY <1>7, <1>17, <1>18 DEF Whole
<1> QED  BY <1>4, <1>6, <1>19

\* A reader of any part of such a stream finds only its records, of the whole stream all.
LEMMA WholeFound ==
  ASSUME NEW s \in Seq(Units), NEW recs \in Seq(Records), Whole(s, recs),
         NEW m \in 0 .. Len(s)
  PROVE  /\ \E j \in 0 .. Len(recs) : read(SubSeq(s, 1, m)) = SubSeq(recs, 1, j)
         /\ m = Len(s) => read(SubSeq(s, 1, m)) = recs
<1>1. PICK pos : Laid(s, recs, pos) /\ pos[Len(recs) + 1] = Len(s) + 1
  BY DEF Whole
<1>2. Len(s) # 0
  <2>1. 1 \in 1 .. Len(recs) + 1 /\ Len(recs) + 1 \in 1 .. Len(recs) + 1 /\ 1 <= Len(recs) + 1
    OBVIOUS
  <2>2. pos[1] = 2 /\ pos[1] <= pos[Len(recs) + 1]
    BY <1>1, <2>1 DEF Laid
  <2> QED  BY <1>1, <2>2
<1>3. CASE m = 0
  <2>1. read(SubSeq(s, 1, m)) = << >>
    BY <1>3, ReadNothing
  <2>2. SubSeq(recs, 1, 0) = << >> /\ 0 \in 0 .. Len(recs)
    BY SubSeqEmpty
  <2> QED  BY <1>2, <1>3, <2>1, <2>2
<1>4. CASE m # 0
  <2>1. m \in 1 .. Len(s)
    BY <1>4
  <2>2. PICK j \in 0 .. Len(recs) :
          /\ read(SubSeq(s, 1, m)) = SubSeq(recs, 1, j)
          /\ \A k \in 0 .. Len(recs) : k <= j <=> pos[k + 1] <= m + 1
    BY <1>1, <2>1, WholeRead
  <2>3. ASSUME m = Len(s) PROVE j = Len(recs)
    <3>1. Len(recs) \in 0 .. Len(recs) /\ pos[Len(recs) + 1] <= m + 1
      BY <1>1, <2>3
    <3>2. Len(recs) <= j
      BY <2>2, <3>1
    <3> QED  BY <3>2
  <2>4. SubSeq(recs, 1, Len(recs)) = recs
    BY SubSeqFull
  <2> QED  BY <2>2, <2>3, <2>4
<1> QED  BY <1>3, <1>4

\* What a reader finds grows with the part that it reads.
LEMMA WholeMonotone ==
  ASSUME NEW s \in Seq(Units), NEW recs \in Seq(Records), Whole(s, recs),
         NEW m \in 0 .. Len(s), NEW l \in 0 .. Len(s), m <= l
  PROVE  /\ Len(read(SubSeq(s, 1, m))) \in Nat /\ Len(read(SubSeq(s, 1, l))) \in Nat
         /\ Len(read(SubSeq(s, 1, m))) <= Len(read(SubSeq(s, 1, l)))
         /\ Len(read(SubSeq(s, 1, l))) <= Len(recs)
<1>1. PICK pos : Laid(s, recs, pos) /\ pos[Len(recs) + 1] = Len(s) + 1
  BY DEF Whole
<1>2. PICK i \in 0 .. Len(recs) : read(SubSeq(s, 1, m)) = SubSeq(recs, 1, i)
  BY WholeFound
<1>3. PICK j \in 0 .. Len(recs) : read(SubSeq(s, 1, l)) = SubSeq(recs, 1, j)
  BY WholeFound
<1>4. \A k \in 0 .. Len(recs) : Len(SubSeq(recs, 1, k)) = k
  <2>1. \A k \in 0 .. Len(recs) : k \in Nat /\ k <= Len(recs)
    OBVIOUS
  <2> QED  BY <2>1, FrontOf
<1>5. Len(read(SubSeq(s, 1, m))) = i /\ Len(read(SubSeq(s, 1, l))) = j
  BY <1>2, <1>3, <1>4
<1>6. i <= j
  <2>1. CASE m = 0
    <3>1. read(SubSeq(s, 1, m)) = << >>
      BY <2>1, ReadNothing
    <3>2. i = 0
      BY <1>5, <3>1
    <3> QED  BY <3>2
  <2>2. CASE m # 0
    <3>1. m \in 1 .. Len(s) /\ l \in 1 .. Len(s)
      BY <2>2
    <3>2. PICK a \in 0 .. Len(recs) :
            /\ read(SubSeq(s, 1, m)) = SubSeq(recs, 1, a)
            /\ \A k \in 0 .. Len(recs) : k <= a <=> pos[k + 1] <= m + 1
      BY <1>1, <3>1, WholeRead
    <3>3. PICK b \in 0 .. Len(recs) :
            /\ read(SubSeq(s, 1, l)) = SubSeq(recs, 1, b)
            /\ \A k \in 0 .. Len(recs) : k <= b <=> pos[k + 1] <= l + 1
      BY <1>1, <3>1, WholeRead
    <3>4. a = i /\ b = j
      BY <1>4, <1>5, <3>2, <3>3
    <3>5. pos[a + 1] <= m + 1 /\ pos[a + 1] \in Nat
      <4>1. a <= a /\ a + 1 \in 1 .. Len(recs) + 1
        OBVIOUS
      <4> QED  BY <1>1, <3>2, <4>1 DEF Laid
    <3>6. pos[a + 1] <= l + 1
      BY <3>5
    <3>7. a <= b
      BY <3>3, <3>6
    <3> QED  BY <3>4, <3>7
  <2> QED  BY <2>1, <2>2
<1>7. i \in Nat /\ j \in Nat /\ j <= Len(recs)
  OBVIOUS
<1> QED  BY <1>5, <1>6, <1>7

-----------------------------------------------------------------------------
(* The inductive invariant of the writer.                                  *)

\* The first k of the records w lie in the first m units of the stream.
SafeKept(s, w, k, m) == k > 0 => Kept(s, SubSeq(w, 1, k), m)

\* The stream is the first part of one that holds the records w and nothing else.
Begun(s, w) ==
  \E full \in Seq(Units) :
    Whole(full, w) /\ Len(s) <= Len(full) /\ s = SubSeq(full, 1, Len(s))

WriterShape ==
  /\ failures \in 0 .. MaxFailures /\ calls \in 0 .. MaxPackets
  /\ stream \in Seq(Units) /\ synced \in 0 .. Len(stream)
  /\ written \in Seq(Records) /\ packets = Len(written) /\ safe \in 0 .. Len(written)
  /\ status \in {"new", "open", "decoding", "closed", "killed", "crashed"}

\* Until a call is refused, the stream holds what was written and nothing else, or what
\* of it had reached the file when the process died, and the last flush is the one that
\* was due last. What that flush covered stays in the file whatever fails later.
WriterInv ==
  /\ WriterShape
  /\ status = "new" => stream = << >> /\ written = << >> /\ failures = 0
  /\ SafeKept(stream, written, safe, synced)
  /\ (failures = 0 /\ status # "new") =>
       /\ safe = Log!flushed(Len(written))
       /\ Begun(stream, written)
       /\ status \in {"open", "decoding", "closed"} => Whole(stream, written)
       /\ status = "closed" => synced = Len(stream)

\* What is safe stays safe when the units of the file stay and records are added.
LEMMA SafeStays ==
  ASSUME NEW s \in Seq(Units), NEW t \in Seq(Units), NEW w \in Seq(Records), NEW v \in Seq(Records),
         NEW k \in 0 .. Len(w), k <= Len(v), NEW m \in 0 .. Len(s), NEW l \in Nat,
         m <= l, m <= Len(t),
         SafeKept(s, w, k, m), \A i \in 1 .. m : t[i] = s[i], \A i \in 1 .. k : v[i] = w[i]
  PROVE  SafeKept(t, v, k, l)
<1>1. SUFFICES ASSUME k > 0 PROVE Kept(t, SubSeq(v, 1, k), l)
  BY DEF SafeKept
<1>2. k \in Nat /\ k <= Len(w)
  OBVIOUS
<1>3. PICK p : p = SubSeq(w, 1, k)
  OBVIOUS
<1>4. PICK q : q = SubSeq(v, 1, k)
  OBVIOUS
<1>5. p \in Seq(Records) /\ Len(p) = k /\ \A i \in 1 .. k : p[i] = w[i]
  BY <1>2, <1>3, FrontOf
<1>6. q \in Seq(Records) /\ Len(q) = k /\ \A i \in 1 .. k : q[i] = v[i]
  BY <1>2, <1>4, FrontOf
<1>7. p = q
  BY <1>5, <1>6, SeqEqual
<1>8. Kept(s, p, m)
  BY <1>1, <1>3 DEF SafeKept
<1>9. Kept(t, p, l)
  BY <1>5, <1>8, KeptStays
<1> QED  BY <1>4, <1>7, <1>9

\* A whole stream has begun, and so has every first part of it.
LEMMA WholeBegun ==
  ASSUME NEW s \in Seq(Units), NEW w, Whole(s, w), NEW m \in 0 .. Len(s)
  PROVE  Begun(SubSeq(s, 1, m), w) /\ Begun(s, w)
<1>1. m \in Nat /\ m <= Len(s)
  OBVIOUS
<1>2. Len(SubSeq(s, 1, m)) = m
  BY <1>1, FrontOf
<1>3. s = SubSeq(s, 1, Len(s)) /\ Len(s) <= Len(s)
  BY SubSeqFull
<1> QED  BY <1>1, <1>2, <1>3 DEF Begun

\* Between two multiples of FlushEvery nothing is due.
LEMMA FlushDue ==
  ASSUME NEW n \in Nat
  PROVE  /\ Log!flushed(n) \in 0 .. n
         /\ flushes(n + 1) => Log!flushed(n + 1) = n + 1
         /\ ~flushes(n + 1) => Log!flushed(n + 1) = Log!flushed(n)
<1>1. PICK m \in Nat \ {0} : m = FlushEvery
  BY WriterAssumption
<1>2. PICK q \in Int, r \in 0 .. m - 1 : q = n \div m /\ r = n % m /\ n = q * m + r
  BY Division
<1>3. (n + 1) % m \in 0 .. m - 1
  OBVIOUS
<1>4. CASE r + 1 < m
  <2>1. r + 1 \in 0 .. m - 1 /\ n + 1 = q * m + (r + 1)
    BY <1>2, <1>4
  <2>2. (q * m + (r + 1)) % m = r + 1
    BY <2>1, RemainderUnique
  <2>3. (n + 1) % m = r + 1
    BY <2>1, <2>2
  <2> QED  BY <1>1, <1>2, <2>3 DEF flushes, Log!flushed
<1>5. CASE ~(r + 1 < m)
  <2>1. r + 1 = m
    BY <1>2, <1>5
  <2>2. n + 1 = (q + 1) * m + 0 /\ 0 \in 0 .. m - 1 /\ q + 1 \in Int
    BY <1>2, <2>1
  <2>3. ((q + 1) * m + 0) % m = 0
    BY <2>2, RemainderUnique
  <2>4. (n + 1) % m = 0
    BY <2>2, <2>3
  <2> QED  BY <1>1, <1>2, <2>4 DEF flushes, Log!flushed
<1> QED  BY <1>4, <1>5

\* The writer starts in its invariant.
LEMMA WriterInitially == WriterInit => WriterInv
<1>1. SUFFICES ASSUME WriterInit PROVE WriterInv
  OBVIOUS
<1>2. << >> \in Seq(Units) /\ << >> \in Seq(Records) /\ Len(<< >>) = 0
  OBVIOUS
<1>3. WriterShape
  BY <1>1, <1>2, WriterAssumption DEF WriterInit, WriterShape
<1> QED  BY <1>1, <1>3 DEF WriterInit, WriterInv, SafeKept

\* fopen and the file header.
LEMMA OpenStep == WriterInv /\ (Open \/ OpenFails) => WriterInv'
<1>1. SUFFICES ASSUME WriterInv, Open \/ OpenFails PROVE WriterInv'
  OBVIOUS
<1>2. status = "new" /\ stream = << >> /\ written = << >> /\ failures = 0 /\ WriterShape
  BY <1>1 DEF WriterInv, Open, OpenFails
<1>3. synced = 0 /\ safe = 0 /\ packets = 0 /\ Len(<< >>) = 0
  BY <1>2 DEF WriterShape
<1>4. CASE OpenFails
  <2>1. /\ status' = "closed" /\ failures' = 1 /\ failures < MaxFailures
        /\ stream' \in {<< >>, <<CutHeader>>} /\ synced' \in 0 .. Len(stream')
        /\ UNCHANGED <<packets, calls, written, safe>>
    BY <1>2, <1>4 DEF OpenFails, refused
  <2>2. WriterShape'
    <3>1. stream' \in Seq(Units)
      <4>1. CutHeader \in Units
        BY DEF Units
      <4>2. << >> \in Seq(Units) /\ <<CutHeader>> \in Seq(Units)
        BY <4>1
      <4> QED  BY <2>1, <4>2
    <3>2. failures' \in 0 .. MaxFailures
      BY <1>2, <2>1, WriterAssumption
    <3> QED  BY <1>2, <2>1, <3>1, <3>2 DEF WriterShape
  <2> QED  BY <1>3, <2>1, <2>2 DEF WriterInv, SafeKept
<1>5. CASE Open
  <2>1. /\ stream' = <<FileHeader>> /\ status' = "open"
        /\ UNCHANGED <<synced, packets, calls, written, safe, failures>>
    BY <1>5 DEF Open
  <2>2. <<FileHeader>> \in Seq(Units) /\ Len(<<FileHeader>>) = 1
    BY DEF Units
  <2>3. WriterShape'
    BY <1>2, <1>3, <2>1, <2>2 DEF WriterShape
  <2>4. Whole(stream', written')
    BY <1>2, <2>1, WholeNew
  <2>5. Begun(stream', written')
    <3>1. Whole(<<FileHeader>>, << >>) /\ 1 \in 0 .. Len(<<FileHeader>>)
      BY <2>2, WholeNew
    <3>2. Begun(<<FileHeader>>, << >>)
      BY <2>2, <3>1, WholeBegun
    <3> QED  BY <1>2, <2>1, <3>2
  <2>6. Log!flushed(Len(written')) = 0
    <3>1. 0 \in Nat /\ Len(written') = 0
      BY <1>2, <1>3, <2>1
    <3>2. Log!flushed(0) \in 0 .. 0
      BY FlushDue
    <3> QED  BY <3>1, <3>2
  <2> QED  BY <1>3, <2>1, <2>3, <2>4, <2>5, <2>6 DEF WriterInv, SafeKept
<1> QED  BY <1>1, <1>4, <1>5

\* A packet more.
LEMMA WriteStep == ASSUME NEW frame \in Frames PROVE WriterInv /\ Write(frame) => WriterInv'
<1>1. SUFFICES ASSUME WriterInv, Write(frame) PROVE WriterInv'
  OBVIOUS
<1>2. WriterShape
  BY <1>1 DEF WriterInv
<1>3. calls \in Nat
  BY <1>2, WriterAssumption DEF WriterShape
<1>4. PICK r \in Records : r = record(frame) /\ Len(r) \in Nat \ {0}
  BY <1>3, RecordIsWhole
<1>5. r \in Seq(Units)
  BY DEF Records
<1>6. PICK s \in Seq(Units), w \in Seq(Records) : s = stream /\ w = written
  BY <1>2 DEF WriterShape
<1>7. PICK t : t = s \o r
  OBVIOUS
<1>8. PICK v : v = Append(w, r)
  OBVIOUS
<1>9. t \in Seq(Units) /\ Len(t) = Len(s) + Len(r) /\ \A i \in 1 .. Len(s) : t[i] = s[i]
  <2>1. /\ t \in Seq(Units) /\ Len(t) = Len(s) + Len(r)
        /\ \A i \in 1 .. Len(s) + Len(r) : t[i] = IF i <= Len(s) THEN s[i] ELSE r[i - Len(s)]
    BY <1>5, <1>7, ConcatProperties
  <2> QED  BY <1>4, <2>1
<1>10. v \in Seq(Records) /\ Len(v) = Len(w) + 1 /\ \A i \in 1 .. Len(w) : v[i] = w[i]
  BY <1>8, AppendProperties
<1>11. /\ stream' = t /\ written' = v /\ status = "open" /\ status' = "decoding"
       /\ packets' = packets + 1 /\ calls' = calls + 1 /\ calls < MaxPackets
  BY <1>1, <1>4, <1>6, <1>7, <1>8 DEF Write
<1>12. PICK m \in 0 .. Len(s), k \in 0 .. Len(w), n \in Nat, f \in 0 .. MaxFailures :
         m = synced /\ k = safe /\ n = Len(w) /\ n = packets /\ f = failures
  BY <1>2, <1>6 DEF WriterShape
<1>13. /\ synced' \in m .. Len(t) /\ failures' \in f .. MaxFailures
       /\ safe' \in {k, n + 1}
       /\ f = 0 /\ failures' = 0 => safe' = IF flushes(n + 1) THEN n + 1 ELSE k
       /\ safe' # k => synced' = Len(t) /\ f = 0
  <2>1. m <= Len(t) /\ Len(t) \in Nat /\ packets' = n + 1 /\ Len(v) = n + 1
    BY <1>4, <1>9, <1>10, <1>11, <1>12
  <2>2. CASE flushes(n + 1) /\ ~refused
    <3>1. synced' = Len(t) /\ safe' = (IF failures > 0 THEN k ELSE n + 1) /\ failures' = f
      BY <1>1, <1>11, <1>12, <2>1, <2>2 DEF Write, write_failed
    <3> QED  BY <1>12, <2>1, <2>2, <3>1
  <2>3. CASE flushes(n + 1) /\ refused
    <3>1. failures' = f + 1 /\ f < MaxFailures
      BY <1>12, <2>3 DEF refused
    <3>2. f + 1 # f
      BY <1>12
    <3>3. synced' \in m .. Len(t) /\ safe' = k
      BY <1>1, <1>11, <1>12, <2>1, <2>3, <3>1, <3>2 DEF Write
    <3> QED  BY <1>12, <3>1, <3>3, WriterAssumption
  <2>4. CASE ~flushes(n + 1)
    <3>1. synced' = m /\ safe' = k /\ failures' = f
      BY <1>1, <1>11, <1>12, <2>1, <2>4 DEF Write
    <3> QED  BY <1>12, <2>1, <2>4, <3>1
  <2> QED  BY <2>2, <2>3, <2>4
<1>14. WriterShape'
  BY <1>2, <1>3, <1>9, <1>10, <1>11, <1>12, <1>13, WriterAssumption DEF WriterShape
<1>15. f = 0 => Whole(t, v)
  <2>1. f = 0 => Whole(s, w)
    BY <1>1, <1>6, <1>11, <1>12 DEF WriterInv
  <2> QED  BY <1>7, <1>8, <2>1, WholeGrows
<1>16. SafeKept(stream', written', safe', synced')
  <2>1. PICK l \in Nat : l = synced' /\ m <= l /\ l <= Len(t)
    BY <1>9, <1>12, <1>13
  <2>2. CASE safe' = k
    <3>1. SafeKept(s, w, k, m)
      BY <1>1, <1>6, <1>12 DEF WriterInv
    <3>2. \A i \in 1 .. m : t[i] = s[i]
      BY <1>9
    <3>3. (\A i \in 1 .. k : v[i] = w[i]) /\ k <= Len(v) /\ m <= Len(t)
      BY <1>4, <1>9, <1>10
    <3>4. SafeKept(t, v, k, l)
      BY <1>9, <1>10, <2>1, <3>1, <3>2, <3>3, SafeStays
    <3> QED  BY <1>11, <2>1, <2>2, <3>4
  <2>3. CASE safe' # k
    <3>1. Whole(t, v) /\ safe' = Len(v) /\ synced' = Len(t)
      BY <1>10, <1>12, <1>13, <1>15, <2>3
    <3>2. SubSeq(v, 1, Len(v)) = v
      BY <1>10, SubSeqFull
    <3>3. Kept(t, v, Len(t))
      <4>1. \A x : x = Len(t) + 1 => x <= Len(t) + 1
        BY <1>9
      <4> QED  BY <3>1, <4>1 DEF Kept, Whole
    <3>4. SafeKept(t, v, Len(v), Len(t))
      BY <3>2, <3>3 DEF SafeKept
    <3> QED  BY <1>11, <3>1, <3>4
  <2> QED  BY <2>2, <2>3
<1>17. ASSUME failures' = 0
       PROVE  /\ safe' = Log!flushed(Len(written'))
              /\ Begun(stream', written') /\ Whole(stream', written')
  <2>1. f = 0
    BY <1>12, <1>13, <1>17, WriterAssumption
  <2>2. k = Log!flushed(n)
    BY <1>1, <1>6, <1>11, <1>12, <2>1 DEF WriterInv
  <2>3. safe' = Log!flushed(n + 1)
    BY <1>13, <1>17, <2>1, <2>2, FlushDue
  <2>4. 0 \in 0 .. Len(t) /\ Len(v) = n + 1
    BY <1>9, <1>10, <1>12
  <2>5. Begun(t, v)
    BY <1>9, <1>15, <2>1, <2>4, WholeBegun
  <2> QED  BY <1>11, <1>15, <2>1, <2>3, <2>4, <2>5
<1> QED  BY <1>11, <1>14, <1>16, <1>17 DEF WriterInv

\* fwrite is refused: units behind the file may be gone, the file is not touched.
LEMMA WriteFailsStep ==
  ASSUME NEW frame \in Frames PROVE WriterInv /\ WriteFails(frame) => WriterInv'
<1>1. SUFFICES ASSUME WriterInv, WriteFails(frame) PROVE WriterInv'
  OBVIOUS
<1>2. WriterShape
  BY <1>1 DEF WriterInv
<1>3. calls \in Nat
  BY <1>2, WriterAssumption DEF WriterShape
<1>4. PICK r \in Seq(Units) : r = record(frame) /\ Len(r) \in Nat \ {0}
  BY <1>3, RecordIsWhole DEF Records
<1>5. PICK s \in Seq(Units), w \in Seq(Records) : s = stream /\ w = written
  BY <1>2 DEF WriterShape
<1>6. PICK m \in 0 .. Len(s), k \in 0 .. Len(w) :
        s = stream /\ w = written /\ m = synced /\ k = safe
  BY <1>2, <1>5 DEF WriterShape
<1>7. PICK kept \in m .. Len(s), part \in 0 .. Len(r) - 1 :
        stream' = SubSeq(s, 1, kept) \o SubSeq(r, 1, part)
  BY <1>1, <1>4, <1>6 DEF WriteFails
<1>8. PICK a : a = SubSeq(s, 1, kept)
  OBVIOUS
<1>9. PICK b : b = SubSeq(r, 1, part)
  OBVIOUS
<1>10. PICK t : t = a \o b
  OBVIOUS
<1>11. kept \in Nat /\ kept <= Len(s) /\ part \in Nat /\ part <= Len(r)
  BY <1>4
<1>12. a \in Seq(Units) /\ Len(a) = kept /\ \A i \in 1 .. kept : a[i] = s[i]
  BY <1>8, <1>11, FrontOf
<1>13. b \in Seq(Units) /\ Len(b) = part
  BY <1>9, <1>11, FrontOf
<1>14. /\ t \in Seq(Units) /\ Len(t) = Len(a) + Len(b)
       /\ \A i \in 1 .. Len(a) + Len(b) : t[i] = IF i <= Len(a) THEN a[i] ELSE b[i - Len(a)]
  BY <1>10, <1>12, <1>13, ConcatProperties
<1>15. m <= Len(t) /\ m \in Nat /\ \A i \in 1 .. m : t[i] = s[i]
  BY <1>6, <1>11, <1>12, <1>13, <1>14
<1>16. /\ stream' = t /\ status' = "decoding" /\ calls' = calls + 1 /\ calls < MaxPackets
       /\ failures' = failures + 1 /\ failures < MaxFailures
       /\ UNCHANGED <<synced, packets, written, safe>>
  BY <1>1, <1>7, <1>8, <1>9, <1>10 DEF WriteFails, refused
<1>17. WriterShape'
  BY <1>2, <1>3, <1>6, <1>14, <1>15, <1>16, WriterAssumption DEF WriterShape
<1>18. SafeKept(stream', written', safe', synced')
  <2>1. SafeKept(s, w, k, m)
    BY <1>1, <1>6 DEF WriterInv
  <2>2. (\A i \in 1 .. k : w[i] = w[i]) /\ k <= Len(w) /\ m <= m
    BY <1>6
  <2>3. SafeKept(t, w, k, m)
    BY <1>14, <1>15, <2>1, <2>2, SafeStays
  <2> QED  BY <1>6, <1>16, <2>3
<1>19. failures' # 0
  BY <1>2, <1>16, WriterAssumption DEF WriterShape
<1> QED  BY <1>16, <1>17, <1>18, <1>19 DEF WriterInv

\* The buffer goes to the file: stdio spills it, or the file is closed.
LEMMA FlushStep == WriterInv /\ (Spill \/ Close \/ Decoded) => WriterInv'
<1>1. SUFFICES ASSUME WriterInv, Spill \/ Close \/ Decoded PROVE WriterInv'
  OBVIOUS
<1>2. WriterShape
  BY <1>1 DEF WriterInv
<1>3. PICK s \in Seq(Units), w \in Seq(Records) : s = stream /\ w = written
  BY <1>2 DEF WriterShape
<1>4. PICK m \in 0 .. Len(s), k \in 0 .. Len(w) :
        s = stream /\ w = written /\ m = synced /\ k = safe
  BY <1>2, <1>3 DEF WriterShape
<1>5. Len(s) \in Nat
  OBVIOUS
<1>6. /\ UNCHANGED <<stream, packets, calls, written, safe>>
      /\ synced' \in m .. Len(s) /\ failures' \in failures .. MaxFailures
      /\ status \in {"open", "decoding"} /\ status' \in {"open", "decoding", "closed"}
      /\ failures' = 0 /\ status' = "closed" => synced' = Len(s)
  <2>1. CASE Spill
    <3>1. /\ synced' \in m + 1 .. Len(s) /\ status \in {"open", "decoding"}
          /\ UNCHANGED <<stream, packets, status, calls, written, safe, failures>>
      BY <1>4, <2>1 DEF Spill
    <3> QED  BY <1>2, <1>5, <3>1, WriterAssumption DEF WriterShape
  <2>2. CASE Close
    <3>1. /\ status = "open" /\ status' = "closed"
          /\ UNCHANGED <<stream, packets, calls, written, safe>>
          /\ \/ synced' = Len(s) /\ failures' = failures
             \/ failures < MaxFailures /\ failures' = failures + 1 /\ synced' \in m .. Len(s)
      BY <1>4, <2>2 DEF Close, close_flush, refused
    <3> QED  BY <1>2, <1>5, <3>1, WriterAssumption DEF WriterShape
  <2>3. CASE Decoded
    <3>1. /\ status = "decoding" /\ status' = "open"
          /\ UNCHANGED <<stream, synced, packets, calls, written, safe, failures>>
      BY <2>3 DEF Decoded
    <3> QED  BY <1>2, <1>4, <1>5, <3>1, WriterAssumption DEF WriterShape
  <2> QED  BY <1>1, <2>1, <2>2, <2>3
<1>7. WriterShape'
  BY <1>2, <1>4, <1>5, <1>6, WriterAssumption DEF WriterShape
<1>8. SafeKept(stream', written', safe', synced')
  <2>1. SafeKept(s, w, k, m)
    BY <1>1, <1>4 DEF WriterInv
  <2>2. PICK l \in Nat : l = synced' /\ m <= l
    BY <1>5, <1>6
  <2>3. /\ \A i \in 1 .. k : w[i] = w[i]
        /\ \A i \in 1 .. m : s[i] = s[i]
        /\ k <= Len(w) /\ m <= Len(s)
    BY <1>4
  <2>4. SafeKept(s, w, k, l)
    BY <2>1, <2>2, <2>3, SafeStays
  <2> QED  BY <1>4, <1>6, <2>2, <2>4
<1>9. failures' = 0 => failures = 0
  BY <1>2, <1>6, WriterAssumption DEF WriterShape
<1>10. ASSUME failures' = 0
      PROVE  /\ safe' = Log!flushed(Len(written')) /\ Begun(stream', written')
             /\ Whole(stream', written') /\ (status' = "closed" => synced' = Len(stream'))
  BY <1>1, <1>4, <1>6, <1>9, <1>10 DEF WriterInv
<1> QED  BY <1>6, <1>7, <1>8, <1>10 DEF WriterInv

\* The process dies: what is not in the file is gone.
LEMMA DieStep == WriterInv /\ Die => WriterInv'
<1>1. SUFFICES ASSUME WriterInv, Die PROVE WriterInv'
  OBVIOUS
<1>2. WriterShape
  BY <1>1 DEF WriterInv
<1>3. PICK s \in Seq(Units), w \in Seq(Records) : s = stream /\ w = written
  BY <1>2 DEF WriterShape
<1>4. PICK m \in 0 .. Len(s), k \in 0 .. Len(w) :
        s = stream /\ w = written /\ m = synced /\ k = safe
  BY <1>2, <1>3 DEF WriterShape
<1>5. PICK t : t = SubSeq(s, 1, m)
  OBVIOUS
<1>6. t \in Seq(Units) /\ Len(t) = m /\ \A i \in 1 .. m : t[i] = s[i]
  <2>1. m \in Nat /\ m <= Len(s)
    OBVIOUS
  <2> QED  BY <1>5, <2>1, FrontOf
<1>7. /\ stream' = t /\ status \in {"open", "decoding"} /\ status' \in {"killed", "crashed"}
      /\ UNCHANGED <<synced, packets, calls, written, safe, failures>>
  BY <1>1, <1>4, <1>5 DEF Die, file
<1>8. WriterShape'
  BY <1>2, <1>4, <1>6, <1>7 DEF WriterShape
<1>9. SafeKept(stream', written', safe', synced')
  <2>1. SafeKept(s, w, k, m)
    BY <1>1, <1>4 DEF WriterInv
  <2>2. (\A i \in 1 .. k : w[i] = w[i]) /\ k <= Len(w) /\ m <= m /\ m <= Len(t) /\ m \in Nat
    BY <1>4, <1>6
  <2>3. SafeKept(t, w, k, m)
    BY <1>6, <2>1, <2>2, SafeStays
  <2> QED  BY <1>4, <1>7, <2>3
<1>10. ASSUME failures' = 0 PROVE safe' = Log!flushed(Len(written')) /\ Begun(stream', written')
  <2>1. failures = 0 /\ k = Log!flushed(Len(w)) /\ Whole(s, w)
    BY <1>1, <1>4, <1>7, <1>10 DEF WriterInv
  <2>2. Begun(t, w)
    BY <1>5, <2>1, WholeBegun
  <2> QED  BY <1>4, <1>7, <2>1, <2>2
<1> QED  BY <1>7, <1>8, <1>9, <1>10 DEF WriterInv

\* Every step of the writer keeps its invariant.
LEMMA WriterStep == WriterInv /\ [WriterNext]_writer_vars => WriterInv'
<1>1. SUFFICES ASSUME WriterInv, [WriterNext]_writer_vars PROVE WriterInv'
  OBVIOUS
<1>2. CASE UNCHANGED writer_vars
  <2>1. /\ stream' = stream /\ synced' = synced /\ packets' = packets /\ status' = status
        /\ calls' = calls /\ written' = written /\ safe' = safe /\ failures' = failures
    BY <1>2 DEF writer_vars
  <2>2. WriterShape'
    BY <1>1, <2>1 DEF WriterInv, WriterShape
  <2>3. WriterInv => WriterInv'
    BY <2>1, <2>2 DEF WriterInv
  <2> QED  BY <1>1, <2>3
<1>3. CASE WriterNext
  BY <1>1, <1>3, OpenStep, WriteStep, WriteFailsStep, FlushStep, DieStep DEF WriterNext
<1> QED  BY <1>1, <1>2, <1>3

\* The writer is always in its invariant.
LEMMA WriterInvariant == WriterSpec => []WriterInv
  BY WriterInitially, WriterStep, PTL DEF WriterSpec

-----------------------------------------------------------------------------
(* What the writer promises.                                               *)

\* The type invariant: packets_ counts the records, and no record header in the stream
\* claims more than the snap length.
THEOREM WriterTypeCorrect == WriterSpec => []WriterTypeOK
<1>1. WriterInv => WriterTypeOK
  <2>1. SUFFICES ASSUME WriterInv PROVE WriterTypeOK
    OBVIOUS
  <2>2. WriterShape
    BY <2>1 DEF WriterInv
  <2>3. ASSUME NEW i \in 1 .. Len(stream), stream[i][1] = "header" PROVE stream[i][4] <= snaplen
    <3>1. stream[i] \in Units
      BY <2>2 DEF WriterShape
    <3>2. stream[i][4] \in 0 .. snaplen
      BY <2>3, <3>1, ClaimBounded
    <3> QED  BY <3>2, WriterAssumption
  <2> QED  BY <2>2, <2>3 DEF WriterShape, WriterTypeOK
<1> QED  BY <1>1, WriterInvariant, PTL

\* What is found in the file while nothing has failed.
LEMMA FoundInFile ==
  ASSUME WriterInv, failures = 0
  PROVE  \E j \in 0 .. Len(written) : read(file) = SubSeq(written, 1, j)
<1>1. WriterShape
  BY DEF WriterInv
<1>2. PICK s \in Seq(Units), w \in Seq(Records) : s = stream /\ w = written
  BY <1>1 DEF WriterShape
<1>3. PICK m \in 0 .. Len(s) : m = synced
  BY <1>1, <1>2 DEF WriterShape
<1>4. CASE status = "new"
  <2>1. s = << >> /\ m = 0
    BY <1>2, <1>3, <1>4 DEF WriterInv
  <2>2. read(SubSeq(s, 1, m)) = << >>
    BY <2>1, ReadNothing
  <2>3. SubSeq(w, 1, 0) = << >> /\ 0 \in 0 .. Len(w)
    BY SubSeqEmpty
  <2> QED  BY <1>2, <1>3, <2>2, <2>3 DEF file
<1>5. CASE status # "new"
  <2>1. PICK full \in Seq(Units) :
          Whole(full, w) /\ Len(s) <= Len(full) /\ s = SubSeq(full, 1, Len(s))
    BY <1>2, <1>5 DEF WriterInv, Begun
  <2>2. SubSeq(s, 1, m) = SubSeq(full, 1, m)
    BY <2>1, FrontOfFront
  <2>3. m \in 0 .. Len(full)
    BY <2>1
  <2>4. \E j \in 0 .. Len(w) : read(SubSeq(full, 1, m)) = SubSeq(w, 1, j)
    BY <2>1, <2>3, WholeFound
  <2> QED  BY <1>2, <1>3, <2>2, <2>4 DEF file
<1> QED  BY <1>4, <1>5

\* What is safe is found.
LEMMA SafeCounted ==
  ASSUME NEW s \in Seq(Units), NEW w \in Seq(Records), NEW m \in 0 .. Len(s),
         NEW k \in 0 .. Len(w), SafeKept(s, w, k, m), k > 0
  PROVE  k <= Len(read(SubSeq(s, 1, m)))
<1>1. PICK p : p = SubSeq(w, 1, k)
  OBVIOUS
<1>2. k \in Nat /\ k <= Len(w)
  OBVIOUS
<1>3. p \in Seq(Records) /\ Len(p) = k
  BY <1>1, <1>2, FrontOf
<1>4. Kept(s, p, m)
  BY <1>1 DEF SafeKept
<1>5. IsPrefix(p, read(SubSeq(s, 1, m)))
  BY <1>3, <1>4, KeptRead
<1> QED  BY <1>3, <1>5 DEF IsPrefix

\* Whatever fails later, a reader finds the records that a flush before the first failure
\* covered; and while nothing has failed it finds nothing but records that were written.
THEOREM RecordsReadBack == WriterSpec => []ReadsBack
<1>1. WriterInv => ReadsBack
  <2>1. SUFFICES ASSUME WriterInv PROVE ReadsBack
    OBVIOUS
  <2>2. WriterShape
    BY <2>1 DEF WriterInv
  <2>3. PICK s \in Seq(Units), w \in Seq(Records) : s = stream /\ w = written
    BY <2>2 DEF WriterShape
  <2>4. PICK m \in 0 .. Len(s), k \in 0 .. Len(w) : m = synced /\ k = safe
    BY <2>2, <2>3 DEF WriterShape
  <2>5. k \in Nat /\ k <= Len(w)
    OBVIOUS
  <2>6. PICK p : p = SubSeq(w, 1, k)
    OBVIOUS
  <2>7. p \in Seq(Records) /\ Len(p) = k
    BY <2>5, <2>6, FrontOf
  <2>8. IsPrefix(p, read(SubSeq(s, 1, m)))
    <3>1. CASE k > 0
      <4>1. Kept(s, p, m)
        BY <2>1, <2>3, <2>4, <2>6, <3>1 DEF WriterInv, SafeKept
      <4> QED  BY <2>7, <4>1, KeptRead
    <3>2. CASE ~(k > 0)
      <4>1. Len(p) = 0 /\ p = << >>
        BY <2>7, <3>2
      <4>2. \A x : SubSeq(x, 1, 0) = << >>
        BY SubSeqEmpty
      <4>3. Len(read(SubSeq(s, 1, m))) \in Nat
        <5>1. SubSeq(s, 1, m) \in Seq(Units)
          BY FrontOf
        <5> QED  BY <5>1, ReadType
      <4> QED  BY <4>1, <4>2, <4>3 DEF IsPrefix
    <3> QED  BY <3>1, <3>2
  <2>9. ASSUME failures = 0 PROVE IsPrefix(read(file), w)
    <3>1. PICK j \in 0 .. Len(w) : read(file) = SubSeq(w, 1, j)
      BY <2>1, <2>3, <2>9, FoundInFile
    <3>2. j \in Nat /\ j <= Len(w)
      OBVIOUS
    <3> QED  BY <3>1, <3>2, FrontPrefix
  <2>10. ~write_failed => failures = 0
    BY <2>2, WriterAssumption DEF WriterShape, write_failed
  <2> QED  BY <2>3, <2>4, <2>6, <2>8, <2>9, <2>10 DEF ReadsBack, file
<1> QED  BY <1>1, WriterInvariant, PTL

-----------------------------------------------------------------------------
(* The writer implements PacketLog.                                        *)

\* The number of records that a reader of the first m units of s finds.
Count(s, m) == Len(read(SubSeq(s, 1, m)))

\* Opening the file shows nothing yet.
LEMMA LogOpen ==
  ASSUME WriterInv, Open PROVE UNCHANGED Log!vars
<1>1. status = "new" /\ stream = << >> /\ WriterShape
  BY DEF Open, WriterInv
<1>2. synced = 0
  BY <1>1 DEF WriterShape
<1>3. /\ status' = "open" /\ stream' = <<FileHeader>>
      /\ written' = written /\ failures' = failures /\ synced' = 0
  BY <1>2 DEF Open
<1>4. read(SubSeq(stream, 1, 0)) = << >> /\ read(SubSeq(<<FileHeader>>, 1, 0)) = << >>
  BY ReadNothing
<1>5. found' = found
  BY <1>2, <1>3, <1>4 DEF found, file
<1>6. log_status' = log_status /\ write_failed' = write_failed
  BY <1>1, <1>3 DEF log_status, write_failed
<1> QED  BY <1>3, <1>5, <1>6 DEF Log!vars

\* A record more: at least the records of the last flush that was due are found.
LEMMA LogWrite ==
  ASSUME WriterInv, NEW frame \in Frames, Write(frame), failures = 0, failures' = 0
  PROVE  Log!Record
<1>1. WriterShape /\ status = "open"
  BY DEF WriterInv, Write
<1>2. calls \in Nat
  BY <1>1, WriterAssumption DEF WriterShape
<1>3. PICK r \in Records : r = record(frame) /\ Len(r) \in Nat \ {0}
  BY <1>2, RecordIsWhole
<1>4. r \in Seq(Units)
  BY DEF Records
<1>5. PICK s \in Seq(Units), w \in Seq(Records) : s = stream /\ w = written
  BY <1>1 DEF WriterShape
<1>6. PICK m \in 0 .. Len(s), k \in 0 .. Len(w), n \in Nat :
        m = synced /\ k = safe /\ n = Len(w) /\ n = packets
  BY <1>1, <1>5 DEF WriterShape
<1>7. Whole(s, w) /\ k = Log!flushed(n) /\ SafeKept(s, w, k, m)
  BY <1>1, <1>5, <1>6 DEF WriterInv
<1>8. PICK t : t = s \o r
  OBVIOUS
<1>9. PICK v : v = Append(w, r)
  OBVIOUS
<1>10. t \in Seq(Units) /\ Len(t) = Len(s) + Len(r) /\ SubSeq(t, 1, m) = SubSeq(s, 1, m)
  BY <1>4, <1>8, FrontOfConcat
<1>11. v \in Seq(Records) /\ Len(v) = n + 1 /\ SubSeq(v, 1, Len(w)) = w
  <2>1. /\ v \in Seq(Records) /\ Len(v) = Len(w) + 1
        /\ \A i \in 1 .. Len(w) : v[i] = w[i]
    BY <1>9, AppendProperties
  <2>2. PICK p : p = SubSeq(v, 1, Len(w))
    OBVIOUS
  <2>3. Len(w) \in Nat /\ Len(w) <= Len(v)
    BY <2>1
  <2>4. p \in Seq(Records) /\ Len(p) = Len(w) /\ \A i \in 1 .. Len(w) : p[i] = v[i]
    BY <2>1, <2>2, <2>3, FrontOf
  <2>5. p = w
    BY <2>1, <2>4, SeqEqual
  <2> QED  BY <1>6, <2>1, <2>2, <2>5
<1>12. Whole(t, v)
  BY <1>7, <1>8, <1>9, WholeGrows
<1>13. /\ stream' = t /\ written' = v /\ status' = "decoding" /\ packets' = n + 1
  BY <1>3, <1>5, <1>6, <1>8, <1>9 DEF Write
<1>14. Count(s, m) \in k .. n
  <2>1. m \in 0 .. Len(s) /\ m <= m
    OBVIOUS
  <2>2. Count(s, m) \in Nat /\ Count(s, m) <= n
    BY <1>6, <1>7, <2>1, WholeMonotone DEF Count
  <2>3. k > 0 => k <= Count(s, m)
    BY <1>7, SafeCounted DEF Count
  <2> QED  BY <1>6, <2>2, <2>3
<1>15. found = Count(s, m)
  BY <1>5, <1>6 DEF found, file, Count
<1>16. found' \in found .. n + 1 /\ found' >= Log!flushed(n + 1)
  <2>1. CASE flushes(n + 1)
    <3>1. synced' = Len(t)
      BY <1>13, <2>1 DEF Write, refused
    <3>2. Len(t) \in 0 .. Len(t)
      BY <1>10
    <3>3. read(SubSeq(t, 1, Len(t))) = v
      BY <1>10, <1>11, <1>12, <3>2, WholeFound
    <3>4. found' = n + 1
      BY <1>11, <1>13, <3>1, <3>3 DEF found, file
    <3>5. Log!flushed(n + 1) = n + 1
      BY <2>1, FlushDue
    <3> QED  BY <1>6, <1>14, <1>15, <3>4, <3>5
  <2>2. CASE ~flushes(n + 1)
    <3>1. synced' = m
      BY <1>6, <1>13, <2>2 DEF Write
    <3>2. found' = Count(s, m)
      BY <1>10, <1>13, <3>1 DEF found, file, Count
    <3>3. Log!flushed(n + 1) = k
      BY <1>7, <2>2, FlushDue
    <3> QED  BY <1>6, <1>14, <1>15, <3>2, <3>3
  <2> QED  BY <2>1, <2>2
<1>17. log_status = "open" /\ log_status' = "open"
  BY <1>1, <1>13 DEF log_status
<1> QED  BY <1>5, <1>6, <1>11, <1>13, <1>16, <1>17 DEF Log!Record

\* The file grows, is closed, or stays as it is when the process dies.
LEMMA LogOther ==
  ASSUME WriterInv, Decoded \/ Spill \/ Close \/ Die, failures = 0, failures' = 0
  PROVE  Log!Grow \/ Log!Close \/ Log!Kill
<1>1. WriterShape
  BY DEF WriterInv
<1>2. PICK s \in Seq(Units), w \in Seq(Records) : s = stream /\ w = written
  BY <1>1 DEF WriterShape
<1>3. PICK m \in 0 .. Len(s) : m = synced
  BY <1>1, <1>2 DEF WriterShape
<1>4. status \in {"open", "decoding"} /\ written' = w
  BY <1>2 DEF Decoded, Spill, Close, Die
<1>5. Whole(s, w) /\ log_status = "open"
  BY <1>2, <1>4 DEF WriterInv, log_status
<1>6. found = Count(s, m) /\ Count(s, m) \in 0 .. Len(w)
  <2>1. m \in 0 .. Len(s) /\ m <= m
    OBVIOUS
  <2>2. Count(s, m) \in Nat /\ Count(s, m) <= Len(w)
    BY <1>5, <2>1, WholeMonotone DEF Count
  <2> QED  BY <1>2, <1>3, <2>2 DEF found, file, Count
<1>7. CASE Decoded \/ Spill
  <2>1. PICK l \in 0 .. Len(s) : l = synced' /\ m <= l
    BY <1>2, <1>3, <1>7 DEF Decoded, Spill
  <2>2. stream' = s /\ status' \in {"open", "decoding"}
    BY <1>2, <1>7 DEF Decoded, Spill
  <2>3. Count(s, l) \in Count(s, m) .. Len(w)
    BY <1>5, <1>6, <2>1, WholeMonotone DEF Count
  <2>4. found' = Count(s, l) /\ log_status' = "open"
    BY <2>1, <2>2 DEF found, file, Count, log_status
  <2> QED  BY <1>2, <1>4, <1>5, <1>6, <2>3, <2>4 DEF Log!Grow
<1>8. CASE Close
  <2>1. synced' = Len(s) /\ stream' = s /\ status' = "closed"
    BY <1>2, <1>8 DEF Close, close_flush, refused
  <2>2. Len(s) \in 0 .. Len(s)
    OBVIOUS
  <2>3. read(SubSeq(s, 1, Len(s))) = w
    BY <1>5, <2>2, WholeFound
  <2>4. found' = Len(w) /\ log_status' = "closed"
    BY <2>1, <2>3 DEF found, file, log_status
  <2> QED  BY <1>2, <1>4, <1>5, <2>4 DEF Log!Close
<1>9. CASE Die
  <2>1. PICK t : t = SubSeq(s, 1, m)
    OBVIOUS
  <2>2. stream' = t /\ synced' = m /\ status' \in {"killed", "crashed"}
    BY <1>2, <1>3, <1>9, <2>1 DEF Die, file
  <2>3. m \in Nat /\ m <= Len(s)
    OBVIOUS
  <2>4. t \in Seq(Units) /\ Len(t) = m
    BY <2>1, <2>3, FrontOf
  <2>5. SubSeq(t, 1, m) = t
    BY <2>4, SubSeqFull
  <2>6. found' = found /\ log_status' = "killed"
    BY <1>6, <2>1, <2>2, <2>5 DEF found, file, Count, log_status
  <2> QED  BY <1>2, <1>4, <1>5, <2>6 DEF Log!Kill
<1> QED  BY <1>7, <1>8, <1>9

\* Every step of the writer is one of PacketLog.
LEMMA LogStep ==
  ASSUME WriterInv, [WriterNext]_writer_vars PROVE [Log!Next]_(Log!vars)
<1>1. CASE UNCHANGED writer_vars
  BY <1>1 DEF writer_vars, Log!vars, found, file, log_status, write_failed
<1>2. CASE WriterNext /\ write_failed'
  BY <1>2 DEF Log!Next
<1>3. CASE WriterNext /\ ~write_failed'
  <2>1. WriterShape
    BY DEF WriterInv
  <2>2. failures \in Nat /\ failures' \in {failures, failures + 1}
    <3>1. failures \in Nat
      BY <2>1, WriterAssumption DEF WriterShape
    <3>2. ASSUME NEW frame \in Frames, Write(frame) PROVE failures' \in {failures, failures + 1}
      BY <3>2 DEF Write, refused
    <3> QED  BY <1>3, <3>1, <3>2
             DEF WriterNext, Open, OpenFails, Decoded, Spill, Close, Die, WriteFails, refused
  <2>3. failures = 0 /\ failures' = 0
    BY <1>3, <2>2 DEF write_failed
  <2>4. write_failed' = write_failed
    BY <2>3 DEF write_failed
  <2>5. CASE Open
    BY <2>5, LogOpen
  <2>6. CASE OpenFails \/ \E frame \in Frames : WriteFails(frame)
    BY <2>3, <2>6 DEF OpenFails, WriteFails, refused
  <2>7. CASE \E frame \in Frames : Write(frame)
    BY <2>3, <2>4, <2>7, LogWrite DEF Log!Next
  <2>8. CASE Decoded \/ Spill \/ Close \/ Die
    BY <2>3, <2>4, <2>8, LogOther DEF Log!Next
  <2> QED  BY <1>3, <2>5, <2>6, <2>7, <2>8 DEF WriterNext
<1> QED  BY <1>1, <1>2, <1>3

\* The writer keeps what PacketLog promises: at every moment all records up to the last
\* multiple of FlushEvery can be read back, none is lost when the file is closed, and
\* only a call that the device refuses ends the promise.
THEOREM WriterKeepsLog == WriterSpec => KeepsLog
<1>1. WriterInit => Log!Init
  <2>1. SUFFICES ASSUME WriterInit PROVE Log!Init
    OBVIOUS
  <2>2. read(SubSeq(<< >>, 1, 0)) = << >> /\ Len(<< >>) = 0
    BY ReadNothing
  <2>3. found = 0 /\ log_status = "open" /\ write_failed = FALSE /\ written = << >>
    BY <2>1, <2>2 DEF WriterInit, found, file, log_status, write_failed
  <2> QED  BY <2>3 DEF Log!Init
<1>2. WriterInv /\ [WriterNext]_writer_vars => [Log!Next]_(Log!vars)
  BY LogStep
<1> QED  BY <1>1, <1>2, WriterInvariant, PTL DEF WriterSpec, KeepsLog, Log!Spec

-----------------------------------------------------------------------------
(* Sums of the counters.                                                   *)

\* The weights of the elements of a finite set.
Weighs(w, S) == IsFiniteSet(S) /\ \A x \in S : w[x] \in Nat

\* Sum adds up the weights in some order.
LEMMA SumIsSum ==
  ASSUME NEW w, NEW S, Weighs(w, S)
  PROVE  \E f : Summed(f, w, S) /\ Sum(w, S) = f[S]
<1>1. PICK h : h = CHOOSE f : SumsOf(f, w, SUBSET S)
  OBVIOUS
<1>2. SumsOf(h, w, SUBSET S)
  <2>1. \E f : SumsOf(f, w, SUBSET S)
    BY SumsOfSubsets DEF Weighs
  <2> QED  BY <1>1, <2>1, Zenon
<1>3. Sum(w, S) = h[S]
  BY <1>1, Zenon DEF Sum, MapThenSumSet, MapThenFoldSet, SumsOf, Some
<1>4. Summed(h, w, S)
  BY <1>2 DEF Summed, Weighs
<1> QED  BY <1>3, <1>4, Zenon

\* A sum of naturals is a natural number.
LEMMA SumType ==
  ASSUME NEW w, NEW S, Weighs(w, S)
  PROVE  Sum(w, S) \in Nat
<1>1. PICK f : Summed(f, w, S) /\ Sum(w, S) = f[S]
  BY SumIsSum
<1>2. Splits(f, w, S)
  BY <1>1, AnyElement
<1>3. f[S] \in Nat
  BY <1>2 DEF Splits
<1> QED  BY <1>1, <1>3

\* Weights that agree on a set have the same sum over it.
LEMMA SumSame ==
  ASSUME NEW v, NEW w, NEW S, Weighs(v, S), Weighs(w, S), \A x \in S : v[x] = w[x]
  PROVE  Sum(v, S) = Sum(w, S)
<1>1. PICK f : Summed(f, v, S) /\ Sum(v, S) = f[S]
  BY SumIsSum
<1>2. PICK g : Summed(g, w, S) /\ Sum(w, S) = g[S]
  BY SumIsSum
<1>3. SameWeights(v, w, S) /\ S \in SUBSET S
  BY DEF SameWeights
<1>4. f[S] = g[S]
  BY <1>1, <1>2, <1>3, SameSums
<1> QED  BY <1>1, <1>2, <1>4

\* The sum changes by as much as one weight does.
LEMMA SumChanged ==
  ASSUME NEW v, NEW w, NEW S, Weighs(v, S), Weighs(w, S), NEW x \in S,
         \A y \in S \ {x} : v[y] = w[y]
  PROVE  /\ Sum(v, S) \in Nat /\ Sum(w, S) \in Nat
         /\ Sum(w, S) + v[x] = Sum(v, S) + w[x]
<1>1. PICK f : Summed(f, v, S) /\ Sum(v, S) = f[S]
  BY SumIsSum
<1>2. PICK g : Summed(g, w, S) /\ Sum(w, S) = g[S]
  BY SumIsSum
<1>3. PICK U : U = S \ {x}
  OBVIOUS
<1>4. SameWeights(v, w, U) /\ U \in SUBSET S
  BY <1>3 DEF SameWeights
<1>5. f[U] = g[U]
  BY <1>1, <1>2, <1>4, SameSums
<1>6. Splits(f, v, S) /\ Splits(g, w, S)
  BY <1>1, <1>2, AnyElement
<1>7. /\ f[S] = v[x] + f[U] /\ g[S] = w[x] + g[U]
      /\ f[U] \in Nat /\ g[U] \in Nat
  BY <1>3, <1>4, <1>6 DEF Splits
<1>8. v[x] \in Nat /\ w[x] \in Nat
  BY DEF Weighs
<1> QED  BY <1>1, <1>2, <1>5, <1>7, <1>8

\* Nothing adds up to nothing.
LEMMA SumZero ==
  ASSUME NEW w, NEW S, IsFiniteSet(S), \A x \in S : w[x] = 0
  PROVE  Sum(w, S) = 0
<1>1. Weighs(w, S)
  BY DEF Weighs
<1>2. PICK f : Summed(f, w, S) /\ Sum(w, S) = f[S]
  BY <1>1, SumIsSum
<1>3. PICK g : g = [s \in SUBSET S |-> 0]
  OBVIOUS
<1>4. SumsOf(g, w, SUBSET S)
  <2>1. ASSUME NEW s \in SUBSET S, s # {} PROVE w[Some(s)] + g[s \ {Some(s)}] = 0
    <3>1. Some(s) \in S /\ s \ {Some(s)} \in SUBSET S
      BY <2>1, SomeElement
    <3> QED  BY <1>3, <3>1
  <2> QED  BY <1>3, <2>1 DEF SumsOf
<1>5. Summed(g, w, S)
  BY <1>1, <1>4 DEF Summed, Weighs
<1>6. SameWeights(w, w, S) /\ S \in SUBSET S
  BY DEF SameWeights
<1>7. f[S] = g[S]
  BY <1>2, <1>5, <1>6, SameSums
<1> QED  BY <1>2, <1>3, <1>7

-----------------------------------------------------------------------------
(* What the parser returns.                                                *)

L4s == {"Unknown", "TCP", "UDP", "ICMP", "ICMPv6", "Other"}

\* The packets that decoding a frame of w bytes can yield.
Outs(f, w) ==
  [l3 : {"Unknown", "IPv4", "IPv6", "ARP"}, l4 : L4s, src : {"none", f.src},
   sport : {0, f.sport}, dport : {0, f.dport}, flags : {{}, f.flags},
   fragmented : BOOLEAN, first_fragment : BOOLEAN, bad_ip_checksum : BOOLEAN,
   payload_len : Nat, truncated : BOOLEAN, error : BOOLEAN, wirelen : {w}]

\* x differs from out at most in what the transport decoders set.
Alike(x, out, f, w) ==
  /\ x \in Outs(f, w)
  /\ x.l3 = out.l3 /\ x.src = out.src /\ x.first_fragment = out.first_fragment

\* The transport decoders never refuse a packet.
Transported(r, out, f, w) == r.ok = TRUE /\ Alike(r.out, out, f, w)

\* What a shorter capture x of a packet shows, compared with y.
Shows(x, y) ==
  /\ x.l4 = y.l4 /\ x.payload_len <= y.payload_len
  /\ ~x.truncated /\ ~x.error =>
       /\ x.sport = y.sport /\ x.dport = y.dport /\ x.flags = y.flags
       /\ ~y.truncated /\ ~y.error

\* A packet that the network decoders pass on.
Network(f, w) ==
  {out \in Outs(f, w) : /\ out.l3 \in {"IPv4", "IPv6"} /\ out.src = f.src
                        /\ out.payload_len = 0 /\ ~out.truncated /\ ~out.error}

\* The assignments of the transport decoders.
LEMMA SetL4 ==
  ASSUME NEW f, NEW w, NEW out, NEW x, Alike(x, out, f, w), NEW v \in L4s
  PROVE  Alike([x EXCEPT !.l4 = v], out, f, w)
BY DEF Alike, Outs

\* Filling in the ports and the flags keeps what the network layer found.
LEMMA SetPorts ==
  ASSUME NEW f, NEW w, NEW out, NEW x, Alike(x, out, f, w)
  PROVE  Alike([x EXCEPT !.sport = f.sport, !.dport = f.dport, !.flags = f.flags], out, f, w)
BY DEF Alike, Outs

\* Marking a packet truncated keeps what the network layer found.
LEMMA SetTruncated ==
  ASSUME NEW f, NEW w, NEW out, NEW x, Alike(x, out, f, w)
  PROVE  Alike([x EXCEPT !.truncated = TRUE], out, f, w)
BY DEF Alike, Outs

\* Marking a packet faulty keeps what the network layer found.
LEMMA SetError ==
  ASSUME NEW f, NEW w, NEW out, NEW x, Alike(x, out, f, w)
  PROVE  Alike([x EXCEPT !.error = TRUE], out, f, w)
BY DEF Alike, Outs

\* Setting the payload length keeps what the network layer found.
LEMMA SetPayload ==
  ASSUME NEW f, NEW w, NEW out, NEW x, Alike(x, out, f, w), NEW n \in Nat
  PROVE  Alike([x EXCEPT !.payload_len = n], out, f, w)
BY DEF Alike, Outs

\* Filling in ports and payload of a datagram keeps what the network layer found.
LEMMA SetDatagram ==
  ASSUME NEW f, NEW w, NEW out, NEW x, Alike(x, out, f, w), NEW n \in Nat
  PROVE  Alike([x EXCEPT !.sport = f.sport, !.dport = f.dport, !.payload_len = n], out, f, w)
BY DEF Alike, Outs

\* cut_short and done return what was decoded so far.
LEMMA Returned ==
  ASSUME NEW f, NEW w, NEW out, NEW x, Alike(x, out, f, w)
  PROVE  Transported(cut_short(x), out, f, w) /\ Transported(done(x), out, f, w)
<1>1. Alike([x EXCEPT !.truncated = TRUE], out, f, w)
  BY SetTruncated, Zenon
<1> QED  BY <1>1 DEF Transported, cut_short, done

\* decode_tcp yields a transported packet on every branch.
LEMMA TcpDecoded ==
  ASSUME NEW f, IsFrame(f), NEW w, NEW left \in Nat, NEW out \in Network(f, w)
  PROVE  Transported(decode_tcp(f, left, out), out, f, w)
<1>1. PICK tcp : tcp = [out EXCEPT !.l4 = "TCP"]
  OBVIOUS
<1>2. PICK head : head = [tcp EXCEPT !.sport = f.sport, !.dport = f.dport, !.flags = f.flags]
  OBVIOUS
<1>3. Alike(tcp, out, f, w) /\ Alike(head, out, f, w)
  <2>1. Alike(out, out, f, w) /\ "TCP" \in L4s
    BY DEF Network, Alike, L4s
  <2>2. Alike(tcp, out, f, w)
    BY <1>1, <2>1, SetL4, Zenon
  <2> QED  BY <1>2, <2>2, SetPorts, Zenon
<1>4. PICK bad : bad = [head EXCEPT !.error = TRUE] /\ Transported(done(bad), out, f, w)
  BY <1>3, SetError, Returned, Zenon
<1>5. Transported(cut_short(tcp), out, f, w) /\ Transported(cut_short(head), out, f, w)
  BY <1>3, Returned
<1>6. f.hlen \in Nat
  BY DEF IsFrame
<1>7. CASE take(left, 20) /\ f.hlen >= 20 /\ take(left - 20, f.hlen - 20)
  <2>1. left - f.hlen \in Nat
    BY <1>6, <1>7 DEF take
  <2>2. Transported(done([head EXCEPT !.payload_len = left - f.hlen]), out, f, w)
    BY <1>3, <2>1, SetPayload, Returned, Zenon
  <2> QED  BY <1>1, <1>2, <1>6, <1>7, <2>2 DEF decode_tcp, take
<1> QED  BY <1>1, <1>2, <1>4, <1>5, <1>6, <1>7 DEF decode_tcp, take

\* decode_udp yields a transported packet on every branch.
LEMMA UdpDecoded ==
  ASSUME NEW f, IsFrame(f), NEW w, NEW left \in Nat, NEW out \in Network(f, w)
  PROVE  Transported(decode_udp(f, left, out), out, f, w)
<1>1. PICK udp : udp = [out EXCEPT !.l4 = "UDP"]
  OBVIOUS
<1>2. Alike(udp, out, f, w)
  <2>1. Alike(out, out, f, w) /\ "UDP" \in L4s
    BY DEF Network, Alike, L4s
  <2> QED  BY <1>1, <2>1, SetL4, Zenon
<1>3. CASE ~take(left, 8)
  BY <1>1, <1>2, <1>3, Returned DEF decode_udp
<1>4. CASE take(left, 8)
  <2>1. f.udp_len \in Nat /\ left - 8 \in Nat
    BY <1>4 DEF IsFrame, take
  <2>2. udp_payload(f, left - 8) \in Nat
    BY <2>1 DEF udp_payload
  <2>3. Transported(done([udp EXCEPT !.sport = f.sport, !.dport = f.dport,
                                     !.payload_len = udp_payload(f, left - 8)]), out, f, w)
    BY <1>2, <2>2, SetDatagram, Returned, Zenon
  <2> QED  BY <1>1, <1>4, <2>3 DEF decode_udp
<1> QED  BY <1>3, <1>4

\* decode_icmp yields a transported packet on every branch.
LEMMA IcmpDecoded ==
  ASSUME NEW f, IsFrame(f), NEW w, NEW left \in Nat, NEW out \in Network(f, w),
         f.proto \in {"ICMP", "ICMPv6"}
  PROVE  Transported(decode_icmp(f, left, out), out, f, w)
<1>1. PICK icmp : icmp = [out EXCEPT !.l4 = f.proto]
  OBVIOUS
<1>2. Alike(icmp, out, f, w)
  <2>1. Alike(out, out, f, w) /\ f.proto \in L4s
    BY DEF Network, Alike, L4s
  <2> QED  BY <1>1, <2>1, SetL4, Zenon
<1>3. CASE ~take(left, 4)
  BY <1>1, <1>2, <1>3, Returned DEF decode_icmp
<1>4. CASE take(left, 4)
  <2>1. left - 4 \in Nat
    BY <1>4 DEF take
  <2>2. Transported(done([icmp EXCEPT !.payload_len = left - 4]), out, f, w)
    BY <1>2, <2>1, SetPayload, Returned, Zenon
  <2> QED  BY <1>1, <1>4, <2>2 DEF decode_icmp
<1> QED  BY <1>3, <1>4

\* So does leaving the rest of the packet unread.
LEMMA OpaqueDecoded ==
  ASSUME NEW f, IsFrame(f), NEW w, NEW left \in Nat, NEW out \in Network(f, w)
  PROVE  Transported(opaque(left, out), out, f, w)
BY DEF Network, Outs, L4s, Transported, Alike, opaque, done

\* decode_tcp with more bytes shows at least what it shows with fewer.
LEMMA TcpShows ==
  ASSUME NEW f, IsFrame(f), NEW w, NEW left \in Nat, NEW out \in Network(f, w),
         NEW more \in Nat, left <= more
  PROVE  Shows(decode_tcp(f, left, out).out, decode_tcp(f, more, out).out)
BY DEF Network, Outs, L4s, IsFrame, Shows, decode_tcp, cut_short, done, take

\* decode_udp with more bytes shows at least what it shows with fewer.
LEMMA UdpShows ==
  ASSUME NEW f, IsFrame(f), NEW w, NEW left \in Nat, NEW out \in Network(f, w),
         NEW more \in Nat, left <= more
  PROVE  Shows(decode_udp(f, left, out).out, decode_udp(f, more, out).out)
BY DEF Network, Outs, L4s, IsFrame, Shows, decode_udp, udp_payload, cut_short, done, take

\* decode_icmp with more bytes shows at least what it shows with fewer.
LEMMA IcmpShows ==
  ASSUME NEW f, IsFrame(f), NEW w, NEW left \in Nat, NEW out \in Network(f, w),
         NEW more \in Nat, left <= more
  PROVE  Shows(decode_icmp(f, left, out).out, decode_icmp(f, more, out).out)
BY DEF Network, Outs, L4s, IsFrame, Shows, decode_icmp, cut_short, done, take

\* What lies behind an IP header that is not a first fragment.
LEMMA OpaqueShows ==
  ASSUME NEW f, NEW w, NEW left \in Nat, NEW out \in Network(f, w), NEW more \in Nat, left <= more
  PROVE  Shows(opaque(left, out).out, opaque(more, out).out)
BY DEF Network, Outs, L4s, Shows, opaque, done

\* decode_l4 for the protocol of the frame, or for none that it knows.
LEMMA TransportDecoded ==
  ASSUME NEW f, IsFrame(f), NEW w, NEW left \in Nat, NEW out \in Network(f, w),
         NEW proto \in {f.proto, "none"}
  PROVE  Transported(decode_l4(f, proto, left, out), out, f, w)
<1>1. CASE proto = "TCP"
  BY <1>1, TcpDecoded DEF decode_l4
<1>2. CASE proto = "UDP"
  BY <1>2, UdpDecoded DEF decode_l4
<1>3. CASE proto \in {"ICMP", "ICMPv6"}
  BY <1>3, IcmpDecoded DEF decode_l4
<1>4. CASE proto \notin {"TCP", "UDP", "ICMP", "ICMPv6"}
  BY <1>4, OpaqueDecoded DEF decode_l4
<1> QED  BY <1>1, <1>2, <1>3, <1>4

\* decode_l4 with more bytes shows at least what it shows with fewer.
LEMMA TransportShows ==
  ASSUME NEW f, IsFrame(f), NEW w, NEW left \in Nat, NEW out \in Network(f, w),
         NEW more \in Nat, left <= more, NEW proto
  PROVE  Shows(decode_l4(f, proto, left, out).out, decode_l4(f, proto, more, out).out)
<1>1. CASE proto = "TCP"
  BY <1>1, TcpShows DEF decode_l4
<1>2. CASE proto = "UDP"
  BY <1>2, UdpShows DEF decode_l4
<1>3. CASE proto \in {"ICMP", "ICMPv6"}
  BY <1>3, IcmpShows DEF decode_l4
<1>4. CASE proto \notin {"TCP", "UDP", "ICMP", "ICMPv6"}
  BY <1>4, OpaqueShows DEF decode_l4
<1> QED  BY <1>1, <1>2, <1>3, <1>4

-----------------------------------------------------------------------------
(* Recursion over the extension headers.                                   *)

\* Induction up to N.
LEMMA UpTo ==
  ASSUME NEW N \in Nat, NEW S, 0 \in S, \A i \in 1 .. N : i - 1 \in S => i \in S
  PROVE  \A i \in 0 .. N : i \in S
<1>1. PICK B \in SUBSET Nat : \A i \in Nat : i \in B <=> i <= N /\ i \notin S
  <2>1. {i \in Nat : i <= N /\ i \notin S} \in SUBSET Nat
    OBVIOUS
  <2> QED  BY <2>1, Zenon
<1>2. B = {}
  <2>1. SUFFICES ASSUME B # {} PROVE FALSE
    OBVIOUS
  <2>2. PICK m \in B : \A y \in Nat : y < m => y \notin B
    BY <2>1, LeastElement
  <2>3. m # 0 /\ m \in Nat
    BY <1>1, <2>2
  <2>4. m - 1 \in Nat /\ m - 1 < m /\ m \in 1 .. N
    BY <1>1, <2>2, <2>3
  <2>5. m - 1 \in S
    BY <1>1, <2>2, <2>4
  <2> QED  BY <1>1, <2>2, <2>3, <2>4, <2>5
<1> QED  BY <1>1, <1>2

\* h starts with a, and g leads from each of its values to the next one.
Iterates(h, a, g, n) == h[0] = a /\ \A i \in 1 .. n : h[i] = g[<<i, h[i - 1]>>]

\* A function defined by a step from each argument to the next exists.
LEMMA Recursion ==
  ASSUME NEW S, NEW a \in S, NEW N \in Nat, NEW g \in [(1 .. N) \X S -> S]
  PROVE  \E h \in [0 .. N -> S] : Iterates(h, a, g, N)
<1>1. PICK T \in SUBSET Nat :
        \A n \in Nat : n \in T <=> n <= N /\ \E h \in [0 .. n -> S] : Iterates(h, a, g, n)
  <2>1. {n \in Nat : n <= N /\ \E h \in [0 .. n -> S] : Iterates(h, a, g, n)} \in SUBSET Nat
    OBVIOUS
  <2> QED  BY <2>1, Zenon
<1>2. 0 \in T
  <2>1. PICK h : h = [i \in 0 .. 0 |-> a]
    OBVIOUS
  <2>2. h \in [0 .. 0 -> S] /\ Iterates(h, a, g, 0)
    BY <2>1 DEF Iterates
  <2>3. 0 <= N /\ 0 \in Nat
    OBVIOUS
  <2> QED  BY <1>1, <2>2, <2>3, Zenon
<1>3. ASSUME NEW n \in 1 .. N, n - 1 \in T PROVE n \in T
  <2>1. n \in Nat /\ n - 1 \in Nat
    OBVIOUS
  <2>2. PICK h \in [0 .. n - 1 -> S] : Iterates(h, a, g, n - 1)
    BY <1>1, <1>3, <2>1
  <2>3. PICK x \in S : x = g[<<n, h[n - 1]>>]
    <3>1. h[n - 1] \in S
      BY <2>1
    <3>2. g[<<n, h[n - 1]>>] \in S
      BY <3>1
    <3> QED  BY <3>2, Zenon
  <2>4. PICK k : k = [i \in 0 .. n |-> IF i = n THEN x ELSE h[i]]
    OBVIOUS
  <2>5. k \in [0 .. n -> S] /\ k[n] = x /\ \A i \in 0 .. n - 1 : k[i] = h[i]
    BY <2>1, <2>4
  <2>6. k[0] = a
    BY <2>1, <2>2, <2>5 DEF Iterates
  <2>7. ASSUME NEW i \in 1 .. n PROVE k[i] = g[<<i, k[i - 1]>>]
    <3>1. CASE i = n
      BY <2>1, <2>3, <2>5, <3>1
    <3>2. CASE i # n
      <4>1. i \in 1 .. n - 1 /\ i - 1 \in 0 .. n - 1 /\ i \in 0 .. n - 1
        BY <2>1, <3>2
      <4>2. h[i] = g[<<i, h[i - 1]>>]
        BY <2>2, <4>1 DEF Iterates
      <4> QED  BY <2>5, <4>1, <4>2
    <3> QED  BY <3>1, <3>2
  <2>8. Iterates(k, a, g, n)
    BY <2>6, <2>7 DEF Iterates
  <2>9. n <= N
    OBVIOUS
  <2> QED  BY <1>1, <2>1, <2>5, <2>8, <2>9, Zenon
<1>4. N \in T
  BY <1>2, <1>3, UpTo
<1> QED  BY <1>1, <1>4

\* Where a walk over extension headers can stand, where it starts, and one step of it.
Walks == [left : Int, fragmented : BOOLEAN, first : BOOLEAN, truncated : BOOLEAN]
Exts == [len : Nat, frag : Fragments]
HopStart(left) == [left |-> left, fragmented |-> FALSE, first |-> TRUE, truncated |-> FALSE]
Hop(e, w) ==
  CASE w.truncated -> w
    [] ~w.truncated /\ ~take(w.left, e.len) -> [w EXCEPT !.truncated = TRUE]
    [] OTHER -> [w EXCEPT !.left = @ - e.len,
                          !.fragmented = @ \/ e.frag # "no",
                          !.first = IF e.frag = "no" THEN @ ELSE e.frag = "first"]

\* A step stops, or takes a header that is there.
LEMMA HopCases ==
  ASSUME NEW e \in Exts, NEW w \in Walks
  PROVE  /\ Hop(e, w) \in Walks
         /\ w.truncated => Hop(e, w) = w
         /\ ~w.truncated /\ w.left < e.len =>
              Hop(e, w).truncated /\ Hop(e, w).left = w.left
         /\ ~w.truncated /\ w.left >= e.len =>
              /\ ~Hop(e, w).truncated /\ Hop(e, w).left = w.left - e.len
              /\ Hop(e, w).fragmented = (w.fragmented \/ e.frag # "no")
              /\ Hop(e, w).first = IF e.frag = "no" THEN w.first ELSE e.frag = "first"
<1>1. w.left \in Int /\ e.len \in Nat /\ (take(w.left, e.len) <=> w.left >= e.len)
  BY DEF Walks, Exts, take
<1>2. CASE w.truncated
  BY <1>2 DEF Hop
<1>3. CASE ~w.truncated /\ w.left < e.len
  <2>1. Hop(e, w) = [w EXCEPT !.truncated = TRUE]
    BY <1>1, <1>3 DEF Hop
  <2>2. PICK x : x = [w EXCEPT !.truncated = TRUE]
    OBVIOUS
  <2>3. x \in Walks /\ x.truncated = TRUE /\ x.left = w.left
    BY <2>2 DEF Walks
  <2>4. Hop(e, w) = x
    BY <2>1, <2>2
  <2> QED  BY <1>1, <1>3, <2>3, <2>4
<1>4. CASE ~w.truncated /\ w.left >= e.len
  <2>1. PICK a, b : a = (w.fragmented \/ e.frag # "no")
                    /\ b = IF e.frag = "no" THEN w.first ELSE e.frag = "first"
    OBVIOUS
  <2>2. a \in BOOLEAN /\ b \in BOOLEAN
    BY <2>1 DEF Walks
  <2>3. Hop(e, w) = [w EXCEPT !.left = w.left - e.len, !.fragmented = a, !.first = b]
    BY <1>1, <1>4, <2>1 DEF Hop
  <2>4. PICK n \in Int : n = w.left - e.len
    BY <1>1
  <2>5. PICK x : x = [w EXCEPT !.left = n, !.fragmented = a, !.first = b]
    OBVIOUS
  <2>6. /\ x \in Walks /\ x.truncated = w.truncated /\ x.left = n
        /\ x.fragmented = a /\ x.first = b
    BY <2>2, <2>5 DEF Walks
  <2>7. Hop(e, w) = x
    BY <2>3, <2>4, <2>5
  <2>8. /\ ~x.truncated /\ x.left = w.left - e.len /\ x.fragmented = (w.fragmented \/ e.frag # "no")
        /\ x.first = IF e.frag = "no" THEN w.first ELSE e.frag = "first"
    BY <1>4, <2>1, <2>4, <2>6, Zenon
  <2> QED  BY <1>1, <1>4, <2>6, <2>7, <2>8
<1> QED  BY <1>1, <1>2, <1>3, <1>4

\* The loop of resolve_ipv6_next, header by header.
Hopping(h, f, left) ==
  h = [i \in 0 .. Len(f.ext) |->
         IF i = 0 THEN HopStart(left) ELSE Hop(f.ext[i], h[i - 1])]

\* hops is the iteration of Hop along the extension headers.
LEMMA HopsIterate ==
  ASSUME NEW f, IsFrame(f), NEW left \in Int
  PROVE  /\ hops(f, left) \in [0 .. Len(f.ext) -> Walks]
         /\ hops(f, left)[0] = HopStart(left)
         /\ \A i \in 1 .. Len(f.ext) : hops(f, left)[i] = Hop(f.ext[i], hops(f, left)[i - 1])
<1>1. f.ext \in Seq(Exts) /\ Len(f.ext) \in Nat
  BY LenProperties DEF IsFrame, Exts
<1>2. PICK N \in Nat : N = Len(f.ext)
  BY <1>1
<1>3. \A i \in 1 .. N : f.ext[i] \in Exts
  BY <1>1, <1>2, ElementOfSeq
<1>4. PICK g : g = [q \in (1 .. N) \X Walks |-> Hop(f.ext[q[1]], q[2])]
  OBVIOUS
<1>5. /\ g \in [(1 .. N) \X Walks -> Walks]
      /\ \A i \in 1 .. N, w \in Walks : g[<<i, w>>] = Hop(f.ext[i], w)
  <2>1. \A q \in (1 .. N) \X Walks : Hop(f.ext[q[1]], q[2]) \in Walks
    BY <1>3, HopCases
  <2> QED  BY <1>4, <2>1
<1>6. HopStart(left) \in Walks
  BY DEF HopStart, Walks
<1>7. PICK h \in [0 .. N -> Walks] : Iterates(h, HopStart(left), g, N)
  BY <1>5, <1>6, Recursion
<1>8. Hopping(h, f, left)
  <2>1. ASSUME NEW i \in 1 .. N PROVE h[i] = Hop(f.ext[i], h[i - 1])
    <3>1. h[i - 1] \in Walks /\ h[i] = g[<<i, h[i - 1]>>]
      BY <1>7 DEF Iterates
    <3> QED  BY <1>5, <3>1, Zenon
  <2>2. h[0] = HopStart(left)
    BY <1>7 DEF Iterates
  <2> QED  BY <1>2, <1>7, <2>1, <2>2 DEF Hopping
<1>9. PICK k : k = CHOOSE j : Hopping(j, f, left)
  OBVIOUS
<1>10. Hopping(k, f, left)
  BY <1>8, <1>9, Zenon
<1>11. hops(f, left) = k
  BY <1>9, Zenon DEF hops, Hopping, Hop, HopStart
<1>12. /\ DOMAIN k = 0 .. N /\ k[0] = HopStart(left)
       /\ \A i \in 1 .. N : k[i] = Hop(f.ext[i], k[i - 1])
  <2>1. k = [i \in 0 .. N |-> IF i = 0 THEN HopStart(left) ELSE Hop(f.ext[i], k[i - 1])]
    BY <1>2, <1>10, Zenon DEF Hopping
  <2>2. DOMAIN k = 0 .. N /\ k[0] = HopStart(left)
    BY <2>1
  <2>3. ASSUME NEW i \in 1 .. N PROVE k[i] = Hop(f.ext[i], k[i - 1])
    <3>1. i \in 0 .. N /\ i # 0
      OBVIOUS
    <3> QED  BY <2>1, <3>1, Zenon
  <2> QED  BY <2>2, <2>3
<1>13. \A i \in 0 .. N : k[i] \in Walks
  <2>1. PICK S : S = {i \in 0 .. N : k[i] \in Walks}
    OBVIOUS
  <2>2. 0 \in S
    BY <1>6, <1>12, <2>1
  <2>3. ASSUME NEW i \in 1 .. N, i - 1 \in S PROVE i \in S
    <3>1. k[i - 1] \in Walks
      BY <2>1, <2>3
    <3>2. k[i] \in Walks
      BY <1>3, <1>12, <3>1, HopCases
    <3> QED  BY <2>1, <3>2
  <2>4. \A i \in 0 .. N : i \in S
    BY <2>2, <2>3, UpTo
  <2> QED  BY <2>1, <2>4
<1>14. k \in [0 .. N -> Walks]
  <2>1. k = [i \in 0 .. N |-> k[i]]
    BY <1>2, <1>10, <1>12 DEF Hopping
  <2> QED  BY <1>13, <2>1
<1> QED  BY <1>2, <1>11, <1>12, <1>14

\* The bytes of the first i extension headers.
Totals(t, f) == t = [i \in 0 .. Len(f.ext) |-> IF i = 0 THEN 0 ELSE t[i - 1] + f.ext[i].len]

\* ext_len is the running total of the lengths of the extension headers.
LEMMA ExtLength ==
  ASSUME NEW f, IsFrame(f)
  PROVE  /\ ext_len(f)[0] = 0
         /\ \A i \in 0 .. Len(f.ext) : ext_len(f)[i] \in Nat
         /\ \A i \in 1 .. Len(f.ext) : ext_len(f)[i] = ext_len(f)[i - 1] + f.ext[i].len
<1>1. f.ext \in Seq(Exts) /\ Len(f.ext) \in Nat
  BY LenProperties DEF IsFrame, Exts
<1>2. PICK N \in Nat : N = Len(f.ext)
  BY <1>1
<1>3. \A i \in 1 .. N : f.ext[i].len \in Nat
  <2>1. \A i \in 1 .. N : f.ext[i] \in Exts
    BY <1>1, <1>2, ElementOfSeq
  <2> QED  BY <2>1 DEF Exts
<1>4. PICK g : g = [q \in (1 .. N) \X Nat |-> q[2] + f.ext[q[1]].len]
  OBVIOUS
<1>5. /\ g \in [(1 .. N) \X Nat -> Nat]
      /\ \A i \in 1 .. N, n \in Nat : g[<<i, n>>] = n + f.ext[i].len
  BY <1>3, <1>4
<1>6. PICK h \in [0 .. N -> Nat] : Iterates(h, 0, g, N)
  BY <1>5, Recursion
<1>7. Totals(h, f)
  <2>1. ASSUME NEW i \in 1 .. N PROVE h[i] = h[i - 1] + f.ext[i].len
    <3>1. h[i - 1] \in Nat /\ h[i] = g[<<i, h[i - 1]>>]
      BY <1>6 DEF Iterates
    <3> QED  BY <1>5, <3>1, Zenon
  <2>2. h[0] = 0
    BY <1>6 DEF Iterates
  <2> QED  BY <1>2, <1>6, <2>1, <2>2 DEF Totals
<1>8. PICK t : t = CHOOSE j : Totals(j, f)
  OBVIOUS
<1>9. Totals(t, f)
  BY <1>7, <1>8, Zenon
<1>10. ext_len(f) = t
  BY <1>8, Zenon DEF ext_len, Totals
<1>11. t[0] = 0 /\ \A i \in 1 .. N : t[i] = t[i - 1] + f.ext[i].len
  <2>1. t = [i \in 0 .. N |-> IF i = 0 THEN 0 ELSE t[i - 1] + f.ext[i].len]
    BY <1>2, <1>9, Zenon DEF Totals
  <2>2. PICK e : e = f.ext
    OBVIOUS
  <2>3. t = [i \in 0 .. N |-> IF i = 0 THEN 0 ELSE t[i - 1] + e[i].len]
    BY <2>1, <2>2, Zenon
  <2>4. t[0] = 0 /\ \A i \in 1 .. N : t[i] = t[i - 1] + e[i].len
    BY <2>3
  <2> QED  BY <2>2, <2>4, Zenon
<1>12. \A i \in 0 .. N : t[i] \in Nat
  <2>1. PICK S : S = {i \in 0 .. N : t[i] \in Nat}
    OBVIOUS
  <2>2. 0 \in S
    BY <1>11, <2>1
  <2>3. ASSUME NEW i \in 1 .. N, i - 1 \in S PROVE i \in S
    <3>1. t[i - 1] \in Nat /\ f.ext[i].len \in Nat
      BY <1>3, <2>1, <2>3
    <3>2. t[i] \in Nat
      BY <1>11, <3>1
    <3> QED  BY <2>1, <3>2
  <2>4. \A i \in 0 .. N : i \in S
    BY <2>2, <2>3, UpTo
  <2> QED  BY <2>1, <2>4
<1> QED  BY <1>2, <1>10, <1>11, <1>12

\* How many headers resolve_ipv6_next looks at.
HopCount(f) == IF Len(f.ext) < MaxHops THEN Len(f.ext) ELSE MaxHops

\* The walk makes no more hops than there are extension headers.
LEMMA HopCountType ==
  ASSUME NEW f, IsFrame(f)
  PROVE  /\ Len(f.ext) \in Nat /\ HopCount(f) \in 0 .. Len(f.ext)
         /\ \A i \in 1 .. Len(f.ext) : f.ext[i] \in Exts
<1>1. f.ext \in Seq(Exts) /\ Len(f.ext) \in Nat
  BY LenProperties DEF IsFrame, Exts
<1>2. \A i \in 1 .. Len(f.ext) : f.ext[i] \in Exts
  BY <1>1, ElementOfSeq
<1> QED  BY <1>1, <1>2 DEF HopCount, MaxHops

\* The walk does not leave the captured bytes.
LEMMA WalkType ==
  ASSUME NEW f, IsFrame(f), NEW left \in Nat
  PROVE  walk(f, left) \in Walks /\ walk(f, left).left \in Nat
<1>1. PICK N \in Nat :
        N = Len(f.ext) /\ HopCount(f) \in 0 .. N /\ \A i \in 1 .. N : f.ext[i] \in Exts
  BY HopCountType
<1>2. PICK h : h = hops(f, left)
  OBVIOUS
<1>3. /\ h \in [0 .. N -> Walks] /\ h[0] = HopStart(left)
      /\ \A i \in 1 .. N : h[i] = Hop(f.ext[i], h[i - 1])
  BY <1>1, <1>2, HopsIterate
<1>4. PICK S : S = {i \in 0 .. N : h[i].left \in Nat}
  OBVIOUS
<1>5. 0 \in S
  BY <1>3, <1>4 DEF HopStart
<1>6. ASSUME NEW i \in 1 .. N, i - 1 \in S PROVE i \in S
  <2>1. h[i - 1] \in Walks /\ h[i - 1].left \in Nat /\ f.ext[i] \in Exts
    BY <1>1, <1>3, <1>4, <1>6
  <2>2. PICK e \in Exts, v \in Walks : e = f.ext[i] /\ v = h[i - 1]
    BY <2>1
  <2>3. Hop(e, v).left \in Nat
    <3>1. e.len \in Nat
      BY DEF Exts
    <3> QED  BY <2>1, <2>2, <3>1, HopCases
  <2> QED  BY <1>3, <1>4, <2>2, <2>3
<1>7. \A i \in 0 .. N : i \in S
  BY <1>5, <1>6, UpTo
<1>8. h[HopCount(f)].left \in Nat /\ h[HopCount(f)] \in Walks
  BY <1>1, <1>3, <1>4, <1>7
<1>9. walk(f, left) = h[HopCount(f)]
  BY <1>2 DEF walk, HopCount
<1> QED  BY <1>8, <1>9

\* Where a walk stands if it has not run out of bytes, compared with one that has more.
Ahead(a, b) ==
  ~a.truncated =>
    /\ ~b.truncated /\ a.left <= b.left
    /\ a.fragmented = b.fragmented /\ a.first = b.first

\* One hop keeps the walk with more bytes ahead of the walk with fewer.
LEMMA HopAhead ==
  ASSUME NEW e \in Exts, NEW a \in Walks, NEW b \in Walks, Ahead(a, b)
  PROVE  Ahead(Hop(e, a), Hop(e, b))
<1>1. e.len \in Nat /\ a.left \in Int /\ b.left \in Int
  BY DEF Exts, Walks
<1>2. CASE a.truncated
  BY <1>2, HopCases DEF Ahead
<1>3. CASE ~a.truncated /\ a.left < e.len
  BY <1>3, HopCases DEF Ahead
<1>4. CASE ~a.truncated /\ a.left >= e.len
  <2>1. ~b.truncated /\ b.left >= e.len /\ a.left <= b.left
    BY <1>1, <1>4 DEF Ahead
  <2>2. a.fragmented = b.fragmented /\ a.first = b.first
    BY <1>4, Zenon DEF Ahead
  <2>3. PICK x, y : x = Hop(e, a) /\ y = Hop(e, b)
    OBVIOUS
  <2>4. ~y.truncated /\ x.left = a.left - e.len /\ y.left = b.left - e.len
    BY <1>4, <2>1, <2>3, HopCases
  <2>5. x.left <= y.left
    BY <1>1, <2>1, <2>4
  <2>6. /\ x.fragmented = (a.fragmented \/ e.frag # "no")
        /\ x.first = IF e.frag = "no" THEN a.first ELSE e.frag = "first"
    BY <1>4, <2>3, HopCases, Zenon
  <2>7. /\ y.fragmented = (b.fragmented \/ e.frag # "no")
        /\ y.first = IF e.frag = "no" THEN b.first ELSE e.frag = "first"
    BY <2>1, <2>3, HopCases, Zenon
  <2>8. x.fragmented = y.fragmented /\ x.first = y.first
    BY <2>2, <2>6, <2>7, Zenon
  <2> QED  BY <2>3, <2>4, <2>5, <2>8, Zenon DEF Ahead
<1> QED  BY <1>1, <1>2, <1>3, <1>4

\* So the whole walk with more bytes is ahead of the walk with fewer.
LEMMA WalkAhead ==
  ASSUME NEW f, IsFrame(f), NEW left \in Nat, NEW more \in Nat, left <= more
  PROVE  Ahead(walk(f, left), walk(f, more))
<1>1. PICK N \in Nat :
        N = Len(f.ext) /\ HopCount(f) \in 0 .. N /\ \A i \in 1 .. N : f.ext[i] \in Exts
  BY HopCountType
<1>2. PICK h, k : h = hops(f, left) /\ k = hops(f, more)
  OBVIOUS
<1>3. /\ h \in [0 .. N -> Walks] /\ h[0] = HopStart(left)
      /\ \A i \in 1 .. N : h[i] = Hop(f.ext[i], h[i - 1])
  BY <1>1, <1>2, HopsIterate
<1>4. /\ k \in [0 .. N -> Walks] /\ k[0] = HopStart(more)
      /\ \A i \in 1 .. N : k[i] = Hop(f.ext[i], k[i - 1])
  BY <1>1, <1>2, HopsIterate
<1>5. PICK S : S = {i \in 0 .. N : Ahead(h[i], k[i])}
  OBVIOUS
<1>6. 0 \in S
  <2>1. Ahead(HopStart(left), HopStart(more))
    BY DEF HopStart, Ahead
  <2> QED  BY <1>3, <1>4, <1>5, <2>1
<1>7. ASSUME NEW i \in 1 .. N, i - 1 \in S PROVE i \in S
  <2>1. /\ h[i - 1] \in Walks /\ k[i - 1] \in Walks /\ f.ext[i] \in Exts
        /\ Ahead(h[i - 1], k[i - 1])
    BY <1>1, <1>3, <1>4, <1>5, <1>7
  <2>2. Ahead(Hop(f.ext[i], h[i - 1]), Hop(f.ext[i], k[i - 1]))
    BY <2>1, HopAhead, Zenon
  <2> QED  BY <1>3, <1>4, <1>5, <2>2
<1>8. \A i \in 0 .. N : i \in S
  BY <1>6, <1>7, UpTo
<1>9. Ahead(h[HopCount(f)], k[HopCount(f)])
  BY <1>1, <1>5, <1>8
<1> QED  BY <1>2, <1>9 DEF walk, HopCount

-----------------------------------------------------------------------------
(* The network decoders and decode_packet.                                 *)

Base(w) == [NoPacket EXCEPT !.wirelen = w]
Refused(w) == [Base(w) EXCEPT !.error = TRUE]

\* What decode_packet promises of its result r.
Parsed(r, f, w) ==
  /\ r.out \in Outs(f, w)
  /\ ~r.ok => r.out.error
  /\ ~r.out.error => r.ok /\ r.out.l3 \in {"IPv4", "IPv6", "ARP"}
  /\ r.out.l3 \in {"IPv4", "IPv6"} => r.out.src = f.src
  /\ r.out.l3 = "ARP" => r.out.l4 = "Unknown" /\ ~r.out.error

\* What the decoding x of a shorter capture shows, compared with y.
Hidden(x, y) ==
  /\ x.l3 \in {"Unknown", y.l3} /\ x.l4 \in {"Unknown", y.l4}
  /\ x.payload_len <= y.payload_len
  /\ ~x.truncated /\ ~x.error =>
       /\ x.l4 = y.l4 /\ x.sport = y.sport /\ x.dport = y.dport /\ x.flags = y.flags
       /\ ~y.error /\ x.first_fragment = y.first_fragment

\* What a refused frame yields; it hides whatever more bytes would have shown.
LEMMA RefusedFacts ==
  ASSUME NEW f, NEW w
  PROVE  /\ failed(Base(w)) = [ok |-> FALSE, out |-> Refused(w)]
         /\ Base(w) \in Outs(f, w) /\ Base(w).payload_len = 0
         /\ ~Base(w).truncated /\ ~Base(w).error
         /\ Parsed(failed(Base(w)), f, w)
         /\ \A y \in Outs(f, w) : Hidden(Refused(w), y)
<1>1. /\ Base(w) \in Outs(f, w) /\ Base(w).payload_len = 0
      /\ Base(w).truncated = FALSE /\ Base(w).error = FALSE
      /\ Base(w).l3 = "Unknown" /\ Base(w).l4 = "Unknown"
  BY DEF Base, NoPacket, Outs, L4s
<1>2. PICK b \in Outs(f, w) : b = Base(w)
  BY <1>1, Zenon
<1>3. PICK x : x = [b EXCEPT !.error = TRUE]
  OBVIOUS
<1>4. /\ x \in Outs(f, w) /\ x.payload_len = 0 /\ x.error = TRUE
      /\ x.l3 = "Unknown" /\ x.l4 = "Unknown"
  BY <1>1, <1>2, <1>3 DEF Outs
<1>5. Refused(w) = x
  BY <1>2, <1>3 DEF Refused
<1>6. failed(Base(w)) = [ok |-> FALSE, out |-> x]
  BY <1>2, <1>3 DEF failed
<1>7. \A y \in Outs(f, w) : Hidden(x, y)
  <2>1. \A y \in Outs(f, w) : y.payload_len \in Nat
    BY DEF Outs
  <2> QED  BY <1>4, <2>1 DEF Hidden
<1>8. Parsed([ok |-> FALSE, out |-> x], f, w)
  BY <1>4 DEF Parsed
<1> QED  BY <1>1, <1>5, <1>6, <1>7, <1>8

\* A header that the capture cuts.
LEMMA CutShort ==
  ASSUME NEW f, NEW w, NEW ip \in Network(f, w), ip.l4 = "Unknown"
  PROVE  /\ Parsed(cut_short(ip), f, w)
         /\ \A y \in Outs(f, w) : y.l3 = ip.l3 => Hidden(cut_short(ip).out, y)
<1>1. PICK x : x = [ip EXCEPT !.truncated = TRUE]
  OBVIOUS
<1>2. /\ x \in Outs(f, w) /\ x.payload_len = 0 /\ x.truncated = TRUE /\ x.error = FALSE
      /\ x.l3 = ip.l3 /\ x.l4 = "Unknown" /\ x.src = f.src
  BY <1>1 DEF Network, Outs
<1>3. cut_short(ip) = [ok |-> TRUE, out |-> x]
  BY <1>1 DEF cut_short, done
<1>4. \A y \in Outs(f, w) : y.l3 = ip.l3 => Hidden(x, y)
  <2>1. \A y \in Outs(f, w) : y.payload_len \in Nat
    BY DEF Outs
  <2> QED  BY <1>2, <2>1 DEF Hidden
<1>5. Parsed([ok |-> TRUE, out |-> x], f, w)
  BY <1>2 DEF Parsed, Network
<1> QED  BY <1>3, <1>4, <1>5

\* A packet whose transport header was looked at.
LEMMA Looked ==
  ASSUME NEW f, NEW w, NEW ip \in Network(f, w), NEW r, Transported(r, ip, f, w)
  PROVE  Parsed(r, f, w) /\ r.out.l3 = ip.l3
BY DEF Transported, Alike, Network, Parsed

\* Two readings of one network layer hide only what the shorter one lacks.
LEMMA LookedHidden ==
  ASSUME NEW f, NEW w, NEW ip \in Network(f, w),
         NEW r, Transported(r, ip, f, w), NEW q, Transported(q, ip, f, w), Shows(r.out, q.out)
  PROVE  Hidden(r.out, q.out)
BY DEF Transported, Alike, Shows, Hidden

\* The IPv4 header as far as it was read.
Ipv4Read(f, left, w) ==
  [Base(w) EXCEPT !.l3 = "IPv4", !.src = f.src, !.fragmented = f.frag # "no",
                  !.first_fragment = is_first(f),
                  !.bad_ip_checksum = f.bad_checksum /\ (left - 20) + 20 >= f.ihl]

\* What decode_ipv4 has read once its header passed the checks.
LEMMA Ipv4ReadType ==
  ASSUME NEW f, NEW left, NEW w
  PROVE  /\ Ipv4Read(f, left, w) \in Network(f, w)
         /\ Ipv4Read(f, left, w).l4 = "Unknown" /\ Ipv4Read(f, left, w).l3 = "IPv4"
         /\ Ipv4Read(f, left, w).first_fragment = is_first(f)
<1>1. PICK a, b, c : /\ a = (f.frag # "no") /\ b = is_first(f)
                     /\ c = (f.bad_checksum /\ (left - 20) + 20 >= f.ihl)
  OBVIOUS
<1>2. a \in BOOLEAN /\ b \in BOOLEAN /\ c \in BOOLEAN
  BY <1>1 DEF is_first
<1>3. PICK x : x = [Base(w) EXCEPT !.l3 = "IPv4", !.src = f.src, !.fragmented = a,
                                   !.first_fragment = b, !.bad_ip_checksum = c]
  OBVIOUS
<1>4. Ipv4Read(f, left, w) = x
  BY <1>1, <1>3 DEF Ipv4Read
<1>5. /\ x \in Outs(f, w) /\ x.l3 = "IPv4" /\ x.l4 = "Unknown" /\ x.src = f.src
      /\ x.payload_len = 0 /\ x.truncated = FALSE /\ x.error = FALSE /\ x.first_fragment = b
  BY <1>2, <1>3 DEF Outs, L4s, Base, NoPacket
<1> QED  BY <1>1, <1>4, <1>5 DEF Network

\* What decode_ipv4 makes of the bytes behind the header.
Ipv4Upper(f, left, ip) ==
  IF is_first(f) THEN decode_l4(f, f.proto, left, ip) ELSE opaque(left, ip)

Ipv4Sane(f, left) == left >= 20 /\ f.version_ok /\ f.ihl >= 20

\* The three exits of decode_ipv4: refused, cut short, handed to the transport.
LEMMA Ipv4Cases ==
  ASSUME NEW f, IsFrame(f), NEW left \in Nat, NEW w
  PROVE  /\ ~Ipv4Sane(f, left) => decode_ipv4(f, left, Base(w)) = failed(Base(w))
         /\ Ipv4Sane(f, left) /\ left < f.ihl =>
              decode_ipv4(f, left, Base(w)) = cut_short(Ipv4Read(f, left, w))
         /\ Ipv4Sane(f, left) /\ left >= f.ihl =>
              /\ left - f.ihl \in Nat
              /\ decode_ipv4(f, left, Base(w)) =
                   Ipv4Upper(f, left - f.ihl, Ipv4Read(f, left, w))
<1>1. f.ihl \in Nat
  BY DEF IsFrame
<1>2. CASE ~Ipv4Sane(f, left)
  <2>1. ~take(left, 20) \/ ~f.version_ok \/ f.ihl < 20
    BY <1>1, <1>2 DEF Ipv4Sane, take
  <2>2. ~(take(left, 20) /\ f.version_ok /\ f.ihl >= 20)
    BY <1>1, <2>1
  <2> QED  BY <1>2, <2>1, <2>2 DEF decode_ipv4
<1>3. CASE Ipv4Sane(f, left) /\ left < f.ihl
  <2>1. /\ take(left, 20) /\ f.version_ok /\ f.ihl >= 20 /\ ~(f.ihl < 20)
        /\ ~take(left - 20, f.ihl - 20)
    BY <1>1, <1>3 DEF Ipv4Sane, take
  <2>2. PICK ip : ip = Ipv4Read(f, left, w)
    OBVIOUS
  <2>3. decode_ipv4(f, left, Base(w)) = cut_short(ip)
    BY <2>1, <2>2 DEF decode_ipv4, Ipv4Read
  <2> QED  BY <1>1, <1>3, <2>2, <2>3
<1>4. CASE Ipv4Sane(f, left) /\ left >= f.ihl
  <2>1. /\ take(left, 20) /\ f.version_ok /\ f.ihl >= 20 /\ ~(f.ihl < 20)
        /\ take(left - 20, f.ihl - 20)
    BY <1>1, <1>4 DEF Ipv4Sane, take
  <2>2. PICK ip : ip = Ipv4Read(f, left, w)
    OBVIOUS
  <2>3. decode_ipv4(f, left, Base(w)) = Ipv4Upper(f, left - f.ihl, ip)
    BY <2>1, <2>2 DEF decode_ipv4, Ipv4Read, Ipv4Upper
  <2>4. left - f.ihl \in Nat
    BY <1>1, <1>4
  <2> QED  BY <1>1, <1>4, <2>2, <2>3, <2>4
<1> QED  BY <1>1, <1>2, <1>3, <1>4

\* The transport part of an IPv4 packet, for any two lengths.
LEMMA Ipv4UpperFacts ==
  ASSUME NEW f, IsFrame(f), NEW w, NEW ip \in Network(f, w), NEW left \in Nat, NEW more \in Nat,
         left <= more
  PROVE  /\ Transported(Ipv4Upper(f, left, ip), ip, f, w)
         /\ Shows(Ipv4Upper(f, left, ip).out, Ipv4Upper(f, more, ip).out)
<1>1. CASE is_first(f)
  <2>1. f.proto \in {f.proto, "none"}
    OBVIOUS
  <2>2. /\ Transported(decode_l4(f, f.proto, left, ip), ip, f, w)
        /\ Shows(decode_l4(f, f.proto, left, ip).out, decode_l4(f, f.proto, more, ip).out)
    BY <2>1, TransportDecoded, TransportShows
  <2> QED  BY <1>1, <2>2 DEF Ipv4Upper
<1>2. CASE ~is_first(f)
  BY <1>2, OpaqueDecoded, OpaqueShows DEF Ipv4Upper
<1> QED  BY <1>1, <1>2

\* decode_ipv4 yields a parsed packet, IPv4 when its header was sane.
LEMMA Ipv4Parsed ==
  ASSUME NEW f, IsFrame(f), NEW w, NEW left \in Nat
  PROVE  /\ Parsed(decode_ipv4(f, left, Base(w)), f, w)
         /\ Ipv4Sane(f, left) => decode_ipv4(f, left, Base(w)).out.l3 = "IPv4"
<1>1. PICK ip \in Network(f, w) :
        ip = Ipv4Read(f, left, w) /\ ip.l3 = "IPv4" /\ ip.l4 = "Unknown"
  BY Ipv4ReadType, Zenon
<1>2. f.ihl \in Nat
  BY DEF IsFrame
<1>3. CASE ~Ipv4Sane(f, left)
  BY <1>3, Ipv4Cases, RefusedFacts
<1>4. CASE Ipv4Sane(f, left) /\ left < f.ihl
  <2>1. decode_ipv4(f, left, Base(w)) = cut_short(ip)
    BY <1>1, <1>4, Ipv4Cases
  <2>2. cut_short(ip).out.l3 = ip.l3
    BY DEF cut_short, done, Network, Outs
  <2> QED  BY <1>1, <2>1, <2>2, CutShort
<1>5. CASE Ipv4Sane(f, left) /\ left >= f.ihl
  <2>1. PICK n \in Nat : n = left - f.ihl
    BY <1>2, <1>5
  <2>2. decode_ipv4(f, left, Base(w)) = Ipv4Upper(f, n, ip)
    BY <1>1, <1>5, <2>1, Ipv4Cases
  <2>3. Transported(Ipv4Upper(f, n, ip), ip, f, w)
    BY Ipv4UpperFacts
  <2>4. PICK r : r = Ipv4Upper(f, n, ip)
    OBVIOUS
  <2>5. Transported(r, ip, f, w)
    BY <2>3, <2>4
  <2>6. Parsed(r, f, w) /\ r.out.l3 = ip.l3
    BY <2>5, Looked
  <2> QED  BY <1>1, <2>2, <2>4, <2>6
<1> QED  BY <1>2, <1>3, <1>4, <1>5

\* decode_ipv4 with fewer bytes only hides what it shows with more.
LEMMA Ipv4Hidden ==
  ASSUME NEW f, IsFrame(f), NEW w, NEW left \in Nat, NEW more \in Nat, left <= more
  PROVE  Hidden(decode_ipv4(f, left, Base(w)).out, decode_ipv4(f, more, Base(w)).out)
<1>1. f.ihl \in Nat
  BY DEF IsFrame
<1>2. PICK y : y = decode_ipv4(f, more, Base(w)).out
  OBVIOUS
<1>3. y \in Outs(f, w) /\ (Ipv4Sane(f, more) => y.l3 = "IPv4")
  BY <1>2, Ipv4Parsed DEF Parsed
<1>4. Ipv4Sane(f, left) => Ipv4Sane(f, more)
  BY DEF Ipv4Sane
<1>5. CASE ~Ipv4Sane(f, left)
  BY <1>2, <1>3, <1>5, Ipv4Cases, RefusedFacts
<1>6. PICK ip \in Network(f, w) :
        ip = Ipv4Read(f, left, w) /\ ip.l3 = "IPv4" /\ ip.l4 = "Unknown"
  BY Ipv4ReadType, Zenon
<1>7. CASE Ipv4Sane(f, left) /\ left < f.ihl
  <2>1. decode_ipv4(f, left, Base(w)) = cut_short(ip)
    BY <1>6, <1>7, Ipv4Cases
  <2> QED  BY <1>2, <1>3, <1>4, <1>6, <1>7, <2>1, CutShort
<1>8. CASE Ipv4Sane(f, left) /\ left >= f.ihl
  <2>1. PICK n \in Nat, m \in Nat : n = left - f.ihl /\ m = more - f.ihl /\ n <= m
    BY <1>1, <1>8
  <2>2. Ipv4Read(f, more, w) = ip
    <3>1. (left - 20) + 20 >= f.ihl /\ (more - 20) + 20 >= f.ihl
      BY <1>1, <1>8
    <3> QED  BY <1>6, <3>1 DEF Ipv4Read
  <2>3. /\ decode_ipv4(f, left, Base(w)) = Ipv4Upper(f, n, ip)
        /\ decode_ipv4(f, more, Base(w)) = Ipv4Upper(f, m, ip)
    <3>1. more >= f.ihl
      BY <1>1, <1>8
    <3> QED  BY <1>4, <1>6, <1>8, <2>1, <2>2, <3>1, Ipv4Cases
  <2>4. /\ Transported(Ipv4Upper(f, n, ip), ip, f, w)
        /\ Transported(Ipv4Upper(f, m, ip), ip, f, w)
        /\ Shows(Ipv4Upper(f, n, ip).out, Ipv4Upper(f, m, ip).out)
    BY <2>1, Ipv4UpperFacts
  <2> QED  BY <2>3, <2>4, LookedHidden
<1> QED  BY <1>1, <1>5, <1>7, <1>8

\* The IPv6 header and its extensions, and what decode_ipv6 makes of the bytes behind them.
Ipv6Read(f, at, w) ==
  [Base(w) EXCEPT !.l3 = "IPv6", !.src = f.src, !.fragmented = at.fragmented,
                  !.first_fragment = at.first]
Ipv6Upper(f, at, ip) ==
  IF at.first THEN decode_l4(f, upper_proto(f), at.left, ip)
  ELSE done([ip EXCEPT !.l4 = "Other"])

Ipv6Sane(f, left) == left >= 40 /\ f.version_ok

\* What decode_ipv6 has read after the walk of the extension headers.
LEMMA Ipv6ReadType ==
  ASSUME NEW f, NEW at \in Walks, NEW w
  PROVE  /\ Ipv6Read(f, at, w) \in Network(f, w)
         /\ Ipv6Read(f, at, w).l4 = "Unknown" /\ Ipv6Read(f, at, w).l3 = "IPv6"
         /\ Ipv6Read(f, at, w).first_fragment = at.first
<1>1. PICK a, b : a = at.fragmented /\ b = at.first
  OBVIOUS
<1>2. a \in BOOLEAN /\ b \in BOOLEAN
  BY <1>1 DEF Walks
<1>3. PICK x : x = [Base(w) EXCEPT !.l3 = "IPv6", !.src = f.src, !.fragmented = a,
                                   !.first_fragment = b]
  OBVIOUS
<1>4. Ipv6Read(f, at, w) = x
  BY <1>1, <1>3 DEF Ipv6Read
<1>5. /\ x \in Outs(f, w) /\ x.l3 = "IPv6" /\ x.l4 = "Unknown" /\ x.src = f.src
      /\ x.payload_len = 0 /\ x.truncated = FALSE /\ x.error = FALSE /\ x.first_fragment = b
  BY <1>2, <1>3 DEF Outs, L4s, Base, NoPacket
<1> QED  BY <1>1, <1>4, <1>5 DEF Network

\* The three exits of decode_ipv6: refused, cut short, handed to the transport.
LEMMA Ipv6Cases ==
  ASSUME NEW f, NEW left \in Nat, NEW w, NEW at, at = walk(f, left - 40)
  PROVE  /\ ~Ipv6Sane(f, left) => decode_ipv6(f, left, Base(w)) = failed(Base(w))
         /\ Ipv6Sane(f, left) /\ at.truncated =>
              decode_ipv6(f, left, Base(w)) = cut_short(Ipv6Read(f, at, w))
         /\ Ipv6Sane(f, left) /\ ~at.truncated =>
              decode_ipv6(f, left, Base(w)) = Ipv6Upper(f, at, Ipv6Read(f, at, w))
<1>1. PICK ip : ip = Ipv6Read(f, at, w)
  OBVIOUS
<1>2. Ipv6Sane(f, left) <=> take(left, 40) /\ f.version_ok
  BY DEF Ipv6Sane, take
<1>3. CASE ~Ipv6Sane(f, left)
  BY <1>2, <1>3 DEF decode_ipv6
<1>4. CASE Ipv6Sane(f, left) /\ at.truncated
  <2>1. decode_ipv6(f, left, Base(w)) = cut_short(ip)
    BY <1>1, <1>2, <1>4 DEF decode_ipv6, Ipv6Read
  <2> QED  BY <1>1, <1>4, <2>1
<1>5. CASE Ipv6Sane(f, left) /\ ~at.truncated
  <2>1. decode_ipv6(f, left, Base(w)) = Ipv6Upper(f, at, ip)
    BY <1>1, <1>2, <1>5 DEF decode_ipv6, Ipv6Read, Ipv6Upper
  <2> QED  BY <1>1, <1>5, <2>1
<1> QED  BY <1>3, <1>4, <1>5

\* The transport part of an IPv6 packet, for any two walks of the same headers.
LEMMA Ipv6UpperFacts ==
  ASSUME NEW f, IsFrame(f), NEW w, NEW ip \in Network(f, w),
         NEW a \in Walks, NEW b \in Walks, a.left \in Nat, b.left \in Nat, a.left <= b.left,
         a.first = b.first
  PROVE  /\ Transported(Ipv6Upper(f, a, ip), ip, f, w)
         /\ Shows(Ipv6Upper(f, a, ip).out, Ipv6Upper(f, b, ip).out)
<1>1. CASE a.first
  <2>1. PICK proto \in {f.proto, "none"} : proto = upper_proto(f)
    BY DEF upper_proto
  <2>2. PICK n \in Nat, m \in Nat : n = a.left /\ m = b.left /\ n <= m
    OBVIOUS
  <2>3. /\ Transported(decode_l4(f, proto, n, ip), ip, f, w)
        /\ Shows(decode_l4(f, proto, n, ip).out, decode_l4(f, proto, m, ip).out)
    BY <2>2, TransportDecoded, TransportShows
  <2>4. Ipv6Upper(f, a, ip) = decode_l4(f, proto, n, ip)
    BY <1>1, <2>1, <2>2 DEF Ipv6Upper
  <2>5. b.first
    BY <1>1, Zenon
  <2>6. Ipv6Upper(f, b, ip) = decode_l4(f, proto, m, ip)
    BY <2>1, <2>2, <2>5 DEF Ipv6Upper
  <2> QED  BY <2>3, <2>4, <2>6
<1>2. CASE ~a.first
  <2>1. PICK x : x = [ip EXCEPT !.l4 = "Other"]
    OBVIOUS
  <2>2. Alike(x, ip, f, w)
    <3>1. Alike(ip, ip, f, w) /\ "Other" \in L4s
      BY DEF Network, Alike, L4s
    <3> QED  BY <2>1, <3>1, SetL4, Zenon
  <2>3. Transported(done(x), ip, f, w)
    BY <2>2, Returned
  <2>4. ~b.first
    BY <1>2, Zenon
  <2>5. Ipv6Upper(f, a, ip) = done(x) /\ Ipv6Upper(f, b, ip) = done(x)
    BY <1>2, <2>1, <2>4 DEF Ipv6Upper
  <2>6. Shows(x, x)
    <3>1. x.payload_len \in Nat /\ x.truncated = FALSE /\ x.error = FALSE
      BY <2>1 DEF Network, Outs
    <3> QED  BY <3>1 DEF Shows
  <2>7. done(x).out = x
    BY DEF done
  <2> QED  BY <2>3, <2>5, <2>6, <2>7
<1> QED  BY <1>1, <1>2

\* decode_ipv6 yields a parsed packet, IPv6 when its header was sane.
LEMMA Ipv6Parsed ==
  ASSUME NEW f, IsFrame(f), NEW w, NEW left \in Nat
  PROVE  /\ Parsed(decode_ipv6(f, left, Base(w)), f, w)
         /\ Ipv6Sane(f, left) => decode_ipv6(f, left, Base(w)).out.l3 = "IPv6"
<1>1. CASE ~Ipv6Sane(f, left)
  BY <1>1, Ipv6Cases, RefusedFacts
<1>2. CASE Ipv6Sane(f, left)
  <2>1. left - 40 \in Nat
    BY <1>2 DEF Ipv6Sane
  <2>2. PICK at \in Walks : at = walk(f, left - 40) /\ at.left \in Nat
    BY <2>1, WalkType, Zenon
  <2>3. PICK ip \in Network(f, w) :
          ip = Ipv6Read(f, at, w) /\ ip.l3 = "IPv6" /\ ip.l4 = "Unknown"
    BY Ipv6ReadType, Zenon
  <2>4. CASE at.truncated
    <3>1. decode_ipv6(f, left, Base(w)) = cut_short(ip)
      BY <1>2, <2>2, <2>3, <2>4, Ipv6Cases
    <3>2. cut_short(ip).out.l3 = ip.l3
      BY DEF cut_short, done, Network, Outs
    <3> QED  BY <2>3, <3>1, <3>2, CutShort
  <2>5. CASE ~at.truncated
    <3>1. PICK r : r = Ipv6Upper(f, at, ip)
      OBVIOUS
    <3>2. decode_ipv6(f, left, Base(w)) = r
      BY <1>2, <2>2, <2>3, <2>5, <3>1, Ipv6Cases
    <3>3. Transported(r, ip, f, w)
      BY <2>2, <3>1, Ipv6UpperFacts
    <3>4. Parsed(r, f, w) /\ r.out.l3 = ip.l3
      BY <3>3, Looked
    <3> QED  BY <2>3, <3>2, <3>4
  <2> QED  BY <2>4, <2>5
<1> QED  BY <1>1, <1>2

\* decode_ipv6 with fewer bytes only hides what it shows with more.
LEMMA Ipv6Hidden ==
  ASSUME NEW f, IsFrame(f), NEW w, NEW left \in Nat, NEW more \in Nat, left <= more
  PROVE  Hidden(decode_ipv6(f, left, Base(w)).out, decode_ipv6(f, more, Base(w)).out)
<1>1. PICK y : y = decode_ipv6(f, more, Base(w)).out
  OBVIOUS
<1>2. y \in Outs(f, w) /\ (Ipv6Sane(f, more) => y.l3 = "IPv6")
  BY <1>1, Ipv6Parsed DEF Parsed
<1>3. CASE ~Ipv6Sane(f, left)
  BY <1>1, <1>2, <1>3, Ipv6Cases, RefusedFacts
<1>4. CASE Ipv6Sane(f, left)
  <2>1. left - 40 \in Nat /\ more - 40 \in Nat /\ left - 40 <= more - 40 /\ Ipv6Sane(f, more)
    BY <1>4 DEF Ipv6Sane
  <2>2. PICK a \in Walks : a = walk(f, left - 40) /\ a.left \in Nat
    BY <2>1, WalkType, Zenon
  <2>3. PICK b \in Walks : b = walk(f, more - 40) /\ b.left \in Nat
    BY <2>1, WalkType, Zenon
  <2>4. Ahead(a, b)
    BY <2>1, <2>2, <2>3, WalkAhead
  <2>5. PICK ip \in Network(f, w) :
          ip = Ipv6Read(f, a, w) /\ ip.l3 = "IPv6" /\ ip.l4 = "Unknown"
    BY Ipv6ReadType, Zenon
  <2>6. CASE a.truncated
    <3>1. decode_ipv6(f, left, Base(w)) = cut_short(ip)
      BY <1>4, <2>2, <2>5, <2>6, Ipv6Cases
    <3> QED  BY <1>1, <1>2, <2>1, <2>5, <3>1, CutShort
  <2>7. CASE ~a.truncated
    <3>1. ~b.truncated /\ a.left <= b.left
      BY <2>4, <2>7 DEF Ahead
    <3>2. a.first = b.first /\ a.fragmented = b.fragmented
      BY <2>4, <2>7, Zenon DEF Ahead
    <3>3. Ipv6Read(f, b, w) = ip
      BY <2>5, <3>2, Zenon DEF Ipv6Read
    <3>4. PICK r, q : r = Ipv6Upper(f, a, ip) /\ q = Ipv6Upper(f, b, ip)
      OBVIOUS
    <3>5. decode_ipv6(f, left, Base(w)) = r
      BY <1>4, <2>2, <2>5, <2>7, <3>4, Ipv6Cases
    <3>6. decode_ipv6(f, more, Base(w)) = q
      BY <2>1, <2>3, <3>1, <3>3, <3>4, Ipv6Cases
    <3>7. Transported(r, ip, f, w) /\ Shows(r.out, q.out)
      BY <2>2, <2>3, <3>1, <3>2, <3>4, Ipv6UpperFacts
    <3>8. Transported(q, ip, f, w)
      BY <2>3, <3>4, Ipv6UpperFacts
    <3> QED  BY <3>5, <3>6, <3>7, <3>8, LookedHidden
  <2> QED  BY <2>6, <2>7
<1> QED  BY <1>3, <1>4

\* An ARP packet has nothing to decode further.
LEMMA ArpParsed ==
  ASSUME NEW f, NEW w
  PROVE  LET r == done([Base(w) EXCEPT !.l3 = "ARP"]) IN Parsed(r, f, w) /\ Hidden(r.out, r.out)
<1>1. PICK x : x = [Base(w) EXCEPT !.l3 = "ARP"]
  OBVIOUS
<1>2. /\ x \in Outs(f, w) /\ x.l3 = "ARP" /\ x.l4 = "Unknown" /\ x.error = FALSE
      /\ x.payload_len = 0
  BY <1>1 DEF Outs, L4s, Base, NoPacket
<1>3. Parsed([ok |-> TRUE, out |-> x], f, w) /\ Hidden(x, x)
  BY <1>2 DEF Parsed, Hidden
<1> QED  BY <1>1, <1>3 DEF done

\* The network layer yields a parsed packet for every ethertype.
LEMMA NetworkParsed ==
  ASSUME NEW f, IsFrame(f), NEW w, NEW left \in Nat
  PROVE  Parsed(decode_l3(f, left, Base(w)), f, w)
<1>1. CASE f.net = "IPv4"
  BY <1>1, Ipv4Parsed DEF decode_l3
<1>2. CASE f.net = "IPv6"
  BY <1>2, Ipv6Parsed DEF decode_l3
<1>3. CASE f.net = "ARP"
  BY <1>3, ArpParsed DEF decode_l3
<1>4. CASE f.net = "else"
  BY <1>4, RefusedFacts DEF decode_l3
<1> QED  BY <1>1, <1>2, <1>3, <1>4 DEF IsFrame

\* The network layer with fewer bytes only hides what it shows with more.
LEMMA NetworkHidden ==
  ASSUME NEW f, IsFrame(f), NEW w, NEW left \in Nat, NEW more \in Nat, left <= more
  PROVE  Hidden(decode_l3(f, left, Base(w)).out, decode_l3(f, more, Base(w)).out)
<1>1. CASE f.net = "IPv4"
  BY <1>1, Ipv4Hidden DEF decode_l3
<1>2. CASE f.net = "IPv6"
  BY <1>2, Ipv6Hidden DEF decode_l3
<1>3. CASE f.net = "ARP"
  BY <1>3, ArpParsed DEF decode_l3
<1>4. CASE f.net = "else"
  <2>1. failed(Base(w)).out = Refused(w) /\ failed(Base(w)).out \in Outs(f, w)
    BY RefusedFacts DEF Parsed
  <2>2. Hidden(Refused(w), Refused(w))
    BY <2>1, RefusedFacts
  <2> QED  BY <1>4, <2>1, <2>2 DEF decode_l3
<1> QED  BY <1>1, <1>2, <1>3, <1>4 DEF IsFrame

\* The link header and the VLAN tags that are unwrapped.
LinkPart(f) == link_len(f) + 4 * vlan_tags(f)
Refuses(f, caplen) ==
  \/ caplen = 0 \/ f.link = "unsupported" \/ caplen < LinkPart(f) \/ f.tags > vlan_tags(f)

\* The link header and its VLAN tags have a length, and no more tags than the frame.
LEMMA LinkPartType ==
  ASSUME NEW f, IsFrame(f)
  PROVE  LinkPart(f) \in Nat /\ vlan_tags(f) \in 0 .. f.tags
<1>1. vlan_tags(f) \in 0 .. f.tags
  BY DEF IsFrame, vlan_tags, MaxTags
<1>2. link_len(f) \in Nat
  BY DEF IsFrame, link_len
<1> QED  BY <1>1, <1>2 DEF LinkPart, IsFrame

\* The two exits of decode_packet: the link layer refused, or the network layer read.
LEMMA PacketCases ==
  ASSUME NEW f, IsFrame(f), NEW caplen \in Nat, NEW w
  PROVE  /\ Refuses(f, caplen) => decode_packet(f, caplen, w) = failed(Base(w))
         /\ ~Refuses(f, caplen) =>
              /\ caplen - LinkPart(f) \in Nat
              /\ decode_packet(f, caplen, w) = decode_l3(f, caplen - LinkPart(f), Base(w))
<1>1. LinkPart(f) \in Nat
  BY LinkPartType
<1>2. PICK n \in Nat : n = LinkPart(f)
  BY <1>1
<1>3. Refuses(f, caplen) <=> \/ caplen = 0 \/ f.link = "unsupported" \/ ~take(caplen, n)
                             \/ f.tags > vlan_tags(f)
  BY <1>2 DEF Refuses, take
<1>4. PICK out : out = Base(w)
  OBVIOUS
<1>5. decode_packet(f, caplen, w) =
        IF Refuses(f, caplen) THEN failed(out) ELSE decode_l3(f, caplen - n, out)
  <2>1. decode_packet(f, caplen, w) =
          IF caplen = 0 \/ f.link = "unsupported" \/ ~take(caplen, n) \/ f.tags > vlan_tags(f)
            THEN failed(out) ELSE decode_l3(f, caplen - n, out)
    BY <1>2, <1>4 DEF decode_packet, Base, LinkPart
  <2> QED  BY <1>3, <2>1
<1>6. ~Refuses(f, caplen) => caplen - n \in Nat
  BY <1>3 DEF take
<1> QED  BY <1>2, <1>4, <1>5, <1>6

\* What decode_packet returns for any frame and any number of captured bytes.
LEMMA PacketParsed ==
  ASSUME NEW f, IsFrame(f), NEW caplen \in Nat, NEW w
  PROVE  Parsed(decode_packet(f, caplen, w), f, w)
<1>1. CASE Refuses(f, caplen)
  BY <1>1, PacketCases, RefusedFacts
<1>2. CASE ~Refuses(f, caplen)
  BY <1>2, PacketCases, NetworkParsed
<1> QED  BY <1>1, <1>2

\* Fewer captured bytes only hide.
LEMMA PacketHidden ==
  ASSUME NEW f, IsFrame(f), NEW caplen \in Nat, NEW more \in Nat, caplen <= more, NEW w
  PROVE  Hidden(decode_packet(f, caplen, w).out, decode_packet(f, more, w).out)
<1>1. PICK y : y = decode_packet(f, more, w).out
  OBVIOUS
<1>2. y \in Outs(f, w)
  BY <1>1, PacketParsed DEF Parsed
<1>3. CASE Refuses(f, caplen)
  BY <1>1, <1>2, <1>3, PacketCases, RefusedFacts
<1>4. CASE ~Refuses(f, caplen)
  <2>1. LinkPart(f) \in Nat
    BY LinkPartType
  <2>2. ~Refuses(f, more)
    BY <1>4, <2>1 DEF Refuses
  <2>3. PICK n \in Nat, m \in Nat : n = caplen - LinkPart(f) /\ m = more - LinkPart(f) /\ n <= m
    BY <1>4, <2>1, <2>2, PacketCases
  <2>4. /\ decode_packet(f, caplen, w) = decode_l3(f, n, Base(w))
        /\ decode_packet(f, more, w) = decode_l3(f, m, Base(w))
    BY <1>4, <2>2, <2>3, PacketCases
  <2> QED  BY <2>3, <2>4, NetworkHidden
<1> QED  BY <1>3, <1>4

-----------------------------------------------------------------------------
(* Frames whose headers were captured.                                     *)

\* What is decoded of a wellformed frame with n bytes behind its headers.
Whole4(x, f, n) ==
  /\ ~x.error /\ ~x.truncated
  /\ x.l4 = IF frame_is_first(f) /\ f.proto # "else" THEN f.proto ELSE "Other"
  /\ x.l4 \in {"TCP", "UDP"} => x.sport = f.sport /\ x.dport = f.dport
  /\ x.l4 = "UDP" => x.payload_len = Min({n, f.payload})
  /\ x.l4 = "TCP" /\ f.pad = 0 => x.payload_len = n

\* The transport header that is there.
LEMMA TransportWhole ==
  ASSUME NEW f, IsFrame(f), wellformed(f), frame_is_first(f), NEW w, NEW ip \in Network(f, w),
         NEW n \in Nat
  PROVE  /\ transport_len(f) \in Nat
         /\ Whole4(decode_l4(f, f.proto, transport_len(f) + n, ip).out, f, n)
<1>1. f.net \in {"IPv4", "IPv6"} /\ f.hlen >= 20 /\ f.udp_len = 8 + f.payload
  BY DEF wellformed
<1>2. f.hlen \in Nat /\ f.payload \in Nat
  BY DEF IsFrame
<1>3. CASE f.proto = "TCP"
  <2>1. transport_len(f) = f.hlen
    BY <1>1, <1>2, <1>3 DEF transport_len
  <2>2. PICK left \in Nat : left = f.hlen + n
    BY <1>2
  <2>3. take(left, 20) /\ take(left - 20, f.hlen - 20) /\ ~(f.hlen < 20) /\ left - f.hlen = n
    BY <1>1, <1>2, <2>2 DEF take
  <2>4. PICK x : x = decode_tcp(f, left, ip).out
    OBVIOUS
  <2>5. /\ x.error = FALSE /\ x.truncated = FALSE /\ x.l4 = "TCP"
        /\ x.sport = f.sport /\ x.dport = f.dport /\ x.payload_len = n
    BY <1>1, <2>3, <2>4 DEF decode_tcp, done, Network, Outs
  <2>6. Whole4(x, f, n)
    BY <1>3, <2>5 DEF Whole4
  <2> QED  BY <1>2, <1>3, <2>1, <2>2, <2>4, <2>6 DEF decode_l4
<1>4. CASE f.proto = "UDP"
  <2>1. transport_len(f) = 8
    BY <1>1, <1>2, <1>4 DEF transport_len
  <2>2. take(8 + n, 8) /\ (8 + n) - 8 = n
    BY DEF take
  <2>3. udp_payload(f, n) = Min({n, f.payload})
    <3>1. udp_payload(f, n) = IF f.payload < n THEN f.payload ELSE n
      BY <1>1, <1>2 DEF udp_payload
    <3>2. Min({n, f.payload}) = IF n < f.payload THEN n ELSE f.payload
      BY <1>2, MinOfTwo
    <3> QED  BY <1>2, <3>1, <3>2
  <2>4. PICK x : x = decode_udp(f, 8 + n, ip).out
    OBVIOUS
  <2>5. /\ x.error = FALSE /\ x.truncated = FALSE /\ x.l4 = "UDP"
        /\ x.sport = f.sport /\ x.dport = f.dport /\ x.payload_len = udp_payload(f, n)
    BY <2>2, <2>4 DEF decode_udp, done, Network, Outs
  <2>6. Whole4(x, f, n)
    BY <1>4, <2>3, <2>5 DEF Whole4
  <2> QED  BY <1>4, <2>1, <2>4, <2>6 DEF decode_l4
<1>5. CASE f.proto \in {"ICMP", "ICMPv6"}
  <2>1. transport_len(f) = 4
    BY <1>1, <1>2, <1>5 DEF transport_len
  <2>2. take(4 + n, 4)
    BY DEF take
  <2>3. PICK x : x = decode_icmp(f, 4 + n, ip).out
    OBVIOUS
  <2>4. x.error = FALSE /\ x.truncated = FALSE /\ x.l4 = f.proto
    BY <2>2, <2>3 DEF decode_icmp, done, Network, Outs
  <2>5. Whole4(x, f, n)
    BY <1>5, <2>4 DEF Whole4
  <2> QED  BY <1>5, <2>1, <2>3, <2>5 DEF decode_l4
<1>6. CASE f.proto = "else"
  <2>1. transport_len(f) = 0
    BY <1>1, <1>2, <1>6 DEF transport_len
  <2>2. PICK x : x = opaque(n, ip).out
    OBVIOUS
  <2>3. x.error = FALSE /\ x.truncated = FALSE /\ x.l4 = "Other"
    BY <2>2 DEF opaque, done, Network, Outs
  <2>4. Whole4(x, f, n)
    BY <1>6, <2>3 DEF Whole4
  <2> QED  BY <1>6, <2>1, <2>2, <2>4 DEF decode_l4
<1> QED  BY <1>3, <1>4, <1>5, <1>6 DEF IsFrame

\* A later fragment shows no transport header.
LEMMA FragmentWhole ==
  ASSUME NEW f, ~frame_is_first(f), NEW w, NEW ip \in Network(f, w), NEW n
  PROVE  /\ transport_len(f) = 0
         /\ \A m : Whole4(opaque(m, ip).out, f, n)
         /\ Whole4(done([ip EXCEPT !.l4 = "Other"]).out, f, n)
<1>1. transport_len(f) = 0
  BY DEF transport_len
<1>2. ASSUME NEW x, x.error = FALSE, x.truncated = FALSE, x.l4 = "Other" PROVE Whole4(x, f, n)
  BY <1>2 DEF Whole4
<1>3. ASSUME NEW m PROVE Whole4(opaque(m, ip).out, f, n)
  <2>1. PICK x : x = opaque(m, ip).out
    OBVIOUS
  <2>2. x.error = FALSE /\ x.truncated = FALSE /\ x.l4 = "Other"
    BY <2>1 DEF opaque, done, Network, Outs
  <2> QED  BY <1>2, <2>1, <2>2
<1>4. Whole4(done([ip EXCEPT !.l4 = "Other"]).out, f, n)
  <2>1. PICK x : x = done([ip EXCEPT !.l4 = "Other"]).out
    OBVIOUS
  <2>2. x.error = FALSE /\ x.truncated = FALSE /\ x.l4 = "Other"
    BY <2>1 DEF done, Network, Outs
  <2> QED  BY <1>2, <2>1, <2>2
<1> QED  BY <1>1, <1>3, <1>4

\* No extension header reaches behind the last one.
LEMMA ExtInside ==
  ASSUME NEW f, IsFrame(f)
  PROVE  \A i \in 0 .. Len(f.ext) : ext_len(f)[i] <= ext_len(f)[Len(f.ext)]
<1>1. PICK N \in Nat : N = Len(f.ext)
  BY HopCountType
<1>2. \A i \in 1 .. N : f.ext[i].len \in Nat
  BY <1>1, HopCountType DEF Exts
<1>3. PICK t : t = ext_len(f)
  OBVIOUS
<1>4. /\ \A i \in 0 .. N : t[i] \in Nat
      /\ \A i \in 1 .. N : t[i] = t[i - 1] + f.ext[i].len
  BY <1>1, <1>3, ExtLength
<1>5. PICK S : S = {i \in 0 .. N : \A j \in 0 .. i : t[j] <= t[i]}
  OBVIOUS
<1>6. 0 \in S
  BY <1>4, <1>5
<1>7. ASSUME NEW i \in 1 .. N, i - 1 \in S PROVE i \in S
  <2>1. i \in 0 .. N /\ i - 1 \in 0 .. N /\ t[i] \in Nat /\ t[i - 1] \in Nat
    BY <1>4
  <2>2. t[i - 1] <= t[i]
    BY <1>2, <1>4, <2>1
  <2>3. ASSUME NEW j \in 0 .. i PROVE t[j] <= t[i]
    <3>1. CASE j = i
      BY <2>1, <3>1
    <3>2. CASE j # i
      <4>1. j \in 0 .. i - 1 /\ j \in 0 .. N
        BY <3>2
      <4>2. t[j] <= t[i - 1] /\ t[j] \in Nat
        BY <1>4, <1>5, <1>7, <4>1
      <4> QED  BY <2>1, <2>2, <4>2
    <3> QED  BY <3>1, <3>2
  <2> QED  BY <1>5, <2>1, <2>3
<1>8. \A i \in 0 .. N : i \in S
  BY <1>6, <1>7, UpTo
<1>9. N \in S
  BY <1>8
<1> QED  BY <1>1, <1>3, <1>5, <1>9

\* At most one fragment header, and none of the first i ones is a later fragment.
OneFragment(f) ==
  \A i, j \in 1 .. Len(f.ext) : f.ext[i].frag # "no" /\ f.ext[j].frag # "no" => i = j
NoLater(f, i) == \A j \in 1 .. i : f.ext[j].frag # "later"

\* With one fragment header at most, the walk decides "first fragment" hop by hop.
LEMMA NoLaterStep ==
  ASSUME NEW f, IsFrame(f), OneFragment(f), NEW i \in 1 .. Len(f.ext)
  PROVE  NoLater(f, i) <=> IF f.ext[i].frag = "no" THEN NoLater(f, i - 1)
                           ELSE f.ext[i].frag = "first"
<1>1. PICK N \in Nat : N = Len(f.ext)
  BY HopCountType
<1>2. \A j \in 1 .. N : f.ext[j].frag \in Fragments
  BY <1>1, HopCountType DEF Exts
<1>3. \A j \in 1 .. i : j = i \/ j \in 1 .. i - 1
  BY <1>1
<1>4. \A j \in 1 .. i - 1 : j \in 1 .. i /\ j \in 1 .. N /\ j # i
  BY <1>1
<1>5. CASE f.ext[i].frag = "no"
  <2>1. f.ext[i].frag # "later"
    BY <1>5
  <2>2. NoLater(f, i) <=> NoLater(f, i - 1)
    BY <1>3, <1>4, <2>1, Zenon DEF NoLater
  <2> QED  BY <1>5, <2>2
<1>6. CASE f.ext[i].frag # "no"
  <2>1. \A j \in 1 .. i - 1 : f.ext[j].frag = "no"
    BY <1>1, <1>4, <1>6 DEF OneFragment
  <2>2. \A j \in 1 .. i - 1 : f.ext[j].frag # "later"
    BY <2>1
  <2>3. i \in 1 .. i
    BY <1>1
  <2>4. f.ext[i].frag = "first" <=> f.ext[i].frag # "later"
    BY <1>1, <1>2, <1>6 DEF Fragments
  <2>5. NoLater(f, i) <=> f.ext[i].frag # "later"
    BY <1>3, <2>2, <2>3, Zenon DEF NoLater
  <2> QED  BY <1>6, <2>4, <2>5
<1> QED  BY <1>5, <1>6

\* The walk over headers that are all there.
Walked(at, f, i, left) ==
  ~at.truncated /\ at.left = left - ext_len(f)[i] /\ (at.first <=> NoLater(f, i))

\* A hop over a header that was captured reads it whole.
LEMMA WalkedStep ==
  ASSUME NEW f, IsFrame(f), OneFragment(f), NEW left \in Nat, NEW i \in 1 .. Len(f.ext),
         left >= ext_len(f)[i], NEW at \in Walks, Walked(at, f, i - 1, left)
  PROVE  Walked(Hop(f.ext[i], at), f, i, left)
<1>1. PICK e \in Exts : e = f.ext[i]
  BY HopCountType, Zenon
<1>2. Len(f.ext) \in Nat /\ e.len \in Nat
  BY HopCountType DEF Exts
<1>3. PICK m \in Nat, n \in Nat :
        m = ext_len(f)[i - 1] /\ n = ext_len(f)[i] /\ n = m + e.len
  <2>1. i \in 0 .. Len(f.ext) /\ i - 1 \in 0 .. Len(f.ext)
    BY <1>2
  <2> QED  BY <1>1, <2>1, ExtLength
<1>4. at.left = left - m /\ at.left >= e.len
  BY <1>2, <1>3 DEF Walked
<1>5. ~at.truncated
  BY DEF Walked
<1>6. PICK x : x = Hop(e, at)
  OBVIOUS
<1>7. ~x.truncated /\ x.left = at.left - e.len
  BY <1>4, <1>5, <1>6, HopCases
<1>8. x.left = left - n
  BY <1>2, <1>3, <1>4, <1>7
<1>9. x.first = IF e.frag = "no" THEN at.first ELSE e.frag = "first"
  <2>1. ~at.truncated /\ at.left >= e.len
    BY <1>4, <1>5
  <2> QED  BY <1>6, <2>1, HopCases, Zenon
<1>10. at.first <=> NoLater(f, i - 1)
  BY Zenon DEF Walked
<1>11. NoLater(f, i) <=> IF e.frag = "no" THEN NoLater(f, i - 1) ELSE e.frag = "first"
  BY <1>1, NoLaterStep
<1>12. x.first <=> NoLater(f, i)
  <2>1. CASE e.frag = "no"
    BY <1>9, <1>10, <1>11, <2>1, Zenon
  <2>2. CASE e.frag # "no"
    BY <1>9, <1>11, <2>2, Zenon
  <2> QED  BY <2>1, <2>2
<1> QED  BY <1>1, <1>3, <1>6, <1>7, <1>8, <1>12, Zenon DEF Walked

\* A walk over headers that were all captured reads them all.
LEMMA WalkWhole ==
  ASSUME NEW f, IsFrame(f), OneFragment(f), Len(f.ext) < MaxHops,
         NEW left \in Nat, left >= ext_len(f)[Len(f.ext)]
  PROVE  Walked(walk(f, left), f, Len(f.ext), left)
<1>1. PICK N \in Nat : N = Len(f.ext)
  BY HopCountType
<1>2. PICK h : h = hops(f, left)
  OBVIOUS
<1>3. /\ h \in [0 .. N -> Walks] /\ h[0] = HopStart(left)
      /\ \A i \in 1 .. N : h[i] = Hop(f.ext[i], h[i - 1])
  BY <1>1, <1>2, HopsIterate
<1>4. \A i \in 0 .. N : ext_len(f)[i] \in Nat /\ left >= ext_len(f)[i]
  BY <1>1, ExtInside, ExtLength
<1>5. PICK S : S = {i \in 0 .. N : Walked(h[i], f, i, left)}
  OBVIOUS
<1>6. 0 \in S
  <2>1. ext_len(f)[0] = 0 /\ NoLater(f, 0)
    BY ExtLength DEF NoLater
  <2>2. Walked(HopStart(left), f, 0, left)
    BY <2>1 DEF Walked, HopStart
  <2> QED  BY <1>3, <1>5, <2>2
<1>7. ASSUME NEW i \in 1 .. N, i - 1 \in S PROVE i \in S
  <2>1. /\ i \in 1 .. Len(f.ext) /\ i \in 0 .. N /\ h[i - 1] \in Walks
        /\ left >= ext_len(f)[i]
    BY <1>1, <1>3, <1>4
  <2>2. Walked(h[i - 1], f, i - 1, left)
    BY <1>5, <1>7
  <2>3. Walked(Hop(f.ext[i], h[i - 1]), f, i, left)
    BY <2>1, <2>2, WalkedStep
  <2> QED  BY <1>3, <1>5, <2>1, <2>3
<1>8. \A i \in 0 .. N : i \in S
  BY <1>6, <1>7, UpTo
<1>9. Walked(h[N], f, N, left)
  BY <1>5, <1>8
<1> QED  BY <1>1, <1>2, <1>9 DEF walk

\* The lengths of the headers of a frame.
LEMMA HeaderLengths ==
  ASSUME NEW f, IsFrame(f)
  PROVE  /\ link_len(f) \in Nat /\ ip_len(f) \in Nat /\ ip_len(f) >= 20
         /\ transport_len(f) \in Nat
         /\ headers_len(f) \in Nat /\ wire_len(f) \in Nat /\ headers_len(f) <= wire_len(f)
<1>1. link_len(f) \in Nat
  BY DEF link_len
<1>2. PICK e \in Nat : e = ext_len(f)[Len(f.ext)]
  <2>1. ext_len(f)[Len(f.ext)] \in Nat
    BY ExtLength, HopCountType
  <2> QED  BY <2>1, Zenon
<1>3. ip_len(f) \in Nat /\ ip_len(f) >= 20
  <2>1. f.ihl \in Nat
    BY DEF IsFrame
  <2> QED  BY <1>2, <2>1 DEF ip_len
<1>4. transport_len(f) \in Nat
  <2>1. f.hlen \in Nat
    BY DEF IsFrame
  <2> QED  BY <2>1 DEF transport_len
<1>5. f.tags \in Nat /\ f.payload \in Nat /\ f.pad \in Nat
  BY DEF IsFrame
<1>6. headers_len(f) \in Nat
  BY <1>1, <1>3, <1>4, <1>5 DEF headers_len
<1> QED  BY <1>1, <1>3, <1>4, <1>5, <1>6 DEF wire_len

\* An IPv4 packet with its headers and n more bytes.
LEMMA Ipv4Whole ==
  ASSUME NEW f, IsFrame(f), wellformed(f), f.net = "IPv4", NEW w, NEW n \in Nat
  PROVE  Whole4(decode_ipv4(f, ip_len(f) + transport_len(f) + n, Base(w)).out, f, n)
<1>1. f.ihl >= 20 /\ f.ihl \in Nat /\ f.version_ok
  BY DEF wellformed, IsFrame
<1>2. ip_len(f) = f.ihl
  BY <1>1 DEF ip_len
<1>3. frame_is_first(f) <=> is_first(f)
  BY DEF frame_is_first, is_first
<1>4. PICK t \in Nat : t = transport_len(f)
  BY HeaderLengths
<1>5. PICK left \in Nat : left = f.ihl + t + n
  BY <1>1
<1>6. PICK ip \in Network(f, w) : ip = Ipv4Read(f, left, w)
  BY Ipv4ReadType, Zenon
<1>7. decode_ipv4(f, left, Base(w)) = Ipv4Upper(f, t + n, ip)
  <2>1. Ipv4Sane(f, left) /\ left >= f.ihl /\ left - f.ihl = t + n
    BY <1>1, <1>5 DEF Ipv4Sane
  <2> QED  BY <1>6, <2>1, Ipv4Cases
<1>8. Whole4(Ipv4Upper(f, t + n, ip).out, f, n)
  <2>1. CASE is_first(f)
    BY <1>3, <1>4, <2>1, TransportWhole DEF Ipv4Upper
  <2>2. CASE ~is_first(f)
    BY <1>3, <2>2, FragmentWhole DEF Ipv4Upper
  <2> QED  BY <2>1, <2>2
<1> QED  BY <1>1, <1>2, <1>4, <1>5, <1>7, <1>8

\* An IPv6 packet with its headers and n more bytes.
LEMMA Ipv6Whole ==
  ASSUME NEW f, IsFrame(f), wellformed(f), f.net = "IPv6", NEW w, NEW n \in Nat
  PROVE  Whole4(decode_ipv6(f, ip_len(f) + transport_len(f) + n, Base(w)).out, f, n)
<1>1. f.version_ok /\ OneFragment(f) /\ Len(f.ext) < MaxHops
  BY DEF wellformed, OneFragment
<1>2. PICK N \in Nat : N = Len(f.ext)
  BY HopCountType
<1>3. PICK e \in Nat : e = ext_len(f)[N]
  <2>1. ext_len(f)[N] \in Nat
    BY <1>2, ExtLength
  <2> QED  BY <2>1, Zenon
<1>4. ip_len(f) = 40 + e
  BY <1>2, <1>3 DEF ip_len
<1>5. frame_is_first(f) <=> NoLater(f, N)
  BY <1>2 DEF frame_is_first, NoLater
<1>6. PICK t \in Nat : t = transport_len(f)
  BY HeaderLengths
<1>7. PICK left \in Nat : left = 40 + e + t + n
  OBVIOUS
<1>8. left - 40 \in Nat /\ left - 40 >= e /\ Ipv6Sane(f, left)
  BY <1>1, <1>7 DEF Ipv6Sane
<1>9. PICK at \in Walks : at = walk(f, left - 40)
  BY <1>8, WalkType, Zenon
<1>10. Walked(at, f, N, left - 40)
  BY <1>1, <1>2, <1>3, <1>8, <1>9, WalkWhole
<1>11. ~at.truncated /\ at.left = t + n
  BY <1>3, <1>7, <1>10 DEF Walked
<1>12. at.first <=> frame_is_first(f)
  BY <1>5, <1>10, Zenon DEF Walked
<1>13. PICK ip \in Network(f, w) : ip = Ipv6Read(f, at, w)
  BY Ipv6ReadType, Zenon
<1>14. decode_ipv6(f, left, Base(w)) = Ipv6Upper(f, at, ip)
  BY <1>8, <1>9, <1>11, <1>13, Ipv6Cases
<1>15. Whole4(Ipv6Upper(f, at, ip).out, f, n)
  <2>1. upper_proto(f) = f.proto
    BY <1>1 DEF upper_proto
  <2>2. CASE at.first
    <3>1. Ipv6Upper(f, at, ip) = decode_l4(f, f.proto, t + n, ip)
      BY <1>11, <2>1, <2>2 DEF Ipv6Upper
    <3>2. frame_is_first(f)
      BY <1>12, <2>2, Zenon
    <3> QED  BY <1>6, <3>1, <3>2, TransportWhole
  <2>3. CASE ~at.first
    <3>1. Ipv6Upper(f, at, ip) = done([ip EXCEPT !.l4 = "Other"])
      BY <2>3 DEF Ipv6Upper
    <3>2. ~frame_is_first(f)
      BY <1>12, <2>3, Zenon
    <3> QED  BY <3>1, <3>2, FragmentWhole
  <2> QED  BY <2>2, <2>3
<1> QED  BY <1>4, <1>6, <1>7, <1>14, <1>15

\* A frame with its headers and n more bytes.
LEMMA FrameWhole ==
  ASSUME NEW f, IsFrame(f), wellformed(f), NEW w, NEW caplen \in Nat, caplen >= headers_len(f)
  PROVE  Whole4(decode_packet(f, caplen, w).out, f, caplen - headers_len(f))
<1>1. f.tags \in Nat /\ f.tags <= 2 /\ f.link # "unsupported" /\ f.net \in {"IPv4", "IPv6"}
  BY DEF wellformed, IsFrame, MaxTags
<1>2. vlan_tags(f) = f.tags
  BY <1>1 DEF vlan_tags, MaxTags, IsFrame
<1>3. PICK k \in Nat : k = LinkPart(f)
  BY LinkPartType
<1>4. LinkPart(f) = link_len(f) + 4 * f.tags
  BY <1>2 DEF LinkPart
<1>5. PICK u \in Nat : u = ip_len(f) + transport_len(f)
  BY HeaderLengths
<1>6. headers_len(f) = k + u
  BY <1>1, <1>3, <1>4, <1>5, HeaderLengths DEF headers_len
<1>7. PICK n \in Nat : n = caplen - headers_len(f) /\ caplen = k + (u + n)
  BY <1>6
<1>8. u > 0
  BY <1>5, HeaderLengths
<1>9. ~Refuses(f, caplen) /\ caplen - k = u + n
  BY <1>1, <1>2, <1>3, <1>7, <1>8 DEF Refuses
<1>10. decode_packet(f, caplen, w) = decode_l3(f, u + n, Base(w))
  BY <1>3, <1>9, PacketCases
<1>11. CASE f.net = "IPv4"
  BY <1>5, <1>7, <1>10, <1>11, Ipv4Whole DEF decode_l3
<1>12. CASE f.net = "IPv6"
  BY <1>5, <1>7, <1>10, <1>12, Ipv6Whole DEF decode_l3
<1> QED  BY <1>1, <1>11, <1>12

-----------------------------------------------------------------------------
(* The statistics.                                                         *)

Buckets == [bytes : Nat, packets : Nat]
Slots == [sec : Nat, bucket : Buckets]
Versions == {"IPv4", "IPv6"}
Tables ==
  [packets : Nat, bytes : Nat, decode_errors : Nat, truncated : Nat, bad_checksums : Nat,
   fragments : Nat, protocol : [Protocols -> Buckets], ip_packets : [Versions -> Nat],
   tcp_flags : [{"SYN", "FIN", "RST"} -> Nat], port_bytes : [Ports -> Nat],
   talker_bytes : [Talkers -> Nat], ring : [0..(Window - 1) -> Slots],
   newest_sec : 0 .. MaxSec]

\* A bucket with one more packet.
LEMMA PlusType ==
  ASSUME NEW b \in Buckets, NEW p, p.wirelen \in Nat
  PROVE  /\ plus(b, p) \in Buckets /\ plus(b, p).bytes = b.bytes + p.wirelen
         /\ plus(b, p).packets = b.packets + 1
BY DEF Buckets, plus

\* The slot of a second.
LEMMA SlotIndex ==
  ASSUME NEW sec \in Nat
  PROVE  sec % Window \in 0 .. Window - 1
BY StatisticsAssumption

\* A new bucket is a bucket.
LEMMA EmptyBucket == Empty \in Buckets
BY DEF Empty, Buckets

\* bucket_for yields a bucket, the stored one when it is of that second.
LEMMA BucketType ==
  ASSUME NEW s \in Tables, NEW sec \in Nat
  PROVE  bucket_for(s, sec) \in Buckets /\ bucket_for(s, sec) = stored(s, sec)
<1>1. PICK i \in 0 .. Window - 1 : i = sec % Window
  BY SlotIndex
<1>2. PICK slot \in Slots : slot = s.ring[i]
  BY DEF Tables
<1>3. slot.bucket \in Buckets
  BY DEF Slots
<1> QED  BY <1>1, <1>2, <1>3, EmptyBucket DEF bucket_for, stored

\* A condition counts for zero or one.
LEMMA OneIf == ASSUME NEW b PROVE one_if(b) \in {0, 1}
BY DEF one_if

\* The totals and the ring after one more packet.
LEMMA TotalsEffect ==
  ASSUME NEW s \in Tables, NEW p, p.wirelen \in Nat, NEW sec \in Secs
  PROVE  LET t == add_to_totals(s, p, sec)
         IN /\ t \in Tables
            /\ t.packets = s.packets + 1
            /\ t.ring = [s.ring EXCEPT ![sec % Window] =
                           [sec |-> sec, bucket |-> plus(bucket_for(s, sec), p)]]
            /\ t.newest_sec = newest(s, sec)
            /\ t.decode_errors = s.decode_errors /\ t.protocol = s.protocol
            /\ t.ip_packets = s.ip_packets /\ t.port_bytes = s.port_bytes
            /\ t.talker_bytes = s.talker_bytes
<1>1. sec \in Nat /\ MaxSec \in Nat /\ sec \in 0 .. MaxSec
  BY StatisticsAssumption DEF Secs
<1>2. PICK slot \in Slots : slot = [sec |-> sec, bucket |-> plus(bucket_for(s, sec), p)]
  <2>1. plus(bucket_for(s, sec), p) \in Buckets
    BY <1>1, BucketType, PlusType
  <2>2. [sec |-> sec, bucket |-> plus(bucket_for(s, sec), p)] \in Slots
    BY <1>1, <2>1 DEF Slots
  <2> QED  BY <2>2, Zenon
<1>3. PICK ring : ring = [s.ring EXCEPT ![sec % Window] = slot]
  OBVIOUS
<1>4. ring \in [0..(Window - 1) -> Slots]
  BY <1>1, <1>3, SlotIndex DEF Tables
<1>5. PICK top \in 0 .. MaxSec : top = newest(s, sec)
  <2>1. newest(s, sec) \in 0 .. MaxSec
    BY <1>1 DEF Tables, newest
  <2> QED  BY <2>1, Zenon
<1>6. PICK a, b, c : /\ a = one_if(p.truncated) /\ b = one_if(p.bad_ip_checksum)
                     /\ c = one_if(p.fragmented)
  OBVIOUS
<1>7. a \in Nat /\ b \in Nat /\ c \in Nat
  BY <1>6, OneIf
<1>8. PICK n \in Nat, m \in Nat, x \in Nat, y \in Nat, z \in Nat :
        /\ n = s.packets + 1 /\ m = s.bytes + p.wirelen
        /\ x = s.truncated + a /\ y = s.bad_checksums + b /\ z = s.fragments + c
  <2>1. /\ s.packets \in Nat /\ s.bytes \in Nat
        /\ s.truncated \in Nat /\ s.bad_checksums \in Nat /\ s.fragments \in Nat
    BY DEF Tables
  <2>2. /\ s.packets + 1 \in Nat /\ s.bytes + p.wirelen \in Nat
        /\ s.truncated + a \in Nat /\ s.bad_checksums + b \in Nat /\ s.fragments + c \in Nat
    BY <1>7, <2>1
  <2> QED  BY <2>2, Zenon
<1>9. PICK t : t = [s EXCEPT !.packets = n, !.bytes = m, !.ring = ring, !.newest_sec = top,
                             !.truncated = x, !.bad_checksums = y, !.fragments = z]
  OBVIOUS
<1>10. add_to_totals(s, p, sec) = t
  BY <1>2, <1>3, <1>5, <1>6, <1>8, <1>9, Zenon DEF add_to_totals
<1>11. t \in Tables
  BY <1>4, <1>9 DEF Tables
<1>12. /\ t.packets = n /\ t.ring = ring /\ t.newest_sec = top
       /\ t.decode_errors = s.decode_errors /\ t.protocol = s.protocol
       /\ t.ip_packets = s.ip_packets /\ t.port_bytes = s.port_bytes
       /\ t.talker_bytes = s.talker_bytes
  BY <1>9 DEF Tables
<1> QED  BY <1>2, <1>3, <1>5, <1>8, <1>10, <1>11, <1>12

\* What the statistics rely on.
Countable(p) ==
  /\ p.wirelen \in Nat /\ p.sport \in Ports /\ p.dport \in Ports /\ p.l4 \in L4s
  /\ ~p.error => p.l3 \in {"IPv4", "IPv6", "ARP"}
  /\ p.l3 \in Versions => p.src \in Talkers
  /\ p.l3 = "ARP" => p.l4 = "Unknown"

\* Fields that counting an IP packet leaves alone.
LEMMA CountIpEffect ==
  ASSUME NEW s \in Tables, NEW p, Countable(p), p.l3 \in Versions
  PROVE  LET t == count_ip(s, p)
         IN /\ t \in Tables
            /\ t.ip_packets = [s.ip_packets EXCEPT ![p.l3] = @ + 1]
            /\ t.talker_bytes = [s.talker_bytes EXCEPT ![p.src] = @ + p.wirelen]
            /\ t.packets = s.packets /\ t.ring = s.ring /\ t.newest_sec = s.newest_sec
            /\ t.decode_errors = s.decode_errors /\ t.protocol = s.protocol
            /\ t.port_bytes = s.port_bytes
<1>1. p.src \in Talkers /\ p.wirelen \in Nat /\ p.l3 # "ARP"
  BY DEF Countable, Versions
<1>2. PICK a : a = [s.ip_packets EXCEPT ![p.l3] = @ + 1]
  OBVIOUS
<1>3. a \in [Versions -> Nat]
  BY <1>2 DEF Tables
<1>4. PICK b : b = [s.talker_bytes EXCEPT ![p.src] = @ + p.wirelen]
  OBVIOUS
<1>5. b \in [Talkers -> Nat]
  BY <1>1, <1>4 DEF Tables
<1>6. PICK c : c = [f \in DOMAIN s.tcp_flags |->
                      s.tcp_flags[f] + one_if(p.l4 = "TCP" /\ f \in p.flags)]
  OBVIOUS
<1>7. c \in [{"SYN", "FIN", "RST"} -> Nat]
  <2>1. \A f : one_if(p.l4 = "TCP" /\ f \in p.flags) \in Nat
    BY DEF one_if
  <2>2. s.tcp_flags \in [{"SYN", "FIN", "RST"} -> Nat]
    BY DEF Tables
  <2>3. PICK o : o = [f \in {"SYN", "FIN", "RST"} |-> one_if(p.l4 = "TCP" /\ f \in p.flags)]
    OBVIOUS
  <2>4. c = [f \in {"SYN", "FIN", "RST"} |-> s.tcp_flags[f] + o[f]]
    <3>1. DOMAIN s.tcp_flags = {"SYN", "FIN", "RST"}
      BY <2>2
    <3> QED  BY <1>6, <2>3, <3>1
  <2>5. \A f \in {"SYN", "FIN", "RST"} : o[f] \in Nat
    BY <2>1, <2>3
  <2> QED  BY <2>2, <2>4, <2>5
<1>8. PICK t : t = [s EXCEPT !.ip_packets = a, !.tcp_flags = c, !.talker_bytes = b]
  OBVIOUS
<1>9. count_ip(s, p) = t
  BY <1>1, <1>2, <1>4, <1>6, <1>8, Zenon DEF count_ip
<1>10. /\ t \in Tables /\ t.ip_packets = a /\ t.talker_bytes = b
       /\ t.packets = s.packets /\ t.ring = s.ring /\ t.newest_sec = s.newest_sec
       /\ t.decode_errors = s.decode_errors /\ t.protocol = s.protocol
       /\ t.port_bytes = s.port_bytes
  BY <1>3, <1>5, <1>7, <1>8 DEF Tables
<1> QED  BY <1>2, <1>4, <1>9, <1>10

\* The line of the protocol distribution a packet is counted in.
LEMMA ProtocolLine ==
  ASSUME NEW p, Countable(p), ~p.error
  PROVE  /\ protocol_of(p) \in Protocols
         /\ protocol_of(p) = "ARP" <=> p.l3 = "ARP"
         /\ has_ports(p) <=> protocol_of(p) \in {"TCP", "UDP"}
         /\ service(p) \in Ports
<1>1. p.l4 \in L4s /\ (p.l3 = "ARP" => p.l4 = "Unknown") /\ p.sport \in Ports /\ p.dport \in Ports
  BY DEF Countable
<1>2. service(p) \in Ports
  BY <1>1 DEF service
<1> QED  BY <1>1, <1>2 DEF protocol_of, has_ports, Protocols, L4s

\* What one more packet adds to the lines of the statistics.
Adds(s, t, p) ==
  IF p.error
  THEN /\ t.decode_errors = s.decode_errors + 1
       /\ t.protocol = s.protocol /\ t.port_bytes = s.port_bytes
       /\ t.ip_packets = s.ip_packets /\ t.talker_bytes = s.talker_bytes
  ELSE /\ t.decode_errors = s.decode_errors
       /\ t.protocol = [s.protocol EXCEPT ![protocol_of(p)] = plus(@, p)]
       /\ t.port_bytes = IF has_ports(p)
                         THEN [s.port_bytes EXCEPT ![service(p)] = @ + p.wirelen]
                         ELSE s.port_bytes
       /\ t.ip_packets = IF p.l3 = "ARP" THEN s.ip_packets
                         ELSE [s.ip_packets EXCEPT ![p.l3] = @ + 1]
       /\ t.talker_bytes = IF p.l3 = "ARP" THEN s.talker_bytes
                           ELSE [s.talker_bytes EXCEPT ![p.src] = @ + p.wirelen]

\* add_to_mix adds the packet to its rows of the tables and to nothing else.
LEMMA MixEffect ==
  ASSUME NEW s \in Tables, NEW p, Countable(p)
  PROVE  LET t == add_to_mix(s, p)
         IN /\ t \in Tables /\ Adds(s, t, p)
            /\ t.packets = s.packets /\ t.ring = s.ring /\ t.newest_sec = s.newest_sec
<1>1. CASE p.error
  <2>1. PICK n \in Nat : n = s.decode_errors + 1
    BY DEF Tables
  <2>2. PICK t : t = [s EXCEPT !.decode_errors = n]
    OBVIOUS
  <2>3. add_to_mix(s, p) = t
    BY <1>1, <2>1, <2>2, Zenon DEF add_to_mix
  <2>4. /\ t \in Tables /\ t.decode_errors = n
        /\ t.protocol = s.protocol /\ t.port_bytes = s.port_bytes
        /\ t.ip_packets = s.ip_packets /\ t.talker_bytes = s.talker_bytes
        /\ t.packets = s.packets /\ t.ring = s.ring /\ t.newest_sec = s.newest_sec
    BY <2>2 DEF Tables
  <2> QED  BY <1>1, <2>1, <2>3, <2>4 DEF Adds
<1>2. CASE ~p.error
  <2>1. PICK c : c = count_ip(s, p)
    OBVIOUS
  <2>2. p.l3 \in {"IPv4", "IPv6", "ARP"} /\ p.wirelen \in Nat
    BY <1>2 DEF Countable
  <2>3. /\ c \in Tables
        /\ c.ip_packets = IF p.l3 = "ARP" THEN s.ip_packets
                          ELSE [s.ip_packets EXCEPT ![p.l3] = @ + 1]
        /\ c.talker_bytes = IF p.l3 = "ARP" THEN s.talker_bytes
                            ELSE [s.talker_bytes EXCEPT ![p.src] = @ + p.wirelen]
        /\ c.packets = s.packets /\ c.ring = s.ring /\ c.newest_sec = s.newest_sec
        /\ c.decode_errors = s.decode_errors /\ c.protocol = s.protocol
        /\ c.port_bytes = s.port_bytes
    <3>1. CASE p.l3 = "ARP"
      BY <2>1, <3>1 DEF count_ip
    <3>2. CASE p.l3 \in Versions
      <4>1. p.l3 # "ARP"
        BY <3>2 DEF Versions
      <4> QED  BY <2>1, <3>2, <4>1, CountIpEffect
    <3> QED  BY <2>2, <3>1, <3>2 DEF Versions
  <2>4. PICK pr \in Protocols : pr = protocol_of(p)
    BY <1>2, ProtocolLine, Zenon
  <2>5. PICK sv \in Ports : sv = service(p)
    BY <1>2, ProtocolLine, Zenon
  <2>6. PICK a : a = [s.protocol EXCEPT ![pr] = plus(@, p)]
    OBVIOUS
  <2>7. a \in [Protocols -> Buckets]
    <3>1. s.protocol \in [Protocols -> Buckets] /\ s.protocol[pr] \in Buckets
      BY DEF Tables
    <3>2. plus(s.protocol[pr], p) \in Buckets
      BY <2>2, <3>1, PlusType
    <3> QED  BY <2>6, <3>1, <3>2
  <2>8. PICK b : b = [s.port_bytes EXCEPT ![sv] = IF has_ports(p) THEN @ + p.wirelen ELSE @]
    OBVIOUS
  <2>9. b \in [Ports -> Nat]
    BY <2>2, <2>8 DEF Tables
  <2>10. b = IF has_ports(p) THEN [s.port_bytes EXCEPT ![service(p)] = @ + p.wirelen]
             ELSE s.port_bytes
    <3>1. CASE has_ports(p)
      BY <2>5, <2>8, <3>1
    <3>2. CASE ~has_ports(p)
      <4>1. s.port_bytes \in [Ports -> Nat]
        BY DEF Tables
      <4> QED  BY <2>8, <3>2, <4>1
    <3> QED  BY <3>1, <3>2
  <2>11. PICK t : t = [c EXCEPT !.protocol = a, !.port_bytes = b]
    OBVIOUS
  <2>12. add_to_mix(s, p) = t
    BY <1>2, <2>1, <2>3, <2>4, <2>5, <2>6, <2>8, <2>11, Zenon DEF add_to_mix
  <2>13. /\ t \in Tables /\ t.protocol = a /\ t.port_bytes = b
         /\ t.ip_packets = c.ip_packets /\ t.talker_bytes = c.talker_bytes
         /\ t.decode_errors = c.decode_errors
         /\ t.packets = c.packets /\ t.ring = c.ring /\ t.newest_sec = c.newest_sec
    BY <2>3, <2>7, <2>9, <2>11 DEF Tables
  <2>14. Adds(s, t, p)
    BY <1>2, <2>3, <2>4, <2>6, <2>10, <2>13, Zenon DEF Adds
  <2> QED  BY <2>3, <2>12, <2>13, <2>14
<1> QED  BY <1>1, <1>2

\* Statistics::add.
LEMMA AddEffect ==
  ASSUME NEW s \in Tables, NEW p, Countable(p), NEW sec \in Secs
  PROVE  LET t == add(s, p, sec)
         IN /\ t \in Tables /\ Adds(s, t, p)
            /\ t.packets = s.packets + 1
            /\ t.ring = [s.ring EXCEPT ![sec % Window] =
                           [sec |-> sec, bucket |-> plus(bucket_for(s, sec), p)]]
            /\ t.newest_sec = newest(s, sec)
<1>1. p.wirelen \in Nat
  BY DEF Countable
<1>2. PICK a : a = add_to_totals(s, p, sec)
  OBVIOUS
<1>3. /\ a \in Tables /\ a.packets = s.packets + 1
      /\ a.ring = [s.ring EXCEPT ![sec % Window] =
                     [sec |-> sec, bucket |-> plus(bucket_for(s, sec), p)]]
      /\ a.newest_sec = newest(s, sec)
      /\ a.decode_errors = s.decode_errors /\ a.protocol = s.protocol
      /\ a.ip_packets = s.ip_packets /\ a.port_bytes = s.port_bytes
      /\ a.talker_bytes = s.talker_bytes
  BY <1>1, <1>2, TotalsEffect
<1>4. PICK t : t = add_to_mix(a, p)
  OBVIOUS
<1>5. /\ t \in Tables /\ Adds(a, t, p)
      /\ t.packets = a.packets /\ t.ring = a.ring /\ t.newest_sec = a.newest_sec
  BY <1>3, <1>4, MixEffect
<1>6. Adds(s, t, p)
  BY <1>3, <1>5, Zenon DEF Adds
<1>7. add(s, p, sec) = t
  BY <1>2, <1>4 DEF add
<1> QED  BY <1>3, <1>5, <1>6, <1>7

\* The columns of the protocol distribution, and the lines of IP packets.
PacketsOf(s) == [p \in Protocols |-> s.protocol[p].packets]
BytesOf(s) == [p \in Protocols |-> s.protocol[p].bytes]
IpLines == Protocols \ {"ARP"}

\* VolumeAccounted, for any statistics and number of packets in flows.
Accounts(s, n) ==
  /\ s.packets = s.decode_errors + Sum(PacketsOf(s), Protocols)
  /\ Sum(s.port_bytes, Ports) = BytesOf(s)["TCP"] + BytesOf(s)["UDP"]
  /\ s.ip_packets["IPv4"] + s.ip_packets["IPv6"] = Sum(PacketsOf(s), IpLines)
  /\ n = Sum(PacketsOf(s), IpLines)
  /\ Sum(s.talker_bytes, Talkers) = Sum(BytesOf(s), IpLines)

\* The tables have finitely many lines.
LEMMA LinesFinite == IsFiniteSet(Protocols) /\ IsFiniteSet(IpLines)
<1>1. IsFiniteSet({"TCP"})
  BY FS_Singleton
<1>2. IsFiniteSet({"TCP"} \cup {"UDP"})
  BY <1>1, FS_AddElement
<1>3. IsFiniteSet(({"TCP"} \cup {"UDP"}) \cup {"ICMP"})
  BY <1>2, FS_AddElement
<1>4. IsFiniteSet((({"TCP"} \cup {"UDP"}) \cup {"ICMP"}) \cup {"ARP"})
  BY <1>3, FS_AddElement
<1>5. IsFiniteSet(((({"TCP"} \cup {"UDP"}) \cup {"ICMP"}) \cup {"ARP"}) \cup {"OTHER"})
  BY <1>4, FS_AddElement
<1>6. ((({"TCP"} \cup {"UDP"}) \cup {"ICMP"}) \cup {"ARP"}) \cup {"OTHER"} = Protocols
  BY DEF Protocols
<1>7. IsFiniteSet(Protocols)
  BY <1>5, <1>6
<1>8. IpLines \in SUBSET Protocols
  BY DEF IpLines
<1> QED  BY <1>7, <1>8, FS_Subset

\* Every column of the tables can be summed.
LEMMA ColumnsWeigh ==
  ASSUME NEW s \in Tables
  PROVE  /\ Weighs(PacketsOf(s), Protocols) /\ Weighs(PacketsOf(s), IpLines)
         /\ Weighs(BytesOf(s), Protocols) /\ Weighs(BytesOf(s), IpLines)
         /\ Weighs(s.port_bytes, Ports) /\ Weighs(s.talker_bytes, Talkers)
<1>1. /\ \A p \in Protocols : PacketsOf(s)[p] \in Nat /\ BytesOf(s)[p] \in Nat
  BY DEF Tables, Buckets, PacketsOf, BytesOf
<1>2. \A p \in IpLines : p \in Protocols
  BY DEF IpLines
<1>3. (\A p \in Ports : s.port_bytes[p] \in Nat) /\ (\A a \in Talkers : s.talker_bytes[a] \in Nat)
  BY DEF Tables
<1> QED  BY <1>1, <1>2, <1>3, LinesFinite, StatisticsAssumption DEF Weighs

\* The weight of x, if it is in S, grows by n.
Grows(v, w, S, x, n) == \A y \in S : w[y] = IF y = x THEN v[y] + n ELSE v[y]

\* One line grows: so does the sum over the lines it belongs to.
LEMMA ColumnGrows ==
  ASSUME NEW v, NEW w, NEW S, Weighs(v, S), Weighs(w, S), NEW x, NEW n \in Nat,
         Grows(v, w, S, x, n)
  PROVE  /\ Sum(v, S) \in Nat
         /\ x \in S => Sum(w, S) = Sum(v, S) + n
         /\ x \notin S => Sum(w, S) = Sum(v, S)
<1>1. Sum(v, S) \in Nat
  BY SumType
<1>2. CASE x \in S
  <2>1. \A y \in S \ {x} : v[y] = w[y]
    BY DEF Grows
  <2>2. Sum(w, S) \in Nat /\ Sum(w, S) + v[x] = Sum(v, S) + w[x]
    BY <1>2, <2>1, SumChanged
  <2>3. w[x] = v[x] + n /\ v[x] \in Nat
    BY <1>2 DEF Weighs, Grows
  <2> QED  BY <1>1, <1>2, <2>2, <2>3
<1>3. CASE x \notin S
  <2>1. \A y \in S : v[y] = w[y]
    BY <1>3 DEF Grows
  <2> QED  BY <1>1, <1>3, <2>1, SumSame
<1> QED  BY <1>2, <1>3

\* Nothing is counted yet.
LEMMA VolumeNew == NewStatistics \in Tables /\ Accounts(NewStatistics, 0)
<1>1. NewStatistics \in Tables
  <2>1. Window \in Nat /\ 0 \in 0 .. MaxSec
    BY StatisticsAssumption
  <2>2. [sec |-> 0, bucket |-> Empty] \in Slots
    BY EmptyBucket DEF Slots
  <2> QED  BY <2>1, <2>2, EmptyBucket DEF NewStatistics, Tables, Versions
<1>2. PICK s \in Tables : s = NewStatistics
  BY <1>1, Zenon
<1>3. /\ s.packets = 0 /\ s.decode_errors = 0
      /\ s.protocol = [p \in Protocols |-> Empty]
      /\ s.ip_packets = [v \in {"IPv4", "IPv6"} |-> 0]
      /\ s.port_bytes = [p \in Ports |-> 0] /\ s.talker_bytes = [a \in Talkers |-> 0]
  BY <1>2 DEF NewStatistics
<1>4. \A p \in Protocols : PacketsOf(s)[p] = 0 /\ BytesOf(s)[p] = 0
  BY <1>3 DEF PacketsOf, BytesOf, Empty
<1>5. "TCP" \in Protocols /\ "UDP" \in Protocols /\ IpLines \subseteq Protocols
  BY DEF Protocols, IpLines
<1>6. /\ Sum(PacketsOf(s), Protocols) = 0 /\ Sum(PacketsOf(s), IpLines) = 0
      /\ Sum(BytesOf(s), IpLines) = 0
  BY <1>4, <1>5, LinesFinite, SumZero
<1>7. Sum(s.port_bytes, Ports) = 0 /\ Sum(s.talker_bytes, Talkers) = 0
  BY <1>3, SumZero, StatisticsAssumption
<1>8. s.ip_packets["IPv4"] = 0 /\ s.ip_packets["IPv6"] = 0
  BY <1>3
<1>9. Accounts(s, 0)
  BY <1>3, <1>4, <1>5, <1>6, <1>7, <1>8 DEF Accounts
<1> QED  BY <1>1, <1>2, <1>9

\* A packet is accounted for in each table.
LEMMA VolumeGrows ==
  ASSUME NEW s \in Tables, NEW t \in Tables, NEW p, Countable(p), Adds(s, t, p),
         t.packets = s.packets + 1, NEW n \in Nat, Accounts(s, n)
  PROVE  Accounts(t, IF ~p.error /\ p.l3 # "ARP" THEN n + 1 ELSE n)
<1>0. /\ s.packets \in Nat /\ s.decode_errors \in Nat
      /\ s.protocol \in [Protocols -> Buckets] /\ s.ip_packets \in [Versions -> Nat]
      /\ s.port_bytes \in [Ports -> Nat] /\ s.talker_bytes \in [Talkers -> Nat]
  BY DEF Tables
<1>1. Weighs(PacketsOf(s), Protocols)
  BY ColumnsWeigh
<1>2. Sum(PacketsOf(s), Protocols) \in Nat
  BY <1>1, SumType
<1>3. CASE p.error
  <2>1. PacketsOf(t) = PacketsOf(s) /\ BytesOf(t) = BytesOf(s)
    BY <1>3 DEF Adds, PacketsOf, BytesOf
  <2>2. /\ t.decode_errors = s.decode_errors + 1 /\ t.port_bytes = s.port_bytes
        /\ t.ip_packets = s.ip_packets /\ t.talker_bytes = s.talker_bytes
    BY <1>3 DEF Adds
  <2>3. t.packets = t.decode_errors + Sum(PacketsOf(t), Protocols)
    BY <1>0, <1>2, <2>1, <2>2 DEF Accounts
  <2> QED  BY <1>3, <2>1, <2>2, <2>3 DEF Accounts
<1>4. CASE ~p.error
  <2>1. PICK pr \in Protocols : pr = protocol_of(p)
    BY <1>4, ProtocolLine, Zenon
  <2>2. pr = "ARP" <=> p.l3 = "ARP"
    BY <1>4, <2>1, ProtocolLine
  <2>3. has_ports(p) <=> pr \in {"TCP", "UDP"}
    BY <1>4, <2>1, ProtocolLine
  <2>4. PICK sv \in Ports : sv = service(p)
    BY <1>4, ProtocolLine, Zenon
  <2>5. /\ p.wirelen \in Nat /\ p.l3 \in {"IPv4", "IPv6", "ARP"}
        /\ p.l3 \in Versions => p.src \in Talkers
    BY <1>4 DEF Countable
  <2>6. t.protocol = [s.protocol EXCEPT ![pr] = plus(@, p)] /\ t.decode_errors = s.decode_errors
    BY <1>4, <2>1 DEF Adds
  <2>7. ASSUME NEW y \in Protocols
        PROVE  /\ PacketsOf(t)[y] = IF y = pr THEN PacketsOf(s)[y] + 1 ELSE PacketsOf(s)[y]
               /\ BytesOf(t)[y] = IF y = pr THEN BytesOf(s)[y] + p.wirelen ELSE BytesOf(s)[y]
    <3>1. CASE y = pr
      <4>1. t.protocol[y] = plus(s.protocol[y], p)
        BY <1>0, <2>6, <3>1
      <4>2. s.protocol[y] \in Buckets
        BY <1>0
      <4> QED  BY <2>5, <3>1, <4>1, <4>2, PlusType DEF PacketsOf, BytesOf
    <3>2. CASE y # pr
      <4>1. t.protocol[y] = s.protocol[y]
        BY <1>0, <2>6, <3>2
      <4> QED  BY <3>2, <4>1 DEF PacketsOf, BytesOf
    <3> QED  BY <3>1, <3>2
  <2>8. Sum(PacketsOf(t), Protocols) = Sum(PacketsOf(s), Protocols) + 1
    <3>1. Grows(PacketsOf(s), PacketsOf(t), Protocols, pr, 1)
      BY <2>7 DEF Grows
    <3> QED  BY <3>1, ColumnsWeigh, ColumnGrows
  <2>9. \A y \in IpLines : y \in Protocols
    BY DEF IpLines
  <2>10. pr \in IpLines <=> p.l3 # "ARP"
    BY <2>2 DEF IpLines
  <2>11. /\ Sum(PacketsOf(t), IpLines) =
              IF pr \in IpLines THEN Sum(PacketsOf(s), IpLines) + 1 ELSE Sum(PacketsOf(s), IpLines)
         /\ Sum(PacketsOf(s), IpLines) \in Nat
    <3>1. Grows(PacketsOf(s), PacketsOf(t), IpLines, pr, 1)
      BY <2>7, <2>9 DEF Grows
    <3> QED  BY <3>1, ColumnsWeigh, ColumnGrows
  <2>12. /\ Sum(BytesOf(t), IpLines) =
              IF pr \in IpLines THEN Sum(BytesOf(s), IpLines) + p.wirelen
              ELSE Sum(BytesOf(s), IpLines)
         /\ Sum(BytesOf(s), IpLines) \in Nat
    <3>1. PICK k, v, w : k \in Nat /\ k = p.wirelen /\ v = BytesOf(s) /\ w = BytesOf(t)
      BY <2>5
    <3>2. Grows(v, w, IpLines, pr, k)
      BY <2>7, <2>9, <3>1 DEF Grows
    <3>3. Weighs(v, IpLines) /\ Weighs(w, IpLines)
      BY <3>1, ColumnsWeigh
    <3>4. /\ Sum(v, IpLines) \in Nat
          /\ pr \in IpLines => Sum(w, IpLines) = Sum(v, IpLines) + k
          /\ pr \notin IpLines => Sum(w, IpLines) = Sum(v, IpLines)
      BY <3>1, <3>2, <3>3, ColumnGrows
    <3> QED  BY <3>1, <3>4
  <2>13. Sum(t.port_bytes, Ports) = BytesOf(t)["TCP"] + BytesOf(t)["UDP"]
    <3>1. /\ BytesOf(s)["TCP"] \in Nat /\ BytesOf(s)["UDP"] \in Nat
          /\ "TCP" \in Protocols /\ "UDP" \in Protocols
      <4>1. "TCP" \in Protocols /\ "UDP" \in Protocols
        BY DEF Protocols
      <4> QED  BY <4>1, ColumnsWeigh DEF Weighs
    <3>2. CASE has_ports(p)
      <4>1. t.port_bytes = [s.port_bytes EXCEPT ![sv] = @ + p.wirelen]
        BY <1>4, <2>4, <3>2 DEF Adds
      <4>2. PICK k, v, w : k \in Nat /\ k = p.wirelen /\ v = s.port_bytes /\ w = t.port_bytes
        BY <2>5
      <4>3. Sum(t.port_bytes, Ports) = Sum(s.port_bytes, Ports) + p.wirelen
        <5>1. Grows(v, w, Ports, sv, k)
          BY <1>0, <4>1, <4>2 DEF Grows
        <5>2. Weighs(v, Ports) /\ Weighs(w, Ports)
          BY <4>2, ColumnsWeigh
        <5>3. Sum(w, Ports) = Sum(v, Ports) + k
          BY <4>2, <5>1, <5>2, ColumnGrows
        <5> QED  BY <4>2, <5>3
      <4>4. pr \in {"TCP", "UDP"}
        BY <2>3, <3>2
      <4> QED  BY <2>5, <2>7, <3>1, <4>3, <4>4 DEF Accounts
    <3>3. CASE ~has_ports(p)
      <4>1. t.port_bytes = s.port_bytes
        BY <1>4, <3>3 DEF Adds
      <4>2. pr \notin {"TCP", "UDP"}
        BY <2>3, <3>3
      <4>3. BytesOf(t)["TCP"] = BytesOf(s)["TCP"] /\ BytesOf(t)["UDP"] = BytesOf(s)["UDP"]
        BY <2>7, <3>1, <4>2
      <4> QED  BY <4>1, <4>3 DEF Accounts
    <3> QED  BY <3>2, <3>3
  <2>14. CASE p.l3 = "ARP"
    <3>1. t.ip_packets = s.ip_packets /\ t.talker_bytes = s.talker_bytes
      BY <1>4, <2>14 DEF Adds
    <3>2. Sum(PacketsOf(t), IpLines) = Sum(PacketsOf(s), IpLines)
          /\ Sum(BytesOf(t), IpLines) = Sum(BytesOf(s), IpLines)
      BY <2>10, <2>11, <2>12, <2>14
    <3>3. t.packets = t.decode_errors + Sum(PacketsOf(t), Protocols)
      BY <1>0, <1>2, <2>6, <2>8 DEF Accounts
    <3> QED  BY <2>13, <2>14, <3>1, <3>2, <3>3 DEF Accounts
  <2>15. CASE p.l3 # "ARP"
    <3>1. p.l3 \in Versions /\ p.src \in Talkers
      BY <2>5, <2>15 DEF Versions
    <3>2. /\ t.ip_packets = [s.ip_packets EXCEPT ![p.l3] = @ + 1]
          /\ t.talker_bytes = [s.talker_bytes EXCEPT ![p.src] = @ + p.wirelen]
      BY <1>4, <2>15 DEF Adds
    <3>3. t.ip_packets["IPv4"] + t.ip_packets["IPv6"]
            = s.ip_packets["IPv4"] + s.ip_packets["IPv6"] + 1
      BY <1>0, <3>1, <3>2 DEF Versions
    <3>4. PICK k, a, v, w :
            /\ k \in Nat /\ k = p.wirelen /\ a \in Talkers /\ a = p.src
            /\ v = s.talker_bytes /\ w = t.talker_bytes
      BY <2>5, <3>1
    <3>5. Sum(t.talker_bytes, Talkers) = Sum(s.talker_bytes, Talkers) + p.wirelen
      <4>1. Grows(v, w, Talkers, a, k)
        BY <1>0, <3>2, <3>4 DEF Grows
      <4>2. Weighs(v, Talkers) /\ Weighs(w, Talkers)
        BY <3>4, ColumnsWeigh
      <4>3. Sum(w, Talkers) = Sum(v, Talkers) + k
        BY <3>4, <4>1, <4>2, ColumnGrows
      <4> QED  BY <3>4, <4>3
    <3>6. /\ Sum(PacketsOf(t), IpLines) = Sum(PacketsOf(s), IpLines) + 1
          /\ Sum(BytesOf(t), IpLines) = Sum(BytesOf(s), IpLines) + p.wirelen
      BY <2>10, <2>11, <2>12, <2>15
    <3>7. t.packets = t.decode_errors + Sum(PacketsOf(t), Protocols)
      BY <1>0, <1>2, <2>6, <2>8 DEF Accounts
    <3> QED  BY <1>4, <2>13, <2>15, <3>3, <3>5, <3>6, <3>7 DEF Accounts
  <2> QED  BY <2>14, <2>15
<1> QED  BY <1>3, <1>4

-----------------------------------------------------------------------------
(* The ring behind the throughput display.                                 *)

\* A slot holds a second of its own residue class that is not newer than the newest one.
Ringed(s) ==
  \A i \in 0 .. Window - 1 :
    s.ring[i].sec # 0 => s.ring[i].sec % Window = i /\ s.ring[i].sec <= s.newest_sec

\* What the ring has for the seconds of the window is the history h; nothing is newer.
Recent(s, h) ==
  \A x \in Secs :
    /\ x > s.newest_sec => h[x] = Empty
    /\ s.newest_sec - Window < x /\ x <= s.newest_sec => stored(s, x) = h[x]

Histories == [Secs -> Buckets]

\* Two seconds that share a slot are a multiple of the window apart.
LEMMA SameSlot ==
  ASSUME NEW m \in Nat \ {0}, NEW x \in Int, NEW y \in Int, x % m = y % m, x < y
  PROVE  y - x >= m
<1>1. PICK q \in Int, r \in 0 .. m - 1 : r = x % m /\ x = q * m + r
  BY Division
<1>2. PICK k \in Int, u \in 0 .. m - 1 : u = y % m /\ y = k * m + u
  BY Division
<1>3. y - x = k * m - q * m
  BY <1>1, <1>2
<1>4. PICK d \in Int : d = k - q
  OBVIOUS
<1>5. y - x = d * m
  BY <1>3, <1>4
<1>6. CASE y - x < m
  <2>1. d = 0
    BY <1>4, <1>5, <1>6, SmallMultiple
  <2> QED  BY <1>5, <2>1
<1> QED  BY <1>6

\* What the ring has for a second after a packet of the second sec.
LEMMA StoredNext ==
  ASSUME NEW s \in Tables, NEW t \in Tables, NEW p, p.wirelen \in Nat, NEW sec \in Secs,
         t.ring = [s.ring EXCEPT ![sec % Window] =
                     [sec |-> sec, bucket |-> plus(bucket_for(s, sec), p)]],
         NEW x \in Secs
  PROVE  /\ x = sec => stored(t, x) = plus(stored(s, x), p)
         /\ x % Window # sec % Window => stored(t, x) = stored(s, x)
<1>1. sec \in Nat /\ x \in Nat
  BY StatisticsAssumption DEF Secs
<1>2. PICK i \in 0 .. Window - 1, j \in 0 .. Window - 1 : i = sec % Window /\ j = x % Window
  BY <1>1, SlotIndex
<1>3. s.ring \in [0 .. Window - 1 -> Slots]
  BY DEF Tables
<1>4. PICK b : b = plus(bucket_for(s, sec), p)
  OBVIOUS
<1>5. t.ring[i] = [sec |-> sec, bucket |-> b] /\ (j # i => t.ring[j] = s.ring[j])
  BY <1>2, <1>3, <1>4
<1>6. bucket_for(s, sec) = stored(s, sec)
  BY <1>1, BucketType
<1>7. ASSUME x = sec PROVE stored(t, x) = plus(stored(s, x), p)
  <2>1. stored(t, x) = b
    BY <1>2, <1>5, <1>7 DEF stored
  <2> QED  BY <1>4, <1>6, <1>7, <2>1
<1>8. ASSUME x % Window # sec % Window PROVE stored(t, x) = stored(s, x)
  BY <1>2, <1>5, <1>8 DEF stored
<1> QED  BY <1>7, <1>8

\* The slots stay in their residue classes.
LEMMA RingKept ==
  ASSUME NEW s \in Tables, NEW t \in Tables, NEW sec \in Secs, NEW b, Ringed(s),
         t.ring = [s.ring EXCEPT ![sec % Window] = [sec |-> sec, bucket |-> b]],
         t.newest_sec = newest(s, sec)
  PROVE  Ringed(t)
<1>1. sec \in Nat /\ Window \in Nat \ {0}
  BY StatisticsAssumption DEF Secs
<1>2. PICK i \in 0 .. Window - 1 : i = sec % Window
  BY <1>1, SlotIndex
<1>3. s.ring \in [0 .. Window - 1 -> Slots] /\ s.newest_sec \in Int
  BY DEF Tables
<1>4. t.newest_sec \in Int /\ sec <= t.newest_sec /\ s.newest_sec <= t.newest_sec
  BY <1>1, <1>3 DEF newest
<1>5. ASSUME NEW j \in 0 .. Window - 1, t.ring[j].sec # 0
      PROVE  t.ring[j].sec % Window = j /\ t.ring[j].sec <= t.newest_sec
  <2>1. CASE j = i
    <3>1. t.ring[j].sec = sec
      <4>1. PICK e : e = [sec |-> sec, bucket |-> b]
        OBVIOUS
      <4>2. t.ring[j] = e
        BY <1>2, <1>3, <2>1, <4>1
      <4> QED  BY <4>1, <4>2
    <3>2. sec % Window = j
      BY <1>2, <2>1
    <3> QED  BY <1>4, <3>1, <3>2
  <2>2. CASE j # i
    <3>1. t.ring[j] = s.ring[j] /\ s.ring[j] \in Slots
      BY <1>2, <1>3, <2>2
    <3>2. s.ring[j].sec \in Nat
      BY <3>1 DEF Slots
    <3>3. s.ring[j].sec % Window = j /\ s.ring[j].sec <= s.newest_sec
      BY <1>5, <3>1 DEF Ringed
    <3> QED  BY <1>3, <1>4, <3>1, <3>2, <3>3
  <2> QED  BY <2>1, <2>2
<1> QED  BY <1>5 DEF Ringed

\* A second that is newer than the newest one is not in the ring.
LEMMA NotYet ==
  ASSUME NEW s \in Tables, Ringed(s), NEW x \in Secs, x > s.newest_sec
  PROVE  stored(s, x) = Empty
<1>1. x \in Nat /\ x # 0 /\ s.newest_sec \in Int
  BY StatisticsAssumption DEF Secs, Tables
<1>2. PICK i \in 0 .. Window - 1 : i = x % Window
  BY <1>1, SlotIndex
<1>3. s.ring[i].sec # x
  <2>1. CASE s.ring[i].sec = 0
    BY <1>1, <2>1
  <2>2. CASE s.ring[i].sec # 0
    BY <1>1, <2>2 DEF Ringed
  <2> QED  BY <2>1, <2>2
<1> QED  BY <1>2, <1>3 DEF stored

\* The window after a packet that lags by less than the window.
LEMMA WindowKept ==
  ASSUME NEW s \in Tables, NEW t \in Tables, Ringed(s), NEW h \in Histories, Recent(s, h),
         NEW sec \in Secs, sec > s.newest_sec - Window, NEW p, p.wirelen \in Nat,
         t.ring = [s.ring EXCEPT ![sec % Window] =
                     [sec |-> sec, bucket |-> plus(bucket_for(s, sec), p)]],
         t.newest_sec = newest(s, sec),
         NEW g, g = [h EXCEPT ![sec] = plus(@, p)]
  PROVE  Recent(t, g)
<1>1. /\ \A x \in Secs : x \in Nat
      /\ Window \in Nat \ {0} /\ s.newest_sec \in Int
  BY StatisticsAssumption DEF Secs, Tables
<1>2. g[sec] = plus(h[sec], p) /\ \A x \in Secs : x # sec => g[x] = h[x]
  BY DEF Histories
<1>3. t.newest_sec \in Int /\ sec <= t.newest_sec /\ s.newest_sec <= t.newest_sec
      /\ (t.newest_sec = sec \/ t.newest_sec = s.newest_sec)
  BY <1>1 DEF newest
<1>4. ASSUME NEW x \in Secs, x > t.newest_sec PROVE g[x] = Empty
  <2>1. x # sec /\ x > s.newest_sec
    BY <1>1, <1>3, <1>4
  <2> QED  BY <1>2, <2>1 DEF Recent
<1>5. ASSUME NEW x \in Secs, t.newest_sec - Window < x, x <= t.newest_sec
      PROVE  stored(t, x) = g[x]
  <2>1. stored(s, x) = h[x]
    <3>1. CASE x > s.newest_sec
      <4>1. stored(s, x) = Empty
        BY <3>1, NotYet
      <4> QED  BY <3>1, <4>1 DEF Recent
    <3>2. CASE x <= s.newest_sec
      <4>1. s.newest_sec - Window < x
        BY <1>1, <1>3, <1>5
      <4> QED  BY <3>2, <4>1 DEF Recent
    <3> QED  BY <1>1, <3>1, <3>2
  <2>2. CASE x = sec
    <3>1. stored(t, x) = plus(stored(s, x), p)
      BY <2>2, StoredNext
    <3> QED  BY <1>2, <2>1, <2>2, <3>1
  <2>3. CASE x # sec
    <3>1. x % Window # sec % Window
      <4>1. CASE x < sec
        <5>1. sec - x < Window
          BY <1>1, <1>3, <1>5
        <5> QED  BY <1>1, <4>1, <5>1, SameSlot
      <4>2. CASE sec < x
        <5>1. x - sec < Window
          BY <1>1, <1>3, <1>5, <4>2
        <5> QED  BY <1>1, <4>2, <5>1, SameSlot
      <4> QED  BY <1>1, <2>3, <4>1, <4>2
    <3>2. stored(t, x) = stored(s, x)
      BY <3>1, StoredNext
    <3> QED  BY <1>2, <2>1, <2>3, <3>2
  <2> QED  BY <2>2, <2>3
<1> QED  BY <1>4, <1>5 DEF Recent

-----------------------------------------------------------------------------
(* Analyzer::consume and reset.                                            *)

\* What is decoded of a captured frame can be counted, and the statistics and the flow
\* table agree on which packets are IP packets without error.
LEMMA Captured ==
  ASSUME NEW f, IsFrame(f), NEW caplen \in 0 .. wire_len(f),
         NEW d, d = decode_packet(f, caplen, wire_len(f))
  PROVE  Countable(d.out) /\ (reaches_flow(d) <=> ~d.out.error /\ d.out.l3 # "ARP")
<1>1. PICK w \in Nat : w = wire_len(f)
  BY HeaderLengths
<1>2. caplen \in Nat
  BY <1>1
<1>3. Parsed(d, f, w)
  BY <1>1, <1>2, PacketParsed
<1>4. PICK o \in Outs(f, w) : o = d.out
  BY <1>3 DEF Parsed
<1>5. /\ o.wirelen = w /\ o.sport \in {0, f.sport} /\ o.dport \in {0, f.dport} /\ o.l4 \in L4s
      /\ o.l3 \in {"Unknown", "IPv4", "IPv6", "ARP"}
  BY DEF Outs
<1>6. /\ ~o.error => d.ok /\ o.l3 \in {"IPv4", "IPv6", "ARP"}
      /\ o.l3 \in {"IPv4", "IPv6"} => o.src = f.src
      /\ o.l3 = "ARP" => o.l4 = "Unknown"
  BY <1>3, <1>4 DEF Parsed
<1>7. f.sport \in Ports /\ f.dport \in Ports /\ f.src \in Talkers /\ 0 \in Ports
  BY StatisticsAssumption DEF IsFrame
<1>8. Countable(o)
  BY <1>5, <1>6, <1>7 DEF Countable, Versions
<1>9. reaches_flow(d) <=> ~o.error /\ o.l3 # "ARP"
  BY <1>4, <1>6 DEF reaches_flow
<1> QED  BY <1>4, <1>8, <1>9

\* The statistics after a captured frame.
LEMMA Consumed ==
  ASSUME NEW s \in Tables, Ringed(s),
         NEW f, IsFrame(f), NEW caplen \in 0 .. wire_len(f), NEW sec \in Secs,
         NEW d, d = decode_packet(f, caplen, wire_len(f)), NEW t, t = add(s, d.out, sec)
  PROVE  /\ t \in Tables /\ Ringed(t)
         /\ d.out.wirelen \in Nat /\ t.newest_sec = newest(s, sec)
         /\ t.ring = [s.ring EXCEPT ![sec % Window] =
                        [sec |-> sec, bucket |-> plus(bucket_for(s, sec), d.out)]]
<1>1. PICK p : p = d.out
  OBVIOUS
<1>2. Countable(p)
  BY <1>1, Captured
<1>3. /\ t \in Tables /\ t.newest_sec = newest(s, sec)
      /\ t.ring = [s.ring EXCEPT ![sec % Window] =
                     [sec |-> sec, bucket |-> plus(bucket_for(s, sec), p)]]
  BY <1>1, <1>2, AddEffect
<1>4. p.wirelen \in Nat
  BY <1>2 DEF Countable
<1>5. PICK b : b = plus(bucket_for(s, sec), p)
  OBVIOUS
<1>6. t.ring = [s.ring EXCEPT ![sec % Window] = [sec |-> sec, bucket |-> b]]
  BY <1>3, <1>5
<1>7. Ringed(t)
  BY <1>3, <1>6, RingKept
<1> QED  BY <1>1, <1>3, <1>4, <1>7

\* The tables stay accounted for when n packets reached a flow before it, and k after.
LEMMA ConsumedVolume ==
  ASSUME NEW s \in Tables, NEW n \in Nat, Accounts(s, n),
         NEW f, IsFrame(f), NEW caplen \in 0 .. wire_len(f), NEW sec \in Secs,
         NEW d, d = decode_packet(f, caplen, wire_len(f)), NEW t, t = add(s, d.out, sec),
         NEW k, k = n + one_if(reaches_flow(d))
  PROVE  Accounts(t, k)
<1>1. PICK p : p = d.out
  OBVIOUS
<1>2. Countable(p) /\ (reaches_flow(d) <=> ~p.error /\ p.l3 # "ARP")
  BY <1>1, Captured
<1>3. t \in Tables /\ Adds(s, t, p) /\ t.packets = s.packets + 1
  BY <1>1, <1>2, AddEffect
<1>4. k = IF ~p.error /\ p.l3 # "ARP" THEN n + 1 ELSE n
  BY <1>2 DEF one_if
<1> QED  BY <1>2, <1>3, <1>4, VolumeGrows

\* Statistics that were just created.
LEMMA Fresh ==
  /\ NewStatistics \in Tables /\ Ringed(NewStatistics) /\ Accounts(NewStatistics, 0)
  /\ [x \in Secs |-> Empty] \in Histories
  /\ Recent(NewStatistics, [x \in Secs |-> Empty])
<1>1. PICK s \in Tables : s = NewStatistics
  BY VolumeNew, Zenon
<1>2. s.ring = [i \in 0..(Window - 1) |-> [sec |-> 0, bucket |-> Empty]] /\ s.newest_sec = 0
  BY <1>1 DEF NewStatistics
<1>3. Ringed(s)
  BY <1>2 DEF Ringed
<1>4. PICK h : h = [x \in Secs |-> Empty]
  OBVIOUS
<1>5. h \in Histories
  BY <1>4, EmptyBucket DEF Histories
<1>6. \A x \in Secs : ~(x <= 0)
  BY StatisticsAssumption DEF Secs
<1>7. Recent(s, h)
  BY <1>2, <1>4, <1>6 DEF Recent
<1> QED  BY <1>1, <1>3, <1>4, <1>5, <1>7, VolumeNew

\* How the capture c is decoded.
DecodedAs(c) == decode_packet(c[1], c[2], wire_len(c[1]))

\* The last frame is one of the captured ones, and was decoded.
Seen(t, l) ==
  l # << >> => \E c \in t.captures : l = [frame |-> c[1], caplen |-> c[2], pkt |-> DecodedAs(c).out]

\* The inductive invariant of the analyzer.
AnalyzerInv ==
  /\ traffic \in Traffics /\ count \in 0..traffic.count /\ tracked \in 0..count
  /\ stats \in Tables /\ Ringed(stats) /\ Accounts(stats, tracked)
  /\ second \in Histories
  /\ Seen(traffic, last)

\* The analyzer starts in its invariant.
LEMMA AnalyzerInvInit == ASSUME Init PROVE AnalyzerInv
<1>1. traffic \in Traffics /\ count = 0 /\ tracked = 0 /\ last = << >>
  BY DEF Init
<1>2. traffic.count \in Nat
  BY <1>1, AnalyzerAssumption
<1>3. stats = NewStatistics /\ second = [x \in Secs |-> Empty]
  BY DEF Init
<1>4. Seen(traffic, last)
  BY <1>1 DEF Seen
<1>5. stats \in Tables /\ Ringed(stats) /\ Accounts(stats, tracked) /\ second \in Histories
  BY <1>1, <1>3, Fresh
<1> QED  BY <1>1, <1>2, <1>4, <1>5 DEF AnalyzerInv

\* Every step of the analyzer keeps its invariant.
LEMMA AnalyzerInvStep == ASSUME AnalyzerInv, [Next]_vars PROVE AnalyzerInv'
<1>1. /\ traffic \in Traffics /\ count \in 0..traffic.count /\ tracked \in 0..count
      /\ stats \in Tables /\ Ringed(stats) /\ Accounts(stats, tracked)
      /\ second \in Histories /\ Seen(traffic, last) /\ traffic.count \in Nat
  BY AnalyzerAssumption DEF AnalyzerInv
<1>2. CASE Reset
  <2>1. /\ stats' = NewStatistics /\ tracked' = 0 /\ second' = [x \in Secs |-> Empty]
        /\ traffic' = traffic /\ last' = last /\ count' = count
    BY <1>2 DEF Reset
  <2>2. stats' \in Tables /\ Ringed(stats') /\ Accounts(stats', tracked') /\ second' \in Histories
    BY <2>1, Fresh
  <2>3. Seen(traffic', last') /\ tracked' \in 0..count'
    BY <1>1, <2>1
  <2> QED  BY <1>1, <2>1, <2>2, <2>3 DEF AnalyzerInv
<1>3. ASSUME NEW c \in traffic.captures, NEW sec \in traffic.secs, Consume(c[1], c[2], sec)
      PROVE  AnalyzerInv'
  <2>1. IsFrame(c[1]) /\ c[2] \in 0..wire_len(c[1]) /\ sec \in Secs
    BY <1>1, AnalyzerAssumption
  <2>2. PICK d : d = DecodedAs(c)
    OBVIOUS
  <2>3. /\ count < traffic.count /\ stats' = add(stats, d.out, sec)
        /\ tracked' = tracked + one_if(reaches_flow(d))
        /\ last' = [frame |-> c[1], caplen |-> c[2], pkt |-> d.out]
        /\ second' = [second EXCEPT ![sec] = plus(@, d.out)]
        /\ count' = count + 1 /\ traffic' = traffic
    BY <1>3, <2>2, Zenon DEF Consume, DecodedAs
  <2>4. tracked \in Nat
    BY <1>1
  <2>5. /\ stats' \in Tables /\ Ringed(stats') /\ Accounts(stats', tracked')
        /\ d.out.wirelen \in Nat
    <3>1. d = decode_packet(c[1], c[2], wire_len(c[1]))
      BY <2>2 DEF DecodedAs
    <3>2. PICK s, t, n, k : s = stats /\ t = stats' /\ n = tracked /\ k = tracked'
      OBVIOUS
    <3>3. s \in Tables /\ Ringed(s) /\ t = add(s, d.out, sec)
      BY <1>1, <2>3, <3>2
    <3>4. n \in Nat /\ Accounts(s, n) /\ k = n + one_if(reaches_flow(d))
      BY <1>1, <2>3, <2>4, <3>2, Zenon
    <3>5. t \in Tables /\ Ringed(t) /\ d.out.wirelen \in Nat
      <4>1. t \in Tables /\ Ringed(t)
        BY <2>1, <3>1, <3>3, Consumed
      <4>2. Countable(d.out)
        BY <2>1, <3>1, Captured
      <4> QED  BY <4>1, <4>2 DEF Countable
    <3>6. Accounts(t, k)
      BY <2>1, <3>1, <3>3, <3>4, ConsumedVolume, Zenon
    <3> QED  BY <3>2, <3>5, <3>6, Zenon
  <2>6. second' \in Histories
    <3>1. plus(second[sec], d.out) \in Buckets
      BY <1>1, <2>1, <2>5, PlusType DEF Histories
    <3> QED  BY <1>1, <2>3, <3>1 DEF Histories
  <2>7. count' \in 0..traffic'.count /\ tracked' \in 0..count'
    BY <1>1, <2>3, OneIf
  <2>8. Seen(traffic', last')
    BY <2>2, <2>3 DEF Seen
  <2> QED  BY <1>1, <2>3, <2>5, <2>6, <2>7, <2>8 DEF AnalyzerInv
<1>4. CASE UNCHANGED vars
  BY <1>1, <1>4 DEF vars, AnalyzerInv
<1> QED  BY <1>2, <1>3, <1>4 DEF Next

\* The decoder and the counters keep the invariant for every traffic.
THEOREM AnalyzerInvariant == Spec => []AnalyzerInv
BY AnalyzerInvInit, AnalyzerInvStep, PTL DEF Spec

\* The state of the analyzer has its type, and a slot of the ring holds a second of its own
\* residue class, for every traffic, window and set of ports.
THEOREM AnalyzerTypeCorrect == Spec => []TypeOK
<1>1. ASSUME AnalyzerInv PROVE TypeOK
  BY <1>1 DEF AnalyzerInv, TypeOK, Ringed, Tables
<1> QED  BY <1>1, AnalyzerInvariant, PTL

\* Statistics::add counts every packet in exactly one line, ports, IP versions and talkers
\* account for the volume, and FlowTable::update takes exactly the packets that are counted
\* as IP: for every traffic.
THEOREM VolumeIsAccounted == Spec => []VolumeAccounted
<1>1. ASSUME AnalyzerInv PROVE VolumeAccounted
  BY <1>1, Zenon DEF AnalyzerInv, VolumeAccounted, Accounts, PacketsOf, BytesOf, IpLines
<1> QED  BY <1>1, AnalyzerInvariant, PTL

\* A shorter capture of any frame only hides what decode_packet shows of the whole one.
THEOREM SnaplenHides == Spec => []SnaplenOnlyHides
<1>1. ASSUME AnalyzerInv PROVE SnaplenOnlyHides
  <2>1. SUFFICES ASSUME last # << >> PROVE SnaplenOnlyHides
    BY DEF SnaplenOnlyHides
  <2>2. PICK c \in traffic.captures :
          last = [frame |-> c[1], caplen |-> c[2], pkt |-> DecodedAs(c).out]
    BY <1>1, <2>1 DEF AnalyzerInv, Seen
  <2>3. IsFrame(c[1]) /\ c[2] \in 0..wire_len(c[1])
    BY <1>1, AnalyzerAssumption DEF AnalyzerInv
  <2>4. PICK f, n, w : f = c[1] /\ n = c[2] /\ w = wire_len(f) /\ w \in Nat
    BY <2>3, HeaderLengths, Zenon
  <2>5. n \in Nat /\ n <= w /\ IsFrame(f)
    BY <2>3, <2>4
  <2>6. PICK x, y : x = decode_packet(f, n, w).out /\ y = decode_packet(f, w, w).out
    OBVIOUS
  <2>7. Hidden(x, y)
    BY <2>4, <2>5, <2>6, PacketHidden
  <2>8. x \in Outs(f, w) /\ y \in Outs(f, w)
    BY <2>4, <2>5, <2>6, PacketParsed DEF Parsed
  <2>9. x.payload_len \in 0..y.payload_len
    BY <2>7, <2>8 DEF Hidden, Outs
  <2>10. last.frame = f /\ last.pkt = x
    BY <2>2, <2>4, <2>6 DEF DecodedAs
  <2> QED  BY <2>4, <2>6, <2>7, <2>9, <2>10 DEF Hidden, SnaplenOnlyHides
<1> QED  BY <1>1, AnalyzerInvariant, PTL

\* decode_packet decodes every wellformed frame whose headers were captured without
\* complaint, with its ports and its captured payload.
THEOREM HeadersAreDecoded == Spec => []HeadersDecoded
<1>1. ASSUME AnalyzerInv PROVE HeadersDecoded
  <2>1. SUFFICES ASSUME last # << >>, wellformed(last.frame),
                        last.caplen >= headers_len(last.frame)
                 PROVE  HeadersDecoded
    BY DEF HeadersDecoded
  <2>2. PICK c \in traffic.captures :
          last = [frame |-> c[1], caplen |-> c[2], pkt |-> DecodedAs(c).out]
    BY <1>1, <2>1 DEF AnalyzerInv, Seen
  <2>3. IsFrame(c[1]) /\ c[2] \in 0..wire_len(c[1])
    BY <1>1, AnalyzerAssumption DEF AnalyzerInv
  <2>4. PICK f, n, w : f = c[1] /\ n = c[2] /\ w = wire_len(f) /\ w \in Nat
    BY <2>3, HeaderLengths, Zenon
  <2>5. n \in Nat /\ IsFrame(f) /\ wellformed(f) /\ n >= headers_len(f)
    BY <2>1, <2>2, <2>3, <2>4
  <2>6. PICK x : x = decode_packet(f, n, w).out
    OBVIOUS
  <2>7. Whole4(x, f, n - headers_len(f))
    BY <2>5, <2>6, FrameWhole
  <2>8. last.frame = f /\ last.pkt = x /\ last.caplen = n
    BY <2>2, <2>4, <2>6 DEF DecodedAs
  <2> QED  BY <2>7, <2>8, Zenon DEF Whole4, HeadersDecoded
<1> QED  BY <1>1, AnalyzerInvariant, PTL

\* Every step keeps the ring true for the whole window behind the newest second.
LEMMA RecentStep ==
  ASSUME StepBack < Window, AnalyzerInv, Recent(stats, second), [Next]_vars
  PROVE  Recent(stats', second')
<1>1. stats \in Tables /\ Ringed(stats) /\ second \in Histories /\ Accounts(stats, tracked)
      /\ tracked \in Nat
  BY DEF AnalyzerInv
<1>2. CASE Reset
  BY <1>2, Fresh DEF Reset
<1>3. ASSUME NEW c \in traffic.captures, NEW sec \in traffic.secs, Consume(c[1], c[2], sec)
      PROVE  Recent(stats', second')
  <2>1. IsFrame(c[1]) /\ c[2] \in 0..wire_len(c[1]) /\ sec \in Secs
    BY AnalyzerAssumption DEF AnalyzerInv
  <2>2. PICK d : d = DecodedAs(c)
    OBVIOUS
  <2>3. /\ stats' = add(stats, d.out, sec) /\ sec >= stats.newest_sec - StepBack
        /\ second' = [second EXCEPT ![sec] = plus(@, d.out)]
    BY <1>3, <2>2, Zenon DEF Consume, DecodedAs
  <2>4. /\ stats' \in Tables /\ d.out.wirelen \in Nat /\ stats'.newest_sec = newest(stats, sec)
        /\ stats'.ring = [stats.ring EXCEPT ![sec % Window] =
                            [sec |-> sec, bucket |-> plus(bucket_for(stats, sec), d.out)]]
    <3>1. PICK s, t : s = stats /\ t = stats'
      OBVIOUS
    <3>2. s \in Tables /\ Ringed(s) /\ t = add(s, d.out, sec)
      BY <1>1, <2>3, <3>1, Zenon
    <3>3. d = decode_packet(c[1], c[2], wire_len(c[1]))
      BY <2>2 DEF DecodedAs
    <3>4. /\ t \in Tables /\ d.out.wirelen \in Nat /\ t.newest_sec = newest(s, sec)
          /\ t.ring = [s.ring EXCEPT ![sec % Window] =
                         [sec |-> sec, bucket |-> plus(bucket_for(s, sec), d.out)]]
      BY <2>1, <3>2, <3>3, Consumed
    <3> QED  BY <3>1, <3>4, Zenon
  <2>5. sec > stats.newest_sec - Window
    <3>1. PICK newer : newer = stats.newest_sec /\ newer \in Int
      BY <1>1 DEF Tables
    <3>2. Window \in Int /\ StepBack \in Int
      BY StatisticsAssumption, AnalyzerAssumption
    <3>3. sec \in Int
      BY <2>1, StatisticsAssumption DEF Secs
    <3>4. sec >= newer - StepBack
      BY <2>3, <3>1
    <3>5. sec > newer - Window
      BY <3>1, <3>2, <3>3, <3>4
    <3> QED  BY <3>1, <3>5
  <2> QED  BY <1>1, <2>1, <2>3, <2>4, <2>5, WindowKept
<1>4. CASE UNCHANGED vars
  BY <1>4 DEF vars
<1> QED  BY <1>2, <1>3, <1>4 DEF Next

\* While time stamps lag by less than the window, the throughput display is true to what
\* was captured in each of its seconds, for every traffic and window.
THEOREM ThroughputTrue == ASSUME StepBack < Window PROVE Spec => []ThroughputIsTrue
<1>1. ASSUME Init PROVE Recent(stats, second)
  BY <1>1, Fresh DEF Init
<1>2. ASSUME AnalyzerInv, Recent(stats, second), [Next]_vars PROVE Recent(stats, second)'
  BY <1>2, RecentStep
<1>3. ASSUME AnalyzerInv, Recent(stats, second) PROVE ThroughputIsTrue
  <2>1. stats.newest_sec \in Nat /\ Window \in Nat \ {0} /\ \A x \in Secs : x \in Int
    BY <1>3, StatisticsAssumption DEF AnalyzerInv, Tables, Secs
  <2>2. \A x \in Secs : stats.newest_sec - Window < x /\ x <= stats.newest_sec
                          => stored(stats, x) = second[x]
    BY <1>3 DEF Recent
  <2>3. \A x \in shown_secs(stats) : throughput_history(stats)[x] = second[x]
    BY <2>2 DEF shown_secs, throughput_history
  <2>4. ASSUME NEW n \in 1..(Window - 1)
        PROVE  recent_bytes(stats, n) =
                 LET span == {x \in Secs : stats.newest_sec - n <= x /\ x < stats.newest_sec}
                 IN Sum([x \in span |-> second[x].bytes], span)
    <3>1. n # 0 /\ span_of(n) = n
      BY <2>1 DEF span_of
    <3>2. CASE stats.newest_sec = 0
      <4>1. PICK span : span = {x \in Secs : stats.newest_sec - n <= x /\ x < stats.newest_sec}
        OBVIOUS
      <4>2. span = {} /\ IsFiniteSet(span)
        BY <3>2, <4>1, FS_EmptySet, StatisticsAssumption DEF Secs
      <4>3. Sum([x \in span |-> second[x].bytes], span) = 0
        BY <4>2, SumZero
      <4> QED  BY <3>1, <3>2, <4>1, <4>3, Zenon DEF recent_bytes
    <3>3. CASE stats.newest_sec # 0
      <4>1. \A x \in completed(stats, n) : stored(stats, x) = second[x]
        BY <2>1, <2>2 DEF completed
      <4>2. [x \in completed(stats, n) |-> stored(stats, x).bytes]
              = [x \in completed(stats, n) |-> second[x].bytes]
        BY <4>1
      <4> QED  BY <3>1, <3>3, <4>2, Zenon DEF recent_bytes, completed
    <3> QED  BY <3>2, <3>3
  <2> QED  BY <2>3, <2>4 DEF ThroughputIsTrue
<1> QED  BY <1>1, <1>2, <1>3, AnalyzerInvariant, PTL DEF Spec

=============================================================================
