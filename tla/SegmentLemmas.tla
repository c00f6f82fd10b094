--------------------------- MODULE SegmentLemmas ---------------------------
(***************************************************************************)
(* The lemmas that the proofs about segments share.  Serial-number         *)
(* arithmetic agrees with the arithmetic of stream positions as long as    *)
(* the positions are less than half the space apart, wherever the stream   *)
(* lies in the sequence space.  A sum over a finite set does not depend on *)
(* the order it is taken in.  And what the class StreamReassembler does    *)
(* with any segments at all: the loop of drain() ends with nothing left to *)
(* release, and the bytes held behind a gap are counted exactly and never  *)
(* exceed the budget.                                                      *)
(***************************************************************************)
EXTENDS Reassembly, FiniteSetTheorems, SequenceTheorems, WellFoundedInduction, TLAPS

-----------------------------------------------------------------------------
(* Remainders.                                                             *)

\* A multiple of m between -m and m is 0.
LEMMA SmallMultiple ==
  ASSUME NEW m \in Nat \ {0}, NEW q \in Int, NEW r \in Int, -m < r, r < m, r = q * m
  PROVE  q = 0
  OBVIOUS

\* Quotient and remainder.
LEMMA Division ==
  ASSUME NEW m \in Nat \ {0}, NEW a \in Int
  PROVE  /\ a % m \in 0 .. m - 1
         /\ a \div m \in Int
         /\ a = (a \div m) * m + (a % m)
<1>1. a % m \in 0 .. m - 1
  OBVIOUS
<1>2. a \div m \in Int
  OBVIOUS
<1>3. a = m * (a \div m) + (a % m)
  OBVIOUS
<1> QED  BY <1>1, <1>2, <1>3

\* The remainder is the only number below m that differs by a multiple of m.
LEMMA RemainderUnique ==
  ASSUME NEW m \in Nat \ {0}, NEW q \in Int, NEW r \in 0 .. m - 1
  PROVE  (q * m + r) % m = r
<1> DEFINE a == q * m + r
<1>1. a \in Int
  OBVIOUS
<1> HIDE DEF a
<1>2. PICK k \in Int, s \in 0 .. m - 1 : s = a % m /\ a = k * m + s
  BY <1>1, Division
<1>3. (q - k) * m = s - r
  <2>1. q * m \in Int /\ k * m \in Int /\ (q - k) * m = q * m - k * m
    OBVIOUS
  <2>2. q * m + r = k * m + s
    BY <1>2 DEF a
  <2> QED  BY <2>1, <2>2
<1>4. q - k = 0
  <2>1. q - k \in Int /\ s - r \in Int /\ -m < s - r /\ s - r < m
    OBVIOUS
  <2> QED  BY <1>3, <2>1, SmallMultiple
<1>5. s = r
  <2>1. s - r = 0
    BY <1>3, <1>4
  <2> QED  BY <2>1
<1> QED  BY <1>2, <1>5 DEF a

\* Adding to a remainder, or to the number itself, is the same.
LEMMA RemainderAdd ==
  ASSUME NEW m \in Nat \ {0}, NEW a \in Int, NEW n \in Int
  PROVE  ((a % m) + n) % m = (a + n) % m
<1>1. PICK q \in Int, r \in 0 .. m - 1 : r = a % m /\ a = q * m + r
  BY Division
<1>2. PICK k \in Int, s \in 0 .. m - 1 : s = (r + n) % m /\ r + n = k * m + s
  <2>1. PICK b \in Int : b = r + n
    OBVIOUS
  <2>2. PICK c \in Int, t \in 0 .. m - 1 : t = b % m /\ b = c * m + t
    BY Division
  <2>3. t = (r + n) % m /\ r + n = c * m + t
    BY <2>1, <2>2, Zenon
  <2> QED  BY <2>3, Zenon
<1>3. a + n = (q + k) * m + s
  <2>1. PICK u \in Int, v \in Int, w \in Int :
          u = q * m /\ v = k * m /\ w = (q + k) * m /\ w = u + v
    OBVIOUS
  <2>2. a = u + r /\ r + n = v + s
    BY <1>1, <1>2, <2>1, Zenon
  <2>3. a + n = w + s
    BY <2>1, <2>2
  <2> QED  BY <2>1, <2>3, Zenon
<1>4. ((q + k) * m + s) % m = s
  <2>1. q + k \in Int
    OBVIOUS
  <2> QED  BY <2>1, RemainderUnique
<1> QED  BY <1>1, <1>2, <1>3, <1>4

-----------------------------------------------------------------------------
(* Sequence numbers.                                                       *)

\* The sequence space is not empty, and the operations stay in it.
LEMMA SpaceType ==
  /\ SeqSpace \in Nat \ {0}
  /\ \A a, n \in Int : SeqAdd(a, n) \in SeqNums /\ SeqDiff(a, n) \in SeqNums
<1>1. SeqSpace \in Nat \ {0}
  BY HalfSpaceAssumption DEF SeqSpace
<1>2. \A a \in Int : a % SeqSpace \in 0 .. SeqSpace - 1
  BY <1>1, Division
<1> QED  BY <1>1, <1>2 DEF SeqAdd, SeqDiff, SeqNums

\* Advancing twice is advancing by the sum, across the end of the space too.
LEMMA AddAdd ==
  ASSUME NEW a \in Int, NEW x \in Int, NEW n \in Int
  PROVE  SeqAdd(SeqAdd(a, x), n) = SeqAdd(a, x + n)
<1>1. PICK b \in Int : b = a + x
  OBVIOUS
<1>2. ((b % SeqSpace) + n) % SeqSpace = (b + n) % SeqSpace
  BY SpaceType, RemainderAdd
<1>3. b + n = a + (x + n)
  BY <1>1
<1> QED  BY <1>1, <1>2, <1>3 DEF SeqAdd

\* uint32_t subtraction gives the distance of two positions of the stream, if the first
\* is not behind the second and they are less than the sequence space apart.
LEMMA DiffOfPositions ==
  ASSUME NEW a \in Int, NEW x \in Int, NEW y \in Int, 0 <= y - x, y - x < SeqSpace
  PROVE  SeqDiff(SeqAdd(a, y), SeqAdd(a, x)) = y - x
<1> DEFINE m == SeqSpace
<1>1. m \in Nat \ {0}
  BY SpaceType
<1> HIDE DEF m
<1>2. PICK q \in Int, r \in 0 .. m - 1 : r = (a + y) % m /\ a + y = q * m + r
  <2>1. PICK b \in Int : b = a + y
    OBVIOUS
  <2>2. PICK q \in Int, r \in 0 .. m - 1 : r = b % m /\ b = q * m + r
    BY <1>1, Division
  <2> QED  BY <2>1, <2>2
<1>3. PICK k \in Int, s \in 0 .. m - 1 : s = (a + x) % m /\ a + x = k * m + s
  <2>1. PICK b \in Int : b = a + x
    OBVIOUS
  <2>2. PICK k \in Int, s \in 0 .. m - 1 : s = b % m /\ b = k * m + s
    BY <1>1, Division
  <2> QED  BY <2>1, <2>2
<1>4. PICK d \in 0 .. m - 1 : d = y - x
  BY <1>1 DEF m
<1>5. r - s = (k - q) * m + d
  <2>1. PICK u \in Int, v \in Int, w \in Int :
          u = q * m /\ v = k * m /\ w = (k - q) * m /\ w = v - u
    BY <1>1
  <2>2. a + y = u + r /\ a + x = v + s
    BY <1>2, <1>3, <2>1, Zenon
  <2>3. r - s = w + d
    BY <1>4, <2>1, <2>2
  <2> QED  BY <2>1, <2>3, Zenon
<1>6. ((k - q) * m + d) % m = d
  <2>1. k - q \in Int
    OBVIOUS
  <2> QED  BY <1>1, <2>1, RemainderUnique
<1>7. (r - s) % m = d
  BY <1>5, <1>6
<1> QED  BY <1>2, <1>3, <1>4, <1>7 DEF SeqDiff, SeqAdd, m

\* The signed comparison of two sequence numbers is the comparison of the positions.
LEMMA ComparePositions ==
  ASSUME NEW a \in Int, NEW x \in Int, NEW y \in Int,
         x - y < HalfSpace, y - x < HalfSpace
  PROVE  /\ SeqAdd(a, x) = SeqAdd(a, y) <=> x = y
         /\ seq_lt(SeqAdd(a, x), SeqAdd(a, y)) <=> x < y
         /\ seq_le(SeqAdd(a, x), SeqAdd(a, y)) <=> x <= y
         /\ seq_gt(SeqAdd(a, x), SeqAdd(a, y)) <=> x > y
<1>1. HalfSpace \in Nat /\ SeqSpace = 2 * HalfSpace
  BY HalfSpaceAssumption DEF SeqSpace
<1>2. SeqAdd(a, x) \in Int /\ SeqAdd(a, y) \in Int
  <2>1. SeqAdd(a, x) \in SeqNums /\ SeqAdd(a, y) \in SeqNums
    BY SpaceType
  <2> QED  BY <2>1, SpaceType DEF SeqNums
<1>3. \A b \in Int : SeqDiff(b, b) = 0
  BY SpaceType DEF SeqDiff
<1>4. CASE x >= y
  <2>1. SeqDiff(SeqAdd(a, x), SeqAdd(a, y)) = x - y
    BY <1>1, <1>4, DiffOfPositions
  <2>2. x = y <=> SeqAdd(a, x) = SeqAdd(a, y)
    <3>1. SeqAdd(a, x) = SeqAdd(a, y) => SeqDiff(SeqAdd(a, x), SeqAdd(a, y)) = 0
      BY <1>3, <1>2
    <3> QED  BY <2>1, <3>1
  <2> QED  BY <1>1, <1>4, <2>1, <2>2 DEF seq_lt, seq_le, seq_gt
<1>5. CASE x < y
  <2>1. SeqDiff(SeqAdd(a, y), SeqAdd(a, x)) = y - x
    BY <1>1, <1>5, DiffOfPositions
  <2>2. SeqDiff(SeqAdd(a, x), SeqAdd(a, y)) = SeqSpace - (y - x)
    <3>1. PICK z \in Int : z = x + SeqSpace /\ 0 <= z - y /\ z - y < SeqSpace
      BY <1>1, <1>5
    <3>2. SeqDiff(SeqAdd(a, z), SeqAdd(a, y)) = z - y
      BY <3>1, DiffOfPositions
    <3>3. SeqAdd(a, z) = SeqAdd(a, x)
      <4>1. SeqSpace \in Nat \ {0}
        BY SpaceType
      <4>2. PICK b \in Int : b = a + x
        OBVIOUS
      <4>3. PICK q \in Int, r \in 0 .. SeqSpace - 1 :
              r = b % SeqSpace /\ b = q * SeqSpace + r
        BY <4>1, Division
      <4>4. PICK k \in Int, u \in Int, v \in Int :
              u = q * SeqSpace /\ v = k * SeqSpace /\ v = u + SeqSpace
        <5>1. (q + 1) * SeqSpace = q * SeqSpace + SeqSpace
          BY <4>1
        <5> QED  BY <4>1, <5>1
      <4>5. a + z = k * SeqSpace + r
        <5>1. b = u + r
          BY <4>3, <4>4, Zenon
        <5>2. a + z = v + r
          BY <3>1, <4>1, <4>2, <4>4, <5>1
        <5> QED  BY <4>4, <5>2, Zenon
      <4>6. (k * SeqSpace + r) % SeqSpace = r
        BY <4>1, RemainderUnique
      <4> QED  BY <4>2, <4>3, <4>5, <4>6 DEF SeqAdd
    <3>4. z - y = SeqSpace - (y - x)
      BY <1>1, <3>1
    <3> QED  BY <3>2, <3>3, <3>4, Zenon
  <2>3. SeqAdd(a, x) # SeqAdd(a, y)
    <3>1. SeqAdd(a, x) = SeqAdd(a, y) => SeqDiff(SeqAdd(a, y), SeqAdd(a, x)) = 0
      BY <1>3, <1>2
    <3> QED  BY <1>5, <2>1, <3>1
  <2> QED  BY <1>1, <1>5, <2>2, <2>3 DEF seq_lt, seq_le, seq_gt
<1> QED  BY <1>4, <1>5

\* A sequence number is where its distance from a says it is.
LEMMA AddDiff ==
  ASSUME NEW a \in Int, NEW n \in SeqNums
  PROVE  SeqAdd(a, SeqDiff(n, a)) = n
<1>1. SeqSpace \in Nat \ {0} /\ n \in 0 .. SeqSpace - 1
  BY SpaceType DEF SeqNums
<1>2. PICK b \in Int : b = n - a
  BY <1>1
<1>3. ((b % SeqSpace) + a) % SeqSpace = (b + a) % SeqSpace
  BY <1>1, RemainderAdd
<1>4. (b + a) % SeqSpace = n
  BY <1>1, <1>2
<1>5. b % SeqSpace \in Int
  BY <1>1, Division
<1>6. (b % SeqSpace) + a = a + (b % SeqSpace)
  BY <1>5
<1> QED  BY <1>2, <1>3, <1>4, <1>6 DEF SeqAdd, SeqDiff

-----------------------------------------------------------------------------
(***************************************************************************)
(* Sums over finite sets.  MapThenSumSet takes the elements in the order   *)
(* of CHOOSE; its result does not depend on it: an element may be split    *)
(* off anywhere.                                                           *)
(***************************************************************************)

\* Some element of s.
Some(s) == CHOOSE x \in s : TRUE

\* f gives the sum of the weights w for the subsets of S in the family F.
SumsOf(f, w, F) ==
  f = [s \in F |-> IF s = {} THEN 0 ELSE w[Some(s)] + f[s \ {Some(s)}]]

\* f gives the sum of natural weights w for every subset of the finite set S.
Summed(f, w, S) ==
  IsFiniteSet(S) /\ (\A x \in S : w[x] \in Nat) /\ SumsOf(f, w, SUBSET S)

\* Whichever element is split off, it adds its weight to the sum of the others.
Splits(f, w, S) ==
  \A s \in SUBSET S : f[s] \in Nat /\ \A x \in s : f[s] = w[x] + f[s \ {x}]

SameWeights(v, w, U) == \A x \in U : v[x] = w[x]

\* A set of naturals that is not empty has a least element.
LEMMA LeastElement ==
  ASSUME NEW S \in SUBSET Nat, S # {}
  PROVE  \E m \in S : \A y \in Nat : y < m => y \notin S
<1>1. PICK m \in S : \A y \in S : ~(<<y, m>> \in OpToRel(<, Nat))
  BY NatLessThanWellFounded, WFMin
<1>2. \A y \in Nat : y < m => <<y, m>> \in OpToRel(<, Nat)
  BY DEF OpToRel
<1> QED  BY <1>1, <1>2, Zenon

\* The element that is taken first.
LEMMA SomeElement ==
  ASSUME NEW S, IsFiniteSet(S), NEW s \in SUBSET S, s # {}
  PROVE  /\ Some(s) \in s /\ s \ {Some(s)} \in SUBSET S
         /\ Cardinality(s) \in Nat /\ Cardinality(s) > 0
         /\ Cardinality(s \ {Some(s)}) = Cardinality(s) - 1
<1>1. Some(s) \in s
  BY Zenon DEF Some
<1>2. IsFiniteSet(s)
  BY FS_Subset
<1>3. Cardinality(s) \in Nat /\ Cardinality(s) # 0
  BY <1>2, FS_CardinalityType, FS_EmptySet
<1>4. Cardinality(s \ {Some(s)}) = Cardinality(s) - 1
  BY <1>1, <1>2, FS_RemoveElement
<1>5. s \ {Some(s)} \in SUBSET S /\ Cardinality(s) > 0
  BY <1>3
<1> QED  BY <1>1, <1>3, <1>4, <1>5

\* The recursion has a solution on the subsets with at most n elements, for every n.
LEMMA SumsExist ==
  ASSUME NEW S, IsFiniteSet(S), NEW w, NEW n \in Nat
  PROVE  \E f : SumsOf(f, w, {s \in SUBSET S : Cardinality(s) <= n})
<1> DEFINE F(m) == {s \in SUBSET S : Cardinality(s) <= m}
           B == {m \in Nat : ~\E f : SumsOf(f, w, F(m))}
<1>1. SUFFICES ASSUME B # {} PROVE FALSE
  OBVIOUS
<1>2. PICK m \in B : \A y \in Nat : y < m => y \notin B
  <2>1. B \in SUBSET Nat
    OBVIOUS
  <2> QED  BY <1>1, <2>1, LeastElement
<1>3. m \in Nat
  OBVIOUS
<1>4. \A s \in SUBSET S : IsFiniteSet(s) /\ Cardinality(s) \in Nat
  BY FS_Subset, FS_CardinalityType
<1>5. CASE m = 0
  <2>1. \A s \in F(0) : s = {}
    BY <1>4, FS_EmptySet
  <2>2. PICK f : f = [s \in F(0) |-> 0]
    OBVIOUS
  <2>3. SumsOf(f, w, F(0))
    BY <2>1, <2>2 DEF SumsOf
  <2> QED  BY <1>2, <1>5, <2>3
<1>6. CASE m # 0
  <2>1. m - 1 \in Nat /\ m - 1 < m
    BY <1>3, <1>6
  <2>2. PICK f : SumsOf(f, w, F(m - 1))
    BY <1>2, <2>1
  <2>3. PICK g : g = [s \in F(m) |-> IF s = {} THEN 0 ELSE w[Some(s)] + f[s \ {Some(s)}]]
    OBVIOUS
  <2>4. ASSUME NEW s \in F(m), s # {} PROVE s \ {Some(s)} \in F(m - 1)
    BY <1>3, <2>4, SomeElement
  <2>5. ASSUME NEW s \in F(m - 1) PROVE g[s] = f[s]
    <3>1. s \in F(m)
      BY <1>3, <1>4
    <3>2. f[s] = IF s = {} THEN 0 ELSE w[Some(s)] + f[s \ {Some(s)}]
      BY <2>2, Zenon DEF SumsOf
    <3> QED  BY <2>3, <3>1, <3>2
  <2>6. ASSUME NEW s \in F(m)
        PROVE  g[s] = IF s = {} THEN 0 ELSE w[Some(s)] + g[s \ {Some(s)}]
    BY <2>3, <2>4, <2>5
  <2>7. SumsOf(g, w, F(m))
    BY <2>3, <2>6 DEF SumsOf
  <2> QED  BY <1>2, <2>7
<1> QED  BY <1>5, <1>6

\* The solution on all subsets.
LEMMA SumsOfSubsets ==
  ASSUME NEW S, IsFiniteSet(S), NEW w
  PROVE  \E f : SumsOf(f, w, SUBSET S)
<1>1. PICK n \in Nat : n = Cardinality(S)
  BY FS_CardinalityType
<1>2. {s \in SUBSET S : Cardinality(s) <= n} = SUBSET S
  BY <1>1, FS_Subset
<1>3. PICK f : SumsOf(f, w, {s \in SUBSET S : Cardinality(s) <= n})
  BY SumsExist
<1>4. SumsOf(f, w, SUBSET S)
  BY <1>2, <1>3
<1> QED  BY <1>4

\* A solution sums up natural weights to a natural number, and it does not matter which
\* element is split off.
LEMMA AnyElement ==
  ASSUME NEW S, NEW w, NEW f, Summed(f, w, S)
  PROVE  f[{}] = 0 /\ Splits(f, w, S)
<1> DEFINE Good(s) == f[s] \in Nat /\ \A x \in s : f[s] = w[x] + f[s \ {x}]
           B == {m \in Nat : \E s \in SUBSET S : Cardinality(s) = m /\ ~Good(s)}
<1>0. IsFiniteSet(S) /\ \A x \in S : w[x] \in Nat
  BY Zenon DEF Summed
<1>1. \A s \in SUBSET S : f[s] = IF s = {} THEN 0 ELSE w[Some(s)] + f[s \ {Some(s)}]
  BY Zenon DEF Summed, SumsOf
<1>2. f[{}] = 0
  BY <1>1
<1>3. \A s \in SUBSET S : IsFiniteSet(s) /\ Cardinality(s) \in Nat
  BY <1>0, FS_Subset, FS_CardinalityType
<1>4. SUFFICES ASSUME B # {} PROVE FALSE
  BY <1>2, <1>3 DEF Splits
<1>5. PICK m \in B : \A y \in Nat : y < m => y \notin B
  <2>1. B \in SUBSET Nat
    OBVIOUS
  <2> QED  BY <1>4, <2>1, LeastElement
<1>6. PICK s \in SUBSET S : Cardinality(s) = m /\ ~Good(s)
  BY <1>5
<1>7. \A t \in SUBSET S : Cardinality(t) < m => Good(t)
  BY <1>3, <1>5
<1>8. s # {}
  <2>1. Good({})
    BY <1>2
  <2> QED  BY <1>6, <2>1
<1>9. PICK c \in s : c = Some(s)
  BY <1>0, <1>8, SomeElement
<1>10. f[s] = w[c] + f[s \ {c}]
  BY <1>1, <1>8, <1>9
<1>11. ASSUME NEW x \in s PROVE s \ {x} \in SUBSET S /\ Good(s \ {x})
  <2>1. Cardinality(s \ {x}) < m /\ s \ {x} \in SUBSET S
    BY <1>3, <1>6, FS_RemoveElement
  <2> QED  BY <1>7, <2>1
<1>12. f[s] \in Nat
  <2>1. w[c] \in Nat /\ f[s \ {c}] \in Nat
    BY <1>0, <1>9, <1>11
  <2> QED  BY <1>10, <2>1
<1>13. ASSUME NEW x \in s PROVE f[s] = w[x] + f[s \ {x}]
  <2>1. CASE x = c
    BY <1>10, <2>1
  <2>2. CASE x # c
    <3>1. x \in s \ {c} /\ c \in s \ {x} /\ (s \ {c}) \ {x} = (s \ {x}) \ {c}
      BY <2>2
    <3>2. PICK u : u = f[(s \ {c}) \ {x}]
      OBVIOUS
    <3>3. f[s \ {c}] = w[x] + u /\ f[s \ {x}] = w[c] + u
      BY <1>11, <3>1, <3>2
    <3>4. u \in Nat /\ w[x] \in Nat /\ w[c] \in Nat
      <4>1. Cardinality((s \ {c}) \ {x}) < m /\ (s \ {c}) \ {x} \in SUBSET S
        <5>1. /\ IsFiniteSet(s \ {c}) /\ Cardinality(s \ {c}) = m - 1 /\ m \in Nat
          BY <1>3, <1>6, FS_RemoveElement
        <5>2. PICK t : t = s \ {c}
          OBVIOUS
        <5>3. Cardinality(t \ {x}) = Cardinality(t) - 1
          BY <3>1, <5>1, <5>2, FS_RemoveElement
        <5> QED  BY <5>1, <5>2, <5>3
      <4> QED  BY <1>0, <1>7, <3>2, <4>1
    <3> QED  BY <1>10, <3>3, <3>4
  <2> QED  BY <2>1, <2>2
<1> QED  BY <1>6, <1>12, <1>13

\* Two solutions agree on the sets on which their weights do.
LEMMA SameSums ==
  ASSUME NEW S, NEW v, NEW f, Summed(f, v, S),
         NEW T, NEW w, NEW g, Summed(g, w, T),
         NEW U, U \in SUBSET S, U \in SUBSET T, SameWeights(v, w, U)
  PROVE  f[U] = g[U]
<1> DEFINE B == {m \in Nat : \E s \in SUBSET U : Cardinality(s) = m /\ f[s] # g[s]}
<1>1. /\ \A s \in SUBSET S : f[s] = IF s = {} THEN 0 ELSE v[Some(s)] + f[s \ {Some(s)}]
      /\ \A s \in SUBSET T : g[s] = IF s = {} THEN 0 ELSE w[Some(s)] + g[s \ {Some(s)}]
  BY Zenon DEF Summed, SumsOf
<1>2. IsFiniteSet(U) /\ \A s \in SUBSET U : IsFiniteSet(s) /\ Cardinality(s) \in Nat
  BY FS_Subset, FS_CardinalityType DEF Summed
<1>3. SUFFICES ASSUME B # {} PROVE FALSE
  BY <1>2
<1>4. PICK m \in B : \A y \in Nat : y < m => y \notin B
  <2>1. B \in SUBSET Nat
    OBVIOUS
  <2> QED  BY <1>3, <2>1, LeastElement
<1>5. PICK s \in SUBSET U : Cardinality(s) = m /\ f[s] # g[s]
  BY <1>4
<1>6. s # {}
  BY <1>1, <1>5
<1>7. /\ Some(s) \in s /\ s \ {Some(s)} \in SUBSET U
      /\ Cardinality(s \ {Some(s)}) \in Nat /\ Cardinality(s \ {Some(s)}) < m
  BY <1>2, <1>5, <1>6, SomeElement
<1>8. f[s \ {Some(s)}] = g[s \ {Some(s)}]
  BY <1>4, <1>7
<1>9. /\ f[s] = v[Some(s)] + f[s \ {Some(s)}]
      /\ g[s] = w[Some(s)] + g[s \ {Some(s)}]
  BY <1>1, <1>6
<1>10. v[Some(s)] = w[Some(s)]
  BY <1>7, Zenon DEF SameWeights
<1> QED  BY <1>5, <1>8, <1>9, <1>10

-----------------------------------------------------------------------------
(* The reassembler and the bytes it holds.                                 *)

\* Segments of bytes from D waiting behind a gap, by sequence number.
Pendings(D) == UNION {[S -> Seq(D)] : S \in SUBSET SeqNums}

Reassemblers(D) ==
  [initialized : BOOLEAN, next_seq : SeqNums, prefix : Seq(D),
   pending : Pendings(D), buffered_bytes : Nat, delivered : Nat]

Lengths(q) == [n \in DOMAIN q |-> Len(q[n])]
LengthSums(f, q) ==
  f = [s \in SUBSET (DOMAIN q) |->
         IF s = {} THEN 0 ELSE Len(q[Some(s)]) + f[s \ {Some(s)}]]

\* The number of bytes held.
HeldLength(q) == MapThenSumSet(LAMBDA n : Len(q[n]), DOMAIN q)

\* The length of the segment held at n.
Copy(q, n) == IF n \in DOMAIN q THEN Len(q[n]) ELSE 0

\* The map is finite and its values are sequences of bytes.
LEMMA PendingFacts ==
  ASSUME NEW D, NEW q \in Pendings(D)
  PROVE  /\ IsFiniteSet(DOMAIN q) /\ DOMAIN q \subseteq SeqNums
         /\ \A n \in DOMAIN q : q[n] \in Seq(D) /\ Len(q[n]) \in Nat
         /\ Cardinality(DOMAIN q) \in Nat
<1>1. PICK S \in SUBSET SeqNums : q \in [S -> Seq(D)]
  BY DEF Pendings
<1>2. IsFiniteSet(SeqNums)
  BY SpaceType, FS_Interval DEF SeqNums
<1>3. IsFiniteSet(DOMAIN q) /\ DOMAIN q \subseteq SeqNums
  BY <1>1, <1>2, FS_Subset
<1>4. Cardinality(DOMAIN q) \in Nat
  BY <1>3, FS_CardinalityType
<1>5. \A n \in DOMAIN q : q[n] \in Seq(D) /\ Len(q[n]) \in Nat
  BY <1>1
<1> QED  BY <1>3, <1>4, <1>5

\* The number of bytes held is a sum of the lengths in the sense above.
LEMMA HeldIsSum ==
  ASSUME NEW q, IsFiniteSet(DOMAIN q)
  PROVE  \E f : SumsOf(f, Lengths(q), SUBSET (DOMAIN q)) /\ HeldLength(q) = f[DOMAIN q]
<1>1. ASSUME NEW f PROVE SumsOf(f, Lengths(q), SUBSET (DOMAIN q)) <=> LengthSums(f, q)
  <2>1. \A s \in SUBSET (DOMAIN q) : s # {} => Some(s) \in DOMAIN q
    BY SomeElement
  <2> QED  BY <2>1 DEF SumsOf, LengthSums, Lengths
<1>2. PICK h : h = CHOOSE f : LengthSums(f, q)
  OBVIOUS
<1>3. LengthSums(h, q)
  <2>1. \E f : LengthSums(f, q)
    BY <1>1, SumsOfSubsets
  <2> QED  BY <1>2, <2>1, Zenon
<1>4. HeldLength(q) = h[DOMAIN q]
  BY <1>2, Zenon DEF HeldLength, MapThenSumSet, MapThenFoldSet, LengthSums, Some
<1> QED  BY <1>1, <1>3, <1>4, Zenon

\* Two maps that agree outside n hold the same number of bytes outside n.
LEMMA HeldOutside ==
  ASSUME NEW D, NEW q \in Pendings(D), NEW p \in Pendings(D), NEW n,
         DOMAIN p \ {n} = DOMAIN q \ {n},
         \A m \in DOMAIN q \ {n} : p[m] = q[m]
  PROVE  /\ HeldLength(p) \in Nat /\ HeldLength(q) \in Nat
         /\ HeldLength(p) - Copy(p, n) = HeldLength(q) - Copy(q, n)
<1>1. /\ IsFiniteSet(DOMAIN q) /\ \A m \in DOMAIN q : Len(q[m]) \in Nat
      /\ IsFiniteSet(DOMAIN p) /\ \A m \in DOMAIN p : Len(p[m]) \in Nat
  BY PendingFacts
<1>2. PICK f : SumsOf(f, Lengths(q), SUBSET (DOMAIN q)) /\ HeldLength(q) = f[DOMAIN q]
  BY <1>1, HeldIsSum
<1>3. PICK g : SumsOf(g, Lengths(p), SUBSET (DOMAIN p)) /\ HeldLength(p) = g[DOMAIN p]
  BY <1>1, HeldIsSum
<1>4. /\ \A m \in DOMAIN q : Lengths(q)[m] = Len(q[m])
      /\ \A m \in DOMAIN p : Lengths(p)[m] = Len(p[m])
  BY DEF Lengths
<1>5. PICK U : U = DOMAIN q \ {n}
  OBVIOUS
<1>6. f[U] = g[U]
  <2>1. U \in SUBSET (DOMAIN q) /\ U \in SUBSET (DOMAIN p)
    BY <1>5
  <2>2. \A m \in U : Lengths(q)[m] = Lengths(p)[m]
    BY <1>4, <1>5
  <2>3. PICK S, T, v, w : S = DOMAIN q /\ T = DOMAIN p /\ v = Lengths(q) /\ w = Lengths(p)
    OBVIOUS
  <2>4. /\ Summed(f, v, S) /\ U \in SUBSET S
        /\ Summed(g, w, T) /\ U \in SUBSET T
        /\ SameWeights(v, w, U)
    BY <1>1, <1>2, <1>3, <1>4, <2>1, <2>2, <2>3 DEF Summed, SameWeights
  <2> QED  BY <2>4, SameSums
<1>7. /\ f[DOMAIN q] \in Nat /\ f[U] \in Nat
      /\ n \in DOMAIN q => f[DOMAIN q] = Len(q[n]) + f[U]
      /\ n \notin DOMAIN q => f[DOMAIN q] = f[U]
  <2>1. /\ \A s \in SUBSET (DOMAIN q) :
             f[s] \in Nat /\ \A x \in s : f[s] = Lengths(q)[x] + f[s \ {x}]
    <3>1. PICK S, v : S = DOMAIN q /\ v = Lengths(q)
      OBVIOUS
    <3>2. Summed(f, v, S)
      BY <1>1, <1>2, <1>4, <3>1 DEF Summed
    <3>3. Splits(f, v, S)
      BY <3>2, AnyElement, Zenon
    <3> QED  BY <3>1, <3>3 DEF Splits
  <2>2. DOMAIN q \in SUBSET (DOMAIN q) /\ U \in SUBSET (DOMAIN q)
    BY <1>5
  <2>3. n \notin DOMAIN q => U = DOMAIN q
    BY <1>5
  <2> QED  BY <1>4, <1>5, <2>1, <2>2, <2>3
<1>8. /\ g[DOMAIN p] \in Nat /\ g[U] \in Nat
      /\ n \in DOMAIN p => g[DOMAIN p] = Len(p[n]) + g[U]
      /\ n \notin DOMAIN p => g[DOMAIN p] = g[U]
  <2>1. /\ \A s \in SUBSET (DOMAIN p) :
             g[s] \in Nat /\ \A x \in s : g[s] = Lengths(p)[x] + g[s \ {x}]
    <3>1. PICK S, v : S = DOMAIN p /\ v = Lengths(p)
      OBVIOUS
    <3>2. Summed(g, v, S)
      BY <1>1, <1>3, <1>4, <3>1 DEF Summed
    <3>3. Splits(g, v, S)
      BY <3>2, AnyElement, Zenon
    <3> QED  BY <3>1, <3>3 DEF Splits
  <2>2. DOMAIN p \in SUBSET (DOMAIN p) /\ U \in SUBSET (DOMAIN p) /\ U = DOMAIN p \ {n}
    BY <1>5
  <2>3. n \notin DOMAIN p => U = DOMAIN p
    BY <2>2
  <2> QED  BY <1>4, <2>1, <2>2, <2>3
<1> QED  BY <1>1, <1>2, <1>3, <1>6, <1>7, <1>8 DEF Copy

\* Nothing held, no bytes.
LEMMA HeldNothing == HeldLength(<< >>) = 0
<1>1. DOMAIN << >> = {} /\ IsFiniteSet({})
  BY FS_EmptySet
<1>2. PICK f : SumsOf(f, Lengths(<< >>), SUBSET (DOMAIN << >>)) /\ HeldLength(<< >>) = f[{}]
  BY <1>1, HeldIsSum
<1>3. f[{}] = 0
  BY <1>1, <1>2, Zenon DEF SumsOf
<1> QED  BY <1>2, <1>3

\* A segment leaves the map, and its bytes the sum.
LEMMA WithoutOne ==
  ASSUME NEW D, NEW q \in Pendings(D), NEW n \in DOMAIN q
  PROVE  /\ without(q, n) \in Pendings(D)
         /\ DOMAIN without(q, n) = DOMAIN q \ {n}
         /\ \A m \in DOMAIN q \ {n} : without(q, n)[m] = q[m]
         /\ HeldLength(q) \in Nat /\ HeldLength(without(q, n)) \in Nat
         /\ HeldLength(without(q, n)) = HeldLength(q) - Len(q[n])
<1>1. PICK S \in SUBSET SeqNums : q \in [S -> Seq(D)]
  BY DEF Pendings
<1>2. PICK p : p = without(q, n)
  OBVIOUS
<1>3. p \in [S \ {n} -> Seq(D)] /\ \A m \in S \ {n} : p[m] = q[m]
  BY <1>1, <1>2 DEF without, Restrict
<1>4. p \in Pendings(D) /\ DOMAIN p = DOMAIN q \ {n} /\ DOMAIN q = S
  BY <1>1, <1>3 DEF Pendings
<1>5. /\ HeldLength(p) \in Nat /\ HeldLength(q) \in Nat
      /\ HeldLength(p) - Copy(p, n) = HeldLength(q) - Copy(q, n)
  BY <1>3, <1>4, HeldOutside
<1>6. HeldLength(p) = HeldLength(q) - Len(q[n])
  BY <1>4, <1>5 DEF Copy
<1> QED  BY <1>2, <1>3, <1>4, <1>5, <1>6

\* p is q with data at n.
Updates(p, q, n, data) ==
  /\ DOMAIN p = DOMAIN q \cup {n} /\ p[n] = data
  /\ \A m \in DOMAIN q \ {n} : p[m] = q[m]

\* A segment enters the map, in the place of another one with its sequence number.
LEMMA WithOne ==
  ASSUME NEW D, NEW q \in Pendings(D), NEW n \in SeqNums, NEW data \in Seq(D)
  PROVE  /\ with(q, n, data) \in Pendings(D)
         /\ Updates(with(q, n, data), q, n, data)
<1>1. PICK S \in SUBSET SeqNums : q \in [S -> Seq(D)]
  BY DEF Pendings
<1>2. PICK p : p = with(q, n, data)
  OBVIOUS
<1>3. /\ p \in [S \cup {n} -> Seq(D)]
      /\ \A m \in S \cup {n} : p[m] = IF m = n THEN data ELSE q[m]
  BY <1>1, <1>2 DEF with
<1>4. p \in Pendings(D) /\ DOMAIN p = DOMAIN q \cup {n} /\ DOMAIN q = S
  BY <1>1, <1>3 DEF Pendings
<1>5. Updates(p, q, n, data)
  BY <1>3, <1>4 DEF Updates
<1> QED  BY <1>2, <1>4, <1>5

\* It adds its length to the sum, less the length of the one it replaces.
LEMMA WithLength ==
  ASSUME NEW D, NEW q \in Pendings(D), NEW n \in SeqNums, NEW data \in Seq(D)
  PROVE  /\ HeldLength(with(q, n, data)) \in Nat
         /\ HeldLength(with(q, n, data)) = HeldLength(q) + Len(data) - Copy(q, n)
<1>1. PICK p : p = with(q, n, data)
  OBVIOUS
<1>2. p \in Pendings(D) /\ Updates(p, q, n, data)
  BY <1>1, WithOne
<1>3. /\ DOMAIN p \ {n} = DOMAIN q \ {n} /\ n \in DOMAIN p /\ p[n] = data
      /\ \A m \in DOMAIN q \ {n} : p[m] = q[m]
  BY <1>2 DEF Updates
<1>4. /\ HeldLength(p) \in Nat /\ HeldLength(q) \in Nat
      /\ HeldLength(p) - Copy(p, n) = HeldLength(q) - Copy(q, n)
  BY <1>2, <1>3, HeldOutside
<1>5. Len(data) \in Nat /\ (n \in DOMAIN q => Len(q[n]) \in Nat)
  BY PendingFacts
<1>6. HeldLength(p) = HeldLength(q) + Len(data) - Copy(q, n)
  BY <1>2, <1>3, <1>4, <1>5 DEF Copy
<1> QED  BY <1>1, <1>4, <1>6

-----------------------------------------------------------------------------
(* The pieces of a segment.                                                *)

\* The least element of a set of sequence numbers.
LEMMA LeastNumber ==
  ASSUME NEW S \in SUBSET Nat, S # {}
  PROVE  Min(S) \in S /\ \A y \in S : Min(S) <= y
<1>1. \E x \in S : \A y \in S : x <= y
  BY LeastElement
<1> QED  BY <1>1, Zenon DEF Min

\* The smaller one of two numbers.
LEMMA MinOfTwo ==
  ASSUME NEW a \in Int, NEW b \in Int
  PROVE  Min({a, b}) = IF a <= b THEN a ELSE b
<1>1. PICK m : m = Min({a, b})
  OBVIOUS
<1>2. \E x \in {a, b} : \A y \in {a, b} : x <= y
  OBVIOUS
<1>3. m \in {a, b} /\ \A y \in {a, b} : m <= y
  BY <1>1, <1>2, Zenon DEF Min
<1> QED  BY <1>1, <1>3

\* What is left of a segment whose first n bytes are old.
LEMMA DropPiece ==
  ASSUME NEW D, NEW s \in Seq(D), NEW n \in Nat
  PROVE  /\ Drop(s, n) \in Seq(D)
         /\ Len(Drop(s, n)) = IF n < Len(s) THEN Len(s) - n ELSE 0
         /\ \A i \in 1 .. Len(s) - n : Drop(s, n)[i] = s[n + i]
         /\ Drop(s, n) = << >> <=> n >= Len(s)
<1>1. Len(s) \in Nat /\ \A i \in n + 1 .. Len(s) : s[i] \in D
  OBVIOUS
<1>2. PICK a \in Int, b \in Int : a = n + 1 /\ b = Len(s)
  BY <1>1
<1>3. /\ SubSeq(s, a, b) \in Seq(D)
      /\ Len(SubSeq(s, a, b)) = IF a <= b THEN b - a + 1 ELSE 0
      /\ \A i \in 1 .. b - a + 1 : SubSeq(s, a, b)[i] = s[a + i - 1]
  <2>1. \A i \in a .. b : s[i] \in D
    BY <1>1, <1>2
  <2> QED  BY <2>1, SubSeqProperties
<1>4. Drop(s, n) = SubSeq(s, a, b)
  BY <1>2 DEF Drop
<1>5. \A i \in 1 .. Len(s) - n : a + i - 1 = n + i /\ i \in 1 .. b - a + 1
  BY <1>1, <1>2
<1>6. Len(Drop(s, n)) = IF n < Len(s) THEN Len(s) - n ELSE 0
  BY <1>1, <1>2, <1>3, <1>4
<1>7. Drop(s, n) = << >> <=> Len(Drop(s, n)) = 0
  BY <1>3, <1>4, EmptySeq
<1>8. Drop(s, n) = << >> <=> n >= Len(s)
  BY <1>1, <1>6, <1>7
<1>9. \A i \in 1 .. Len(s) - n : Drop(s, n)[i] = s[n + i]
  BY <1>3, <1>4, <1>5
<1> QED  BY <1>3, <1>4, <1>6, <1>8, <1>9

\* append() fills the prefix up to max_prefix and drops the bytes behind it.
LEMMA AppendPiece ==
  ASSUME NEW D, NEW p \in Seq(D), Len(p) <= max_prefix, NEW s \in Seq(D)
  PROVE  /\ append(p, s) \in Seq(D)
         /\ Len(append(p, s)) = Min({Len(p) + Len(s), max_prefix})
         /\ Len(append(p, s)) \in Len(p) .. Len(p) + Len(s)
         /\ Len(append(p, s)) <= max_prefix
         /\ \A i \in 1 .. Len(append(p, s)) :
              append(p, s)[i] = IF i <= Len(p) THEN p[i] ELSE s[i - Len(p)]
<1>1. Len(p) \in Nat /\ Len(s) \in Nat /\ max_prefix \in Nat
  BY ReassemblyAssumption
<1>2. PICK k \in Nat : k = Min({Len(s), max_prefix - Len(p)})
  <2>1. Min({Len(s), max_prefix - Len(p)}) \in Nat
    BY <1>1, MinOfTwo
  <2> QED  BY <2>1
<1>3. k = IF Len(s) <= max_prefix - Len(p) THEN Len(s) ELSE max_prefix - Len(p)
  BY <1>1, <1>2, MinOfTwo
<1>4. PICK t : t = SubSeq(s, 1, k)
  OBVIOUS
<1>5. t \in Seq(D) /\ Len(t) = k /\ \A i \in 1 .. k : t[i] = s[i]
  <2>1. \A i \in 1 .. k : s[i] \in D
    BY <1>1, <1>3
  <2>2. /\ SubSeq(s, 1, k) \in Seq(D)
        /\ Len(SubSeq(s, 1, k)) = IF 1 <= k THEN k - 1 + 1 ELSE 0
        /\ \A i \in 1 .. k - 1 + 1 : SubSeq(s, 1, k)[i] = s[1 + i - 1]
    BY <2>1, SubSeqProperties
  <2>3. \A i \in 1 .. k : i \in 1 .. k - 1 + 1 /\ 1 + i - 1 = i
    OBVIOUS
  <2> QED  BY <1>4, <2>2, <2>3
<1>6. append(p, s) = p \o t
  BY <1>2, <1>4 DEF append
<1>7. /\ p \o t \in Seq(D) /\ Len(p \o t) = Len(p) + k
      /\ \A i \in 1 .. Len(p) + k : (p \o t)[i] = IF i <= Len(p) THEN p[i] ELSE t[i - Len(p)]
  BY <1>5, ConcatProperties
<1>8. Len(p) + k = Min({Len(p) + Len(s), max_prefix})
  BY <1>1, <1>3, MinOfTwo
<1>9. \A i \in 1 .. Len(p) + k : i > Len(p) => t[i - Len(p)] = s[i - Len(p)]
  BY <1>1, <1>5
<1>10. Len(p) + k <= Len(p) + Len(s) /\ Len(p) + k <= max_prefix /\ Len(p) <= Len(p) + k
  BY <1>1, <1>3
<1>11. \A i \in 1 .. Len(p) + k :
         (p \o t)[i] = IF i <= Len(p) THEN p[i] ELSE s[i - Len(p)]
  BY <1>1, <1>7, <1>9
<1> QED  BY <1>1, <1>6, <1>7, <1>8, <1>10, <1>11

-----------------------------------------------------------------------------
(* The loop of drain().                                                    *)

\* One turn of the loop, and f as the states of the first n turns from r on.
turn(r) == IF drainable(r) THEN drain_first(r) ELSE r
Turns(f, r, n) == f = [i \in 0 .. n |-> IF i = 0 THEN r ELSE turn(f[i - 1])]

\* There are such states, for every number of turns.
LEMMA TurnsExist ==
  ASSUME NEW r, NEW n \in Nat
  PROVE  \E f : Turns(f, r, n)
<1> DEFINE S == {m \in Nat : ~\E f : Turns(f, r, m)}
<1>1. SUFFICES ASSUME S # {} PROVE FALSE
  OBVIOUS
<1>2. PICK m \in S : \A y \in Nat : y < m => y \notin S
  <2>1. S \in SUBSET Nat
    OBVIOUS
  <2> QED  BY <1>1, <2>1, LeastElement
<1>3. m \in Nat /\ \A y \in Nat : y < m => \E f : Turns(f, r, y)
  BY <1>2
<1>4. CASE m = 0
  <2>1. PICK f : f = [i \in 0 .. 0 |-> r]
    OBVIOUS
  <2>2. Turns(f, r, m)
    BY <1>4, <2>1 DEF Turns
  <2> QED  BY <1>2, <2>2
<1>5. CASE m # 0
  <2>1. m - 1 \in Nat /\ m - 1 < m
    BY <1>3, <1>5
  <2>2. PICK f : Turns(f, r, m - 1)
    BY <1>3, <2>1
  <2>3. /\ \A i \in 0 .. m - 1 : f[i] = IF i = 0 THEN r ELSE turn(f[i - 1])
    BY <1>3, <2>1, <2>2 DEF Turns
  <2>4. PICK g : g = [i \in 0 .. m |-> IF i = m THEN turn(f[m - 1]) ELSE f[i]]
    OBVIOUS
  <2>5. ASSUME NEW i \in 0 .. m PROVE g[i] = IF i = 0 THEN r ELSE turn(g[i - 1])
    BY <1>3, <1>5, <2>1, <2>3, <2>4
  <2>6. Turns(g, r, m)
    BY <2>4, <2>5 DEF Turns
  <2> QED  BY <1>2, <2>6
<1> QED  BY <1>4, <1>5, <1>3

\* drain() is as many turns as segments are held.
LEMMA DrainTurns ==
  ASSUME NEW r, Cardinality(DOMAIN r.pending) \in Nat
  PROVE  \E f : Turns(f, r, Cardinality(DOMAIN r.pending))
                /\ drain(r) = f[Cardinality(DOMAIN r.pending)]
<1>1. PICK n \in Nat : n = Cardinality(DOMAIN r.pending)
  OBVIOUS
<1>2. PICK h : h = CHOOSE f : Turns(f, r, n)
  OBVIOUS
<1>3. Turns(h, r, n)
  BY <1>2, TurnsExist, Zenon
<1>4. drain(r) = h[n]
  BY <1>1, <1>2 DEF drain, Turns, turn
<1> QED BY <1>1, <1>3, <1>4, Zenon

-----------------------------------------------------------------------------
(* The budget.                                                             *)

\* The reassemblers that keep both limits and count what they hold.
Budgeted(D) ==
  {r \in Reassemblers(D) :
     /\ r.buffered_bytes = HeldLength(r.pending)
     /\ r.buffered_bytes <= max_buffered
     /\ Len(r.prefix) <= max_prefix}

\* The fields of a reassembler.
LEMMA Fields ==
  ASSUME NEW D, NEW r \in Reassemblers(D)
  PROVE  /\ r.initialized \in BOOLEAN /\ r.next_seq \in SeqNums /\ r.prefix \in Seq(D)
         /\ r.pending \in Pendings(D) /\ r.buffered_bytes \in Nat /\ r.delivered \in Nat
         /\ r = [initialized |-> r.initialized, next_seq |-> r.next_seq,
                 prefix |-> r.prefix, pending |-> r.pending,
                 buffered_bytes |-> r.buffered_bytes, delivered |-> r.delivered]
  BY DEF Reassemblers

\* Advancing by nothing.
LEMMA AddNothing ==
  ASSUME NEW a \in SeqNums
  PROVE  SeqAdd(a, 0) = a
<1>1. PICK m \in Nat \ {0} : m = SeqSpace
  BY SpaceType
<1>2. a \in 0 .. m - 1 /\ a \in Int
  BY <1>1 DEF SeqNums
<1>3. (0 * m + a) % m = a
  BY <1>2, RemainderUnique
<1>4. 0 * m + a = a + 0
  BY <1>2
<1> QED  BY <1>1, <1>3, <1>4 DEF SeqAdd

\* Appending nothing.
LEMMA AppendNothing ==
  ASSUME NEW D, NEW p \in Seq(D), Len(p) <= max_prefix
  PROVE  append(p, << >>) = p
<1>1. PICK t : t = append(p, << >>)
  OBVIOUS
<1>2. /\ t \in Seq(D) /\ Len(t) \in Len(p) .. Len(p) + 0
      /\ \A i \in 1 .. Len(t) : t[i] = IF i <= Len(p) THEN p[i] ELSE << >>[i - Len(p)]
  <2>1. << >> \in Seq(D) /\ Len(<< >>) = 0
    OBVIOUS
  <2> QED  BY <1>1, <2>1, AppendPiece
<1>3. Len(p) \in Nat /\ Len(t) \in Nat
  BY <1>2
<1>4. Len(t) = Len(p) /\ \A i \in 1 .. Len(p) : t[i] = p[i]
  BY <1>2, <1>3
<1> QED  BY <1>1, <1>2, <1>4, SeqEqual

\* What deliver() does.
LEMMA DeliverEffect ==
  ASSUME NEW D, NEW r \in Reassemblers(D), Len(r.prefix) <= max_prefix, NEW data \in Seq(D)
  PROVE  /\ deliver(r, data) \in Reassemblers(D)
         /\ deliver(r, data).initialized = r.initialized
         /\ deliver(r, data).next_seq = SeqAdd(r.next_seq, Len(data))
         /\ deliver(r, data).prefix = append(r.prefix, data)
         /\ deliver(r, data).pending = r.pending
         /\ deliver(r, data).buffered_bytes = r.buffered_bytes
         /\ deliver(r, data).delivered = r.delivered + Len(data)
<1>1. PICK a, b, c : a = append(r.prefix, data) /\ b = SeqAdd(r.next_seq, Len(data))
                     /\ c = r.delivered + Len(data)
  OBVIOUS
<1>2. r.next_seq \in SeqNums /\ r.prefix \in Seq(D) /\ r.delivered \in Nat
  BY Fields
<1>3. a \in Seq(D) /\ b \in SeqNums /\ c \in Nat
  <2>1. \A n \in SeqNums : n \in Int
    BY SpaceType DEF SeqNums
  <2>2. PICK x \in Int, k \in Nat : x = r.next_seq /\ k = Len(data)
    BY <1>2, <2>1
  <2>3. SeqAdd(x, k) \in SeqNums
    BY SpaceType
  <2>4. a \in Seq(D)
    BY <1>1, <1>2, AppendPiece
  <2> QED  BY <1>1, <1>2, <2>2, <2>3, <2>4
<1>4. deliver(r, data) = [r EXCEPT !.prefix = a, !.next_seq = b, !.delivered = c]
  BY <1>1, Zenon DEF deliver
<1> QED  BY <1>1, <1>3, <1>4 DEF Reassemblers

\* What a turn of the loop of drain() takes from the held segments and delivers.
First(r) == Min(DOMAIN r.pending)
Rest(r) == Drop(r.pending[First(r)], SeqDiff(r.next_seq, First(r)))

\* The first held segment.
LEMMA FirstSegment ==
  ASSUME NEW D, NEW r \in Reassemblers(D), DOMAIN r.pending # {}
  PROVE  /\ First(r) \in DOMAIN r.pending /\ First(r) \in SeqNums
         /\ \A n \in DOMAIN r.pending : First(r) <= n
         /\ r.pending[First(r)] \in Seq(D)
         /\ SeqDiff(r.next_seq, First(r)) \in Nat
         /\ Rest(r) \in Seq(D)
<1>1. r.pending \in Pendings(D) /\ r.next_seq \in SeqNums
  BY Fields
<1>2. PICK q : q = r.pending
  OBVIOUS
<1>3. DOMAIN q \subseteq SeqNums /\ \A n \in DOMAIN q : q[n] \in Seq(D)
  BY <1>1, <1>2, PendingFacts
<1>4. SeqNums \subseteq Nat /\ SeqNums \subseteq Int
  BY SpaceType DEF SeqNums
<1>5. First(r) \in DOMAIN q /\ \A n \in DOMAIN q : First(r) <= n
  BY <1>2, <1>3, <1>4, LeastNumber DEF First
<1>6. SeqDiff(r.next_seq, First(r)) \in Nat
  BY <1>1, <1>3, <1>4, <1>5, SpaceType
<1>7. Rest(r) \in Seq(D)
  BY <1>2, <1>3, <1>5, <1>6, DropPiece DEF Rest
<1> QED  BY <1>2, <1>3, <1>5, <1>6, <1>7

\* What a turn of the loop of drain() does.
LEMMA ReleaseEffect ==
  ASSUME NEW D, NEW r \in Budgeted(D), DOMAIN r.pending # {}
  PROVE  /\ drain_first(r) \in Budgeted(D)
         /\ drain_first(r).initialized = r.initialized
         /\ drain_first(r).next_seq = SeqAdd(r.next_seq, Len(Rest(r)))
         /\ drain_first(r).prefix = append(r.prefix, Rest(r))
         /\ drain_first(r).pending = without(r.pending, First(r))
         /\ drain_first(r).delivered = r.delivered + Len(Rest(r))
<1>1. /\ r \in Reassemblers(D) /\ r.buffered_bytes = HeldLength(r.pending)
      /\ r.buffered_bytes <= max_buffered /\ Len(r.prefix) <= max_prefix
  BY DEF Budgeted
<1>2. /\ First(r) \in DOMAIN r.pending /\ Rest(r) \in Seq(D)
      /\ r.pending[First(r)] \in Seq(D) /\ Len(r.pending[First(r)]) \in Nat
  BY <1>1, FirstSegment
<1>3. PICK q, b : q = without(r.pending, First(r))
                  /\ b = r.buffered_bytes - Len(r.pending[First(r)])
  OBVIOUS
<1>4. r.pending \in Pendings(D) /\ r.prefix \in Seq(D) /\ r.next_seq \in SeqNums
      /\ r.delivered \in Nat /\ r.buffered_bytes \in Nat
  BY <1>1, Fields
<1>5. /\ q \in Pendings(D) /\ b \in Nat /\ b = HeldLength(q) /\ b <= max_buffered
  <2>1. PICK p, n : p = r.pending /\ n = First(r)
    OBVIOUS
  <2>2. p \in Pendings(D) /\ n \in DOMAIN p
    BY <1>2, <1>4, <2>1
  <2>3. /\ q \in Pendings(D) /\ HeldLength(q) \in Nat
        /\ HeldLength(q) = HeldLength(p) - Len(p[n])
    <3>1. /\ without(p, n) \in Pendings(D) /\ HeldLength(without(p, n)) \in Nat
          /\ HeldLength(without(p, n)) = HeldLength(p) - Len(p[n])
      BY <2>2, WithoutOne
    <3> QED  BY <1>3, <2>1, <3>1, Zenon
  <2>4. b = HeldLength(q)
    BY <1>1, <1>3, <2>1, <2>3
  <2> QED  BY <1>1, <1>2, <1>3, <1>4, <2>3, <2>4, ReassemblyAssumption
<1>6. PICK r1 : r1 = [r EXCEPT !.pending = q, !.buffered_bytes = b]
  OBVIOUS
<1>7. drain_first(r) = IF Rest(r) = << >> THEN r1 ELSE deliver(r1, Rest(r))
  BY <1>3, <1>6, Zenon DEF drain_first, First, Rest
<1>8. /\ r1 \in Reassemblers(D) /\ r1.pending = q /\ r1.buffered_bytes = b
      /\ r1.initialized = r.initialized /\ r1.next_seq = r.next_seq
      /\ r1.prefix = r.prefix /\ r1.delivered = r.delivered
  BY <1>1, <1>5, <1>6 DEF Reassemblers
<1>9. CASE Rest(r) = << >>
  <2>1. drain_first(r) = r1 /\ Len(Rest(r)) = 0
    BY <1>7, <1>9
  <2>2. r1 \in Budgeted(D)
    BY <1>1, <1>5, <1>8 DEF Budgeted
  <2>3. append(r.prefix, Rest(r)) = r.prefix
    BY <1>1, <1>4, <1>9, AppendNothing
  <2>4. SeqAdd(r.next_seq, Len(Rest(r))) = r.next_seq
    BY <1>4, <2>1, AddNothing
  <2>5. r.delivered + Len(Rest(r)) = r.delivered
    BY <1>4, <2>1
  <2> QED  BY <1>3, <1>8, <2>1, <2>2, <2>3, <2>4, <2>5
<1>10. CASE Rest(r) # << >>
  <2>1. PICK d : d = deliver(r1, Rest(r))
    OBVIOUS
  <2>2. /\ d \in Reassemblers(D) /\ d.initialized = r.initialized
        /\ d.next_seq = SeqAdd(r.next_seq, Len(Rest(r)))
        /\ d.prefix = append(r.prefix, Rest(r))
        /\ d.pending = q /\ d.buffered_bytes = b
        /\ d.delivered = r.delivered + Len(Rest(r))
    BY <1>1, <1>2, <1>8, <2>1, DeliverEffect
  <2>3. Len(d.prefix) <= max_prefix
    BY <1>1, <1>2, <1>4, <2>2, AppendPiece
  <2>4. d \in Budgeted(D)
    BY <1>5, <2>2, <2>3 DEF Budgeted
  <2>5. drain_first(r) = d
    BY <1>7, <1>10, <2>1
  <2> QED  BY <1>3, <2>2, <2>4, <2>5
<1> QED  BY <1>9, <1>10

\* What every turn of drain() keeps, drain() keeps; and it ends with nothing to release.
LEMMA DrainKeeps ==
  ASSUME NEW D, NEW G \in SUBSET Budgeted(D), NEW r \in G,
         \A s \in G : drainable(s) => drain_first(s) \in G
  PROVE  drain(r) \in G /\ ~drainable(drain(r))
<1> DEFINE Size(s) == Cardinality(DOMAIN s.pending)
<1>1. \A s \in G : Size(s) \in Nat /\ IsFiniteSet(DOMAIN s.pending) /\ s \in Budgeted(D)
  BY Fields, PendingFacts DEF Budgeted
<1>2. PICK n \in Nat : n = Size(r)
  BY <1>1
<1>3. PICK f : Turns(f, r, n) /\ drain(r) = f[n]
  BY <1>2, DrainTurns
<1>4. f[0] = r /\ \A i \in 1 .. n : f[i] = turn(f[i - 1])
  <2>1. \A i \in 0 .. n : f[i] = IF i = 0 THEN r ELSE turn(f[i - 1])
    BY <1>3, Zenon DEF Turns
  <2> QED  BY <2>1
<1> DEFINE Good(i) == f[i] \in G /\ (drainable(f[i]) => Size(f[i]) = n - i)
           B == {i \in Nat : i <= n /\ ~Good(i)}
<1>5. ASSUME NEW s \in G, drainable(s)
      PROVE  drain_first(s) \in G /\ Size(drain_first(s)) = Size(s) - 1
  <2>1. DOMAIN s.pending # {}
    BY <1>5 DEF drainable
  <2>2. /\ First(s) \in DOMAIN s.pending /\ s.pending \in Pendings(D)
        /\ drain_first(s).pending = without(s.pending, First(s))
    <3>1. s \in Reassemblers(D)
      BY <1>1 DEF Budgeted
    <3> QED  BY <1>1, <2>1, <3>1, FirstSegment, ReleaseEffect, Fields
  <2>3. DOMAIN drain_first(s).pending = DOMAIN s.pending \ {First(s)}
    BY <2>2, WithoutOne
  <2>4. Size(drain_first(s)) = Size(s) - 1
    <3>1. PICK S, k : S = DOMAIN s.pending /\ k = First(s)
      OBVIOUS
    <3>2. IsFiniteSet(S) /\ k \in S
      BY <1>1, <2>2, <3>1
    <3>3. Cardinality(S \ {k}) = Cardinality(S) - 1
      BY <3>2, FS_RemoveElement
    <3> QED  BY <2>3, <3>1, <3>3
  <2> QED  BY <1>5, <2>4
<1>6. B = {}
  <2>1. SUFFICES ASSUME B # {} PROVE FALSE
    OBVIOUS
  <2>2. PICK m \in B : \A y \in Nat : y < m => y \notin B
    <3>1. B \in SUBSET Nat
      OBVIOUS
    <3> QED  BY <2>1, <3>1, LeastElement
  <2>3. m \in Nat /\ m <= n /\ ~Good(m)
    OBVIOUS
  <2>4. Good(0)
    BY <1>2, <1>4
  <2>5. m # 0
    BY <2>3, <2>4
  <2>6. PICK s, d : s = f[m - 1] /\ d = f[m]
    OBVIOUS
  <2>7. s \in G /\ (drainable(s) => Size(s) = n - (m - 1)) /\ d = turn(s)
    <3>1. m - 1 \in Nat /\ m - 1 < m /\ m - 1 <= n /\ m \in 1 .. n
      BY <2>3, <2>5
    <3>2. Good(m - 1)
      BY <2>2, <3>1
    <3> QED  BY <1>4, <2>6, <3>1, <3>2
  <2>8. CASE drainable(s)
    <3>1. d = drain_first(s)
      BY <2>7, <2>8 DEF turn
    <3>2. d \in G /\ Size(d) = n - m
      BY <1>5, <2>3, <2>7, <2>8, <3>1
    <3> QED  BY <2>3, <2>6, <3>2
  <2>9. CASE ~drainable(s)
    <3>1. d = s
      BY <2>7, <2>9 DEF turn
    <3> QED  BY <2>3, <2>6, <2>7, <2>9, <3>1
  <2> QED  BY <2>8, <2>9
<1>7. Good(n)
  BY <1>2, <1>6
<1>8. ~drainable(drain(r))
  <2>1. SUFFICES ASSUME drainable(drain(r)) PROVE FALSE
    OBVIOUS
  <2>2. Size(f[n]) = 0 /\ f[n] \in G
    BY <1>2, <1>3, <1>7, <2>1
  <2>3. DOMAIN f[n].pending = {}
    BY <1>1, <2>2, FS_EmptySet
  <2> QED  BY <1>3, <2>1, <2>3 DEF drainable
<1> QED  BY <1>3, <1>7, <1>8

\* deliver() keeps the budget.
LEMMA DeliverKeepsBudget ==
  ASSUME NEW D, NEW r \in Budgeted(D), NEW data \in Seq(D)
  PROVE  deliver(r, data) \in Budgeted(D)
<1>1. r \in Reassemblers(D) /\ Len(r.prefix) <= max_prefix
  BY DEF Budgeted
<1>2. PICK d : d = deliver(r, data)
  OBVIOUS
<1>3. /\ d \in Reassemblers(D) /\ d.prefix = append(r.prefix, data)
      /\ d.pending = r.pending /\ d.buffered_bytes = r.buffered_bytes
  BY <1>1, <1>2, DeliverEffect
<1>4. Len(d.prefix) <= max_prefix
  <2>1. PICK p \in Seq(D) : p = r.prefix
    BY <1>1, Fields
  <2>2. Len(append(p, data)) <= max_prefix
    BY <1>1, <2>1, AppendPiece
  <2> QED  BY <1>3, <2>1, <2>2
<1> QED  BY <1>2, <1>3, <1>4 DEF Budgeted

\* Is a segment put into the map, perhaps in the place of a shorter one?
Taken(r, n, data) == fits(r, Len(data)) /\ Len(data) > Copy(r.pending, n)

\* What hold() does.
LEMMA HoldEffect ==
  ASSUME NEW D, NEW r \in Budgeted(D), NEW n \in SeqNums, NEW data \in Seq(D)
  PROVE  /\ hold(r, n, data) \in Budgeted(D)
         /\ ~Taken(r, n, data) => hold(r, n, data) = r
         /\ hold(r, n, data).initialized = r.initialized
         /\ hold(r, n, data).next_seq = r.next_seq
         /\ hold(r, n, data).prefix = r.prefix
         /\ hold(r, n, data).delivered = r.delivered
         /\ Taken(r, n, data) => hold(r, n, data).pending = with(r.pending, n, data)
<1>1. /\ r \in Reassemblers(D) /\ r.buffered_bytes = HeldLength(r.pending)
      /\ r.buffered_bytes <= max_buffered /\ Len(r.prefix) <= max_prefix
  BY DEF Budgeted
<1>2. PICK p, b, q : /\ p = r.pending /\ q = with(r.pending, n, data)
                     /\ b = r.buffered_bytes + Len(data) - Copy(r.pending, n)
  OBVIOUS
<1>3. hold(r, n, data) = IF Taken(r, n, data)
                         THEN [r EXCEPT !.pending = q, !.buffered_bytes = b] ELSE r
  BY <1>2, Zenon DEF hold, Taken, Copy
<1>4. CASE Taken(r, n, data)
  <2>1. p \in Pendings(D) /\ r.buffered_bytes \in Nat
    BY <1>1, <1>2, Fields
  <2>3. /\ q \in Pendings(D) /\ HeldLength(q) \in Nat
        /\ HeldLength(q) = HeldLength(p) + Len(data) - Copy(p, n)
    <3>1. /\ with(p, n, data) \in Pendings(D) /\ HeldLength(with(p, n, data)) \in Nat
          /\ HeldLength(with(p, n, data)) = HeldLength(p) + Len(data) - Copy(p, n)
      BY <2>1, WithOne, WithLength
    <3> QED  BY <1>2, <3>1
  <2>4. b = HeldLength(q)
    BY <1>1, <1>2, <2>3
  <2>5. Copy(p, n) \in Nat
    BY <2>1, PendingFacts DEF Copy
  <2>6. b <= max_buffered
    BY <1>1, <1>2, <1>4, <2>1, <2>5, ReassemblyAssumption DEF Taken, fits
  <2>7. PICK h : h = [r EXCEPT !.pending = q, !.buffered_bytes = b]
    OBVIOUS
  <2>8. /\ h \in Reassemblers(D) /\ h.pending = q /\ h.buffered_bytes = b
        /\ h.initialized = r.initialized /\ h.next_seq = r.next_seq
        /\ h.prefix = r.prefix /\ h.delivered = r.delivered
    BY <1>1, <2>3, <2>4, <2>7 DEF Reassemblers
  <2>9. h \in Budgeted(D)
    BY <1>1, <2>4, <2>6, <2>8 DEF Budgeted
  <2>10. hold(r, n, data) = h
    BY <1>3, <1>4, <2>7
  <2> QED  BY <1>2, <1>4, <2>8, <2>9, <2>10
<1>5. CASE ~Taken(r, n, data)
  BY <1>3, <1>5
<1> QED  BY <1>4, <1>5

\* What the first segment does to a reassembler that has not seen any.
LEMMA AnchorEffect ==
  ASSUME NEW D, NEW r \in Budgeted(D), NEW seq \in SeqNums, NEW syn \in BOOLEAN
  PROVE  /\ anchor(r, seq, syn) \in Budgeted(D)
         /\ anchor(r, seq, syn).initialized = TRUE
         /\ r.initialized => anchor(r, seq, syn) = r
         /\ ~r.initialized =>
              anchor(r, seq, syn).next_seq = IF syn THEN SeqAdd(seq, 1) ELSE seq
         /\ anchor(r, seq, syn).prefix = r.prefix
         /\ anchor(r, seq, syn).pending = r.pending
         /\ anchor(r, seq, syn).delivered = r.delivered
<1>1. /\ r \in Reassemblers(D) /\ r.buffered_bytes = HeldLength(r.pending)
      /\ r.buffered_bytes <= max_buffered /\ Len(r.prefix) <= max_prefix
  BY DEF Budgeted
<1>2. PICK x : x = IF syn THEN SeqAdd(seq, 1) ELSE seq
  OBVIOUS
<1>3. x \in SeqNums
  <2>1. seq \in Int
    BY SpaceType DEF SeqNums
  <2>2. SeqAdd(seq, 1) \in SeqNums
    BY <2>1, SpaceType
  <2> QED  BY <1>2, <2>2
<1>4. CASE ~r.initialized
  <2>1. PICK h : h = [r EXCEPT !.initialized = TRUE, !.next_seq = x]
    OBVIOUS
  <2>2. anchor(r, seq, syn) = h
    BY <1>2, <1>4, <2>1, Zenon DEF anchor
  <2>3. /\ h \in Reassemblers(D) /\ h.next_seq = x /\ h.pending = r.pending
        /\ h.buffered_bytes = r.buffered_bytes /\ h.prefix = r.prefix
        /\ h.delivered = r.delivered
    BY <1>1, <1>3, <2>1 DEF Reassemblers
  <2>4. h.initialized = TRUE
    BY <1>1, <2>1 DEF Reassemblers
  <2>5. h \in Budgeted(D)
    BY <1>1, <2>3 DEF Budgeted
  <2> QED  BY <1>2, <1>4, <2>2, <2>3, <2>4, <2>5
<1>5. CASE r.initialized
  <2>1. anchor(r, seq, syn) = r
    BY <1>5, Zenon DEF anchor
  <2>2. r.initialized = TRUE
    <3>1. r.initialized \in BOOLEAN
      BY <1>1, Fields
    <3> QED  BY <1>5, <3>1
  <2> QED  BY <1>5, <2>1, <2>2
<1> QED  BY <1>4, <1>5

\* The numbers push() computes.
LEMMA PushParts ==
  ASSUME NEW D, NEW r \in Budgeted(D), NEW seq \in SeqNums, NEW data \in Seq(D)
  PROVE  /\ already(r, seq) \in Nat
         /\ Drop(data, already(r, seq)) \in Seq(D)
         /\ SeqAdd(seq, already(r, seq)) \in SeqNums
<1>1. r.next_seq \in SeqNums
  BY Fields DEF Budgeted
<1>2. \A n \in SeqNums : n \in Nat /\ n \in Int
  BY SpaceType DEF SeqNums
<1>3. PICK x \in Int, y \in Int : x = r.next_seq /\ y = seq
  BY <1>1, <1>2
<1>4. SeqDiff(x, y) \in Nat
  BY <1>2, SpaceType
<1>5. already(r, seq) \in Nat
  BY <1>3, <1>4 DEF already
<1>6. PICK k \in Nat : k = already(r, seq)
  BY <1>5
<1>7. SeqAdd(y, k) \in SeqNums
  BY SpaceType
<1>8. Drop(data, k) \in Seq(D)
  BY DropPiece
<1> QED  BY <1>3, <1>6, <1>7, <1>8

\* push() keeps the budget, whatever the segment is.
LEMMA PushKeepsBudget ==
  ASSUME NEW D, NEW r \in Budgeted(D), NEW seq \in SeqNums, NEW data \in Seq(D),
         NEW syn \in BOOLEAN
  PROVE  push(r, seq, data, syn) \in Budgeted(D)
<1>1. PICK r1 : r1 = anchor(r, seq, syn)
  OBVIOUS
<1>2. r1 \in Budgeted(D)
  BY <1>1, AnchorEffect
<1>3. PICK rest \in Seq(D), at \in SeqNums :
        rest = Drop(data, already(r1, seq)) /\ at = SeqAdd(seq, already(r1, seq))
  BY <1>2, PushParts
<1>4. push(r, seq, data, syn) = IF rest = << >> THEN r1
                                ELSE IF in_order(r1, at) THEN drain(deliver(r1, rest))
                                ELSE hold(r1, at, rest)
  BY <1>1, <1>3, Zenon DEF push
<1>5. drain(deliver(r1, rest)) \in Budgeted(D)
  <2>1. deliver(r1, rest) \in Budgeted(D)
    BY <1>2, DeliverKeepsBudget
  <2>2. \A s \in Budgeted(D) : drainable(s) => drain_first(s) \in Budgeted(D)
    BY ReleaseEffect DEF drainable
  <2> QED  BY <2>1, <2>2, DrainKeeps
<1>6. hold(r1, at, rest) \in Budgeted(D)
  BY <1>2, HoldEffect
<1> QED  BY <1>2, <1>4, <1>5, <1>6

\* The fresh reassembler.
LEMMA FreshReassembler == ASSUME NEW D PROVE InitReassembler \in Budgeted(D)
<1>1. 0 \in SeqNums
  BY SpaceType DEF SeqNums
<1>2. << >> \in Pendings(D) /\ << >> \in Seq(D) /\ Len(<< >>) = 0
  <2>1. << >> \in [{} -> Seq(D)]
    OBVIOUS
  <2> QED  BY <2>1 DEF Pendings
<1>3. InitReassembler \in Reassemblers(D)
  BY <1>1, <1>2 DEF InitReassembler, Reassemblers
<1>4. /\ InitReassembler.buffered_bytes = 0 /\ InitReassembler.pending = << >>
      /\ InitReassembler.prefix = << >>
  BY DEF InitReassembler
<1> QED  BY <1>2, <1>3, <1>4, HeldNothing, ReassemblyAssumption DEF Budgeted
=============================================================================
