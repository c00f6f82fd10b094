-------------------------- MODULE StreamReassembler --------------------------
(***************************************************************************)
(* One StreamReassembler fed with the segments of one stream, in any order *)
(* and any number of times.  A byte is represented by its position in the  *)
(* stream, so the prefix shows at once whether bytes were lost, doubled or *)
(* swapped.  The byte at position x has sequence number isn + x.           *)
(***************************************************************************)
EXTENDS Reassembly

CONSTANTS
  Isns,        \* sequence numbers the first data byte may have
  StreamLen,   \* bytes of the stream
  Segs,        \* data segments <<position, length>> the sender may send
  SynLens      \* payload lengths a SYN may carry ({0}: none)
ASSUME StreamAssumption ==
  /\ Isns \subseteq SeqNums
  /\ StreamLen \in Nat /\ StreamLen + 1 < HalfSpace
  /\ Segs \subseteq {s \in (0 .. StreamLen) \X (1 .. StreamLen) : s[1] + s[2] <= StreamLen}
  /\ SynLens \subseteq 0 .. StreamLen

VARIABLES
  isn,      \* sequence number of the first data byte
  r,        \* the reassembler
  origin,   \* history: position the stream is read from, -1 before
  kept,     \* history: positions pushed and not refused for lack of room
  odd       \* history: was the number of captures odd (a capture without effect is a step)

vars == <<isn, r, origin, kept, odd>>

SeqAt(x) == SeqAdd(isn, x)
Bytes(x, len) == [i \in 1 .. len |-> x + i - 1]

Init == isn \in Isns /\ r = InitReassembler /\ origin = -1 /\ kept = {} /\ odd = FALSE

\* The first byte not delivered yet.
Expected == origin + r.delivered

Push(x, len) ==
  /\ r' = push(r, SeqAt(x), Bytes(x, len), FALSE)
  /\ origin' = IF r.initialized THEN origin ELSE x
  /\ kept' = LET front == IF r.initialized THEN Expected ELSE x
                 new   == {b \in x .. x + len - 1 : b >= front}
             IN IF x <= front \/ fits(r, len) THEN kept \cup new ELSE kept
  /\ odd' = ~odd /\ UNCHANGED isn

\* A SYN, in front of the stream, possibly with data behind it.
PushSyn(len) ==
  /\ r' = push(r, SeqAt(-1), Bytes(0, len), TRUE)
  /\ origin' = IF r.initialized THEN origin ELSE 0
  /\ kept' = IF ~r.initialized \/ Expected <= len THEN kept \cup (0 .. len - 1) ELSE kept
  /\ odd' = ~odd /\ UNCHANGED isn

Next == \/ \E s \in Segs : Push(s[1], s[2])
        \/ \E len \in SynLens : PushSyn(len)

Spec == Init /\ [][Next]_vars

\* The sender resends what is not acknowledged, so while bytes are missing a segment
\* that holds the next one is captured sooner or later.
Needed == \E s \in Segs : s[1] <= Expected /\ Expected < s[1] + s[2] /\ Push(s[1], s[2])
\* This is WF_vars(Needed), with ENABLED written out.
Fairness == []<>~(r.initialized /\ Expected < StreamLen) \/ []<><<Needed>>_vars
FairSpec == Spec /\ Fairness
-----------------------------------------------------------------------------
\* Types; the keys of pending are sequence numbers.
TypeOK ==
  /\ isn \in Isns /\ odd \in BOOLEAN
  /\ r.initialized \in BOOLEAN
  /\ r.next_seq \in SeqNums
  /\ r.prefix \in Seq(0 .. StreamLen - 1)
  /\ DOMAIN r.pending \subseteq SeqNums
  /\ r.buffered_bytes \in Nat
  /\ r.delivered \in 0 .. StreamLen
  /\ origin \in -1 .. StreamLen
  /\ kept \subseteq 0 .. StreamLen - 1

\* reassembly.hpp: a reader "must see the bytes in the order the receiving
\* application would".  Whatever the order of the pushes, the prefix is the
\* stream from its origin on, without loss, repetition or exchange, and
\* next_seq is the number of the first byte not delivered.
StreamOrder ==
  r.initialized =>
    /\ r.prefix = [i \in 1 .. Len(r.prefix) |-> origin + i - 1]
    /\ Len(r.prefix) = Min({r.delivered, max_prefix})
    /\ r.next_seq = SeqAt(Expected)

HeldBytes == UNION {Range(r.pending[n]) : n \in DOMAIN r.pending}

\* Every byte that push() accepted is delivered or still held, and on a stream
\* that does not cross the end of the sequence space drain() leaves no segment
\* behind that could be delivered.
NothingContiguousHeld ==
  /\ \A x \in kept : x >= Expected => x \in HeldBytes
  /\ isn + StreamLen <= SeqSpace =>
       \A n \in DOMAIN r.pending : Expected \notin Range(r.pending[n])

\* "Memory is therefore capped per direction": buffered_bytes is exactly what
\* pending holds and both limits are kept.
Budget ==
  /\ r.buffered_bytes = MapThenSumSet(LAMBDA n : Len(r.pending[n]), DOMAIN r.pending)
  /\ r.buffered_bytes <= max_buffered
  /\ Len(r.prefix) <= max_prefix

\* When the next missing byte is captured again and again the whole stream from
\* the origin on is delivered: a full hold-back buffer never wedges the stream.
EventuallyWhole == [](r.initialized => <>(Expected = StreamLen /\ r.pending = << >>))

-----------------------------------------------------------------------------
(* A statement of the repository that the code does not keep.              *)

\* "Moves buffered segments into the prefix while they are contiguous"
\* (reassembly.hpp, drain), also on a stream that wraps.
DrainedWhileContiguous ==
  \A n \in DOMAIN r.pending : Expected \notin Range(r.pending[n])
=============================================================================
