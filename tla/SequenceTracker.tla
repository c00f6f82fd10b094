--------------------------- MODULE SequenceTracker ---------------------------
(***************************************************************************)
(* One direction of a TCP flow as the sniffer sees it.  The sender's byte  *)
(* stream has the positions 0 .. StreamLen-1, and the byte at position x   *)
(* has the sequence number Isn + x (mod SeqSpace).  Segments of the stream *)
(* are captured in any order, any number of times or never; SYN, FIN and   *)
(* pure ACKs are captured at any point, and the capture may begin in the   *)
(* middle of the stream.                                                   *)
(*                                                                         *)
(* The history variables describe, in positions and therefore without any  *)
(* wraparound, what was really captured; the properties compare it with    *)
(* what FlowTable::track_sequence concludes.                               *)
(***************************************************************************)
EXTENDS SequenceTracking

CONSTANTS
  Isn,          \* sequence number of the first data byte
  StreamLen,    \* bytes of the stream
  Senders       \* [segs, captures]: the data segments <<position, length>> a sender may
                \* send, and a bound: how many are captured
ASSUME StreamAssumption ==
  /\ Isn \in SeqNums
  /\ StreamLen \in Nat /\ StreamLen + 1 < HalfSpace
  /\ \A sender \in Senders :
       /\ sender.captures \in Nat
       /\ \A s \in sender.segs : s[1] \in Nat /\ s[2] \in Nat \ {0} /\ s[1] + s[2] <= StreamLen

VARIABLES
  from,            \* the sender of this stream
  dir,             \* the DirectionStats record
  data_segments,   \* total_data_segments_
  high,            \* history: highest position reached, -1 before any segment
  captured,        \* history: data segments captured so far
  missing          \* history: positions jumped over and not captured since

vars == <<from, dir, data_segments, high, captured, missing>>

SeqAt(x) == SeqAdd(Isn, x)
Positions(s) == s[1] .. s[1] + s[2] - 1
CapturedBytes == UNION {Positions(s) : s \in captured}

Init ==
  /\ from \in Senders
  /\ dir = InitSequence
  /\ data_segments = 0
  /\ high = -1
  /\ captured = {}
  /\ missing = {}

Data(s) ==
  LET p == [flags |-> {"ACK"}, seq |-> SeqAt(s[1]), len |-> s[2]] IN
  /\ data_segments < from.captures
  /\ dir' = track_sequence(dir, p)
  /\ data_segments' = data_segments + 1
  /\ high' = IF s[1] + s[2] > high THEN s[1] + s[2] ELSE high
  /\ captured' = captured \cup {s}
  /\ missing' = (missing \cup (IF high >= 0 THEN high .. s[1] - 1 ELSE {}))
                  \ Positions(s)
  /\ UNCHANGED from

\* A segment without data: a SYN in front of the stream, a FIN behind it, or a
\* pure ACK at the sender's current position.
Control(x, f) ==
  LET p   == [flags |-> f, seq |-> SeqAt(x), len |-> 0]
      end == IF f \cap {"SYN", "FIN"} # {} THEN x + 1 ELSE x
  IN /\ dir' = track_sequence(dir, p)
     /\ high' = IF end > high THEN end ELSE high
     /\ UNCHANGED <<from, data_segments, captured, missing>>

Next ==
  \/ \E s \in from.segs : Data(s)
  \/ Control(-1, {"SYN"})
  \/ Control(StreamLen, {"FIN", "ACK"})
  \/ \E x \in 0 .. StreamLen : Control(x, {"ACK"})

Spec == Init /\ [][Next]_vars
-----------------------------------------------------------------------------
Hole == [lo : SeqNums, hi : SeqNums]

\* Types, and the two deques stay within kRecentSegmentWindow and
\* kMaxTrackedHoles.
TypeOK ==
  /\ dir \in [retransmits : Nat, out_of_order : Nat, seq_valid : BOOLEAN,
              next_seq : SeqNums, recent_segments : Seq(SeqNums \X Nat),
              holes : Seq(Hole)]
  /\ Len(dir.recent_segments) <= kRecentSegmentWindow
  /\ Len(dir.holes) <= kMaxTrackedHoles
  /\ data_segments \in Nat
  /\ high \in -1 .. StreamLen + 1
  /\ from \in Senders /\ captured \subseteq from.segs
  /\ missing \subseteq 0 .. StreamLen - 1

\* How far a sequence number lies behind the high-water mark.
Behind(n) == SeqDiff(dir.next_seq, n)

\* The recorded holes are non-empty, disjoint, in stream order and below
\* next_seq, although they are kept as wrapping sequence numbers and are cut
\* and erased by segments of any shape.
HolesOrdered ==
  /\ \A i \in DOMAIN dir.holes :
       Behind(dir.holes[i].lo) > Behind(dir.holes[i].hi)
  /\ \A i \in 1 .. Len(dir.holes) - 1 :
       Behind(dir.holes[i].hi) > Behind(dir.holes[i + 1].lo)
  /\ dir.holes # << >> => Behind(dir.holes[Len(dir.holes)].hi) > 0

\* next_seq is the end of the highest segment captured, SYN and FIN counted,
\* for every order of capture and across the wraparound.
NextSeqIsHighWater ==
  /\ dir.seq_valid = (high >= 0)
  /\ dir.seq_valid => dir.next_seq = SeqAt(high)

HoleBytes == {x \in 0 .. StreamLen : \E i \in DOMAIN dir.holes :
                 /\ seq_le(dir.holes[i].lo, SeqAt(x))
                 /\ seq_lt(SeqAt(x), dir.holes[i].hi)}

\* The sender resends segments as it first sent them.
KeepsBoundaries ==
  \A s, t \in from.segs : s # t => Positions(s) \cap Positions(t) = {}

\* "Sequence ranges known to be missing" (flow.hpp): no captured byte lies in
\* a recorded hole.  Holds when the sender resends segments as it first sent
\* them; a sender that repacketises breaks it.
HolesAreMissing == KeepsBoundaries => HoleBytes \cap CapturedBytes = {}

\* When segments are resent as they were sent, every repeated capture of a
\* segment is counted as a retransmission, also after its fingerprint has
\* left the window; no late original is counted out of order twice.
RepeatsCounted ==
  /\ KeepsBoundaries => dir.retransmits >= data_segments - Cardinality(captured)
  /\ dir.retransmits + dir.out_of_order <= data_segments

-----------------------------------------------------------------------------
(* A statement of the repository that the code does not keep.              *)

\* "Does this segment land in a range already known to be missing? If so it is
\* a delayed original rather than a resend" (flow_table.cpp): a segment whose
\* only new bytes were jumped over earlier is never counted a retransmission.
DelayedOriginalIsNotResend ==
  [][LET new == UNION {Positions(s) : s \in captured'} \ CapturedBytes
     IN new # {} /\ new \subseteq missing => dir'.retransmits = dir.retransmits]_vars
=============================================================================
