-------------------------- MODULE SequenceTracking --------------------------
(***************************************************************************)
(* FlowTable::track_sequence: retransmission and reordering detection for  *)
(* one direction of a TCP flow.  The operators work on DirectionStats      *)
(* records with at least the fields of InitSequence and on segments with   *)
(* at least the fields flags, seq and len.  The fingerprint of a segment   *)
(* is the pair <<seq, len>> (segment_fingerprint packs it without loss).   *)
(***************************************************************************)
EXTENDS SeqArith, BoundedQueue, SequencesExt

CONSTANTS
  kRecentSegmentWindow,   \* fingerprints remembered per direction (64)
  kMaxTrackedHoles        \* holes remembered per direction (16)
ASSUME SequenceTrackingAssumption ==
  /\ kRecentSegmentWindow \in Nat \ {0}
  /\ kMaxTrackedHoles \in Nat \ {0}

InitSequence ==
  [retransmits |-> 0, out_of_order |-> 0, seq_valid |-> FALSE, next_seq |-> 0,
   recent_segments |-> << >>, holes |-> << >>]

fingerprint(p) == <<p.seq, p.len>>
seg_end(p) == SeqAdd(p.seq, p.len)

-----------------------------------------------------------------------------
(* Known holes.                                                            *)

\* Indices of the holes a segment overlaps.
holes_hit(dir, p) ==
  {i \in DOMAIN dir.holes :
     ranges_overlap(p.seq, seg_end(p), dir.holes[i].lo, dir.holes[i].hi)}

fills_known_hole(dir, p) == holes_hit(dir, p) # {}

\* Mutant: the hole is recognised but left as it was.
mut_filled_holes(dir, p) == dir.holes

\* Only the first hole met is updated.  A segment strictly inside the hole
\* keeps the part in front of it and drops the part behind it.
filled_holes(dir, p) ==
  LET i == Min(holes_hit(dir, p))
      h == dir.holes[i]
  IN CASE seq_le(p.seq, h.lo) /\ seq_le(h.hi, seg_end(p)) -> RemoveAt(dir.holes, i)
       [] seq_le(p.seq, h.lo) /\ ~seq_le(h.hi, seg_end(p)) ->
            [dir.holes EXCEPT ![i].lo = seg_end(p)]
       [] OTHER -> [dir.holes EXCEPT ![i].hi = p.seq]

-----------------------------------------------------------------------------
(* Classification.                                                         *)

\* What a segment is judged to be.  "control" segments carry no data; the
\* others are counted as data segments.
classify(dir, p) ==
  IF p.len = 0 THEN "control"
  ELSE IF ~dir.seq_valid THEN "first"
  ELSE IF Contains(dir.recent_segments, fingerprint(p)) THEN "duplicate"
  ELSE IF seq_le(seg_end(p), dir.next_seq)
       THEN IF fills_known_hole(dir, p) THEN "late" ELSE "resend"
  ELSE IF seq_gt(p.seq, dir.next_seq) THEN "jump" ELSE "advance"

\* Mutant: old data outside the fingerprint window is not a retransmission.
mut_is_retransmit(c) == c = "duplicate"

is_retransmit(c) == c \in {"duplicate", "resend"}
is_out_of_order(c) == c \in {"late", "jump"}

Increment(n, cond) == IF cond THEN n + 1 ELSE n

\* Mutant: a control segment moves next_seq back as well as forward.
mut_track_control(dir, p) ==
  [dir EXCEPT !.seq_valid = TRUE, !.next_seq = p.seq]

\* A SYN or a FIN consumes one sequence number (both together still one).
track_control(dir, p) ==
  LET end == SeqAdd(p.seq, IF p.flags \cap {"SYN", "FIN"} # {} THEN 1 ELSE 0)
  IN [dir EXCEPT !.seq_valid = TRUE,
                 !.next_seq = IF ~dir.seq_valid \/ seq_gt(end, @) THEN end ELSE @]

\* Mutant: the gap is recorded up to the end of the segment behind it.
mut_skipped(dir, p) == [lo |-> dir.next_seq, hi |-> seg_end(p)]

\* The range a forward jump leaves out.
skipped(dir, p) == [lo |-> dir.next_seq, hi |-> p.seq]

track_data(dir, p) ==
  LET c == classify(dir, p) IN
  [dir EXCEPT
     !.retransmits = Increment(@, is_retransmit(c)),
     !.out_of_order = Increment(@, is_out_of_order(c)),
     !.seq_valid = TRUE,
     !.next_seq = IF c \in {"first", "jump", "advance"} THEN seg_end(p) ELSE @,
     !.holes = CASE c = "late" -> filled_holes(dir, p)
                 [] c = "jump" -> push_bounded(@, skipped(dir, p), kMaxTrackedHoles)
                 [] OTHER -> @,
     !.recent_segments = push_bounded(@, fingerprint(p), kRecentSegmentWindow)]

track_sequence(dir, p) ==
  IF p.len = 0 THEN track_control(dir, p) ELSE track_data(dir, p)
=============================================================================
