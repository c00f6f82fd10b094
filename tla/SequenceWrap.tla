---------------------------- MODULE SequenceWrap ----------------------------
(***************************************************************************)
(* The position of a stream in the sequence space does not matter: seen    *)
(* through the distance from the SYN, track_sequence behaves as it does on *)
(* a stream that begins at number 1 and never wraps.                       *)
(***************************************************************************)
EXTENDS SequenceTracker

\* The distance of a sequence number from that of the SYN.
Offset(n) == SeqDiff(n, SeqAt(-1))

\* The DirectionStats record of the stream that starts at number 1.
OffsetDir ==
  [dir EXCEPT
     !.next_seq = IF dir.seq_valid THEN Offset(@) ELSE 0,
     !.recent_segments = [i \in DOMAIN @ |-> <<Offset(@[i][1]), @[i][2]>>],
     !.holes = [i \in DOMAIN @ |-> [lo |-> Offset(@[i].lo), hi |-> Offset(@[i].hi)]]]

Unwrapped == INSTANCE SequenceTracker WITH Isn <- 1, dir <- OffsetDir

\* track_sequence on a stream that crosses the end of the sequence space
\* implements track_sequence on the same stream at the bottom of the space.
WrapInvisible == Unwrapped!Spec
=============================================================================
