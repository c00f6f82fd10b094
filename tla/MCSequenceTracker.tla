-------------------------- MODULE MCSequenceTracker --------------------------
(* Instances of SequenceTracker for TLC.                                   *)
EXTENDS SequenceWrap

\* A sender that keeps its segment boundaries: the stream cut once.
FixedSegs == {<<0, 1>>, <<1, 2>>} \cup {<<x, 1>> : x \in 3 .. StreamLen - 1}

\* A sender that repacketises: every segment of one to three of the first five bytes.
AnySegs == {s \in (0 .. 4) \X (1 .. 3) : s[1] + s[2] <= 5}

MCFixed == {[segs |-> FixedSegs, captures |-> 4]}
MCSenders == {[segs |-> FixedSegs, captures |-> 5], [segs |-> AnySegs, captures |-> 4]}
=============================================================================
