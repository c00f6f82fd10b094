------------------------- MODULE MCStreamReassembler -------------------------
(* Instances of StreamReassembler for TLC.                                 *)
EXTENDS StreamReassembler

\* Every segment of one to three bytes.
MCAnySegs == {s \in (0 .. StreamLen) \X (1 .. 3) : s[1] + s[2] <= StreamLen}
=============================================================================
