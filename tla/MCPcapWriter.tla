------------------------------ MODULE MCPcapWriter ------------------------------
(* PcapWriter for TLC: a frame cut by the snap length of the capture, and one   *)
(* longer than the snap length of the file whose wire length is too small.      *)
EXTENDS PcapWriter
MCFrames == {[caplen |-> 1, wirelen |-> 2], [caplen |-> 3, wirelen |-> 0]}
=============================================================================
