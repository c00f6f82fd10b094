--------------------------- MODULE MCTcpConnection ---------------------------
(* Instances of TcpConnection for TLC.                                     *)
EXTENDS TcpConnection

MCAllFlags == SUBSET Flags

\* The combinations an ordinary TCP connection shows.
MCLegalFlags == {{"SYN"}, {"SYN", "ACK"}, {"ACK"}, {"FIN", "ACK"}, {"RST"}}
=============================================================================
