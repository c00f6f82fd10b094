----------------------------- MODULE MCFlowTable -----------------------------
(* Instances of FlowTable for TLC.                                         *)
EXTENDS FlowTable

Tcp(src, sport, dst, dport, flags, seq, ack, data) ==
  [ip |-> TRUE, src |-> src, dst |-> dst, sport |-> sport, dport |-> dport,
   ip_proto |-> "TCP", l4 |-> "TCP", flags |-> flags, seq |-> seq, ack |-> ack,
   data |-> data]

Udp(src, sport, dst, dport, data) ==
  [Tcp(src, sport, dst, dport, {}, 0, 0, data) EXCEPT !.ip_proto = "UDP", !.l4 = "UDP"]

\* A frame that is not IP, or that did not decode.
NotIp == [Tcp(0, 0, 0, 0, {}, 0, 0, << >>) EXCEPT !.ip = FALSE]

\* A later fragment of a TCP segment: no transport header, so no ports and no flags.
Fragment(src, dst, data) == [Tcp(src, 0, dst, 0, {}, 0, 0, data) EXCEPT !.l4 = "Other"]

\* Three conversations, one of them between two ports of one host, and a fragment that
\* cannot be told which one it belongs to.
TablePackets ==
  { NotIp,
    Tcp(1, 9, 2, 8, {"ACK"}, 5, 0, <<"JUNK">>),
    Tcp(1, 9, 2, 8, {"RST"}, 6, 0, << >>),
    Tcp(2, 8, 1, 9, {"ACK"}, 0, 6, << >>),
    Tcp(3, 7, 3, 6, {"ACK"}, 2, 0, <<"SSH">>),
    Tcp(3, 6, 3, 7, {"ACK"}, 0, 3, << >>),
    Udp(2, 5, 3, 53, <<"DNS">>),
    Fragment(2, 1, <<"SSH">>) }

\* One conversation: a TLS client meets a plain HTTP server.
AppPackets ==
  { Tcp(1, 9, 2, 8, {"SYN"}, 4, 0, << >>),
    Tcp(1, 9, 2, 8, {"ACK"}, 5, 0, <<"RECORD">>),
    Tcp(1, 9, 2, 8, {"ACK"}, 6, 0, <<"CLIENT_HELLO", "FIELDS">>),
    Tcp(1, 9, 2, 8, {"ACK"}, 8, 0, <<"EXT", "SNI">>),
    Tcp(2, 8, 1, 9, {"SYN", "ACK"}, 0, 5, << >>),
    Tcp(2, 8, 1, 9, {"ACK"}, 1, 8, <<"STATUS">>),
    Tcp(2, 8, 1, 9, {"ACK"}, 2, 8, <<"EOL", "JUNK">>) }

\* Three conversations compete for the table; the two directions of one name different
\* protocols.
MCTraffics == { [packets |-> TablePackets, times |-> {1, 2, 3}, count |-> 5],
                [packets |-> AppPackets, times |-> {1}, count |-> 6] }
=============================================================================
