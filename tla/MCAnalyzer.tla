----------------------------- MODULE MCAnalyzer -----------------------------
(* Analyzer for TLC.                                                       *)
EXTENDS Analyzer

\* A plain TCP segment, and variations of it.
Tcp == [link |-> "Ethernet", tags |-> 0, net |-> "IPv4", version_ok |-> TRUE, ihl |-> 20,
        bad_checksum |-> FALSE, frag |-> "no", ext |-> <<>>, proto |-> "TCP", hlen |-> 20,
        udp_len |-> 10, src |-> "a", sport |-> 2, dport |-> 1, flags |-> {"ACK"},
        payload |-> 2, pad |-> 0]
Udp == [Tcp EXCEPT !.proto = "UDP", !.src = "b"]
V6(f, ext) == [f EXCEPT !.net = "IPv6", !.ext = ext]
PureAck == [Tcp EXCEPT !.payload = 0, !.udp_len = 8, !.pad = 6]

Links == {[f EXCEPT !.link = l] : f \in {Tcp, V6(Udp, <<>>)},
                                  l \in {"SLL", "SLL2", "Null", "Raw", "unsupported"}}
Tags == {[f EXCEPT !.tags = n] : f \in {Tcp, V6(Udp, <<>>)}, n \in 0..3}
Ipv4s == UNION {{[f EXCEPT !.ihl = n, !.bad_checksum = TRUE] : n \in {16, 20, 24}}
                  \cup {[f EXCEPT !.frag = x] : x \in {"first", "later"}}
                  \cup {[f EXCEPT !.version_ok = FALSE]} : f \in {Tcp, Udp}}
Options(n) == [len |-> n, frag |-> "no"]
Fragment(which) == [len |-> 8, frag |-> which]
Exts == {<<Options(8)>>, <<Options(16), Fragment("first")>>, <<Fragment("later")>>,
         <<Fragment("later"), Fragment("first")>>,
         [i \in 1..7 |-> Options(8)], [i \in 1..8 |-> Options(8)]}
Ipv6s == {V6(f, e) : f \in {Tcp, Udp}, e \in Exts}
Transports == {[Tcp EXCEPT !.hlen = n] : n \in {16, 24}}
                \cup {[Udp EXCEPT !.udp_len = n, !.pad = 3] : n \in {4, 10, 13}}
                \cup {[Tcp EXCEPT !.proto = p] : p \in {"ICMP", "ICMPv6", "else"}}
Others == {[Tcp EXCEPT !.net = n] : n \in {"ARP", "else"}}

AllFrames == Links \cup Tags \cup Ipv4s \cup Ipv6s \cup Transports \cup Others \cup {PureAck}
AllCaptures == UNION {{<<f, n>> : n \in 0..wire_len(f)} : f \in AllFrames}

\* One capture of each kind the statistics tell apart; the last one is cut.
Mixed == {<<f, wire_len(f)>> : f \in {Tcp, V6(Udp, <<>>), [Tcp EXCEPT !.proto = "ICMP"],
                                      [Tcp EXCEPT !.net = "ARP"], [Tcp EXCEPT !.hlen = 16]}}
           \cup {<<[Udp EXCEPT !.frag = "later"], 35>>, <<Tcp, 20>>}

MCTraffics == { [captures |-> AllCaptures, secs |-> {1}, count |-> 1],
                [captures |-> Mixed, secs |-> Secs, count |-> 4] }
MCPorts == 0..2
MCTalkers == {"a", "b", "none"}
=============================================================================
