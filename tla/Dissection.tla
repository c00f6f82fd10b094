----------------------------- MODULE Dissection -----------------------------
(***************************************************************************)
(* Application-protocol identification (dissect.cpp).  A stream prefix or  *)
(* a datagram is a sequence of tokens, each standing for the run of bytes  *)
(* a dissector reads as one thing:                                         *)
(*   METHOD, STATUS           "GET " ... and "HTTP/1."                     *)
(*   EOL, HOST, BLANK         "\r\n", a Host header line, "\r\n\r\n"       *)
(*   RECORD                   a TLS handshake record header                *)
(*   CLIENT_HELLO ...         the handshake type and length behind it      *)
(*   FIELDS, EXT, SNI         the Hello up to its extensions, the          *)
(*                            extensions length and a server_name          *)
(*   SSH                      "SSH-"                                       *)
(*   DNS, DHCP, NTP, QUIC     a whole well-formed message                  *)
(*   JUNK                     anything else                                *)
(* The magic bytes of the dissectors exclude each other, so the order in   *)
(* which dissect_tcp_stream tries them does not matter.                    *)
(***************************************************************************)
EXTENDS SequencesExt

AppProtocols == {"Unknown", "HTTP", "TLS", "DNS", "SSH", "DHCP", "NTP", "Other"}

AppInfo(proto, conclusive) == [proto |-> proto, conclusive |-> conclusive]

\* What a dissector that returns false leaves in `out`; also the AppInfo of a
\* flow that was not identified.
NoInfo == AppInfo("Unknown", FALSE)

identified(app) == app.proto # "Unknown"

dissect_http(s) ==
  LET eol == SelectInSeq(s, LAMBDA t : t \in {"EOL", "BLANK"})
  IN IF s[1] \notin {"METHOD", "STATUS"} THEN NoInfo
     ELSE IF eol = 0 THEN AppInfo("HTTP", FALSE)
     ELSE AppInfo("HTTP", \/ s[1] = "STATUS"
                          \/ Contains(s, "BLANK")
                          \/ Contains(SubSeq(s, eol + 1, Len(s)), "HOST"))

dissect_tls(s) ==
  IF s[1] # "RECORD" \/ Len(s) < 2 THEN NoInfo
  ELSE IF s[2] \notin {"CLIENT_HELLO", "SERVER_HELLO"} THEN AppInfo("TLS", FALSE)
  ELSE IF Len(s) < 3 THEN NoInfo
  ELSE AppInfo("TLS", Len(s) > 3 /\ (Contains(s, "SNI") \/ s[2] = "SERVER_HELLO"))

dissect_ssh(s) ==
  IF s[1] # "SSH" THEN NoInfo ELSE AppInfo("SSH", Contains(s, "EOL"))

service(p) == IF p.sport < p.dport THEN p.sport ELSE p.dport

dissect_dns(s) == IF s[1] = "DNS" THEN AppInfo("DNS", TRUE) ELSE NoInfo

dissect_tcp_stream(s, p) ==
  IF s = << >> THEN NoInfo
  ELSE IF identified(dissect_tls(s)) THEN dissect_tls(s)
  ELSE IF identified(dissect_http(s)) THEN dissect_http(s)
  ELSE IF identified(dissect_ssh(s)) THEN dissect_ssh(s)
  ELSE IF service(p) = 53 THEN dissect_dns(s) ELSE NoInfo

dissect_udp_payload(s, p) ==
  IF s = << >> THEN NoInfo
  ELSE IF s[1] = "DHCP" /\ service(p) \in {67, 68} THEN AppInfo("DHCP", TRUE)
  ELSE IF s[1] = "NTP" /\ service(p) = 123 THEN AppInfo("NTP", TRUE)
  ELSE IF s[1] = "QUIC" /\ service(p) \in {80, 443} THEN AppInfo("Other", TRUE)
  ELSE dissect_dns(s)
=============================================================================
