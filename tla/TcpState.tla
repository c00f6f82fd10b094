------------------------------ MODULE TcpState ------------------------------
(***************************************************************************)
(* The observational TCP state machine of a flow: what                     *)
(* FlowTable::advance_tcp_state and the flag counters of FlowTable::update *)
(* do with one captured segment.  The operators work on flow records, so   *)
(* that the single-connection specification (TcpConnection) and the whole  *)
(* table (FlowTable) share them.                                           *)
(*                                                                         *)
(* A flow record has at least the fields state, handshake_complete and     *)
(* dir, the latter a function from the two directions to the per-direction *)
(* counters.  A segment is a record with at least the fields flags (a      *)
(* subset of Flags) and len (the payload length).                          *)
(***************************************************************************)
EXTENDS Integers

\* The two directions of a flow: A -> B (flow.fwd) and B -> A (flow.rev).
Dirs == {"fwd", "rev"}
Peer(d) == IF d = "fwd" THEN "rev" ELSE "fwd"

\* The record with the fields of f and those of g.
Join(f, g) == [x \in DOMAIN f \cup DOMAIN g |-> IF x \in DOMAIN f THEN f[x] ELSE g[x]]

\* The TCP flag bits the tracker reads.
Flags == {"SYN", "ACK", "FIN", "RST"}

TcpStates == {"None", "SynSent", "SynReceived", "Established",
              "FinWait", "Closing", "Closed", "Reset"}

\* No further transition is expected; a new SYN reopens the tuple.
Terminal == {"Closed", "Reset"}

InitFlagCounters == [syn |-> 0, fin |-> 0, rst |-> 0, pure_acks |-> 0]

\* The increments of FlowTable::update for one TCP segment of a direction.
Bit(cond) == IF cond THEN 1 ELSE 0

\* Mutant: a reset withdraws a FIN that was counted.
mut_count_flags(dir, p) ==
  [dir EXCEPT !.fin = @ + Bit("FIN" \in p.flags) - Bit("RST" \in p.flags)]

count_flags(dir, p) ==
  LET f == p.flags IN
  [dir EXCEPT !.syn = @ + Bit("SYN" \in f),
              !.fin = @ + Bit("FIN" \in f),
              !.rst = @ + Bit("RST" \in f),
              !.pure_acks = @ + Bit(/\ p.len = 0
                                    /\ "ACK" \in f
                                    /\ f \cap {"SYN", "FIN", "RST"} = {})]

-----------------------------------------------------------------------------
(* The second FIN closes the flow only if it comes from the side that has  *)
(* not sent one yet.                                                       *)

\* Mutant: any second FIN is taken for the other side's.
mut_other_side_finned(flow, d) == \E e \in Dirs : flow.dir[e].fin > 0

other_side_finned(flow, d) == flow.dir[Peer(d)].fin > 0

\* Mutant: a SYN on a live connection restarts it, too.
mut_restarts(flow, f) == "SYN" \in f /\ "ACK" \notin f

\* A new handshake on a finished tuple.
restarts(flow, f) ==
  flow.state \in Terminal /\ "SYN" \in f /\ "ACK" \notin f

\* Mutant: a connection joined in progress is taken for a finished handshake.
mut_completes_handshake(flow, f) ==
  flow.state \in {"None", "SynReceived"} /\ "ACK" \in f /\ "SYN" \notin f

completes_handshake(flow, f) ==
  flow.state = "SynReceived" /\ "ACK" \in f /\ "SYN" \notin f

\* Where a segment with flags f of direction d takes the state machine.
\* flow.dir[d].fin already counts this segment.
next_tcp_state(flow, f, d) ==
  LET syn == "SYN" \in f
      ack == "ACK" \in f
      fin == "FIN" \in f
      s   == flow.state
  IN IF "RST" \in f THEN "Reset"
     ELSE IF restarts(flow, f) THEN "SynSent"
     ELSE IF completes_handshake(flow, f) THEN "Established"
     ELSE CASE s = "None" -> IF ~syn THEN "Established"   \* joined mid-stream
                             ELSE IF ack THEN "SynReceived" ELSE "SynSent"
            [] s = "SynSent"     -> IF syn /\ ack THEN "SynReceived" ELSE s
            [] s = "Established" -> IF fin THEN "FinWait" ELSE s
            [] s = "FinWait"     -> IF fin /\ other_side_finned(flow, d)
                                    THEN "Closing" ELSE s
            [] s = "Closing"     -> IF ack /\ ~fin THEN "Closed" ELSE s
            [] OTHER             -> s

advance_tcp_state(flow, f, d) ==
  [flow EXCEPT
     !.state = next_tcp_state(flow, f, d),
     !.handshake_complete = \/ "RST" \notin f /\ completes_handshake(flow, f)
                            \/ @ /\ ("RST" \in f \/ ~restarts(flow, f))]
=============================================================================
