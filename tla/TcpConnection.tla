---------------------------- MODULE TcpConnection ----------------------------
(***************************************************************************)
(* One flow of the table, fed with any sequence of captured TCP segments:  *)
(* any combination of flags, in either direction, in any order.  That is   *)
(* the whole set of inputs the sniffer can meet, because segments may be   *)
(* lost, duplicated or reordered before they are captured and a capture    *)
(* may begin in the middle of a connection.                                *)
(***************************************************************************)
EXTENDS TcpState

CONSTANTS
  FlagSets,     \* the combinations of flags a segment may have
  MaxSegments   \* bound: segments captured on the flow
ASSUME ConnectionAssumption ==
  FlagSets \subseteq SUBSET Flags /\ MaxSegments \in Nat

VARIABLES
  flow,       \* the Flow record: state, handshake_complete, dir counters
  segments,   \* segments captured so far
  finned      \* history: sides that sent FIN since the last connection start

vars == <<flow, segments, finned>>

Init ==
  /\ flow = [state |-> "None", handshake_complete |-> FALSE,
             dir |-> [d \in Dirs |-> InitFlagCounters]]
  /\ segments = 0
  /\ finned = {}

\* A SYN without ACK or RST on a fresh or finished tuple begins a
\* connection.
Begins(f) == flow.state \in Terminal \cup {"None"}
             /\ "SYN" \in f /\ "ACK" \notin f /\ "RST" \notin f

\* FlowTable::update, restricted to the flags of one TCP segment.
Segment(d, f, len) ==
  /\ segments < MaxSegments
  /\ segments' = segments + 1
  /\ LET counted == [flow EXCEPT !.dir[d] =
                       count_flags(flow.dir[d], [flags |-> f, len |-> len])]
     IN flow' = advance_tcp_state(counted, f, d)
  /\ finned' = (IF Begins(f) THEN {} ELSE finned)
                 \cup (IF "FIN" \in f THEN {d} ELSE {})

Next == \E d \in Dirs, f \in FlagSets, len \in {0, 1} : Segment(d, f, len)

Spec == Init /\ [][Next]_vars
-----------------------------------------------------------------------------
\* The state machine and the counters keep their types.
TypeOK ==
  /\ flow \in [state : TcpStates, handshake_complete : BOOLEAN,
               dir : [Dirs -> [syn : Nat, fin : Nat, rst : Nat, pure_acks : Nat]]]
  /\ segments \in Nat
  /\ finned \subseteq Dirs

\* advance_tcp_state reports CLOSING or CLOSED only for a flow on which both
\* directions have sent a FIN, whatever was lost, repeated or reordered.
ClosedMeansBothFinned ==
  flow.state \in {"Closing", "Closed"} => \A d \in Dirs : flow.dir[d].fin > 0

\* handshake_complete is never claimed for a flow on which no SYN was
\* captured, nor while the state machine still waits for the handshake.
HandshakeEvidence ==
  flow.handshake_complete =>
    /\ flow.dir["fwd"].syn + flow.dir["rev"].syn > 0
    /\ flow.state \in {"Established", "FinWait", "Closing"} \cup Terminal

Rank(s) == CASE s = "None" -> 0 [] s = "SynSent" -> 1 [] s = "SynReceived" -> 2
             [] s = "Established" -> 3 [] s = "FinWait" -> 4
             [] s = "Closing" -> 5 [] s = "Closed" -> 6 [] s = "Reset" -> 7

\* A connection never moves backwards: the only step that lowers the state is
\* the new handshake that reopens a terminal flow, and it forgets the old
\* handshake.
OnlyReopeningMovesBack ==
  [][Rank(flow'.state) < Rank(flow.state) =>
       /\ flow.state \in Terminal
       /\ flow'.state = "SynSent"
       /\ ~flow'.handshake_complete]_vars

-----------------------------------------------------------------------------
(* A statement of the repository that the code does not keep.              *)

\* "The second FIN must come from the opposite direction to close the flow"
\* (flow_table.cpp): both FINs belong to the connection that is closing.
BothFinsOfThisConnection == flow.state = "Closing" => finned = Dirs
=============================================================================
