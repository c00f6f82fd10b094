------------------------ MODULE TcpConnectionProofs ------------------------
(***************************************************************************)
(* Proofs about the observational TCP state machine of TcpConnection, for  *)
(* every set of flag combinations and every number of captured segments.   *)
(***************************************************************************)
EXTENDS TcpConnection, TLAPS

Counters == [syn : Nat, fin : Nat, rst : Nat, pure_acks : Nat]
FlowRecords == [state : TcpStates, handshake_complete : BOOLEAN,
                dir : [Dirs -> Counters]]

\* What makes HandshakeEvidence inductive: a flow that waits for the last ACK
\* of the handshake has counted a SYN.
SynCounted ==
  flow.state = "SynReceived" => flow.dir["fwd"].syn + flow.dir["rev"].syn > 0

IInv == TypeOK /\ ClosedMeansBothFinned /\ SynCounted /\ HandshakeEvidence

-----------------------------------------------------------------------------
(* The operators of TcpState.                                              *)

\* The increment of a counter.
LEMMA BitValue ==
  ASSUME NEW c \in BOOLEAN
  PROVE  Bit(c) \in {0, 1} /\ (c => Bit(c) = 1)
  BY DEF Bit

\* count_flags (FlowTable::update) counts a SYN and a FIN in their own counter
\* and keeps the types of all four.
LEMMA CountFlags ==
  ASSUME NEW dir \in Counters, NEW p
  PROVE  /\ count_flags(dir, p) \in Counters
         /\ count_flags(dir, p).syn = dir.syn + Bit("SYN" \in p.flags)
         /\ count_flags(dir, p).fin = dir.fin + Bit("FIN" \in p.flags)
<1>1. PICK syn \in Nat : syn = dir.syn + Bit("SYN" \in p.flags)
  BY DEF Bit, Counters
<1>2. PICK fin \in Nat : fin = dir.fin + Bit("FIN" \in p.flags)
  BY DEF Bit, Counters
<1>3. PICK rst \in Nat : rst = dir.rst + Bit("RST" \in p.flags)
  BY DEF Bit, Counters
<1>4. PICK acks \in Nat :
        acks = dir.pure_acks + Bit(/\ p.len = 0
                                   /\ "ACK" \in p.flags
                                   /\ p.flags \cap {"SYN", "FIN", "RST"} = {})
  BY DEF Bit, Counters
<1>5. count_flags(dir, p)
        = [dir EXCEPT !.syn = syn, !.fin = fin, !.rst = rst, !.pure_acks = acks]
  BY <1>1, <1>2, <1>3, <1>4, Zenon DEF count_flags
<1>6. /\ count_flags(dir, p) \in Counters
      /\ count_flags(dir, p).syn = syn
      /\ count_flags(dir, p).fin = fin
  BY <1>5 DEF Counters
<1> QED  BY <1>1, <1>2, <1>6, Zenon

\* Every segment takes the state machine to one of its states.
LEMMA NextStateType ==
  ASSUME NEW fl \in FlowRecords, NEW f \in SUBSET Flags, NEW d \in Dirs
  PROVE  next_tcp_state(fl, f, d) \in TcpStates
  BY DEF FlowRecords, next_tcp_state, TcpStates, restarts, completes_handshake

\* Does the flow count as set up after the segment?
Complete(fl, f) ==
  \/ "RST" \notin f /\ completes_handshake(fl, f)
  \/ fl.handshake_complete /\ ("RST" \in f \/ ~restarts(fl, f))

\* advance_tcp_state changes state and handshake_complete, and nothing else.
LEMMA Advance ==
  ASSUME NEW fl \in FlowRecords, NEW f \in SUBSET Flags, NEW d \in Dirs
  PROVE  /\ advance_tcp_state(fl, f, d) \in FlowRecords
         /\ advance_tcp_state(fl, f, d).dir = fl.dir
         /\ advance_tcp_state(fl, f, d).state = next_tcp_state(fl, f, d)
         /\ advance_tcp_state(fl, f, d).handshake_complete = Complete(fl, f)
<1>1. PICK h \in BOOLEAN : h = Complete(fl, f)
  BY DEF Complete
<1>2. PICK s \in TcpStates : s = next_tcp_state(fl, f, d)
  BY NextStateType
<1>3. advance_tcp_state(fl, f, d) = [fl EXCEPT !.state = s, !.handshake_complete = h]
  BY <1>1, <1>2, Zenon DEF advance_tcp_state, Complete
<1>4. /\ advance_tcp_state(fl, f, d) \in FlowRecords
      /\ advance_tcp_state(fl, f, d).dir = fl.dir
      /\ advance_tcp_state(fl, f, d).state = s
      /\ advance_tcp_state(fl, f, d).handshake_complete = h
  BY <1>3 DEF FlowRecords
<1> QED  BY <1>1, <1>2, <1>4, Zenon

\* The flow record with the flags of the segment counted.
Counted(d, f, len) ==
  [flow EXCEPT !.dir[d] = count_flags(flow.dir[d], [flags |-> f, len |-> len])]

\* Counting the flags lowers no counter and keeps the state of the flow.
LEMMA CountedFlow ==
  ASSUME flow \in FlowRecords, NEW d \in Dirs, NEW f \in SUBSET Flags, NEW len
  PROVE  /\ Counted(d, f, len) \in FlowRecords
         /\ Counted(d, f, len).state = flow.state
         /\ Counted(d, f, len).handshake_complete = flow.handshake_complete
         /\ \A e \in Dirs :
              /\ Counted(d, f, len).dir[e].syn >= flow.dir[e].syn
              /\ Counted(d, f, len).dir[e].fin >= flow.dir[e].fin
         /\ "SYN" \in f => Counted(d, f, len).dir[d].syn > 0
         /\ "FIN" \in f => Counted(d, f, len).dir[d].fin > 0
<1> DEFINE p == [flags |-> f, len |-> len]
<1>1. p.flags = f
  OBVIOUS
<1>2. flow.dir[d] \in Counters
  BY DEF FlowRecords
<1>3. PICK c \in Counters :
        /\ c = count_flags(flow.dir[d], p)
        /\ c.syn = flow.dir[d].syn + Bit("SYN" \in f)
        /\ c.fin = flow.dir[d].fin + Bit("FIN" \in f)
  BY <1>1, <1>2, CountFlags, Zenon
<1>4. Counted(d, f, len) = [flow EXCEPT !.dir[d] = c]
  BY <1>3, Zenon DEF Counted
<1>5. /\ Counted(d, f, len) \in FlowRecords
      /\ Counted(d, f, len).state = flow.state
      /\ Counted(d, f, len).handshake_complete = flow.handshake_complete
      /\ Counted(d, f, len).dir = [flow.dir EXCEPT ![d] = c]
  BY <1>4 DEF FlowRecords
<1>6. /\ c.syn >= flow.dir[d].syn /\ ("SYN" \in f => c.syn > 0)
      /\ c.fin >= flow.dir[d].fin /\ ("FIN" \in f => c.fin > 0)
  BY <1>2, <1>3 DEF Counters, Bit
<1> QED  BY <1>2, <1>5, <1>6 DEF FlowRecords, Counters

-----------------------------------------------------------------------------
(* Invariance.                                                             *)

\* What a captured segment does to the flow record.
LEMMA SegmentStep ==
  ASSUME TypeOK, NEW d \in Dirs, NEW f \in FlagSets, NEW len \in {0, 1},
         Segment(d, f, len)
  PROVE  /\ f \in SUBSET Flags
         /\ flow \in FlowRecords
         /\ Counted(d, f, len) \in FlowRecords
         /\ flow' \in FlowRecords
         /\ flow'.dir = Counted(d, f, len).dir
         /\ flow'.state = next_tcp_state(Counted(d, f, len), f, d)
         /\ flow'.handshake_complete = Complete(Counted(d, f, len), f)
<1>1. f \in SUBSET Flags
  BY ConnectionAssumption
<1>2. flow \in FlowRecords
  BY DEF TypeOK, FlowRecords, Counters
<1>3. Counted(d, f, len) \in FlowRecords
  BY <1>1, <1>2, CountedFlow
<1>4. flow' = advance_tcp_state(Counted(d, f, len), f, d)
  BY Zenon DEF Segment, Counted
<1> QED  BY <1>1, <1>2, <1>3, <1>4, Advance, Zenon

\* IInv holds of a new flow.
LEMMA InitIInv == Init => IInv
<1> SUFFICES ASSUME Init PROVE IInv
  OBVIOUS
<1>1. flow = [state |-> "None", handshake_complete |-> FALSE,
              dir |-> [d \in Dirs |-> InitFlagCounters]]
  BY DEF Init
<1>2. InitFlagCounters \in Counters
  BY DEF InitFlagCounters, Counters
<1>3. TypeOK
  BY <1>1, <1>2 DEF Init, TypeOK, Counters, TcpStates
<1> QED  BY <1>1, <1>3 DEF IInv, ClosedMeansBothFinned, SynCounted, HandshakeEvidence

\* Every captured segment preserves IInv.
LEMMA SegmentIInv ==
  ASSUME IInv, NEW d \in Dirs, NEW f \in FlagSets, NEW len \in {0, 1},
         Segment(d, f, len)
  PROVE  IInv'
<1> DEFINE c == Counted(d, f, len)
<1>1. TypeOK
  BY DEF IInv
<1>2. /\ f \in SUBSET Flags
      /\ flow \in FlowRecords
      /\ c \in FlowRecords
      /\ flow' \in FlowRecords
      /\ flow'.dir = c.dir
      /\ flow'.state = next_tcp_state(c, f, d)
      /\ flow'.handshake_complete = Complete(c, f)
  BY <1>1, SegmentStep
<1>3. /\ c.state = flow.state
      /\ c.handshake_complete = flow.handshake_complete
      /\ \A e \in Dirs : c.dir[e].syn >= flow.dir[e].syn /\ c.dir[e].fin >= flow.dir[e].fin
      /\ "SYN" \in f => c.dir[d].syn > 0
      /\ "FIN" \in f => c.dir[d].fin > 0
  BY <1>2, CountedFlow
<1>4. \A e \in Dirs : /\ flow.dir[e].syn \in Nat /\ flow.dir[e].fin \in Nat
                      /\ c.dir[e].syn \in Nat /\ c.dir[e].fin \in Nat
  BY <1>2 DEF FlowRecords, Counters
<1> HIDE DEF c
<1>5. TypeOK'
  <2>1. segments' \in Nat
    BY <1>1 DEF TypeOK, Segment
  <2>2. finned' \subseteq Dirs
    BY <1>1 DEF TypeOK, Segment
  <2> QED  BY <1>2, <2>1, <2>2 DEF TypeOK, FlowRecords, Counters
<1>6. ClosedMeansBothFinned'
  <2> SUFFICES ASSUME flow'.state \in {"Closing", "Closed"}
               PROVE  \A e \in Dirs : c.dir[e].fin > 0
    BY <1>2 DEF ClosedMeansBothFinned
  <2>1. CASE flow.state \in {"Closing", "Closed"}
    BY <2>1, <1>3, <1>4 DEF IInv, ClosedMeansBothFinned
  <2>2. CASE flow.state \notin {"Closing", "Closed"}
    <3>1. "FIN" \in f /\ c.dir[Peer(d)].fin > 0
      BY <2>2, <1>2, <1>3 DEF next_tcp_state, other_side_finned, restarts,
                              completes_handshake, FlowRecords, TcpStates
    <3> QED  BY <3>1, <1>3 DEF Dirs, Peer
  <2> QED  BY <2>1, <2>2
<1>7. SynCounted'
  <2> SUFFICES ASSUME flow'.state = "SynReceived"
               PROVE  c.dir["fwd"].syn + c.dir["rev"].syn > 0
    BY <1>2 DEF SynCounted
  <2>1. CASE flow.state = "SynReceived"
    BY <2>1, <1>3, <1>4 DEF IInv, SynCounted, Dirs
  <2>2. CASE flow.state # "SynReceived"
    <3>1. "SYN" \in f
      BY <2>2, <1>2, <1>3 DEF next_tcp_state, restarts, completes_handshake,
                              FlowRecords, TcpStates
    <3> QED  BY <3>1, <1>3, <1>4 DEF Dirs
  <2> QED  BY <2>1, <2>2
<1>8. HandshakeEvidence'
  <2> DEFINE Up == {"Established", "FinWait", "Closing"} \cup Terminal
  <2> SUFFICES ASSUME Complete(c, f)
               PROVE  /\ c.dir["fwd"].syn + c.dir["rev"].syn > 0
                      /\ next_tcp_state(c, f, d) \in Up
    BY <1>2 DEF HandshakeEvidence
  <2>1. CASE "RST" \notin f /\ completes_handshake(c, f)
    <3>1. flow.state = "SynReceived"
      BY <2>1, <1>3 DEF completes_handshake
    <3>2. c.dir["fwd"].syn + c.dir["rev"].syn > 0
      BY <3>1, <1>3, <1>4 DEF IInv, SynCounted, Dirs
    <3>3. next_tcp_state(c, f, d) = "Established"
      BY <2>1 DEF next_tcp_state, restarts, completes_handshake, Terminal
    <3> QED  BY <3>2, <3>3
  <2>2. CASE c.handshake_complete /\ ("RST" \in f \/ ~restarts(c, f))
    <3>1. flow.state \in Up /\ flow.dir["fwd"].syn + flow.dir["rev"].syn > 0
      BY <2>2, <1>3 DEF IInv, HandshakeEvidence
    <3>2. c.dir["fwd"].syn + c.dir["rev"].syn > 0
      BY <3>1, <1>3, <1>4 DEF Dirs
    <3>3. next_tcp_state(c, f, d) \in Up
      BY <2>2, <3>1, <1>3 DEF next_tcp_state, completes_handshake, Terminal
    <3> QED  BY <3>2, <3>3
  <2> QED  BY <2>1, <2>2 DEF Complete
<1> QED  BY <1>5, <1>6, <1>7, <1>8 DEF IInv

\* IInv is inductive.
LEMMA NextIInv == IInv /\ [Next]_vars => IInv'
<1> SUFFICES ASSUME IInv, [Next]_vars PROVE IInv'
  OBVIOUS
<1>1. CASE Next
  BY <1>1, SegmentIInv DEF Next
<1>2. CASE UNCHANGED vars
  BY <1>2 DEF vars, IInv, TypeOK, ClosedMeansBothFinned, SynCounted, HandshakeEvidence
<1> QED  BY <1>1, <1>2

\* The inductive invariant holds throughout every behaviour.
THEOREM Invariance == Spec => []IInv
  BY InitIInv, NextIInv, PTL DEF Spec

\* advance_tcp_state and the counters keep their types for any number of
\* segments with any flags.
THEOREM TypeCorrect == Spec => []TypeOK
<1>1. IInv => TypeOK
  BY DEF IInv
<1> QED  BY <1>1, Invariance, PTL

\* advance_tcp_state reports a closing or closed connection only after a FIN
\* of each direction.
THEOREM CloseNeedsBothFins == Spec => []ClosedMeansBothFinned
<1>1. IInv => ClosedMeansBothFinned
  BY DEF IInv
<1> QED  BY <1>1, Invariance, PTL

\* advance_tcp_state claims a complete handshake only after a SYN was captured
\* and the state machine has left the handshake.
THEOREM HandshakeNeedsEvidence == Spec => []HandshakeEvidence
<1>1. IInv => HandshakeEvidence
  BY DEF IInv
<1> QED  BY <1>1, Invariance, PTL

-----------------------------------------------------------------------------
(* No way back.                                                            *)

\* The order of the states.
LEMMA RankValues ==
  /\ Rank("None") = 0 /\ Rank("SynSent") = 1 /\ Rank("SynReceived") = 2
  /\ Rank("Established") = 3 /\ Rank("FinWait") = 4 /\ Rank("Closing") = 5
  /\ Rank("Closed") = 6 /\ Rank("Reset") = 7
  /\ \A s \in TcpStates : Rank(s) \in 0 .. 7
<1>1. /\ Rank("None") = 0 /\ Rank("SynSent") = 1 /\ Rank("SynReceived") = 2
      /\ Rank("Established") = 3 /\ Rank("FinWait") = 4 /\ Rank("Closing") = 5
      /\ Rank("Closed") = 6 /\ Rank("Reset") = 7
  BY DEF Rank
<1> QED  BY <1>1 DEF TcpStates

\* The connection state only moves forward, but for the new handshake on a
\* finished tuple.
THEOREM ForwardOnly == Spec => OnlyReopeningMovesBack
<1> DEFINE Step == Rank(flow'.state) < Rank(flow.state) =>
                     /\ flow.state \in Terminal
                     /\ flow'.state = "SynSent"
                     /\ ~flow'.handshake_complete
<1>1. IInv /\ [Next]_vars => [Step]_vars
  <2> SUFFICES ASSUME IInv, NEW d \in Dirs, NEW f \in FlagSets, NEW len \in {0, 1},
                      Segment(d, f, len), Rank(flow'.state) < Rank(flow.state)
               PROVE  /\ flow.state \in Terminal
                      /\ flow'.state = "SynSent"
                      /\ ~flow'.handshake_complete
    BY DEF Next
  <2> DEFINE c == Counted(d, f, len)
  <2>1. /\ f \in SUBSET Flags /\ flow \in FlowRecords /\ c \in FlowRecords
        /\ flow'.state = next_tcp_state(c, f, d)
        /\ flow'.handshake_complete = Complete(c, f)
    BY SegmentStep DEF IInv
  <2>2. c.state = flow.state
    BY <2>1, CountedFlow
  <2> HIDE DEF c
  <2>3. flow.state \in TcpStates
    BY <2>1 DEF FlowRecords
  <2>4. "RST" \notin f /\ restarts(c, f)
    <3> SUFFICES ASSUME "RST" \in f \/ ~restarts(c, f)
                 PROVE  Rank(next_tcp_state(c, f, d)) >= Rank(flow.state)
      BY <2>1, <2>3, RankValues, NextStateType
    <3>1. CASE "RST" \in f
      BY <3>1, <2>3, RankValues DEF next_tcp_state, TcpStates
    <3>2. CASE "RST" \notin f /\ completes_handshake(c, f)
      BY <3>2, <2>2, RankValues DEF next_tcp_state, completes_handshake, restarts, Terminal
    <3>3. CASE "RST" \notin f /\ ~completes_handshake(c, f)
      <4>1. \/ next_tcp_state(c, f, d) = flow.state
            \/ flow.state = "None"
            \/ flow.state = "SynSent" /\ next_tcp_state(c, f, d) = "SynReceived"
            \/ flow.state = "Established" /\ next_tcp_state(c, f, d) = "FinWait"
            \/ flow.state = "FinWait" /\ next_tcp_state(c, f, d) = "Closing"
            \/ flow.state = "Closing" /\ next_tcp_state(c, f, d) = "Closed"
        BY <3>3, <2>2, <2>3 DEF next_tcp_state, TcpStates
      <4> QED  BY <4>1, <2>1, <2>3, RankValues, NextStateType DEF TcpStates
    <3> QED  BY <3>1, <3>2, <3>3
  <2>5. flow.state \in Terminal /\ flow'.state = "SynSent"
    BY <2>1, <2>2, <2>4 DEF next_tcp_state, restarts
  <2>6. ~Complete(c, f)
    BY <2>2, <2>4 DEF Complete, restarts, completes_handshake, Terminal
  <2> QED  BY <2>1, <2>5, <2>6
<1> QED  BY <1>1, Invariance, PTL DEF Spec, OnlyReopeningMovesBack
=============================================================================
