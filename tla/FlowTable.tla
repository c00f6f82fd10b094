------------------------------ MODULE FlowTable ------------------------------
(***************************************************************************)
(* The class FlowTable: a bounded table of bidirectional flows, its totals *)
(* and its per-protocol counts, with update, expire and clear as the       *)
(* capture thread and the UI thread call them through Analyzer.  The       *)
(* Analyzer's mutex makes each call one step.                              *)
(***************************************************************************)
EXTENDS FlowUpdate

CONSTANTS
  Traffics,              \* [packets, times, count]: packets that may be captured, their
                         \* time stamps and a bound: how many are captured
  max_flows,             \* capacity of the table (65536)
  idle_sec,              \* idle time after which a flow is dropped (120)
  kClosedFlowGraceSec,   \* the same for closed and reset flows (5)
  StepBack               \* may a time stamp be older than the last one?
ASSUME FlowTableAssumption ==
  /\ max_flows \in Nat \ {0}
  /\ idle_sec \in Nat /\ kClosedFlowGraceSec \in Nat
  /\ \A t \in Traffics : /\ t.packets \subseteq DecodedPackets
                         /\ t.times \subseteq Nat \ {0} /\ t.count \in Nat
  /\ StepBack \in BOOLEAN

VARIABLES
  traffic,      \* what is captured in this behaviour
  flows,        \* flows_: a function from keys to flows
  next_id,      \* next_id_
  totals,       \* the total_* counters
  app_counts,   \* app_counts_
  last_ts,      \* Analyzer::last_ts_, 0 before the first packet
  captured,     \* packets captured so far
  arrivals      \* history: number of the last packet of each live flow

vars == <<traffic, flows, next_id, totals, app_counts, last_ts, captured, arrivals>>

Keys == DOMAIN flows
Empty == << >>
NoCounts == [a \in AppProtocols \ {"Unknown"} |-> 0]

Init ==
  /\ traffic \in Traffics
  /\ flows = Empty
  /\ next_id = 0
  /\ totals = [retransmits |-> 0, out_of_order |-> 0, data_segments |-> 0,
               reassembled_bytes |-> 0, rtt_samples |-> 0]
  /\ app_counts = NoCounts
  /\ last_ts = 0
  /\ captured = 0
  /\ arrivals = Empty

-----------------------------------------------------------------------------
(* update                                                                  *)

\* Mutant: the most recently active flow is dropped.
mut_oldest(table) ==
  {k \in DOMAIN table : \A j \in DOMAIN table : table[k].last_seen >= table[j].last_seen}

\* The flows the scan for the least recently active one may stop at: which of
\* several it is depends on the order of the hash table.
oldest(table) ==
  {k \in DOMAIN table : \A j \in DOMAIN table : table[k].last_seen <= table[j].last_seen}

\* Mutant: room is made only once the table is over its limit.
mut_room_for(table, key) ==
  IF key \in DOMAIN table \/ Cardinality(DOMAIN table) <= max_flows
  THEN {DOMAIN table}
  ELSE {DOMAIN table \ {k} : k \in oldest(table)}

\* The keys that may stay when a packet of this key arrives.
room_for(table, key) ==
  IF key \in DOMAIN table \/ Cardinality(DOMAIN table) < max_flows
  THEN {DOMAIN table}
  ELSE {DOMAIN table \ {k} : k \in oldest(table)}

\* What is left of the table, with the entry of one key set.
put(table, kept, key, entry) ==
  [k \in kept \cup {key} |-> IF k = key THEN entry ELSE table[k]]

\* What the packet adds to the totals; flow is the flow before the packet.
updated_totals(flow, p) ==
  LET d == direction(p)
      c == classify(flow.dir[d], p)
  IN IF p.l4 # "TCP" THEN totals
     ELSE [retransmits       |-> totals.retransmits + Bit(is_retransmit(c)),
           out_of_order      |-> totals.out_of_order + Bit(is_out_of_order(c)),
           data_segments     |-> totals.data_segments + Bit(c # "control"),
           rtt_samples       |-> totals.rtt_samples + rtt_samples_taken(flow, p, d),
           reassembled_bytes |-> totals.reassembled_bytes
                                   + (IF inspects(flow) /\ feeds_stream(p)
                                      THEN added_bytes(flow.dir[d], p) ELSE 0)]

\* Mutant: a flow is counted again whenever its protocol is revised.
mut_updated_counts(before, after) ==
  IF before # after /\ identified(after)
  THEN [app_counts EXCEPT ![after.proto] = @ + 1] ELSE app_counts

\* A flow is counted when it is identified for the first time.
updated_counts(before, after) ==
  IF ~identified(before) /\ identified(after)
  THEN [app_counts EXCEPT ![after.proto] = @ + 1] ELSE app_counts

update(p) ==
  LET key == make_flow_key(p)
      old == IF key \in Keys THEN flows[key] ELSE new_flow(p, next_id + 1)
      new == update_flow(old, p)
  IN /\ \E kept \in room_for(flows, key) :
          /\ flows' = put(flows, kept, key, new)
          /\ arrivals' = put(arrivals, kept, key, captured + 1)
     /\ next_id' = IF key \in Keys THEN next_id ELSE next_id + 1
     /\ totals' = updated_totals(old, p)
     /\ app_counts' = updated_counts(old.app, new.app)

\* Analyzer::consume on a packet q stamped t: only IP packets that decoded
\* without an error reach a flow.
Consume(q, t) ==
  LET p == Join(q, [ts |-> t, len |-> Len(q.data)]) IN
  /\ captured < traffic.count
  /\ StepBack \/ t >= last_ts
  /\ captured' = captured + 1
  /\ last_ts' = t
  /\ IF p.ip THEN update(p)
     ELSE UNCHANGED <<flows, next_id, totals, app_counts, arrivals>>
  /\ UNCHANGED traffic

-----------------------------------------------------------------------------
(* expire and clear                                                        *)

expired(flow, now) ==
  LET idle == now - flow.last_seen IN
  idle > idle_sec \/ (flow.state \in Terminal /\ idle > kClosedFlowGraceSec)

\* Analyzer::expire_idle_flows: "now" is the time of the last packet.
Expire ==
  /\ last_ts # 0
  /\ LET kept == {k \in Keys : ~expired(flows[k], last_ts)}
     IN /\ flows' = Restrict(flows, kept)
        /\ arrivals' = Restrict(arrivals, kept)
  /\ UNCHANGED <<traffic, next_id, totals, app_counts, last_ts, captured>>

\* FlowTable::clear, called by Analyzer::reset.
Clear ==
  /\ flows' = Empty
  /\ arrivals' = Empty
  /\ app_counts' = NoCounts
  /\ UNCHANGED <<traffic, next_id, totals, last_ts, captured>>

Next ==
  \/ \E q \in traffic.packets, t \in traffic.times : Consume(q, t)
  \/ Expire
  \/ Clear

Spec == Init /\ [][Next]_vars
-----------------------------------------------------------------------------
FlowKey == [a : Nat, b : Nat, port_a : Nat, port_b : Nat, proto : IpProtocols]

\* Types, and the table never holds more than max_flows flows.
TypeOK ==
  /\ Keys \subseteq FlowKey
  /\ Cardinality(Keys) <= max_flows
  /\ \A k \in Keys : flows[k].state \in TcpStates /\ flows[k].app.proto \in AppProtocols
  /\ traffic \in Traffics /\ next_id \in Nat
  /\ DOMAIN arrivals = Keys

\* Both directions of a conversation share one entry: no two keys of the
\* table are each other's mirror image, and every flow has its own id.
OneEntryPerConversation ==
  /\ \A k, j \in Keys :
       k.proto = j.proto /\ {<<k.a, k.port_a>>, <<k.b, k.port_b>>}
                              = {<<j.a, j.port_a>>, <<j.b, j.port_b>>} => k = j
  /\ \A k, j \in Keys : flows[k].id = flows[j].id => k = j
  /\ \A k \in Keys : flows[k].id \in 1 .. next_id

\* "make room by dropping the least recently active flow": a packet displaces
\* at most one flow, only from a full table, and the one whose last packet came
\* longest ago.  (The last needs time stamps that do not go back.)
EvictsLeastRecent ==
  [][captured' # captured =>
       \A k \in Keys \ DOMAIN flows' :
         /\ Keys \ DOMAIN flows' = {k} /\ Cardinality(Keys) = max_flows
         /\ \A j \in Keys \cap DOMAIN flows' :
              arrivals[k] < arrivals[j] \/ flows[k].last_seen = flows[j].last_seen]_vars

\* The sum of the values of w.
Total(w) == MapThenSumSet(LAMBDA x : w[x], DOMAIN w)

\* What both directions of each live flow count.
Resent == [k \in Keys |-> flows[k].dir["fwd"].retransmits + flows[k].dir["rev"].retransmits]
Reordered == [k \in Keys |-> flows[k].dir["fwd"].out_of_order + flows[k].dir["rev"].out_of_order]
Timed == [k \in Keys |-> flows[k].dir["fwd"].rtt.samples + flows[k].dir["rev"].rtt.samples]

Identified == {k \in Keys : identified(flows[k].app)}

\* The totals cover the live flows whatever was evicted, expired or cleared in
\* between: the dashboard never shows fewer retransmissions, reordered
\* segments, RTT samples or identified flows in total than in its flow list.
\* And no flow is counted twice, however often its protocol is revised: the
\* counted flows and those not identified yet are no more than were ever opened.
TotalsCoverLive ==
  /\ totals.retransmits >= Total(Resent)
  /\ totals.out_of_order >= Total(Reordered)
  /\ totals.rtt_samples >= Total(Timed)
  /\ totals.retransmits + totals.out_of_order <= totals.data_segments
  /\ Total(app_counts) >= Cardinality(Identified)
  /\ Total(app_counts) + Cardinality(Keys \ Identified) <= next_id

\* A reassembler that is kept has room left, and once the protocol is known
\* for good at most one direction still holds one.
BuffersBounded ==
  \A k \in Keys :
    /\ \A d \in Dirs : flows[k].dir[d].stream # NoStream =>
         /\ ~saturated(flows[k].dir[d].stream)
         /\ flows[k].dir[d].stream.buffered_bytes <= max_buffered
    /\ flows[k].app.conclusive => \E d \in Dirs : flows[k].dir[d].stream = NoStream

-----------------------------------------------------------------------------
(* A statement of the repository that the code does not keep.              *)

\* "released once the application protocol is known, so long-lived connections
\* do not hold reassembly buffers for their whole lifetime" (flow.hpp).
ReleasedOnceKnown ==
  \A k \in Keys : flows[k].app.conclusive =>
    \A d \in Dirs : flows[k].dir[d].stream = NoStream
=============================================================================
