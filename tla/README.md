# netscope in TLA+

A specification of the packet sniffer in this repository: what it concludes
about TCP connections from the packets it happens to capture, what it counts and
stores, and how its two threads start and stop. The modules are
translated from the C++ sources, TLC checks them on small instances, and TLAPS
proves every safety property that a passing run checks, and the two refinements, for
every instance. Only liveness rests on the instances alone.

## The system

Two threads share one `Analyzer`. The capture thread reads frames (raw socket or
libpcap), writes them to an optional pcap file, decodes them and calls
`Analyzer::consume`. The UI thread (the dashboard, or a loop that waits for a
signal) takes snapshots, sweeps idle flows and resets. The Analyzer's mutex
makes every call one atomic step.

| Component | State | Operations | Hard behaviour | What makes it correct |
|---|---|---|---|---|
| Connection state machine (`flow_table.cpp`) | state, handshake flag, flag counters per direction | `advance_tcp_state`, flag counting in `update` | segments lost, repeated, reordered; capture begins mid-stream; tuple reused | no close, no handshake without evidence; no way back |
| Sequence tracking (`flow_table.cpp`) | `next_seq`, holes, fingerprints | `track_sequence` | wraparound, late segments cutting holes, full deques | holes are ordered and missing; repeats are counted; the wraparound is invisible |
| Reassembly (`reassembly.cpp`) | prefix, held segments, budget | `push`, `drain`, `append` | overlap, order, wraparound, full buffer | the prefix is the stream; the budget is kept; nothing wedges |
| Round trips (`flow_table.cpp`) | segments awaiting an ACK, `RttStats`, handshake timer | `track_rtt`, `RttStats::add` | retransmission against ACK, clock set back | samples start at originals; srtt lies between the extremes |
| Dissectors (`dissect.cpp`) | none | `dissect_tcp_stream`, `dissect_udp_payload` | tentative readings that grow | see flow table |
| Flow table (`flow_table.cpp`) | flows, ids, totals, protocol counts | `update`, `expire`, `clear` | table full, idle sweep, readings of two directions that disagree | bounded; one entry per conversation; least recent dropped; totals cover the live flows |
| Analyzer (`analyzer.hpp`) | statistics, flow table, last time stamp | `consume`, `expire_idle_flows`, `reset`, snapshots | two threads | each call atomic |
| Statistics (`stats.cpp`) | counters, 90-second ring | `add`, `reset`, views | time stamps that go back, ring slots of an earlier lap | each bar is its second; every packet accounted for once |
| Parser (`parser.cpp`) | none | `decode_packet` | frames cut at any byte, padding, fragments | a cut hides and never invents; no read past the capture |
| Captures (`capture_raw.cpp`, `capture_pcap.cpp`) | socket or handle, counters | `open`, `run`, `refresh_counters`, `close` | timeouts, errors, read-and-reset statistics | the summary covers what was captured |
| Pcap writer (`pcap_writer.cpp`) | file, stdio buffer | `open`, `write`, `close` | failed write, kill, crash in the decoder | bounded loss; what was flushed stays readable |
| Session (`main.cpp`, `dashboard.cpp`) | `g_running`, `capture_done`, pause, terminal | signals, keys, two threads | unlocked counters, shutdown from five causes | every stop ends both threads; nothing is used after it is closed |
| Rendering, command line | none that outlives a call | | | not modelled |

## Modules

Operator modules hold what the code does to one record; specification modules
put a record into an environment. The same operators are used on one connection
and in the whole table.

| Module | Models |
|---|---|
| `SeqArith` | `seq_lt/le/gt`, `ranges_overlap` over a sequence space of `2 * HalfSpace` numbers |
| `BoundedQueue` | the deques that forget their oldest element |
| `TcpState` → `TcpConnection` | flag counters and state machine, fed with any flags in any order |
| `SequenceTracking` → `SequenceTracker` | `track_sequence` on one direction; history variables record, in stream positions, what was really captured |
| `SequenceWrap` | refinement: a wrapping stream implements one that starts at number 1 |
| `Reassembly` → `StreamReassembler` | the class `StreamReassembler`; a byte is its position in the stream |
| `RttTracking` → `RttEstimator` | `track_rtt`; srtt is an exact fraction |
| `Dissection` | which prefix of tokens names which protocol, tentatively or for good |
| `FlowUpdate` → `FlowTable` | `FlowTable::update` in the order of the code, the table, `expire`, `clear` |
| `Session` | `main()`: the capture thread with both backends, the main thread with the dashboard loop, signals, keys, the kernel's packet queue |
| `PcapWriter` → `PacketLog` | the writer over a stdio buffer and a file that may refuse writes; `PacketLog` is what it promises |
| `Parser` | `decode_packet` as operators on frames whose headers are fields and whose bytes are counted |
| `Statistics` | `Statistics` as operators on one record |
| `Analyzer` | `consume`: decode, count, hand on to the flows; `reset` |
| `MC*` | instances for TLC |
| `TcpConnectionProofs`, `SequenceTrackerProofs`, `StreamReassemblerProofs`, `RttEstimatorProofs`, `FlowTableProofs`, `SessionProofs` | theorems on the module of that name |
| `SinkProofs` | theorems on `PcapWriter` and `Analyzer`, the two halves of the sink in `main()` |
| `SegmentLemmas` | lemmas on the operators of `SeqArith` and `Reassembly`, on sequences and on recursive functions |

Each definition keeps the name of the C++ function it models where there is one.
What is abstracted: payload bytes are tokens or positions; addresses and ports
are numbers; TTL, window and MAC addresses are left out because they are only
displayed; times are whole milliseconds or seconds; srtt is exact where the code
rounds to a double. `unordered_map` order is a free choice (`oldest`). Definitions
called `mut_*` are deliberately wrong variants: replacing a definition by its
variant must break the property named for it.

## Runs

All bounds are constants of the `.cfg` files.

| Run | Shows |
|---|---|
| `tcp_states` | six segments with any of the 16 flag sets: CLOSING/CLOSED need a FIN of each side, a handshake needs a SYN, no way back but reopening. Six segments suffice for a handshake, a close and a reopening |
| `sequence` | a stream that crosses the end of the sequence space, both deques of length two overflowing, and two kinds of sender. One resends segments as sent: holes contain only missing bytes, every repeat is counted although its fingerprint is forgotten. One cuts its stream anew each time: holes ordered and disjoint, `next_seq` the high-water mark, and the tracker refines the one that never wraps (`WrapInvisible`) |
| `reassembler` | every order of every segment, on a stream that wraps and one that does not, with a prefix shorter than the stream and a buffer that refuses segments: prefix in stream order, budget exact, no accepted byte lost, and the whole stream delivered in the end |
| `rtt` | handshake and data with retransmissions, a clock that may go back, delays above the plausible maximum, three segments and a queue of two, so that one ACK retires several segments and the queue overflows: srtt between the extremes, samples start at originals, counted right while the clock is steady |
| `flow_table` | three conversations and a fragment without ports, a table of two, expiry and clearing; and one conversation whose directions name different protocols, six packets: bounded, one entry per conversation, at most one flow displaced by a packet, the least recently active one, totals cover live flows, each identified flow counted once, buffers bounded |
| `session` | every backend, with and without dashboard, pcap file, kernel statistics and `--count`; signals, keys and read errors at any moment: no use after close, a clean exit, at most one packet after the stop, counters that cover the capture and never fall, the last frame of a file drawn; every stop ends the program, idle flows are swept. A kernel queue of one drops packets, a refresh every second packet makes the periodic refresh happen |
| `pcap_writer` | five packets, a flush every two, one refused call, a kill at any moment: refines `PacketLog` (order, bounded loss, nothing lost on close), and records covered by a flush survive any later failure |
| `analyzer` | each of some fifty frames (link types, VLAN tags, IPv4 and IPv6 headers, fragments, bad fields, padding) cut at every byte; and four packets of mixed traffic over five seconds with a ring of three |
| `pure_ack`, `tcp_reuse`, `sequence_delayed`, `reassembler_wrap` | statements of the code's comments and tests that the code does not keep; below |

Deadlock checking is off where a bound on the number of packets ends every
behaviour. The reassembler and the analyzer never stop, and a session stops only
by exiting: these are checked for deadlock, so no two threads wait for each other.

**Fairness.** `FairSpec` of `StreamReassembler` assumes that, as long as the stream
is incomplete, segments that hold the next expected byte keep being captured: a
TCP sender resends a segment until it is acknowledged, and each copy passes the
sniffer. Nothing is assumed of the order or of other segments. The hold-back
buffer may be too small for the stream, so segments are refused and must come
again. `FairSpec` of `Session` assumes weak fairness of each thread: the
operating system runs both, and a read returns within its poll timeout
(`capture.hpp:23`). Arrivals, signals, keys and errors are not fair: liveness may
not depend on a packet or a key. Read errors are left out of the fair part.

**What the assumptions of the instances leave out.** `EvictsLeastRecent` is checked
with time stamps that do not go back; `HolesAreMissing` and `RepeatsCounted` with a
sender that keeps its segment boundaries; the streams are shorter than half the
sequence space, as TCP windows are; `SynLens = {0}`: no data on a SYN.
`ThroughputIsTrue` is checked with time stamps that lie less than
the window behind the newest one. `SummaryCovers` is about captures without read
error whose kernel statistics can be read; drops since the last reading are not in
the summary, and it says so. `SnaplenOnlyHides` holds the parser to reporting a hidden
header; a cut payload only shortens `payload_len`. `EndOfFileShown` relies on the two
relaxed stores at `main.cpp:282-283` becoming visible in program order, as on x86;
the language does not promise it.

## Disagreements with the comments

Checked, each by a run of its own:

- `tcp_reuse`: FIN counters survive a new handshake on the same tuple, so a FIN
  that is sent twice by one side moves the new connection to CLOSING
  (`flow_table.cpp:188`, "The second FIN must come from the opposite direction").
- `sequence_delayed`: a segment strictly inside a hole drops the part of the hole
  behind it, and an original from that part counts as a retransmission
  (`flow_table.cpp:238`).
- `reassembler_wrap`: `drain` takes the numerically smallest key; across the wrap
  that is not the next segment, and a contiguous one stays in the buffer until
  the other one has been delivered (`reassembly.hpp:49`). `EventuallyWhole` of run
  `reassembler` shows that the stream does not wedge.
- `pure_ack`: the parser never reads the total length of the IP header, so the
  padding of a short Ethernet frame is TCP payload and a pure ACK counts as data
  (`tests/test_netscope.cpp:423`, "Pure ACKs are not data").

Seen while modelling and reproduced with TLC on these modules, but not kept as
runs (the first four with a property that the module states: add it to the cfg of
the passing run):

- `NoSampleIfResent` of `RttEstimator`: the original of a retransmitted segment stays
  in `awaiting_ack`, so the ACK of either copy is sampled (`flow.hpp:65` claims Karn's
  algorithm).
- `ReleasedOnceKnown` of `FlowTable`: the direction that did not identify the
  protocol keeps its reassembler (`flow.hpp:99`).
- `CrashLeavesFrame` of `PcapWriter`: the frame on which the decoder crashes may
  only be in the stdio buffer (`main.cpp:274`, "still leaves the offending frame on
  disk").
- `ClaimsWhatItStores` of `PcapWriter`: after a failed write the file holds a record
  header without its data, and later records follow (`pcap_writer.cpp:56`).
- The unlocked copy of the counters can pair a new `received` with an old
  `dropped` (`main.cpp:308`; the comment at the top of `main.cpp` speaks of one
  mutex). After a read error `run` returns without a refresh and the summary
  shows the counters of the last periodic one.
- In text mode, or while paused, no idle flow is swept.
- A time stamp a whole window behind wipes a newer bucket of the ring, and
  `peak_bucket_bytes` includes buckets that have left the window.
- After eight IPv6 extension headers the transport is not looked at.
- Without the SYN/ACK a flow stays in SYN_SENT through data and FINs
  (`flow_table.cpp:149`, "never block on a transition that was not observed").
- A sender that repacketises leaves captured bytes in `holes` (`flow.hpp:95`).
- With data on the SYN (`SynLens = {0, 2}`) the first byte is trimmed
  (`reassembly.cpp:38`).
- A pure ACK whose data was not captured moves `next_seq` past it without a hole, and
  the data, captured later, counts as a retransmission (`flow_table.cpp:225`).
- `clear()` keeps the totals while the statistics are reset: the two cover different
  periods from then on.
- After a clock step back the flow evicted may be the one that was active last
  (`EvictsLeastRecent` with `StepBack = TRUE`).
- A rate over the whole window would divide by 90 and cover 89 seconds, for the slot of
  the oldest is that of the newest (`stats.cpp:120`); the program asks for five.
- A repeated SYN restarts the handshake timer (`flow_table.cpp:304`, "unambiguous
  by construction").
- `total_rtt_samples_` counts samples that `RttStats::add` rejects.
- A flow whose tentative protocol is replaced stays counted under the first one.
- A saturated, unidentified direction is reassembled again from mid-stream
  (`reassembly.hpp:32`).

## Proofs

Every theorem below holds for all values of the constants that satisfy the named
assumptions of the modules, which TLC evaluates on the instances. A proof module
states its inductive invariant `IInv` first, then lemmas on the operators, one lemma
per action, and the theorems.

**`TcpConnectionProofs`**, for every `FlagSets` of the four flags the tracker reads and
every `MaxSegments`: `TypeCorrect`, `CloseNeedsBothFins` (`ClosedMeansBothFinned`),
`HandshakeNeedsEvidence` (`HandshakeEvidence`) and `ForwardOnly` (the action property
`OnlyReopeningMovesBack`). `IInv` adds `SynCounted` to the three invariants:
`HandshakeEvidence` is not inductive alone, because the step that completes a
handshake starts from SYN_RCVD, which must already have counted a SYN.

**`SegmentLemmas`** begins with the comparisons of `flow.hpp` on numbers that wrap. The key fact
is `DiffOfPositions`: two positions of a stream less than `HalfSpace` apart have
numbers whose signed difference is the difference of the positions, so `seq_lt`
and its kin compare positions (`ComparePositions`). Everything below rests on it.

**`SequenceTrackerProofs`**, for every initial number, every stream with
`StreamLen + 1 < HalfSpace`, every set of segments and both deque limits:
`TypeCorrect`, `HighWater` (`NextSeqIsHighWater`), `RepeatsAreCounted`
(`RepeatsCounted`), `HolesStayInOrder` (`HolesOrdered`), `HolesStayMissing`
(`HolesAreMissing`) and `WrapIsInvisible`, the refinement `WrapInvisible`. `Tracking` translates the record into stream positions: what is
captured lies below `high`, fingerprints belong to captured segments, holes are
ordered below `high`, and, where the sender keeps its boundaries, no captured
segment overlaps a hole. The last part is needed for `RepeatsCounted`: a repeat
whose fingerprint has been forgotten is told from a late original by the fact that
it hits no hole. `WrapIsInvisible` needs none of this: the refinement mapping adds a
constant to every sequence number of the record, the comparisons do not see the
constant (`OffsetKeepsOrder`), adding a length commutes with it (`OffsetAdds`), so each
of the verdict, the mark, the holes and the fingerprints of the moved segment is the
moved one (`TranslatedHoles` and its kin), and a step of the wrapping tracker is a step of
the other (`UnwrappedStep`).

The second half of **`SegmentLemmas`** is about `push` on any segments at all. `HeldLength`, the sum that
`buffered_bytes_` should equal, is a fold in the order of `CHOOSE`; `AnyElement` shows
that an element may be split off anywhere, and `WithoutOne` and `WithOne` what
`drain` and `hold` do to the sum. The loop of `drain` is a recursive function of the
number of turns: `DrainKeeps` shows that what one turn keeps the loop keeps, and that
it ends with nothing left to release. Both are inductions over data, carried out as
arguments on a least counterexample (`LeastElement`).

**`StreamReassemblerProofs`**: `MemoryIsCapped` (`Budget`) for everything the module can
push; and, with `SynLens = {0}`, `TypeCorrect`, `InOrder` (`StreamOrder`) and
`NothingStranded` (`NothingContiguousHeld`). The hypothesis is stated in the theorems:
with data on the SYN the properties fail in the code, as noted above. `IInv` says
where every byte is: the prefix is the beginning of what was delivered, `next_seq`
is the number of the first byte that was not, each held segment is a piece of the
stream stored under the number of its first byte, every byte kept is delivered or
held (`Covers`), and, where the stream does not wrap, no held segment is due
(`NoneDue`). `NothingStranded` needs both of the last: after a wrap `begin()` is not the
next segment, which is the finding of `reassembler_wrap`.

**`RttEstimatorProofs`**, for every number of segments and copies, every length of time
and all clock steps, negative ones included: `TypeCorrect`, `EstimateIsBounded`
(`SrttWithinSamples`), `OnlyOriginalsAreTimed` (`AwaitsOriginals`), `SamplesAreCounted`
(`SamplesCounted`). Which segments are timed is decided by `track_sequence`, so the
client's direction is shown to be a stream of `SequenceTracker`: `T` instantiates
`SequenceTrackerProofs` with the client's segments, `T!Tracking` is part of `IInv`, and
the tracker's lemmas are used through the instance. `SteadyClock` is the strengthening
that `SamplesCounted` needs: while the clock was steady, every time stamp waiting for
an answer is recent enough to be plausible.

**`FlowTableProofs`**, for every set of decoded packets (any addresses, ports, flags,
numbers and payloads), every capacity and idle time and every limit of the trackers,
with and without dissection: `TypeCorrect` (with the bound on the table), `OneEntry`
(`OneEntryPerConversation`), `BuffersAreBounded` (`BuffersBounded`), `TotalsCover`
(`TotalsCoverLive`), and, where the clock does not step back, the action property
`LeastRecentEvicted` (`EvictsLeastRecent`); the hypothesis `~StepBack` is stated in
that theorem alone. `TotalsCoverLive` bounds the counted flows from both sides; the
upper bound, which leaves room for every flow not identified yet, is inductive as it
stands. The proof first follows one packet through `update_flow`
(`CountPacket`, `TrackTcp`, `Dissected`, composed in `UpdateFlow`): the flow keeps its
shape, its buffers their budget (`PushKeepsBudget` of `SegmentLemmas`), a known
protocol stays known, and each counter grows by no more than what `updated_totals`
adds. `TotalOfUpdate` lifts that to the sums over the table, whichever entries leave it
in the same step. `IInv` adds to the properties that keys are canonical (`Entries`),
that ids stay below `next_id` (`OwnIds`: an id is not reused after an eviction), that
only entries of `ip_proto` TCP hold reassemblers and a conclusive flow gave one back
(`Released`), and `Clock`: flows were last seen in the order in which their last packets
came, which is what makes the scan over `last_seen` find the least recently active one.

**`SessionProofs`**, for every set of backends, limits, queue size, number of packets
and refresh or sweep period: `TypeCorrect`, `ClosedAfterUse` (`NoUseAfterClose`),
`CleanExit` (`ExitIsClean`), `PromptStop` (`StopsPromptly`), `SummaryIsComplete`
(`SummaryCovers`), `LastFrameDrawn` (`EndOfFileShown`) and the action property
`CountersOnlyGrow` (`ShownNeverFalls`). `IInv` has one part per idea: `Lifetimes`
relates the places of the two threads to what is open; `FieldLoops` and `Pipeline`
follow a counter from the kernel through the capture object and the shared counters
to the main thread's copy and the screen, each stage no further than the one before,
which is why unlocked stores and loads never make a number fall; `Conservation` and
`Accumulated` say that reading the kernel's statistics, which resets them, loses
nothing; `Final` carries the last refresh to the summary; `Stopped` and `Prompt` say what
may still happen after `g_running` is false.

**`SinkProofs`, the writer**, for every set of frames, snap length, record header,
flush interval, number of packets and number of refused calls: `WriterTypeCorrect`
(`WriterTypeOK`), `RecordsReadBack` (`ReadsBack`) and `WriterKeepsLog` (the refinement
`KeepsLog`). A reader of the file is a recursive function over its units; `KeptRead`
and `WholeRead` show that it splits a concatenation of records, cut at any unit, into
the records that lie wholly before the cut. `WriterInv` says that, until a call is
refused, the stream is the concatenation of what was written (`Whole`), or a beginning
of it after the process died (`Begun`); and that what the last flush before the first
failure covered stays in the file (`SafeKept`), whatever half-written records follow.
The second part is what a failure leaves of the first.

**`SinkProofs`, the parser and the statistics**, for every set of frames and capture
lengths, every window, set of ports and talkers: `AnalyzerTypeCorrect` (`TypeOK`),
`VolumeIsAccounted` (`VolumeAccounted`), `SnaplenHides` (`SnaplenOnlyHides`),
`HeadersAreDecoded` (`HeadersDecoded`), and, where time stamps lag by less than the
window, `ThroughputTrue` (`ThroughputIsTrue`); the hypothesis `StepBack < Window` is
stated in that theorem alone. The assumptions type the frames (`IsFrame`), bound a
capture by the frame's length, and make the tables finite, so that they have sums.
The parser has no state, so its two properties are lemmas on `decode_packet`, one layer
at a time: `Hidden` relates what fewer bytes show to what more bytes show, and each of
`decode_l4`, `decode_ipv4`, `decode_ipv6` and `decode_l3` keeps it, the walk of the
extension headers through `Ahead`, which compares two walks hop by hop (`WalkAhead`).
`wellformed` asks for at most one fragment header: with two, the parser goes by the last.
In `AnalyzerInv`, `Accounts` ties the columns of the tables together; `MixEffect` shows
which rows a packet adds to, and `SumChanged` lifts that to the sums. `Seen` remembers how
the last frame was decoded. `Recent` is the strengthening for `ThroughputTrue`: the ring
agrees with the history on every second of the window, including those not yet shown,
and nothing is recorded of seconds to come. It is inductive only while a late packet
cannot reach the slot of a newer second, which is the hypothesis.

Recursive functions (`drain`, the reader, the walk, the sums) are unfolded by arguments
on a least counterexample, for the library's induction theorems cannot be instantiated
by the provers at hand.

Model-checked only: liveness (`EventuallyWhole`, `EveryStopEnds`, `IdleFlowsSwept`), which
the prover does not cover. The four statements of the comments that the code does not
keep are refuted by their runs.

## Not modelled

- Byte-level parsing in the dissectors and the parser, checksum arithmetic: pure
  functions over bytes, out of reach of enumeration. The parser walks past the
  fragment header of a later IPv6 fragment into its payload; `ext` lists the headers
  it takes for extension headers there, whether or not they are.
- Rendering, formatting and the summary text (`dashboard.cpp`, `stats.cpp:177` ff.,
  `format_packet_line`): output without effect on the state.
- The command line, interface listing and filter validation: sequential, and
  they keep no state.
- The read-only views of the flow table (`top`, `app_protocols`, `mean_rtt_ms`) and
  the averages, the peak and the top lists of `Statistics`.
- `if_dropped` of the counters, which is stored and copied as `dropped` is. The failure
  points inside `open()` of each backend: they are one step, after which the destructor
  has given back whatever was opened. The division in `recent_bps` and `recent_pps`.
- The write-only counters of the reassembler and its `reset`, which nothing calls.

## What is left

The components that keep state are modelled and their safety is proved. Liveness would
need a prover for fairness. Seven hazards have no property that a run checks: data on the
SYN, data an ACK passed over, the ACK of a resent segment, the restarted handshake timer,
eviction after a clock step, a reused tuple that inherits its tracking state, and totals
that outlive `clear()`. They are described above and in `PROJECT.json`; a decision on what
the code should do would turn each into a property.
