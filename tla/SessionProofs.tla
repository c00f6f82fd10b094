--------------------------- MODULE SessionProofs ---------------------------
(***************************************************************************)
(* Proofs about the two threads of Session, for every backend, --count     *)
(* limit, queue size, number of packets and refresh or sweep period.       *)
(***************************************************************************)
EXTENDS Session, TLAPS

-----------------------------------------------------------------------------
(* The inductive invariant, in parts that are proved one after the other.  *)

Counts == [Fields -> Nat]
Options == [backend: Backends, tui: BOOLEAN, write: BOOLEAN, stats_ok: BOOLEAN,
            max_packets: Limits]
KernelRecords == [queue: Nat, seen: Nat, drops: Nat, total_seen: Nat, total_drops: Nat]
CaptureRecords == [pc: CapturePlaces, open: BOOLEAN, delivered: Nat,
                   software_received: Nat, kernel_seen: Nat, kernel_dropped: Nat,
                   next: Counts, todo: SUBSET Fields]
MainRecords == [pc: MainPlaces, copy: Counts, todo: SUBSET Fields, ticks: Nat]
DashboardRecords == [active: BOOLEAN, paused: BOOLEAN, last_frame: BOOLEAN]
AnalyzerRecords == [shown: Counts, stale: BOOLEAN]
Causes == {"nothing", "user", "error", "capture"}

\* Every variable is in its record set.
Typed ==
  /\ opt \in Options
  /\ g_running \in BOOLEAN /\ capture_done \in BOOLEAN /\ capture_error \in BOOLEAN
  /\ kernel \in KernelRecords
  /\ cap \in CaptureRecords
  /\ counters \in Counts
  /\ main \in MainRecords
  /\ dashboard \in DashboardRecords
  /\ analyzer \in AnalyzerRecords
  /\ writer \in BOOLEAN
  /\ stopped_by \in Causes
  /\ late \in Nat

\* Places of the main thread before and after the life of the capture thread.
BeforeSpawn == {"open", "writer", "begin", "spawn"}
AfterJoin == {"end", "counters", "close", "report", "summary"}

\* The capture thread exists between spawn and join; the capture, the pcap file and
\* the dashboard outlive it.
Lifetimes ==
  /\ main.pc \in BeforeSpawn => cap.pc = "none"
  /\ cap.pc = "none" => main.pc \in BeforeSpawn \cup {"exit"}
  /\ main.pc \in AfterJoin => cap.pc = "done"
  /\ main.pc = "exit" => cap.pc \in {"none", "done"}
  /\ cap.open <=> main.pc \notin {"open", "report", "summary", "exit"}
  /\ writer <=> opt.write /\ main.pc \notin {"open", "writer", "summary", "exit"}
  /\ dashboard.active =>
       main.pc \notin {"open", "writer", "begin", "exit"} \cup (AfterJoin \ {"end"})

\* The loops over the fields of the counters.
FieldLoops ==
  /\ cap.pc \in {"publish", "publish_final"} <=> cap.todo # {}
  /\ main.pc = "copy" <=> main.todo # {}

\* A packet analysed after the stop is the last one: run() is past its wait.
Prompt ==
  \/ late = 0
  \/ late = 1 /\ ~g_running /\ cap.pc \notin {"wait", "sink"}

\* What is known of the reason to stop, and when.
Stopped ==
  /\ g_running <=> stopped_by = "nothing"
  /\ main.pc \in {"open", "writer", "begin"} => g_running
  /\ cap.pc \in {"stopping", "done"} => capture_done
  /\ stopped_by = "capture" => capture_done
  /\ opt.tui /\ main.pc \in {"last", "join"} => ~g_running
  /\ cap.pc = "done" => ~g_running
  /\ (/\ main.pc \in {"join", "exit"} \cup AfterJoin
      /\ offline /\ opt.tui /\ stopped_by = "capture") => dashboard.last_frame

\* The packet that run() has received and not yet handed to the sink.
InHand == IF cap.pc = "sink" THEN 1 ELSE 0

\* Every packet the kernel has seen is queued, in hand, analysed or dropped.
Conservation ==
  /\ kernel.queue <= QueueSize /\ kernel.total_seen <= MaxArrivals
  /\ kernel.seen <= kernel.total_seen /\ kernel.drops <= kernel.total_drops
  /\ ~offline => kernel.total_seen
                   = kernel.queue + cap.delivered + InHand + kernel.total_drops
  /\ offline => kernel.total_seen = 0 /\ kernel.total_drops = 0
  /\ opt.backend = "raw" => cap.software_received = cap.delivered + InHand

\* What the backend has accumulated of the kernel's statistics, and stored last.
Accumulated ==
  /\ (opt.backend = "raw" /\ opt.stats_ok)
       => /\ kernel.total_seen = cap.kernel_seen + kernel.seen
          /\ kernel.total_drops = cap.kernel_dropped + kernel.drops
          /\ cap.next["received"] = cap.kernel_seen
          /\ cap.next["dropped"] = cap.kernel_dropped
  /\ (opt.backend = "raw" /\ ~opt.stats_ok)
       => /\ cap.kernel_seen = 0 /\ cap.kernel_dropped = 0
          /\ cap.next["received"] <= cap.software_received
          /\ cap.next["dropped"] = 0
  /\ (opt.backend = "libpcap" /\ opt.stats_ok)
       => /\ cap.next["received"] <= kernel.total_seen
          /\ cap.next["dropped"] <= kernel.total_drops

\* The counters on their way from the kernel to the screen: no stage is ahead of the
\* stage before it.
Pipeline ==
  /\ \A f \in Fields : counters[f] <= cap.next[f]
  /\ \A f \in Fields : main.copy[f] <= counters[f]
  /\ \A f \in Fields : analyzer.shown[f] <= counters[f]
  /\ main.pc \in {"copy", "show"} =>
       \A f \in Fields \ main.todo : analyzer.shown[f] <= main.copy[f]

\* Nothing is delivered or shown before the capture thread exists.
NothingYet ==
  cap.pc = "none" => /\ cap.delivered = 0
                     /\ analyzer.shown["received"] = 0 /\ analyzer.shown["dropped"] = 0

\* run() has done its final refresh, and stored the fields it has no longer to do.
Refreshed ==
  /\ cap.next["received"] >= cap.delivered + cap.next["dropped"]
  /\ \A f \in Fields \ cap.todo : counters[f] = cap.next[f]

\* The final refresh of a capture without error.
Final ==
  /\ cap.pc = "failed" => capture_error
  /\ (/\ cap.pc \in {"publish_final", "returned", "stopping", "done"}
      /\ ~capture_error /\ ~offline /\ opt.stats_ok)
       => Refreshed

IInv == /\ Typed /\ Lifetimes /\ FieldLoops /\ Prompt /\ Stopped
        /\ Conservation /\ Accumulated /\ Pipeline
        /\ NothingYet /\ Final /\ SummaryCovers

-----------------------------------------------------------------------------
(* The operators of Session.                                               *)

\* The values refresh_counters() is about to store are counts.
LEMMA RawCountersType ==
  ASSUME NEW c \in CaptureRecords
  PROVE  /\ raw_counters(c) \in Counts
         /\ raw_counters(c)["received"]
              = IF c.kernel_seen # 0 THEN c.kernel_seen ELSE c.software_received
         /\ raw_counters(c)["dropped"] = c.kernel_dropped
  BY DEF raw_counters, CaptureRecords, Counts, Fields

\* The kernel after PACKET_STATISTICS: only the raw backend resets what it has read.
LEMMA KernelAfterAsking ==
  ASSUME Typed
  PROVE  /\ kernel_after_asking \in KernelRecords
         /\ kernel_after_asking.queue = kernel.queue
         /\ kernel_after_asking.total_seen = kernel.total_seen
         /\ kernel_after_asking.total_drops = kernel.total_drops
         /\ IF opt.backend = "raw" /\ opt.stats_ok
              THEN kernel_after_asking.seen = 0 /\ kernel_after_asking.drops = 0
              ELSE kernel_after_asking = kernel
  BY DEF kernel_after_asking, Typed, KernelRecords

\* A backend whose next values are replaced.
LEMMA NextReplaced ==
  ASSUME NEW c \in CaptureRecords, NEW n \in Counts
  PROVE  LET r == [c EXCEPT !.next = n]
         IN /\ r \in CaptureRecords
            /\ r.next = n
            /\ r.pc = c.pc /\ r.open = c.open /\ r.todo = c.todo
            /\ r.delivered = c.delivered /\ r.software_received = c.software_received
            /\ r.kernel_seen = c.kernel_seen /\ r.kernel_dropped = c.kernel_dropped
  BY DEF CaptureRecords

\* refresh_counters() of the raw backend adds what the kernel has counted since the
\* last read; the other fields of the backend do not change.
LEMMA AccumulatedEffect ==
  ASSUME Typed
  PROVE  /\ accumulated(cap) \in CaptureRecords
         /\ accumulated(cap).kernel_seen = cap.kernel_seen + kernel.seen
         /\ accumulated(cap).kernel_dropped = cap.kernel_dropped + kernel.drops
         /\ accumulated(cap).pc = cap.pc /\ accumulated(cap).open = cap.open
         /\ accumulated(cap).todo = cap.todo
         /\ accumulated(cap).delivered = cap.delivered
         /\ accumulated(cap).software_received = cap.software_received
<1>1. PICK s \in Nat : s = cap.kernel_seen + kernel.seen
  BY DEF Typed, CaptureRecords, KernelRecords
<1>2. PICK d \in Nat : d = cap.kernel_dropped + kernel.drops
  BY DEF Typed, CaptureRecords, KernelRecords
<1>3. accumulated(cap) = [cap EXCEPT !.kernel_seen = s, !.kernel_dropped = d]
  BY <1>1, <1>2, Zenon DEF accumulated
<1> QED  BY <1>1, <1>2, <1>3 DEF Typed, CaptureRecords

\* What a refresh does to the backend, for each backend.
LEMMA AskedEffect ==
  ASSUME Typed
  PROVE  /\ asked \in CaptureRecords
         /\ asked.pc = cap.pc /\ asked.open = cap.open
         /\ asked.delivered = cap.delivered
         /\ asked.software_received = cap.software_received
         /\ asked.todo = cap.todo
         /\ opt.backend = "raw" =>
              /\ asked.kernel_seen
                   = cap.kernel_seen + (IF opt.stats_ok THEN kernel.seen ELSE 0)
              /\ asked.kernel_dropped
                   = cap.kernel_dropped + (IF opt.stats_ok THEN kernel.drops ELSE 0)
              /\ asked.next["received"] = IF asked.kernel_seen # 0 THEN asked.kernel_seen
                                                                  ELSE asked.software_received
              /\ asked.next["dropped"] = asked.kernel_dropped
         /\ opt.backend # "raw" =>
              /\ asked.next["received"] = IF opt.stats_ok THEN kernel.total_seen
                                                          ELSE counters["received"]
              /\ asked.next["dropped"] = IF opt.stats_ok THEN kernel.total_drops
                                                         ELSE counters["dropped"]
<1>1. CASE opt.backend = "raw"
  <2> DEFINE c == IF opt.stats_ok THEN accumulated(cap) ELSE cap
  <2>1. /\ c \in CaptureRecords
        /\ c.pc = cap.pc /\ c.open = cap.open /\ c.todo = cap.todo
        /\ c.delivered = cap.delivered
        /\ c.software_received = cap.software_received
        /\ c.kernel_seen = cap.kernel_seen + (IF opt.stats_ok THEN kernel.seen ELSE 0)
        /\ c.kernel_dropped = cap.kernel_dropped + (IF opt.stats_ok THEN kernel.drops ELSE 0)
    BY AccumulatedEffect DEF Typed, CaptureRecords
  <2> HIDE DEF c
  <2>2. asked = [c EXCEPT !.next = raw_counters(c)]
    BY <1>1, Zenon DEF asked, c
  <2>3. /\ asked \in CaptureRecords
        /\ asked.next = raw_counters(c)
        /\ asked.pc = c.pc /\ asked.open = c.open /\ asked.todo = c.todo
        /\ asked.delivered = c.delivered
        /\ asked.software_received = c.software_received
        /\ asked.kernel_seen = c.kernel_seen
        /\ asked.kernel_dropped = c.kernel_dropped
    BY <2>1, <2>2, NextReplaced, RawCountersType, Zenon
  <2> QED  BY <1>1, <2>1, <2>3, RawCountersType
<1>2. CASE opt.backend # "raw"
  <2>1. /\ pcap_counters \in Counts
        /\ pcap_counters["received"] = IF opt.stats_ok THEN kernel.total_seen
                                                       ELSE counters["received"]
        /\ pcap_counters["dropped"] = IF opt.stats_ok THEN kernel.total_drops
                                                      ELSE counters["dropped"]
    BY DEF pcap_counters, Typed, KernelRecords, Counts, Fields
  <2>2. asked = [cap EXCEPT !.next = pcap_counters]
    BY <1>2, Zenon DEF asked
  <2>3. cap \in CaptureRecords
    BY DEF Typed
  <2>4. /\ asked \in CaptureRecords
        /\ asked.next = pcap_counters
        /\ asked.pc = cap.pc /\ asked.open = cap.open /\ asked.todo = cap.todo
        /\ asked.delivered = cap.delivered
        /\ asked.software_received = cap.software_received
    BY <2>1, <2>2, <2>3, NextReplaced, Zenon
  <2> QED  BY <1>2, <2>1, <2>4
<1> QED  BY <1>1, <1>2

-----------------------------------------------------------------------------
(* The steps that change several fields of a record at once.               *)

\* recvfrom takes a packet from the queue and counts it.
LEMMA ReceiveRawEffect ==
  ASSUME Typed, ReceiveRaw
  PROVE  /\ cap' \in CaptureRecords /\ kernel' \in KernelRecords
         /\ cap'.pc = "sink"
         /\ cap'.software_received = cap.software_received + 1
         /\ cap'.open = cap.open /\ cap'.delivered = cap.delivered
         /\ cap'.kernel_seen = cap.kernel_seen
         /\ cap'.kernel_dropped = cap.kernel_dropped
         /\ cap'.next = cap.next /\ cap'.todo = cap.todo
         /\ kernel'.queue = kernel.queue - 1
         /\ kernel'.seen = kernel.seen /\ kernel'.drops = kernel.drops
         /\ kernel'.total_seen = kernel.total_seen
         /\ kernel'.total_drops = kernel.total_drops
<1>1. PICK r \in Nat : r = cap.software_received + 1
  BY DEF Typed, CaptureRecords
<1>2. cap' = [cap EXCEPT !.pc = "sink", !.software_received = r]
  BY <1>1, Zenon DEF ReceiveRaw
<1>3. PICK q \in Nat : q = kernel.queue - 1
  BY DEF ReceiveRaw, Typed, KernelRecords
<1>4. kernel' = [kernel EXCEPT !.queue = q]
  BY <1>3, Zenon DEF ReceiveRaw
<1>5. cap \in CaptureRecords /\ kernel \in KernelRecords
  BY DEF Typed
<1>6. kernel' \in KernelRecords /\ kernel'.queue = q
      /\ kernel'.seen = kernel.seen /\ kernel'.drops = kernel.drops
      /\ kernel'.total_seen = kernel.total_seen
      /\ kernel'.total_drops = kernel.total_drops
  BY <1>4, <1>5 DEF KernelRecords
<1>7. /\ cap' \in CaptureRecords
      /\ cap'.pc = "sink" /\ cap'.software_received = r
      /\ cap'.open = cap.open /\ cap'.delivered = cap.delivered
      /\ cap'.kernel_seen = cap.kernel_seen
      /\ cap'.kernel_dropped = cap.kernel_dropped
      /\ cap'.next = cap.next /\ cap'.todo = cap.todo
  BY <1>2, <1>5 DEF CaptureRecords, CapturePlaces
<1> QED  BY <1>1, <1>3, <1>6, <1>7

\* The sink has delivered one more packet; run() goes on with a refresh, with its
\* loop, or with the final refresh.
LEMMA SinkEffect ==
  ASSUME Typed, Sink
  PROVE  /\ cap' \in CaptureRecords
         /\ cap'.pc \in {"refresh", "final", "loop"}
         /\ cap'.delivered = cap.delivered + 1
         /\ cap'.software_received = cap.software_received
         /\ cap'.open = cap.open
         /\ cap'.kernel_seen = cap.kernel_seen
         /\ cap'.kernel_dropped = cap.kernel_dropped
         /\ cap'.next = cap.next /\ cap'.todo = cap.todo
         /\ analyzer' \in AnalyzerRecords /\ analyzer'.shown = analyzer.shown
<1>1. PICK d \in Nat : d = cap.delivered + 1
  BY DEF Typed, CaptureRecords
<1>2. PICK p \in {"refresh", "final", "loop"} :
        p = IF d % RefreshEvery = 0 THEN "refresh" ELSE after_refresh(d)
  BY Zenon DEF after_refresh
<1>3. cap' = [cap EXCEPT !.delivered = d, !.pc = p]
  BY <1>1, <1>2, Zenon DEF Sink
<1>4. /\ cap' \in CaptureRecords
      /\ cap'.pc = p /\ cap'.delivered = d
      /\ cap'.software_received = cap.software_received
      /\ cap'.open = cap.open
      /\ cap'.kernel_seen = cap.kernel_seen
      /\ cap'.kernel_dropped = cap.kernel_dropped
      /\ cap'.next = cap.next /\ cap'.todo = cap.todo
  BY <1>3 DEF Typed, CaptureRecords, CapturePlaces
<1>5. analyzer' \in AnalyzerRecords /\ analyzer'.shown = analyzer.shown
  BY DEF Typed, Sink, AnalyzerRecords
<1> QED  BY <1>1, <1>2, <1>4, <1>5

\* A refresh of a live capture.
LEMMA RefreshEffect ==
  ASSUME Typed, NEW from, NEW to \in CapturePlaces, NEW next \in CapturePlaces,
         Refresh(from, to, next)
  PROVE  /\ cap' \in CaptureRecords /\ kernel' \in KernelRecords
         /\ cap'.open = cap.open /\ cap'.delivered = cap.delivered
         /\ cap'.software_received = cap.software_received
         /\ offline => /\ cap'.pc = next /\ cap'.todo = cap.todo
                       /\ cap'.kernel_seen = cap.kernel_seen
                       /\ cap'.kernel_dropped = cap.kernel_dropped
                       /\ cap'.next = cap.next /\ kernel' = kernel
         /\ ~offline => /\ cap'.pc = to /\ cap'.todo = Fields
                        /\ cap'.kernel_seen = asked.kernel_seen
                        /\ cap'.kernel_dropped = asked.kernel_dropped
                        /\ cap'.next = asked.next /\ kernel' = kernel_after_asking
<1>1. CASE offline
  BY <1>1 DEF Refresh, Typed, CaptureRecords
<1>2. CASE ~offline
  <2>1. /\ cap' = [asked EXCEPT !.pc = to, !.todo = Fields]
        /\ kernel' = kernel_after_asking
    BY <1>2 DEF Refresh
  <2>2. /\ cap' \in CaptureRecords
        /\ cap'.pc = to /\ cap'.todo = Fields
        /\ cap'.open = asked.open /\ cap'.delivered = asked.delivered
        /\ cap'.software_received = asked.software_received
        /\ cap'.kernel_seen = asked.kernel_seen
        /\ cap'.kernel_dropped = asked.kernel_dropped
        /\ cap'.next = asked.next
    BY <2>1, AskedEffect DEF CaptureRecords
  <2> QED  BY <1>2, <2>1, <2>2, AskedEffect, KernelAfterAsking
<1> QED  BY <1>1, <1>2

\* A publish step stores one field.
LEMMA PublishEffect ==
  ASSUME Typed, NEW from, NEW next \in CapturePlaces, Publish(from, next)
  PROVE  \E f \in cap.todo :
           /\ cap' \in CaptureRecords /\ counters' \in Counts
           /\ counters'[f] = cap.next[f]
           /\ \A g \in Fields \ {f} : counters'[g] = counters[g]
           /\ cap'.todo = cap.todo \ {f}
           /\ cap'.pc = IF cap.todo = {f} THEN next ELSE from
           /\ cap'.open = cap.open /\ cap'.delivered = cap.delivered
           /\ cap'.software_received = cap.software_received
           /\ cap'.kernel_seen = cap.kernel_seen
           /\ cap'.kernel_dropped = cap.kernel_dropped
           /\ cap'.next = cap.next
<1>1. PICK f \in cap.todo :
        /\ counters' = [counters EXCEPT ![f] = cap.next[f]]
        /\ cap' = [cap EXCEPT !.todo = @ \ {f}, !.pc = IF cap.todo = {f} THEN next ELSE @]
  BY Zenon DEF Publish
<1>2. cap.pc = from /\ cap \in CaptureRecords /\ f \in Fields /\ counters \in Counts
      /\ cap.next[f] \in Nat
  BY DEF Publish, Typed, CaptureRecords, Counts
<1>3. PICK t \in SUBSET Fields : t = cap.todo \ {f}
  BY <1>2 DEF CaptureRecords
<1>4. PICK p \in CapturePlaces : p = IF cap.todo = {f} THEN next ELSE from
  BY <1>2 DEF CaptureRecords
<1>5. cap' = [cap EXCEPT !.todo = t, !.pc = p]
  BY <1>1, <1>2, <1>3, <1>4, Zenon
<1>6. /\ cap' \in CaptureRecords
      /\ cap'.todo = t /\ cap'.pc = p
      /\ cap'.open = cap.open /\ cap'.delivered = cap.delivered
      /\ cap'.software_received = cap.software_received
      /\ cap'.kernel_seen = cap.kernel_seen
      /\ cap'.kernel_dropped = cap.kernel_dropped
      /\ cap'.next = cap.next
  BY <1>2, <1>5 DEF CaptureRecords
<1>7. /\ counters' \in Counts
      /\ counters'[f] = cap.next[f]
      /\ \A g \in Fields \ {f} : counters'[g] = counters[g]
  BY <1>1, <1>2 DEF Counts
<1> QED  BY <1>3, <1>4, <1>6, <1>7, Zenon

\* The main thread copies one field.
LEMMA CopyFieldEffect ==
  ASSUME Typed, CopyField
  PROVE  \E f \in main.todo :
           /\ main' \in MainRecords
           /\ main'.copy[f] = counters[f]
           /\ \A g \in Fields \ {f} : main'.copy[g] = main.copy[g]
           /\ main'.todo = main.todo \ {f}
           /\ main'.pc = IF main.todo = {f} THEN "show" ELSE "copy"
<1>1. PICK f \in main.todo :
        main' = [main EXCEPT !.copy[f] = counters[f], !.todo = @ \ {f},
                             !.pc = IF main.todo = {f} THEN "show" ELSE @]
  BY Zenon DEF CopyField
<1>2. main.pc = "copy" /\ main \in MainRecords /\ f \in Fields /\ counters[f] \in Nat
  BY DEF CopyField, at, Typed, MainRecords, Counts
<1>3. PICK c \in Counts : c = [main.copy EXCEPT ![f] = counters[f]]
  BY <1>2 DEF MainRecords, Counts
<1>4. PICK t \in SUBSET Fields : t = main.todo \ {f}
  BY <1>2 DEF MainRecords
<1>5. PICK p \in {"show", "copy"} : p = IF main.todo = {f} THEN "show" ELSE "copy"
  OBVIOUS
<1>6. main' = [main EXCEPT !.copy = c, !.todo = t, !.pc = p]
  BY <1>1, <1>2, <1>3, <1>4, <1>5, Zenon
<1>7. main' \in MainRecords /\ main'.copy = c /\ main'.todo = t /\ main'.pc = p
  BY <1>2, <1>6 DEF MainRecords, MainPlaces
<1>8. c[f] = counters[f] /\ \A g \in Fields \ {f} : c[g] = main.copy[g]
  BY <1>2, <1>3 DEF MainRecords, Counts
<1> QED  BY <1>4, <1>5, <1>7, <1>8, Zenon

\* A frame is drawn; the copy of the counters goes out of scope.
LEMMA RenderEffect ==
  ASSUME Typed, Render
  PROVE  /\ main' \in MainRecords
         /\ main'.pc \in {"sweep", "loop"}
         /\ main'.copy = Zero /\ main'.todo = main.todo
<1>1. PICK k \in Nat : k = (main.ticks + 1) % SweepEvery
  BY SessionAssumption DEF Typed, MainRecords
<1>2. PICK p \in {"sweep", "loop"} : p = IF k = 0 THEN "sweep" ELSE "loop"
  OBVIOUS
<1>3. main' = [main EXCEPT !.ticks = k, !.pc = p, !.copy = Zero]
  BY <1>1, <1>2, Zenon DEF Render
<1>4. Zero \in Counts
  BY DEF Zero, Counts
<1> QED  BY <1>3, <1>4 DEF Typed, MainRecords, MainPlaces

\* close() refreshes the counters of a live capture and gives the socket back.
LEMMA CloseEffect ==
  ASSUME Typed, close
  PROVE  /\ cap' \in CaptureRecords /\ kernel' \in KernelRecords /\ counters' \in Counts
         /\ cap'.pc = cap.pc /\ cap'.open = FALSE /\ cap'.todo = cap.todo
         /\ cap'.delivered = cap.delivered
         /\ cap'.software_received = cap.software_received
         /\ offline => /\ cap'.kernel_seen = cap.kernel_seen
                       /\ cap'.kernel_dropped = cap.kernel_dropped
                       /\ cap'.next = cap.next /\ kernel' = kernel /\ counters' = counters
         /\ ~offline => /\ cap'.kernel_seen = asked.kernel_seen
                        /\ cap'.kernel_dropped = asked.kernel_dropped
                        /\ cap'.next = asked.next /\ counters' = asked.next
                        /\ kernel' = kernel_after_asking
<1>1. CASE offline
  BY <1>1 DEF close, Typed, CaptureRecords
<1>2. CASE ~offline
  <2>1. /\ cap' = [asked EXCEPT !.open = FALSE]
        /\ counters' = asked.next /\ kernel' = kernel_after_asking
    BY <1>2 DEF close
  <2>2. /\ cap' \in CaptureRecords
        /\ cap'.pc = asked.pc /\ cap'.open = FALSE /\ cap'.todo = asked.todo
        /\ cap'.delivered = asked.delivered
        /\ cap'.software_received = asked.software_received
        /\ cap'.kernel_seen = asked.kernel_seen
        /\ cap'.kernel_dropped = asked.kernel_dropped
        /\ cap'.next = asked.next /\ asked.next \in Counts
    BY <2>1, AskedEffect DEF CaptureRecords
  <2> QED  BY <1>2, <2>1, <2>2, AskedEffect, KernelAfterAsking
<1> QED  BY <1>1, <1>2

-----------------------------------------------------------------------------
(* Every step keeps the types.                                             *)

\* The variables stay in their record sets.
LEMMA TypedStep ==
  ASSUME Typed, [Next]_vars
  PROVE  Typed'
<1> USE DEF Typed
<1>1. CASE Arrive
  BY <1>1 DEF Arrive, flags, mainVars, KernelRecords
<1>2. CASE handle_signal
  BY <1>2 DEF handle_signal, stop, captureVars, mainVars, Causes
<1>3. CASE ReadError
  BY <1>3 DEF ReadError, captureStep, mainVars, CaptureRecords, CapturePlaces
<1>4. CASE LoopTop
  BY <1>4 DEF LoopTop, flags, captureStep, mainVars, CaptureRecords, CapturePlaces
<1>5. CASE ReceiveRaw
  BY <1>5, ReceiveRawEffect DEF ReceiveRaw, flags, captureStep, mainVars
<1>6. CASE ReceivePcap
  BY <1>6 DEF ReceivePcap, flags, captureStep, mainVars, CaptureRecords,
     CapturePlaces, KernelRecords
<1>7. CASE Timeout
  BY <1>7 DEF Timeout, flags, captureStep, mainVars, CaptureRecords, CapturePlaces
<1>8. CASE EndOfFile
  BY <1>8 DEF EndOfFile, flags, captureStep, mainVars, CaptureRecords, CapturePlaces
<1>9. CASE Sink
  BY <1>9, SinkEffect DEF Sink, flags, mainVars
<1>10. CASE PeriodicRefresh
  <2>1. after_refresh(cap.delivered) \in CapturePlaces
    BY DEF after_refresh, CapturePlaces
  <2>2. "publish" \in CapturePlaces
    BY DEF CapturePlaces
  <2>3. CASE Refresh("refresh", "publish", after_refresh(cap.delivered))
    BY <2>1, <2>2, <2>3, RefreshEffect DEF Refresh, flags, captureStep, mainVars
  <2>4. CASE Publish("publish", after_refresh(cap.delivered))
    BY <2>1, <2>2, <2>4, PublishEffect DEF Publish, flags, captureStep, mainVars
  <2> QED  BY <1>10, <2>3, <2>4 DEF PeriodicRefresh
<1>11. CASE FinalRefresh
  <2>1. {"publish_final", "returned"} \subseteq CapturePlaces
    BY DEF CapturePlaces
  <2>2. CASE Refresh("final", "publish_final", "returned")
    BY <2>1, <2>2, RefreshEffect DEF Refresh, flags, captureStep, mainVars
  <2>3. CASE Publish("publish_final", "returned")
    BY <2>1, <2>3, PublishEffect DEF Publish, flags, captureStep, mainVars
  <2> QED  BY <1>11, <2>2, <2>3 DEF FinalRefresh
<1>12. CASE StopOnError
  BY <1>12 DEF StopOnError, stop, Causes, captureStep, mainVars, CaptureRecords,
     CapturePlaces
<1>13. CASE ThreadEnds
  BY <1>13 DEF ThreadEnds, finish, stop, Causes, captureStep, mainVars,
     CaptureRecords, CapturePlaces
<1>14. CASE open
  BY <1>14 DEF open, at, goto, flags, CaptureRecords, CapturePlaces, MainRecords,
     MainPlaces
<1>15. CASE OpenWriter
  <2>1. main' \in MainRecords
    <3>1. PICK p \in {"begin", "exit"} : main' = [main EXCEPT !.pc = p]
      BY <1>15 DEF OpenWriter, goto
    <3> QED  BY <3>1 DEF MainRecords, MainPlaces
  <2>2. cap' \in CaptureRecords
    <3>1. cap' = cap \/ cap' = [cap EXCEPT !.open = FALSE]
      BY <1>15 DEF OpenWriter
    <3> QED  BY <3>1 DEF CaptureRecords
  <2>3. writer' \in BOOLEAN
    BY <1>15 DEF OpenWriter, Options
  <2> QED  BY <1>15, <2>1, <2>2, <2>3 DEF OpenWriter, flags
<1>16. CASE Begin
  BY <1>16 DEF Begin, at, goto, flags, captureVars, MainRecords, MainPlaces,
     DashboardRecords, Options
<1>17. CASE Spawn
  BY <1>17 DEF Spawn, at, goto, flags, CaptureRecords, CapturePlaces, MainRecords,
     MainPlaces
<1>18. CASE CheckRunning
  BY <1>18 DEF CheckRunning, uiStep, captureVars, at, goto, MainRecords, MainPlaces
<1>19. CASE QuitKey
  BY <1>19 DEF QuitKey, uiStep, captureVars, at, stop, Causes, after_key,
     MainRecords, MainPlaces
<1>20. CASE PauseKey
  BY <1>20 DEF PauseKey, uiStep, captureVars, at, after_key, MainRecords,
     MainPlaces, DashboardRecords
<1>21. CASE ResetKey
  BY <1>21 DEF ResetKey, uiStep, captureVars, at, after_key, Zero, MainRecords,
     MainPlaces, AnalyzerRecords, Counts
<1>22. CASE NoKey
  BY <1>22 DEF NoKey, uiStep, captureVars, at, after_key, MainRecords, MainPlaces
<1>23. CASE CopyField
  BY <1>23, CopyFieldEffect DEF CopyField, uiStep, captureVars
<1>24. CASE Show
  BY <1>24 DEF Show, uiStep, captureVars, at, goto, MainRecords, MainPlaces,
     AnalyzerRecords
<1>25. CASE Render
  BY <1>25, RenderEffect DEF Render, uiStep, captureVars
<1>26. CASE Sweep
  BY <1>26 DEF Sweep, uiStep, captureVars, at, goto, expire_idle_flows, MainRecords,
     MainPlaces, AnalyzerRecords
<1>27. CASE LastFrame
  BY <1>27 DEF LastFrame, uiStep, captureVars, at, goto, MainRecords, MainPlaces,
     DashboardRecords
<1>28. CASE Join
  BY <1>28 DEF Join, uiStep, captureVars, at, goto, MainRecords, MainPlaces
<1>29. CASE End
  BY <1>29 DEF End, uiStep, captureVars, at, goto, dashboard_end, MainRecords,
     MainPlaces, DashboardRecords
<1>30. CASE LastCounters
  BY <1>30 DEF LastCounters, uiStep, captureVars, at, goto, MainRecords, MainPlaces,
     AnalyzerRecords
<1>31. CASE close
  BY <1>31, CloseEffect DEF close, goto, flags, MainRecords, MainPlaces
<1>32. CASE CloseWriter
  BY <1>32 DEF CloseWriter, at, goto, flags, captureVars, MainRecords, MainPlaces
<1>33. CASE PrintSummary
  BY <1>33 DEF PrintSummary, uiStep, captureVars, at, goto, MainRecords, MainPlaces
<1>34. CASE UNCHANGED vars
  BY <1>34 DEF vars
<1> QED
  BY <1>1, <1>2, <1>3, <1>4, <1>5, <1>6, <1>7, <1>8, <1>9, <1>10, <1>11, <1>12,
     <1>13, <1>14, <1>15, <1>16, <1>17, <1>18, <1>19, <1>20, <1>21, <1>22, <1>23,
     <1>24, <1>25, <1>26, <1>27, <1>28, <1>29, <1>30, <1>31, <1>32, <1>33, <1>34 DEF
     Next, CaptureThread, MainThread, OpenRaw, OpenPcap, CloseRaw, ClosePcap, Exited

-----------------------------------------------------------------------------
(* The steps of each thread, seen by the other one.                        *)

\* The steps of Capture::run, of either backend.
RunStep == \/ LoopTop \/ ReceiveRaw \/ ReceivePcap \/ Timeout \/ EndOfFile \/ ReadError
           \/ Sink \/ PeriodicRefresh \/ FinalRefresh

\* A step of run() leaves what the main thread owns alone, stops nobody, and never
\* opens or closes the capture.
LEMMA RunStepFrame ==
  ASSUME Typed, RunStep
  PROVE  /\ cap.pc \notin {"none", "failed", "returned", "stopping", "done"}
         /\ cap'.pc \notin {"none", "stopping", "done"}
         /\ cap'.open = cap.open
         /\ UNCHANGED <<mainVars, g_running, capture_done, stopped_by>>
<1> USE DEF Typed, CaptureRecords, captureStep, flags
<1>1. CASE LoopTop
  BY <1>1 DEF LoopTop
<1>2. CASE ReceiveRaw
  BY <1>2, ReceiveRawEffect DEF ReceiveRaw
<1>3. CASE ReceivePcap
  BY <1>3 DEF ReceivePcap
<1>4. CASE Timeout \/ EndOfFile \/ ReadError
  BY <1>4 DEF Timeout, EndOfFile, ReadError
<1>5. CASE Sink
  BY <1>5, SinkEffect DEF Sink
<1>6. CASE PeriodicRefresh
  <2>1. /\ after_refresh(cap.delivered) \in CapturePlaces \ {"none", "stopping", "done"}
        /\ "publish" \in CapturePlaces \ {"none", "stopping", "done"}
    BY DEF after_refresh, CapturePlaces
  <2>2. CASE Refresh("refresh", "publish", after_refresh(cap.delivered))
    BY <2>1, <2>2, RefreshEffect DEF Refresh
  <2>3. CASE Publish("publish", after_refresh(cap.delivered))
    BY <2>1, <2>3, PublishEffect DEF Publish
  <2> QED  BY <1>6, <2>2, <2>3 DEF PeriodicRefresh
<1>7. CASE FinalRefresh
  <2>1. {"publish_final", "returned"} \subseteq CapturePlaces \ {"none", "stopping", "done"}
    BY DEF CapturePlaces
  <2>2. CASE Refresh("final", "publish_final", "returned")
    BY <2>1, <2>2, RefreshEffect DEF Refresh
  <2>3. CASE Publish("publish_final", "returned")
    BY <2>1, <2>3, PublishEffect DEF Publish
  <2> QED  BY <1>7, <2>2, <2>3 DEF FinalRefresh
<1> QED
  BY <1>1, <1>2, <1>3, <1>4, <1>5, <1>6, <1>7 DEF RunStep

\* A step of the capture thread: the thread exists and has not ended.
LEMMA CaptureThreadStep ==
  ASSUME Typed, CaptureThread \/ ReadError
  PROVE  /\ cap.pc \notin {"none", "done"}
         /\ cap'.pc # "none"
         /\ cap'.open = cap.open
         /\ UNCHANGED mainVars
<1>1. CASE RunStep
  BY <1>1, RunStepFrame
<1>2. CASE StopOnError
  BY <1>2 DEF StopOnError, captureStep, Typed, CaptureRecords
<1>3. CASE ThreadEnds
  BY <1>3 DEF ThreadEnds, finish, captureStep, Typed, CaptureRecords
<1> QED
  BY <1>1, <1>2, <1>3 DEF CaptureThread, RunStep

\* The loop of the main thread that drives the dashboard, and its last frame.
KeyStep == QuitKey \/ PauseKey \/ ResetKey \/ NoKey
DashboardStep ==
  CheckRunning \/ KeyStep \/ CopyField \/ Show \/ Render \/ Sweep \/ LastFrame
DashboardPlaces == {"loop", "key", "copy", "show", "render", "sweep", "last"}

\* A step of the dashboard loop changes nothing of the capture and leaves the loop
\* only for the join; with the flag set it stays in the loop.
LEMMA DashboardStepFrame ==
  ASSUME Typed, DashboardStep
  PROVE  /\ uiStep
         /\ main.pc \in DashboardPlaces
         /\ main'.pc \in DashboardPlaces \cup {"join"}
         /\ main'.pc = "join" <=> main.pc = "last"
         /\ main'.pc = "last" => ~g_running
         /\ dashboard'.active = dashboard.active
         /\ g_running' => g_running
<1> USE DEF Typed, MainRecords, DashboardRecords, DashboardPlaces, at, goto
<1>1. CASE CheckRunning
  BY <1>1 DEF CheckRunning
<1>2. CASE KeyStep
  <2>1. CASE QuitKey
    BY <2>1 DEF QuitKey, after_key, stop
  <2>2. CASE PauseKey
    BY <2>2 DEF PauseKey, after_key
  <2>3. CASE ResetKey
    BY <2>3 DEF ResetKey, after_key
  <2>4. CASE NoKey
    BY <2>4 DEF NoKey, after_key
  <2> QED  BY <1>2, <2>1, <2>2, <2>3, <2>4 DEF KeyStep
<1>3. CASE CopyField
  BY <1>3, CopyFieldEffect DEF CopyField
<1>4. CASE Show
  BY <1>4 DEF Show
<1>5. CASE Render
  BY <1>5, RenderEffect DEF Render
<1>6. CASE Sweep
  BY <1>6 DEF Sweep
<1>7. CASE LastFrame
  BY <1>7 DEF LastFrame
<1> QED
  BY <1>1, <1>2, <1>3, <1>4, <1>5, <1>6, <1>7 DEF DashboardStep

\* The steps of the program, grouped by what they do to the lifetimes.
LEMMA StepCases ==
  ASSUME [Next]_vars
  PROVE  \/ Arrive \/ handle_signal
         \/ CaptureThread \/ ReadError
         \/ open \/ OpenWriter \/ Begin \/ Spawn
         \/ DashboardStep
         \/ Join \/ End \/ LastCounters \/ close \/ CloseWriter \/ PrintSummary
         \/ UNCHANGED vars
  BY DEF Next, MainThread, OpenRaw, OpenPcap, CloseRaw, ClosePcap, Exited,
         DashboardStep, KeyStep

-----------------------------------------------------------------------------
(* The lifetimes of the thread, the capture, the file and the dashboard.   *)

\* Spawn comes after everything is opened, and nothing is closed before the join.
LEMMA LifetimesStep ==
  ASSUME Typed, Lifetimes, [Next]_vars
  PROVE  Lifetimes'
<1> USE DEF Typed, Lifetimes, BeforeSpawn, AfterJoin, at, goto
<1>1. CASE Arrive \/ handle_signal
  BY <1>1 DEF Arrive, handle_signal, captureVars, mainVars
<1>2. CASE CaptureThread \/ ReadError
  BY <1>2, CaptureThreadStep DEF mainVars
<1>3. CASE open
  BY <1>3 DEF open, MainRecords, CaptureRecords
<1>4. CASE OpenWriter
  BY <1>4 DEF OpenWriter, MainRecords, CaptureRecords
<1>5. CASE Begin
  BY <1>5 DEF Begin, captureVars, MainRecords, DashboardRecords
<1>6. CASE Spawn
  BY <1>6 DEF Spawn, MainRecords, CaptureRecords
<1>7. CASE DashboardStep
  BY <1>7, DashboardStepFrame DEF uiStep, captureVars, DashboardPlaces
<1>8. CASE Join
  BY <1>8 DEF Join, joined, uiStep, captureVars, MainRecords
<1>9. CASE End
  BY <1>9 DEF End, dashboard_end, uiStep, captureVars, MainRecords, DashboardRecords
<1>10. CASE LastCounters
  BY <1>10 DEF LastCounters, uiStep, captureVars, MainRecords
<1>11. CASE close
  BY <1>11, CloseEffect DEF close, MainRecords
<1>12. CASE CloseWriter
  BY <1>12 DEF CloseWriter, captureVars, MainRecords
<1>13. CASE PrintSummary
  BY <1>13 DEF PrintSummary, uiStep, captureVars, MainRecords
<1>14. CASE UNCHANGED vars
  BY <1>14 DEF vars
<1> QED
  BY <1>1, <1>2, <1>3, <1>4, <1>5, <1>6, <1>7, <1>8, <1>9, <1>10, <1>11, <1>12,
     <1>13, <1>14, StepCases

-----------------------------------------------------------------------------
(* The field loops, the stop and its reason.                               *)

\* The two loops over the fields of the counters end with nothing left to do.
LEMMA FieldLoopsStep ==
  ASSUME Typed, Lifetimes, FieldLoops, [Next]_vars
  PROVE  FieldLoops'
<1> USE DEF Typed, FieldLoops, at, goto
<1>1. CASE Arrive \/ handle_signal
  BY <1>1 DEF Arrive, handle_signal, captureVars, mainVars
<1>2. CASE LoopTop \/ Timeout \/ EndOfFile \/ ReadError
  BY <1>2 DEF LoopTop, Timeout, EndOfFile, ReadError, captureStep, mainVars,
              CaptureRecords
<1>3. CASE ReceiveRaw
  BY <1>3, ReceiveRawEffect DEF ReceiveRaw, captureStep, mainVars
<1>4. CASE ReceivePcap
  BY <1>4 DEF ReceivePcap, captureStep, mainVars, CaptureRecords
<1>5. CASE Sink
  BY <1>5, SinkEffect DEF Sink, mainVars
<1>6. CASE PeriodicRefresh
  <2>1. /\ after_refresh(cap.delivered) \in CapturePlaces \ {"publish", "publish_final"}
        /\ "publish" \in CapturePlaces
        /\ Fields # {}
    BY DEF after_refresh, CapturePlaces, Fields
  <2>2. CASE Refresh("refresh", "publish", after_refresh(cap.delivered))
    BY <2>1, <2>2, RefreshEffect DEF Refresh, captureStep, mainVars
  <2>3. CASE Publish("publish", after_refresh(cap.delivered))
    <3>1. cap.pc = "publish" /\ UNCHANGED main
      BY <2>3 DEF Publish, captureStep, mainVars
    <3>2. after_refresh(cap.delivered) \in CapturePlaces
      BY <2>1
    <3>3. PICK f \in cap.todo :
            /\ cap'.todo = cap.todo \ {f}
            /\ cap'.pc = IF cap.todo = {f} THEN after_refresh(cap.delivered)
                                           ELSE "publish"
      BY <2>3, <3>2, PublishEffect, Zenon
    <3> QED  BY <2>1, <3>1, <3>3
  <2> QED  BY <1>6, <2>2, <2>3 DEF PeriodicRefresh
<1>7. CASE FinalRefresh
  <2>1. {"publish_final", "returned"} \subseteq CapturePlaces /\ Fields # {}
    BY DEF CapturePlaces, Fields
  <2>2. CASE Refresh("final", "publish_final", "returned")
    BY <2>1, <2>2, RefreshEffect DEF Refresh, captureStep, mainVars
  <2>3. CASE Publish("publish_final", "returned")
    <3>1. cap.pc = "publish_final" /\ UNCHANGED main
      BY <2>3 DEF Publish, captureStep, mainVars
    <3>2. "returned" \in CapturePlaces
      BY <2>1
    <3>3. PICK f \in cap.todo :
            /\ cap'.todo = cap.todo \ {f}
            /\ cap'.pc = IF cap.todo = {f} THEN "returned" ELSE "publish_final"
      BY <2>3, <3>2, PublishEffect, Zenon
    <3> QED  BY <3>1, <3>3
  <2> QED  BY <1>7, <2>2, <2>3 DEF FinalRefresh
<1>8. CASE StopOnError
  BY <1>8 DEF StopOnError, captureStep, mainVars, CaptureRecords
<1>9. CASE ThreadEnds
  BY <1>9 DEF ThreadEnds, finish, captureStep, mainVars, CaptureRecords
<1>10. CASE open \/ OpenWriter
  BY <1>10 DEF open, OpenWriter, CaptureRecords, MainRecords
<1>11. CASE Begin \/ LastCounters \/ CloseWriter
  BY <1>11 DEF Begin, LastCounters, CloseWriter, uiStep, captureVars, MainRecords
<1>12. CASE Spawn
  BY <1>12 DEF Spawn, Lifetimes, BeforeSpawn, CaptureRecords, MainRecords
<1>13. CASE DashboardStep
  <2>1. UNCHANGED cap
    BY <1>13, DashboardStepFrame DEF uiStep, captureVars
  <2>2. CASE KeyStep
    <3>1. PICK paused : after_key(paused)
      BY <2>2, Zenon DEF KeyStep, QuitKey, PauseKey, ResetKey, NoKey
    <3>2. PICK pc, todo : /\ pc = IF paused THEN "loop" ELSE "copy"
                          /\ todo = IF paused THEN {} ELSE Fields
      OBVIOUS
    <3>3. main' = [main EXCEPT !.pc = pc, !.todo = todo]
      BY <3>1, <3>2, Zenon DEF after_key
    <3>4. main'.pc = pc /\ main'.todo = todo
      BY <3>3 DEF MainRecords
    <3> QED  BY <2>1, <3>2, <3>4 DEF Fields
  <2>3. CASE CopyField
    <3>1. PICK f \in main.todo :
            /\ main'.todo = main.todo \ {f}
            /\ main'.pc = IF main.todo = {f} THEN "show" ELSE "copy"
      BY <2>3, CopyFieldEffect, Zenon
    <3> QED  BY <2>1, <2>3, <3>1 DEF CopyField
  <2>4. CASE Render
    BY <2>1, <2>4, RenderEffect DEF Render
  <2>5. CASE CheckRunning \/ Show \/ Sweep \/ LastFrame
    BY <2>1, <2>5 DEF CheckRunning, Show, Sweep, LastFrame, MainRecords
  <2> QED  BY <1>13, <2>2, <2>3, <2>4, <2>5 DEF DashboardStep
<1>14. CASE Join \/ End \/ PrintSummary
  BY <1>14 DEF Join, End, PrintSummary, uiStep, captureVars, MainRecords
<1>15. CASE close
  BY <1>15, CloseEffect DEF close, MainRecords
<1>16. CASE UNCHANGED vars
  BY <1>16 DEF vars
<1> QED
  BY <1>1, <1>2, <1>3, <1>4, <1>5, <1>6, <1>7, <1>8, <1>9, <1>10, <1>11, <1>12,
     <1>13, <1>14, <1>15, <1>16, StepCases DEF CaptureThread

\* The main thread and the kernel: the flag is never set again, and nothing is analysed.
LEMMA OtherSteps ==
  ASSUME Typed, Arrive \/ handle_signal \/ MainThread \/ UNCHANGED vars
  PROVE  /\ g_running' => g_running
         /\ UNCHANGED <<late, capture_done, capture_error, opt>>
         /\ cap'.delivered = cap.delivered
         /\ cap'.software_received = cap.software_received
         /\ cap'.todo = cap.todo
         /\ cap'.pc = cap.pc \/ (main.pc = "spawn" /\ cap'.pc = "loop")
<1> USE DEF Typed, flags
<1>1. CASE Arrive \/ handle_signal
  BY <1>1 DEF Arrive, handle_signal, stop, captureVars, mainVars
<1>2. CASE open \/ OpenWriter \/ Spawn
  BY <1>2 DEF open, OpenWriter, Spawn, at, CaptureRecords
<1>3. CASE Begin \/ CloseWriter
  BY <1>3 DEF Begin, CloseWriter, captureVars
<1>4. CASE DashboardStep
  BY <1>4, DashboardStepFrame DEF uiStep, captureVars
<1>5. CASE Join \/ End \/ LastCounters \/ PrintSummary
  BY <1>5 DEF Join, End, LastCounters, PrintSummary, uiStep, captureVars
<1>6. CASE close
  BY <1>6, CloseEffect DEF close
<1>7. CASE UNCHANGED vars
  BY <1>7 DEF vars
<1> QED  BY <1>1, <1>2, <1>3, <1>4, <1>5, <1>6, <1>7
      DEF MainThread, OpenRaw, OpenPcap, CloseRaw, ClosePcap, DashboardStep, KeyStep

\* run() tests the flag before each packet, so that one packet at most is late.
LEMMA PromptStep ==
  ASSUME Typed, Lifetimes, Prompt, [Next]_vars
  PROVE  Prompt'
<1> USE DEF Typed, Prompt
<1>1. CASE LoopTop
  BY <1>1 DEF LoopTop, check_running, flags, captureStep, CaptureRecords
<1>2. CASE ReceiveRaw
  BY <1>2, ReceiveRawEffect DEF ReceiveRaw, flags, captureStep
<1>3. CASE ReceivePcap
  BY <1>3 DEF ReceivePcap, flags, captureStep
<1>4. CASE Timeout \/ EndOfFile \/ ReadError
  BY <1>4 DEF Timeout, EndOfFile, ReadError, flags, captureStep, CaptureRecords
<1>5. CASE Sink
  BY <1>5, SinkEffect DEF Sink, flags
<1>6. CASE PeriodicRefresh
  <2>1. /\ after_refresh(cap.delivered) \in CapturePlaces \ {"wait", "sink"}
        /\ "publish" \in CapturePlaces
    BY DEF after_refresh, CapturePlaces
  <2>2. CASE Refresh("refresh", "publish", after_refresh(cap.delivered))
    BY <2>1, <2>2, RefreshEffect DEF Refresh, flags, captureStep
  <2>3. CASE Publish("publish", after_refresh(cap.delivered))
    BY <2>1, <2>3, PublishEffect DEF Publish, flags, captureStep
  <2> QED  BY <1>6, <2>2, <2>3 DEF PeriodicRefresh
<1>7. CASE FinalRefresh
  <2>1. {"publish_final", "returned"} \subseteq CapturePlaces
    BY DEF CapturePlaces
  <2>2. CASE Refresh("final", "publish_final", "returned")
    BY <2>1, <2>2, RefreshEffect DEF Refresh, flags, captureStep
  <2>3. CASE Publish("publish_final", "returned")
    BY <2>1, <2>3, PublishEffect DEF Publish, flags, captureStep
  <2> QED  BY <1>7, <2>2, <2>3 DEF FinalRefresh
<1>8. CASE StopOnError
  BY <1>8 DEF StopOnError, stop, captureStep, CaptureRecords
<1>9. CASE ThreadEnds
  BY <1>9 DEF ThreadEnds, finish, stop, captureStep, CaptureRecords
<1>10. CASE Arrive \/ handle_signal \/ MainThread \/ UNCHANGED vars
  BY <1>10, OtherSteps
<1> QED
  BY <1>1, <1>2, <1>3, <1>4, <1>5, <1>6, <1>7, <1>8, <1>9, <1>10
     DEF Next, CaptureThread, Exited

\* The reason to stop is fixed once, after capture_done if it is the capture's end.
LEMMA StoppedStep ==
  ASSUME Typed, Lifetimes, Stopped, [Next]_vars
  PROVE  Stopped'
<1> USE DEF Typed, Stopped, Lifetimes, BeforeSpawn, AfterJoin, offline, at, goto
<1>1. CASE Arrive
  BY <1>1 DEF Arrive, flags, mainVars
<1>2. CASE handle_signal
  BY <1>2 DEF handle_signal, stop, captureVars, mainVars
<1>3. CASE RunStep
  BY <1>3, RunStepFrame DEF mainVars
<1>4. CASE StopOnError
  BY <1>4 DEF StopOnError, stop, captureStep, mainVars, CaptureRecords
<1>5. CASE ThreadEnds
  BY <1>5 DEF ThreadEnds, finish, stop, captureStep, mainVars, CaptureRecords
<1>6. CASE open
  BY <1>6 DEF open, flags, MainRecords, CaptureRecords
<1>7. CASE OpenWriter
  BY <1>7 DEF OpenWriter, flags, MainRecords, CaptureRecords
<1>8. CASE Begin
  BY <1>8 DEF Begin, flags, captureVars, MainRecords, DashboardRecords
<1>9. CASE Spawn
  BY <1>9 DEF Spawn, flags, MainRecords, CaptureRecords
<1>10. CASE DashboardStep
  <2>1. CASE LastFrame
    BY <2>1 DEF LastFrame, uiStep, captureVars, MainRecords, DashboardRecords
  <2>2. CASE QuitKey
    BY <2>2, DashboardStepFrame
       DEF DashboardStep, KeyStep, QuitKey, stop, uiStep, captureVars, DashboardPlaces
  <2>3. CASE DashboardStep /\ ~LastFrame /\ ~QuitKey
    <3>1. main.pc # "last" /\ UNCHANGED <<g_running, stopped_by>>
      BY <2>3, <1>10 DEF DashboardStep, KeyStep, CheckRunning, PauseKey, ResetKey, NoKey,
                  CopyField, Show, Render, Sweep
    <3> QED
      BY <2>3, <1>10, <3>1, DashboardStepFrame DEF uiStep, captureVars, DashboardPlaces
  <2> QED  BY <1>10, <2>1, <2>2, <2>3
<1>11. CASE Join
  BY <1>11 DEF Join, joined, uiStep, captureVars, MainRecords
<1>12. CASE End
  BY <1>12 DEF End, dashboard_end, uiStep, captureVars, MainRecords, DashboardRecords
<1>13. CASE LastCounters
  BY <1>13 DEF LastCounters, uiStep, captureVars, MainRecords
<1>14. CASE close
  BY <1>14, CloseEffect DEF close, flags, MainRecords
<1>15. CASE CloseWriter
  BY <1>15 DEF CloseWriter, flags, captureVars, MainRecords
<1>16. CASE PrintSummary
  BY <1>16 DEF PrintSummary, uiStep, captureVars, MainRecords
<1>17. CASE UNCHANGED vars
  BY <1>17 DEF vars
<1> QED
  BY <1>1, <1>2, <1>3, <1>4, <1>5, <1>6, <1>7, <1>8, <1>9, <1>10, <1>11, <1>12,
     <1>13, <1>14, <1>15, <1>16, <1>17, StepCases DEF CaptureThread, RunStep

-----------------------------------------------------------------------------
(* The packets and the counters.                                           *)

\* Apart from close(), the main thread touches neither the kernel nor the backend's
\* counters; a signal does not either.
LEMMA QuietStep ==
  ASSUME Typed, handle_signal \/ MainThread \/ UNCHANGED vars, ~close
  PROVE  /\ UNCHANGED <<kernel, counters, opt, capture_error>>
         /\ cap'.next = cap.next
         /\ cap'.kernel_seen = cap.kernel_seen
         /\ cap'.kernel_dropped = cap.kernel_dropped
<1> USE DEF Typed, flags
<1>1. CASE handle_signal
  BY <1>1 DEF handle_signal, captureVars, mainVars
<1>2. CASE open \/ OpenWriter \/ Spawn
  BY <1>2 DEF open, OpenWriter, Spawn, CaptureRecords
<1>3. CASE Begin \/ CloseWriter
  BY <1>3 DEF Begin, CloseWriter, captureVars
<1>4. CASE DashboardStep
  BY <1>4, DashboardStepFrame DEF uiStep, captureVars
<1>5. CASE Join \/ End \/ LastCounters \/ PrintSummary
  BY <1>5 DEF Join, End, LastCounters, PrintSummary, uiStep, captureVars
<1>6. CASE UNCHANGED vars
  BY <1>6 DEF vars
<1> QED  BY <1>1, <1>2, <1>3, <1>4, <1>5, <1>6
      DEF MainThread, OpenRaw, OpenPcap, CloseRaw, ClosePcap, DashboardStep, KeyStep

\* A step of the capture thread that neither receives, delivers nor refreshes.
IdleStep == LoopTop \/ Timeout \/ EndOfFile \/ ReadError \/ StopOnError \/ ThreadEnds

\* Such a step moves the thread and leaves packets and counters alone.
LEMMA IdleStepFrame ==
  ASSUME Typed, IdleStep
  PROVE  /\ UNCHANGED <<kernel, counters, opt, main, analyzer>>
         /\ cap.pc # "sink" /\ cap'.pc # "sink"
         /\ cap'.delivered = cap.delivered
         /\ cap'.software_received = cap.software_received
         /\ cap'.kernel_seen = cap.kernel_seen
         /\ cap'.kernel_dropped = cap.kernel_dropped
         /\ cap'.next = cap.next /\ cap'.todo = cap.todo
         /\ capture_error => capture_error'
<1> USE DEF Typed, CaptureRecords, captureStep, mainVars, flags
<1>1. CASE LoopTop \/ Timeout \/ EndOfFile
  BY <1>1 DEF LoopTop, Timeout, EndOfFile
<1>2. CASE ReadError \/ StopOnError
  BY <1>2 DEF ReadError, StopOnError
<1>3. CASE ThreadEnds
  BY <1>3 DEF ThreadEnds, finish
<1> QED  BY <1>1, <1>2, <1>3 DEF IdleStep

\* pcap_next_ex takes a packet from the queue, or from the file.
LEMMA ReceivePcapEffect ==
  ASSUME Typed, ReceivePcap
  PROVE  /\ opt.backend # "raw" /\ cap.pc = "wait" /\ cap'.pc = "sink"
         /\ UNCHANGED <<counters, opt, main, analyzer, capture_error>>
         /\ cap'.delivered = cap.delivered
         /\ cap'.software_received = cap.software_received
         /\ cap'.next = cap.next /\ cap'.todo = cap.todo
         /\ offline => kernel' = kernel
         /\ ~offline => /\ kernel'.queue = kernel.queue - 1
                        /\ kernel'.seen = kernel.seen /\ kernel'.drops = kernel.drops
                        /\ kernel'.total_seen = kernel.total_seen
                        /\ kernel'.total_drops = kernel.total_drops
<1>1. /\ cap'.pc = "sink"
      /\ cap'.delivered = cap.delivered
      /\ cap'.software_received = cap.software_received
      /\ cap'.next = cap.next /\ cap'.todo = cap.todo
  BY DEF ReceivePcap, Typed, CaptureRecords
<1>2. CASE offline
  BY <1>1, <1>2 DEF ReceivePcap, captureStep, mainVars, flags
<1>3. CASE ~offline
  <2>1. kernel' = [kernel EXCEPT !.queue = @ - 1] /\ kernel \in KernelRecords
    BY <1>3 DEF ReceivePcap, Typed
  <2>2. /\ kernel'.queue = kernel.queue - 1
        /\ kernel'.seen = kernel.seen /\ kernel'.drops = kernel.drops
        /\ kernel'.total_seen = kernel.total_seen
        /\ kernel'.total_drops = kernel.total_drops
    BY <2>1 DEF KernelRecords
  <2> QED  BY <1>1, <1>3, <2>2 DEF ReceivePcap, captureStep, mainVars, flags
<1> QED  BY <1>2, <1>3

\* A refresh asks the kernel, unless the capture is a file; a publish step only
\* stores. Neither has a packet in hand.
RefreshStep ==
  \/ Refresh("refresh", "publish", after_refresh(cap.delivered))
  \/ Refresh("final", "publish_final", "returned")
PublishStep ==
  \/ Publish("publish", after_refresh(cap.delivered))
  \/ Publish("publish_final", "returned")

\* What a refresh changes, for both of its callers.
LEMMA RefreshStepEffect ==
  ASSUME Typed, RefreshStep
  PROVE  /\ UNCHANGED <<counters, opt, main, analyzer, capture_error>>
         /\ cap.pc \in {"refresh", "final"}
         /\ cap'.pc \in {"publish", "publish_final", "loop", "final", "returned"}
         /\ cap'.pc = "publish_final" => ~offline
         /\ cap'.pc = "returned" => offline
         /\ cap'.delivered = cap.delivered
         /\ cap'.software_received = cap.software_received
         /\ offline => /\ cap'.kernel_seen = cap.kernel_seen
                       /\ cap'.kernel_dropped = cap.kernel_dropped
                       /\ cap'.next = cap.next /\ kernel' = kernel
         /\ ~offline => /\ cap'.todo = Fields
                        /\ cap'.kernel_seen = asked.kernel_seen
                        /\ cap'.kernel_dropped = asked.kernel_dropped
                        /\ cap'.next = asked.next /\ kernel' = kernel_after_asking
<1>1. /\ after_refresh(cap.delivered) \in CapturePlaces \cap {"loop", "final"}
      /\ {"publish", "publish_final", "returned"} \subseteq CapturePlaces
  BY DEF after_refresh, CapturePlaces
<1>2. CASE Refresh("refresh", "publish", after_refresh(cap.delivered))
  BY <1>1, <1>2, RefreshEffect DEF Refresh, captureStep, mainVars, flags
<1>3. CASE Refresh("final", "publish_final", "returned")
  BY <1>1, <1>3, RefreshEffect DEF Refresh, captureStep, mainVars, flags
<1> QED  BY <1>2, <1>3 DEF RefreshStep

\* What storing one field changes, for both of its callers.
LEMMA PublishStepEffect ==
  ASSUME Typed, PublishStep
  PROVE  /\ UNCHANGED <<kernel, opt, main, analyzer, capture_error>>
         /\ cap.pc \in {"publish", "publish_final"}
         /\ cap'.pc \in {cap.pc, "loop", "final", "returned"}
         /\ cap'.pc = "returned" => cap.pc = "publish_final"
         /\ cap'.delivered = cap.delivered
         /\ cap'.software_received = cap.software_received
         /\ cap'.kernel_seen = cap.kernel_seen
         /\ cap'.kernel_dropped = cap.kernel_dropped
         /\ cap'.next = cap.next
         /\ \E f \in cap.todo : /\ cap'.todo = cap.todo \ {f}
                                /\ counters'[f] = cap.next[f]
                                /\ \A g \in Fields \ {f} : counters'[g] = counters[g]
<1>1. /\ after_refresh(cap.delivered) \in CapturePlaces \cap {"loop", "final"}
      /\ {"publish", "publish_final", "returned"} \subseteq CapturePlaces
  BY DEF after_refresh, CapturePlaces
<1>2. CASE Publish("publish", after_refresh(cap.delivered))
  <2>1. UNCHANGED <<kernel, opt, main, analyzer, capture_error>> /\ cap.pc = "publish"
    BY <1>2 DEF Publish, captureStep, mainVars, flags
  <2>2. after_refresh(cap.delivered) \in CapturePlaces
    BY <1>1
  <2> QED  BY <1>1, <1>2, <2>1, <2>2, PublishEffect
<1>3. CASE Publish("publish_final", "returned")
  <2>1. UNCHANGED <<kernel, opt, main, analyzer, capture_error>> /\ cap.pc = "publish_final"
    BY <1>3 DEF Publish, captureStep, mainVars, flags
  <2>2. "returned" \in CapturePlaces
    BY <1>1
  <2> QED  BY <1>3, <2>1, <2>2, PublishEffect
<1> QED  BY <1>2, <1>3 DEF PublishStep

\* The steps of the program, grouped by what they do to the counters.
LEMMA CounterCases ==
  ASSUME [Next]_vars
  PROVE  \/ Arrive \/ IdleStep \/ ReceiveRaw \/ ReceivePcap \/ Sink \/ RefreshStep \/ PublishStep
         \/ close
         \/ (handle_signal \/ MainThread \/ UNCHANGED vars) /\ ~close
  BY DEF Next, CaptureThread, PeriodicRefresh, FinalRefresh, Exited, IdleStep, RefreshStep,
         PublishStep

\* A packet that arrives is queued or dropped; the kernel counts it twice, in the
\* statistics it resets on reading and in the totals.
LEMMA ArriveEffect ==
  ASSUME Typed, Arrive
  PROVE  /\ ~offline /\ kernel.total_seen < MaxArrivals
         /\ UNCHANGED <<cap, counters, opt, main, analyzer, capture_error>>
         /\ kernel'.seen = kernel.seen + 1
         /\ kernel'.total_seen = kernel.total_seen + 1
         /\ \/ /\ kernel.queue < QueueSize
               /\ kernel'.queue = kernel.queue + 1
               /\ kernel'.drops = kernel.drops /\ kernel'.total_drops = kernel.total_drops
            \/ /\ kernel'.queue = kernel.queue
               /\ kernel'.drops = kernel.drops + 1
               /\ kernel'.total_drops = kernel.total_drops + 1
  BY DEF Arrive, Typed, KernelRecords, mainVars, flags

\* No packet is lost or counted twice between the kernel and the sink.
LEMMA ConservationStep ==
  ASSUME Typed, Typed', Lifetimes, Conservation, [Next]_vars
  PROVE  Conservation'
<1> USE SessionAssumption DEF Typed, Conservation, InHand, offline, KernelRecords, CaptureRecords
<1>1. CASE Arrive
  BY <1>1, ArriveEffect
<1>2. CASE IdleStep
  BY <1>2, IdleStepFrame
<1>3. CASE ReceiveRaw
  BY <1>3, ReceiveRawEffect DEF ReceiveRaw, captureStep, mainVars
<1>4. CASE ReceivePcap
  BY <1>4, ReceivePcapEffect
<1>5. CASE Sink
  BY <1>5, SinkEffect DEF Sink, mainVars
<1>6. CASE RefreshStep
  BY <1>6, RefreshStepEffect, KernelAfterAsking
<1>7. CASE PublishStep
  BY <1>7, PublishStepEffect
<1>8. CASE close
  BY <1>8, CloseEffect, KernelAfterAsking DEF close
<1>9. CASE (handle_signal \/ MainThread \/ UNCHANGED vars) /\ ~close
  BY <1>9, QuietStep, OtherSteps DEF Lifetimes, BeforeSpawn
<1> QED  BY <1>1, <1>2, <1>3, <1>4, <1>5, <1>6, <1>7, <1>8, <1>9, CounterCases

\* What a refresh of a live capture stores is covered by what the kernel has seen, and
\* no counter falls.
LEMMA AskedCounts ==
  ASSUME Typed, Conservation, Accumulated, ~offline
  PROVE  /\ opt.backend = "raw" /\ opt.stats_ok =>
              /\ kernel.total_seen = asked.kernel_seen
              /\ kernel.total_drops = asked.kernel_dropped
         /\ opt.backend = "raw" /\ ~opt.stats_ok =>
              asked.kernel_seen = 0 /\ asked.kernel_dropped = 0
         /\ opt.stats_ok => /\ asked.next["received"] = kernel.total_seen
                            /\ asked.next["dropped"] = kernel.total_drops
         /\ opt.backend = "raw" /\ ~opt.stats_ok =>
              /\ asked.next["received"] = cap.software_received
              /\ asked.next["dropped"] = 0
         /\ opt.backend = "libpcap" /\ ~opt.stats_ok =>
              /\ asked.next["received"] = counters["received"]
              /\ asked.next["dropped"] = counters["dropped"]
<1> USE DEF Typed, Conservation, InHand, Accumulated, offline, KernelRecords, CaptureRecords
<1>1. CASE opt.backend = "raw" /\ opt.stats_ok
  <2>1. /\ kernel.total_seen = asked.kernel_seen
        /\ kernel.total_drops = asked.kernel_dropped
    BY <1>1, AskedEffect
  <2>2. kernel.total_seen = 0 => cap.software_received = 0
    <3>1. PICK q \in Nat, d \in Nat, h \in Nat, t \in Nat :
            /\ kernel.total_seen = q + d + h + t
            /\ cap.software_received = d + h
      BY <1>1
    <3> QED  BY <3>1
  <2>3. asked.next["received"] = kernel.total_seen
    BY <1>1, <2>1, <2>2, AskedEffect
  <2> QED  BY <1>1, <2>1, <2>3, AskedEffect
<1>2. CASE opt.backend = "raw" /\ ~opt.stats_ok
  BY <1>2, AskedEffect
<1>3. CASE opt.backend # "raw"
  BY <1>3, AskedEffect
<1> QED  BY <1>1, <1>2, <1>3

\* Reading and resetting the statistics loses nothing of the totals.
LEMMA AccumulatedStep ==
  ASSUME Typed, Typed', Lifetimes, Conservation, Accumulated, [Next]_vars
  PROVE  Accumulated'
<1> USE DEF Typed, Accumulated, KernelRecords, CaptureRecords, Counts, Fields
<1>1. CASE Arrive
  BY <1>1, ArriveEffect
<1>2. CASE IdleStep
  BY <1>2, IdleStepFrame
<1>3. CASE ReceiveRaw
  BY <1>3, ReceiveRawEffect DEF ReceiveRaw, captureStep, mainVars
<1>4. CASE ReceivePcap
  BY <1>4, ReceivePcapEffect
<1>5. CASE Sink
  BY <1>5, SinkEffect DEF Sink, mainVars
<1>6. CASE RefreshStep
  <2>1. CASE offline
    BY <1>6, <2>1, RefreshStepEffect
  <2>2. CASE ~offline
    BY <1>6, <2>2, RefreshStepEffect, KernelAfterAsking, AskedCounts
  <2> QED  BY <2>1, <2>2
<1>7. CASE PublishStep
  BY <1>7, PublishStepEffect
<1>8. CASE close
  <2>1. CASE offline
    BY <1>8, <2>1, CloseEffect DEF close
  <2>2. CASE ~offline
    BY <1>8, <2>2, CloseEffect, KernelAfterAsking, AskedCounts DEF close
  <2> QED  BY <2>1, <2>2
<1>9. CASE (handle_signal \/ MainThread \/ UNCHANGED vars) /\ ~close
  BY <1>9, QuietStep, OtherSteps
<1> QED  BY <1>1, <1>2, <1>3, <1>4, <1>5, <1>6, <1>7, <1>8, <1>9, CounterCases

\* A refresh never stores less than was stored before.
LEMMA AskedGrows ==
  ASSUME Typed, Conservation, Accumulated, Pipeline, ~offline, NEW f \in Fields
  PROVE  counters[f] <= asked.next[f]
<1>1. /\ counters["received"] \in Nat /\ counters["dropped"] \in Nat
      /\ cap.next["received"] \in Nat /\ cap.next["dropped"] \in Nat
      /\ counters["received"] <= cap.next["received"]
      /\ counters["dropped"] <= cap.next["dropped"]
  BY DEF Typed, Pipeline, CaptureRecords, Counts, Fields
<1>2. CASE opt.backend = "raw" /\ opt.stats_ok
  BY <1>1, <1>2, AskedCounts DEF Typed, Accumulated, KernelRecords, CaptureRecords, Fields
<1>3. CASE opt.backend = "raw" /\ ~opt.stats_ok
  BY <1>1, <1>3, AskedCounts DEF Typed, Accumulated, CaptureRecords, Fields
<1>4. CASE opt.backend = "libpcap" /\ opt.stats_ok
  BY <1>1, <1>4, AskedCounts DEF Typed, Accumulated, KernelRecords, Fields
<1>5. CASE opt.backend = "libpcap" /\ ~opt.stats_ok
  BY <1>1, <1>5, AskedCounts DEF Fields
<1> QED
  BY <1>2, <1>3, <1>4, <1>5, SessionAssumption DEF Typed, Options, offline

\* No stage of the counters gets ahead of the stage before it, in any interleaving of
\* the thread that stores the fields and the thread that copies them.
LEMMA PipelineStep ==
  ASSUME Typed, Typed', Lifetimes, FieldLoops, Conservation, Accumulated, Pipeline,
         [Next]_vars
  PROVE  Pipeline'
<1> USE DEF Typed, Pipeline, CaptureRecords, MainRecords, AnalyzerRecords, Counts
<1>1. CASE Arrive
  BY <1>1, ArriveEffect
<1>2. CASE IdleStep
  BY <1>2, IdleStepFrame
<1>3. CASE ReceiveRaw
  BY <1>3, ReceiveRawEffect DEF ReceiveRaw, captureStep, mainVars
<1>4. CASE ReceivePcap
  BY <1>4, ReceivePcapEffect
<1>5. CASE Sink
  BY <1>5, SinkEffect DEF Sink, mainVars
<1>6. CASE RefreshStep
  <2>1. CASE offline
    BY <1>6, <2>1, RefreshStepEffect
  <2>2. CASE ~offline
    BY <1>6, <2>2, RefreshStepEffect, AskedGrows
  <2> QED  BY <2>1, <2>2
<1>7. CASE PublishStep
  <2>1. /\ UNCHANGED <<main, analyzer>>
        /\ cap'.next = cap.next
    BY <1>7, PublishStepEffect
  <2>2. PICK f \in cap.todo : /\ counters'[f] = cap.next[f]
                              /\ \A g \in Fields \ {f} : counters'[g] = counters[g]
    BY <1>7, PublishStepEffect
  <2>3. \A g \in Fields : counters[g] <= counters'[g] /\ counters'[g] <= cap.next[g]
    BY <2>2
  <2> QED  BY <2>1, <2>3
<1>8. CASE close
  <2>1. UNCHANGED analyzer /\ main'.copy = main.copy /\ main'.pc = "report"
    BY <1>8 DEF close, goto
  <2>2. CASE offline
    BY <1>8, <2>1, <2>2, CloseEffect
  <2>3. CASE ~offline
    <3>1. \A f \in Fields : counters[f] <= counters'[f] /\ counters'[f] = cap'.next[f]
      BY <1>8, <2>3, CloseEffect, AskedGrows
    <3> QED  BY <2>1, <3>1
  <2> QED  BY <2>2, <2>3
<1>9. CASE (handle_signal \/ MainThread \/ UNCHANGED vars) /\ ~close
  <2>1. UNCHANGED counters /\ cap'.next = cap.next
    BY <1>9, QuietStep
  <2>2. CASE CopyField
    <3>1. UNCHANGED analyzer /\ main.pc = "copy"
      BY <2>2 DEF CopyField, at
    <3>2. PICK f \in main.todo :
            /\ main'.copy[f] = counters[f]
            /\ \A g \in Fields \ {f} : main'.copy[g] = main.copy[g]
            /\ main'.todo = main.todo \ {f}
      BY <2>2, CopyFieldEffect, Zenon
    <3> QED  BY <2>1, <3>1, <3>2
  <2>3. CASE Show
    <3>1. /\ main.pc = "show" /\ main'.pc = "render" /\ main'.copy = main.copy
          /\ analyzer'.shown = main.copy
      BY <2>3 DEF Show, at, goto
    <3> QED  BY <2>1, <3>1
  <2>4. CASE Render
    BY <2>1, <2>4, RenderEffect DEF Render, Zero
  <2>5. CASE LastCounters
    BY <2>1, <2>5 DEF LastCounters, at, goto
  <2>6. CASE KeyStep
    <3>1. /\ main'.copy = main.copy
          /\ main'.pc # "show" /\ (main'.pc = "copy" => main'.todo = Fields)
          /\ analyzer'.shown = analyzer.shown \/ analyzer'.shown = Zero
      <4>1. PICK paused : after_key(paused)
        BY <2>6, Zenon DEF KeyStep, QuitKey, PauseKey, ResetKey, NoKey
      <4>2. UNCHANGED analyzer \/ analyzer' = [shown |-> Zero, stale |-> FALSE]
        BY <2>6, Zenon DEF KeyStep, QuitKey, PauseKey, ResetKey, NoKey
      <4> QED  BY <4>1, <4>2 DEF after_key
    <3> QED  BY <2>1, <3>1 DEF Zero
  <2>7. CASE CheckRunning \/ Sweep \/ LastFrame \/ Join \/ End \/ PrintSummary
    <3>1. /\ main'.copy = main.copy /\ main'.pc \notin {"copy", "show"}
          /\ analyzer'.shown = analyzer.shown
      BY <2>7 DEF CheckRunning, Sweep, expire_idle_flows, LastFrame, Join, End,
                  PrintSummary, goto
    <3> QED  BY <2>1, <3>1
  <2>8. CASE open \/ OpenWriter \/ Begin \/ Spawn \/ CloseWriter
    <3>1. /\ main'.copy = main.copy /\ main'.pc \notin {"copy", "show"}
          /\ analyzer'.shown = analyzer.shown
      <4>1. \E p \in {"writer", "exit", "begin", "spawn", "loop", "join", "summary"} :
              goto(p)
        BY <2>8, Zenon DEF open, OpenWriter, Begin, Spawn, CloseWriter
      <4>2. UNCHANGED analyzer
        BY <2>8, Zenon DEF open, OpenWriter, Begin, Spawn, CloseWriter
      <4> QED  BY <4>1, <4>2 DEF goto
    <3> QED  BY <2>1, <3>1
  <2>9. CASE handle_signal \/ UNCHANGED vars
    BY <2>1, <2>9 DEF handle_signal, mainVars, vars
  <2> QED
    BY <1>9, <2>2, <2>3, <2>4, <2>5, <2>6, <2>7, <2>8, <2>9
       DEF MainThread, OpenRaw, OpenPcap, CloseRaw, ClosePcap, KeyStep
<1> QED  BY <1>1, <1>2, <1>3, <1>4, <1>5, <1>6, <1>7, <1>8, <1>9, CounterCases

\* What the final refresh has stored stays stored until the summary.
LEMMA FinalStep ==
  ASSUME Typed, Typed', Lifetimes, FieldLoops, Conservation, Accumulated, Final,
         [Next]_vars
  PROVE  Final'
<1> USE DEF Typed, Final, offline
<1>1. CASE Arrive
  BY <1>1, ArriveEffect DEF Refreshed
<1>2. CASE IdleStep
  <2>1. /\ UNCHANGED <<counters, opt>>
        /\ cap'.next = cap.next /\ cap'.todo = cap.todo /\ cap'.delivered = cap.delivered
        /\ Refreshed => Refreshed'
    BY <1>2, IdleStepFrame DEF Refreshed
  <2>2. CASE LoopTop \/ Timeout \/ EndOfFile
    BY <2>1, <2>2 DEF LoopTop, Timeout, EndOfFile, CaptureRecords, flags
  <2>3. CASE ReadError \/ StopOnError
    BY <2>1, <2>3 DEF ReadError, StopOnError, CaptureRecords
  <2>4. CASE ThreadEnds
    BY <2>1, <2>4 DEF ThreadEnds, finish, CaptureRecords
  <2> QED  BY <1>2, <2>2, <2>3, <2>4 DEF IdleStep
<1>3. CASE ReceiveRaw
  BY <1>3, ReceiveRawEffect DEF ReceiveRaw, flags
<1>4. CASE ReceivePcap
  BY <1>4, ReceivePcapEffect
<1>5. CASE Sink
  BY <1>5, SinkEffect DEF Sink, flags
<1>6. CASE RefreshStep
  <2>1. cap'.pc = "publish_final" /\ opt.stats_ok => Refreshed'
    <3> SUFFICES ASSUME cap'.pc = "publish_final", opt.stats_ok PROVE Refreshed'
      OBVIOUS
    <3>1. /\ ~offline
          /\ cap'.next = asked.next /\ cap'.todo = Fields /\ cap'.delivered = cap.delivered
      BY <1>6, RefreshStepEffect
    <3>2. /\ asked.next["received"] = kernel.total_seen
          /\ asked.next["dropped"] = kernel.total_drops
      BY <3>1, AskedCounts
    <3>3. kernel.total_seen >= cap.delivered + kernel.total_drops
      BY <3>1 DEF Conservation, InHand, KernelRecords, CaptureRecords
    <3> QED  BY <3>1, <3>2, <3>3 DEF Refreshed
  <2> QED  BY <1>6, <2>1, RefreshStepEffect
<1>7. CASE PublishStep
  <2>1. cap.pc = "publish_final" /\ Refreshed => Refreshed'
    BY <1>7, PublishStepEffect DEF Refreshed
  <2> QED  BY <1>7, <2>1, PublishStepEffect
<1>8. CASE close
  <2>1. CASE offline
    BY <1>8, <2>1, CloseEffect DEF close, flags
  <2>2. CASE ~offline
    <3>1. /\ cap'.pc = cap.pc /\ cap'.delivered = cap.delivered
          /\ cap'.next = asked.next /\ counters' = asked.next
          /\ UNCHANGED <<opt, capture_error>>
      BY <1>8, <2>2, CloseEffect DEF close, flags
    <3>2. opt.stats_ok => /\ asked.next["received"] = kernel.total_seen
                          /\ asked.next["dropped"] = kernel.total_drops
      BY <2>2, AskedCounts
    <3>3. kernel.total_seen >= cap.delivered + kernel.total_drops
      BY <2>2 DEF Conservation, InHand, KernelRecords, CaptureRecords
    <3>4. opt.stats_ok => Refreshed'
      BY <3>1, <3>2, <3>3 DEF Refreshed
    <3> QED  BY <3>1, <3>4
  <2> QED  BY <2>1, <2>2
<1>9. CASE (handle_signal \/ MainThread \/ UNCHANGED vars) /\ ~close
  <2>1. Refreshed => Refreshed'
    BY <1>9, QuietStep, OtherSteps DEF Refreshed
  <2> QED  BY <1>9, <2>1, QuietStep, OtherSteps
<1> QED  BY <1>1, <1>2, <1>3, <1>4, <1>5, <1>6, <1>7, <1>8, <1>9, CounterCases

\* Before the spawn nothing is delivered and nothing is shown.
LEMMA NothingYetStep ==
  ASSUME Typed, Lifetimes, NothingYet, [Next]_vars
  PROVE  NothingYet'
<1> USE DEF Typed, NothingYet
<1>1. CASE CaptureThread \/ ReadError
  BY <1>1, CaptureThreadStep
<1>2. CASE Arrive \/ handle_signal
  BY <1>2 DEF Arrive, handle_signal, captureVars
<1>3. CASE open \/ OpenWriter \/ Spawn
  BY <1>3 DEF open, OpenWriter, Spawn, CaptureRecords
<1>4. CASE Begin \/ CloseWriter
  BY <1>4 DEF Begin, CloseWriter, captureVars
<1>5. CASE DashboardStep
  BY <1>5, DashboardStepFrame
     DEF uiStep, captureVars, DashboardPlaces, Lifetimes, BeforeSpawn
<1>6. CASE Join \/ End \/ PrintSummary
  BY <1>6 DEF Join, End, PrintSummary, uiStep, captureVars
<1>7. CASE LastCounters
  BY <1>7 DEF LastCounters, at, uiStep, captureVars, Lifetimes, BeforeSpawn, AfterJoin
<1>8. CASE close
  BY <1>8, CloseEffect DEF close
<1>9. CASE UNCHANGED vars
  BY <1>9 DEF vars
<1> QED
  BY <1>1, <1>2, <1>3, <1>4, <1>5, <1>6, <1>7, <1>8, <1>9, StepCases

\* The summary takes its counters after the join, when the final refresh is complete.
LEMMA SummaryCoversStep ==
  ASSUME Typed, Lifetimes, FieldLoops, Accumulated, NothingYet, Final, SummaryCovers, [Next]_vars
  PROVE  SummaryCovers'
<1> USE DEF Typed, SummaryCovers, offline
<1>1. CASE CaptureThread \/ ReadError
  BY <1>1, CaptureThreadStep DEF mainVars, Lifetimes, AfterJoin
<1>2. CASE Arrive \/ handle_signal
  <2>1. CASE Arrive
    <3>1. /\ UNCHANGED <<cap, main, opt, analyzer, capture_error>>
          /\ kernel.drops \in Nat /\ kernel.total_drops \in Nat /\ analyzer.shown.dropped \in Nat
      BY <2>1, ArriveEffect DEF KernelRecords, AnalyzerRecords, Counts, Fields
    <3>2. PICK drop \in Nat : /\ kernel'.drops = kernel.drops + drop
                              /\ kernel'.total_drops = kernel.total_drops + drop
      BY <2>1, <3>1, ArriveEffect
    <3> QED  BY <3>1, <3>2
  <2>2. CASE handle_signal
    BY <2>2 DEF handle_signal, captureVars, mainVars
  <2> QED  BY <1>2, <2>1, <2>2
<1>3. CASE open \/ OpenWriter
  BY <1>3 DEF open, OpenWriter, at, goto, flags, NothingYet, Lifetimes, BeforeSpawn,
              CaptureRecords, MainRecords
<1>4. CASE Begin \/ Spawn
  BY <1>4 DEF Begin, Spawn, goto, MainRecords
<1>5. CASE DashboardStep
  BY <1>5, DashboardStepFrame DEF DashboardPlaces
<1>6. CASE Join \/ End
  BY <1>6 DEF Join, End, goto, MainRecords
<1>7. CASE LastCounters
  <2>1. /\ analyzer'.shown = counters
        /\ cap.pc = "done" /\ cap.todo = {}
        /\ UNCHANGED <<cap, opt, capture_error>>
    BY <1>7 DEF LastCounters, at, uiStep, captureVars, Lifetimes, AfterJoin, FieldLoops,
                AnalyzerRecords
  <2>2. (~capture_error /\ ~offline /\ opt.stats_ok) =>
          /\ counters["received"] >= cap.delivered + counters["dropped"]
          /\ counters["dropped"] = cap.next["dropped"]
    BY <2>1 DEF Final, Refreshed, Fields
  <2>3. (~capture_error /\ opt.stats_ok /\ opt.backend = "raw") =>
          counters["dropped"] + kernel.drops = kernel.total_drops
    BY <2>2, SessionAssumption DEF Accumulated, offline
  <2>4. UNCHANGED kernel
    BY <1>7 DEF LastCounters, uiStep, captureVars
  <2> QED  BY <2>1, <2>2, <2>3, <2>4
<1>8. CASE close
  <2>1. main.pc = "close" /\ main'.pc = "report"
    BY <1>8 DEF close, at, goto, MainRecords
  <2>2. UNCHANGED <<opt, analyzer, capture_error>> /\ cap'.delivered = cap.delivered
    BY <1>8, CloseEffect DEF close, flags
  <2> QED  BY <2>1, <2>2
<1>9. CASE CloseWriter \/ PrintSummary
  BY <1>9 DEF CloseWriter, PrintSummary, at, goto, uiStep, captureVars, flags, MainRecords
<1>10. CASE UNCHANGED vars
  BY <1>10 DEF vars
<1> QED
  BY <1>1, <1>2, <1>3, <1>4, <1>5, <1>6, <1>7, <1>8, <1>9, <1>10, StepCases

-----------------------------------------------------------------------------
(* The invariant and what follows from it.                                 *)

\* The invariant holds before main opens anything.
LEMMA InitIInv == Init => IInv
<1> SUFFICES ASSUME Init PROVE IInv
  OBVIOUS
<1>1. Zero \in Counts /\ Zero["received"] = 0 /\ Zero["dropped"] = 0
  BY DEF Zero, Counts, Fields
<1>2. Typed
  <2>1. cap \in CaptureRecords /\ kernel \in KernelRecords
    BY <1>1 DEF Init, CaptureRecords, CapturePlaces, KernelRecords
  <2>2. main \in MainRecords /\ dashboard \in DashboardRecords /\ analyzer \in AnalyzerRecords
    BY <1>1 DEF Init, MainRecords, MainPlaces, DashboardRecords, AnalyzerRecords
  <2> QED  BY <1>1, <2>1, <2>2 DEF Init, Typed, Options, Causes
<1>3. /\ main.pc = "open" /\ main.todo = {} /\ main.copy = Zero
      /\ cap.pc = "none" /\ cap.open = FALSE /\ cap.todo = {} /\ cap.next = Zero
      /\ cap.delivered = 0 /\ cap.software_received = 0
      /\ cap.kernel_seen = 0 /\ cap.kernel_dropped = 0
      /\ kernel.queue = 0 /\ kernel.seen = 0 /\ kernel.drops = 0
      /\ kernel.total_seen = 0 /\ kernel.total_drops = 0
      /\ counters = Zero /\ analyzer.shown = Zero /\ dashboard.active = FALSE
  BY DEF Init
<1>4. Lifetimes
  BY <1>3 DEF Init, Lifetimes, BeforeSpawn, AfterJoin
<1>5. FieldLoops /\ Prompt
  BY <1>3 DEF Init, FieldLoops, Prompt
<1>6. Stopped
  BY <1>3 DEF Init, Stopped, AfterJoin
<1>7. Conservation
  BY <1>3, SessionAssumption DEF Conservation, InHand
<1>8. Accumulated
  BY <1>1, <1>3 DEF Accumulated
<1>9. Pipeline
  BY <1>3 DEF Pipeline, Zero
<1>10. NothingYet /\ Final /\ SummaryCovers
  BY <1>1, <1>3 DEF NothingYet, Final, SummaryCovers
<1> QED
  BY <1>2, <1>4, <1>5, <1>6, <1>7, <1>8, <1>9, <1>10 DEF IInv

\* Every step of either thread, of the kernel or of a signal keeps the invariant.
LEMMA NextIInv == IInv /\ [Next]_vars => IInv'
<1> SUFFICES ASSUME IInv, [Next]_vars PROVE IInv'
  OBVIOUS
<1> USE DEF IInv
<1>1. Typed'
  BY TypedStep
<1>2. Lifetimes' /\ FieldLoops'
  BY LifetimesStep, FieldLoopsStep
<1>3. Prompt' /\ Stopped'
  BY PromptStep, StoppedStep
<1>4. Conservation' /\ Accumulated' /\ Pipeline'
  BY <1>1, ConservationStep, AccumulatedStep, PipelineStep
<1>5. NothingYet' /\ Final' /\ SummaryCovers'
  BY <1>1, NothingYetStep, FinalStep, SummaryCoversStep
<1> QED  BY <1>1, <1>2, <1>3, <1>4, <1>5

\* The inductive invariant: types, lifetimes, the reason to stop, the conservation of
\* packets, and the way of the counters to the screen hold in every reachable state.
THEOREM Invariance == Spec => []IInv
  BY InitIInv, NextIInv, PTL DEF Spec

\* The variables of both threads keep their types, and the kernel's numbers their bounds.
THEOREM TypeCorrect == Spec => []TypeOK
<1>1. IInv => TypeOK
  <2> SUFFICES ASSUME IInv PROVE TypeOK
    OBVIOUS
  <2>1. Typed /\ Conservation /\ FieldLoops
    BY DEF IInv
  <2>2. /\ kernel.total_drops <= MaxArrivals
        /\ kernel.seen <= MaxArrivals /\ kernel.drops <= MaxArrivals
    <3>1. CASE offline
      BY <2>1, <3>1, SessionAssumption DEF Typed, Conservation, KernelRecords
    <3>2. CASE ~offline
      BY <2>1, <3>2, SessionAssumption
         DEF Typed, Conservation, InHand, KernelRecords, CaptureRecords
    <3> QED  BY <3>1, <3>2
  <2>3. kernel \in [queue: 0..QueueSize, seen: 0..MaxArrivals, drops: 0..MaxArrivals,
                    total_seen: 0..MaxArrivals, total_drops: 0..MaxArrivals]
    BY <2>1, <2>2, SessionAssumption DEF Typed, Conservation, KernelRecords
  <2>4. /\ (cap.pc \in {"publish", "publish_final"}) = (cap.todo # {})
        /\ (main.pc = "copy") = (main.todo # {})
    BY <2>1 DEF FieldLoops
  <2> QED
    BY <2>1, <2>3, <2>4
       DEF TypeOK, Typed, Options, CaptureRecords, MainRecords, AnalyzerRecords, Counts
<1> QED  BY <1>1, Invariance, PTL

\* join() comes before close() on every way out of main: the capture thread never works
\* on a capture or a pcap file that the main thread has closed.
THEOREM ClosedAfterUse == Spec => []NoUseAfterClose
<1>1. IInv => NoUseAfterClose
  BY DEF IInv, Typed, Options, Lifetimes, BeforeSpawn, AfterJoin, NoUseAfterClose
<1> QED  BY <1>1, Invariance, PTL

\* Whatever ends main, the socket, the pcap file and the terminal are given back before
\* the summary, and no thread is left.
THEOREM CleanExit == Spec => []ExitIsClean
<1>1. IInv => ExitIsClean
  BY DEF IInv, Lifetimes, AfterJoin, ExitIsClean
<1> QED  BY <1>1, Invariance, PTL

\* At most one packet is analysed after g_running has become false, however many are
\* queued and whatever the refresh period.
THEOREM PromptStop == Spec => []StopsPromptly
<1>1. IInv => StopsPromptly
  BY DEF IInv, Prompt, StopsPromptly
<1> QED  BY <1>1, Invariance, PTL

\* After a capture without error the summary's counters cover every packet analysed and,
\* for the raw socket, every drop the kernel had counted when its statistics were last
\* read, however often they were read and reset.
THEOREM SummaryIsComplete == Spec => []SummaryCovers
<1>1. IInv => SummaryCovers
  BY DEF IInv
<1> QED  BY <1>1, Invariance, PTL

\* The last frame of a replayed file is drawn when nothing but its end stops the
\* dashboard: capture_done is stored before g_running.
THEOREM LastFrameDrawn == Spec => []EndOfFileShown
<1>1. IInv => EndOfFileShown
  BY DEF IInv, Stopped, EndOfFileShown
<1> QED  BY <1>1, Invariance, PTL

\* A counter on the screen only falls by a reset, although the counters are stored and
\* copied field by field without a lock.
THEOREM CountersOnlyGrow == Spec => ShownNeverFalls
<1> DEFINE Grows == \/ \A f \in Fields : analyzer'.shown[f] >= analyzer.shown[f]
                    \/ analyzer'.shown = Zero
<1>1. IInv /\ [Next]_vars => [Grows]_vars
  <2> SUFFICES ASSUME IInv, [Next]_vars PROVE Grows
    OBVIOUS
  <2>1. Typed /\ Pipeline /\ FieldLoops
    BY DEF IInv
  <2>2. \A f \in Fields : /\ analyzer.shown[f] \in Nat /\ main.copy[f] \in Nat
                          /\ counters[f] \in Nat
    BY <2>1 DEF Typed, AnalyzerRecords, MainRecords, Counts
  <2>3. CASE UNCHANGED analyzer
    BY <2>2, <2>3
  <2>4. CASE Sink
    BY <2>1, <2>2, <2>4, SinkEffect
  <2>5. CASE ResetKey
    BY <2>5 DEF ResetKey
  <2>6. CASE Show
    <3>1. main.pc = "show" /\ main.todo = {} /\ analyzer'.shown = main.copy
      BY <2>1, <2>6 DEF Show, at, Typed, AnalyzerRecords, FieldLoops
    <3> QED  BY <2>1, <2>2, <3>1 DEF Pipeline
  <2>7. CASE Sweep
    BY <2>1, <2>2, <2>7 DEF Sweep, expire_idle_flows, Typed, AnalyzerRecords
  <2>8. CASE LastCounters
    BY <2>1, <2>2, <2>8 DEF LastCounters, Typed, AnalyzerRecords, Pipeline
  <2>9. \/ UNCHANGED analyzer
        \/ Sink \/ ResetKey \/ Show \/ Sweep \/ LastCounters
    <3>1. CASE Arrive \/ handle_signal \/ UNCHANGED vars
      BY <3>1 DEF Arrive, handle_signal, vars
    <3>2. CASE IdleStep \/ RefreshStep \/ PublishStep
      BY <2>1, <3>2, IdleStepFrame, RefreshStepEffect, PublishStepEffect
    <3>3. CASE ReceiveRaw \/ ReceivePcap
      BY <3>3 DEF ReceiveRaw, ReceivePcap
    <3>4. CASE MainThread
      BY <3>4, Zenon DEF MainThread, OpenRaw, OpenPcap, open, OpenWriter, Begin, Spawn,
           CheckRunning, QuitKey, PauseKey, NoKey, CopyField, Render, LastFrame, Join, End,
           CloseRaw, ClosePcap, close, CloseWriter, PrintSummary
    <3>5. CASE close
      BY <3>5 DEF close
    <3> QED  BY <3>1, <3>2, <3>3, <3>4, <3>5, CounterCases
  <2> QED  BY <2>3, <2>4, <2>5, <2>6, <2>7, <2>8, <2>9
<1> QED  BY <1>1, Invariance, PTL DEF Spec, ShownNeverFalls

=============================================================================
