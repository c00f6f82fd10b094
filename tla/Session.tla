------------------------------ MODULE Session ------------------------------
(***************************************************************************)
(* main(): the capture thread feeds packets to the Analyzer, the main      *)
(* thread drives the dashboard; g_running stops both. The Analyzer's mutex *)
(* makes each of its calls one step; capture->counters() is read without   *)
(* it, field by field, while refresh_counters() writes the fields.         *)
(***************************************************************************)
EXTENDS Naturals

CONSTANTS
  Backends,      \* subset of {"raw", "libpcap", "file"}
  Limits,        \* values of --count, 0 = unlimited
  FilePackets,   \* packets in a replayed file
  MaxArrivals,   \* bound: packets that reach the kernel during a live capture
  QueueSize,     \* packets the kernel keeps for the reader
  RefreshEvery,  \* 256 in the code
  SweepEvery     \* 10 in the code

ASSUME SessionAssumption ==
  /\ Backends \subseteq {"raw", "libpcap", "file"}
  /\ Limits \subseteq Nat
  /\ FilePackets \in Nat /\ MaxArrivals \in Nat /\ QueueSize \in Nat \ {0}
  /\ RefreshEvery \in Nat \ {0} /\ SweepEvery \in Nat \ {0}

VARIABLES
  opt,            \* the options of this session
  g_running, capture_done, capture_error,
  kernel,         \* queued packets; seen and drops since the last statistics read; totals
  cap,            \* capture thread and backend object
  counters,       \* CaptureCounters, shared without a lock
  main,           \* main thread: place, its copy of the counters, ticks of the loop
  dashboard,      \* active_ and paused_, and whether the last frame was drawn
  analyzer,       \* counters shown; is some flow idle for too long
  writer,         \* is the pcap file open
  stopped_by,     \* history: what made g_running false first
  late            \* history: packets analysed after g_running became false

vars == <<opt, g_running, capture_done, capture_error, kernel, cap, counters, main,
          dashboard, analyzer, writer, stopped_by, late>>
captureVars == <<kernel, cap, counters>>
mainVars == <<main, dashboard, writer, opt>>
flags == <<g_running, capture_done, capture_error, stopped_by>>

Fields == {"received", "dropped"}
Zero == [f \in Fields |-> 0]
offline == opt.backend = "file"

CapturePlaces == {"none", "loop", "wait", "sink", "refresh", "publish", "final",
                  "publish_final", "failed", "returned", "stopping", "done"}
MainPlaces == {"open", "writer", "begin", "spawn", "loop", "key", "copy", "show", "render",
               "sweep", "last", "join", "end", "counters", "close", "report", "summary", "exit"}

Init ==
  /\ opt \in [backend: Backends, tui: BOOLEAN, write: BOOLEAN, stats_ok: BOOLEAN, max_packets: Limits]
  /\ g_running = TRUE /\ capture_done = FALSE /\ capture_error = FALSE
  /\ kernel = [queue |-> 0, seen |-> 0, drops |-> 0, total_seen |-> 0, total_drops |-> 0]
  /\ cap = [pc |-> "none", open |-> FALSE, delivered |-> 0, software_received |-> 0,
            kernel_seen |-> 0, kernel_dropped |-> 0, next |-> Zero, todo |-> {}]
  /\ counters = Zero
  /\ main = [pc |-> "open", copy |-> Zero, todo |-> {}, ticks |-> 0]
  /\ dashboard = [active |-> FALSE, paused |-> FALSE, last_frame |-> FALSE]
  /\ analyzer = [shown |-> Zero, stale |-> FALSE]
  /\ writer = FALSE
  /\ stopped_by = "nothing" /\ late = 0

stop(cause) ==
  /\ g_running' = FALSE
  /\ stopped_by' = IF g_running THEN cause ELSE stopped_by

-----------------------------------------------------------------------------
\* Environment.

\* A packet passes the filter and is queued for the reader or dropped; both count as seen.
Arrive ==
  /\ cap.open /\ ~offline
  /\ kernel.total_seen < MaxArrivals
  /\ LET drop == IF kernel.queue < QueueSize THEN 0 ELSE 1
     IN kernel' = [queue |-> kernel.queue + 1 - drop,
                   seen |-> kernel.seen + 1, drops |-> kernel.drops + drop,
                   total_seen |-> kernel.total_seen + 1,
                   total_drops |-> kernel.total_drops + drop]
  /\ UNCHANGED <<flags, cap, counters, mainVars, analyzer, late>>

\* SIGINT or SIGTERM once the handlers are installed.
handle_signal ==
  /\ main.pc \notin {"open", "writer", "begin", "exit"}
  /\ g_running
  /\ stop("user")
  /\ UNCHANGED <<capture_done, capture_error, captureVars, mainVars, analyzer, late>>

-----------------------------------------------------------------------------
\* refresh_counters: PACKET_STATISTICS is read and reset by the kernel, so the
\* raw backend accumulates; pcap_stats reports totals. A file has no counters.

mut_accumulated(c) == [c EXCEPT !.kernel_seen = kernel.seen, !.kernel_dropped = kernel.drops]
accumulated(c) ==
  [c EXCEPT !.kernel_seen = @ + kernel.seen, !.kernel_dropped = @ + kernel.drops]

mut_raw_counters(c) ==
  [received |-> IF c.kernel_seen # 0 THEN c.kernel_seen ELSE c.software_received,
   dropped |-> kernel.drops]
raw_counters(c) ==
  [received |-> IF c.kernel_seen # 0 THEN c.kernel_seen ELSE c.software_received,
   dropped |-> c.kernel_dropped]
pcap_counters ==
  IF opt.stats_ok THEN [received |-> kernel.total_seen, dropped |-> kernel.total_drops]
                  ELSE counters

\* The backend after it has asked the kernel, with the values it is about to store.
asked ==
  IF opt.backend = "raw"
    THEN LET c == IF opt.stats_ok THEN accumulated(cap) ELSE cap
         IN [c EXCEPT !.next = raw_counters(c)]
    ELSE [cap EXCEPT !.next = pcap_counters]
kernel_after_asking ==
  IF opt.backend = "raw" /\ opt.stats_ok THEN [kernel EXCEPT !.seen = 0, !.drops = 0] ELSE kernel

-----------------------------------------------------------------------------
\* The capture thread: Capture::run of both backends, and the lambda around it.

captureStep == UNCHANGED <<mainVars, late>>

limit_reached(delivered) == opt.max_packets # 0 /\ delivered >= opt.max_packets
after_refresh(delivered) == IF limit_reached(delivered) THEN "final" ELSE "loop"

mut_check_running == TRUE
check_running == g_running

LoopTop ==
  /\ cap.pc = "loop"
  /\ cap' = [cap EXCEPT !.pc = IF check_running THEN "wait" ELSE "final"]
  /\ UNCHANGED <<flags, kernel, counters, analyzer>> /\ captureStep

ReceiveRaw ==
  /\ cap.pc = "wait" /\ opt.backend = "raw" /\ kernel.queue > 0
  /\ kernel' = [kernel EXCEPT !.queue = @ - 1]
  /\ cap' = [cap EXCEPT !.pc = "sink", !.software_received = @ + 1]
  /\ UNCHANGED <<flags, counters, analyzer>> /\ captureStep

\* pcap_next_ex takes the next packet of the queue, or of the file.
ReceivePcap ==
  /\ cap.pc = "wait" /\ opt.backend # "raw"
  /\ IF offline THEN cap.delivered < FilePackets /\ UNCHANGED kernel
                ELSE kernel.queue > 0 /\ kernel' = [kernel EXCEPT !.queue = @ - 1]
  /\ cap' = [cap EXCEPT !.pc = "sink"]
  /\ UNCHANGED <<flags, counters, analyzer>> /\ captureStep

\* poll timed out or was interrupted, recvfrom had nothing, pcap_next_ex timed out.
Timeout ==
  /\ cap.pc = "wait" /\ ~offline
  /\ cap' = [cap EXCEPT !.pc = "loop"]
  /\ UNCHANGED <<flags, kernel, counters, analyzer>> /\ captureStep

\* PCAP_ERROR_BREAK at the end of the file.
EndOfFile ==
  /\ cap.pc = "wait" /\ offline /\ cap.delivered = FilePackets
  /\ cap' = [cap EXCEPT !.pc = "final"]
  /\ UNCHANGED <<flags, kernel, counters, analyzer>> /\ captureStep

\* poll, recvfrom or pcap_next_ex fails: run returns false without a refresh.
ReadError ==
  /\ cap.pc = "wait"
  /\ capture_error' = TRUE
  /\ cap' = [cap EXCEPT !.pc = "failed"]
  /\ UNCHANGED <<g_running, capture_done, stopped_by, kernel, counters, analyzer>> /\ captureStep

\* The sink: the packet is written, then analysed; with its time stamp some flow
\* may have become idle for too long, or an idle one active again.
Sink ==
  /\ cap.pc = "sink"
  /\ LET delivered == cap.delivered + 1
     IN cap' = [cap EXCEPT !.delivered = delivered,
                           !.pc = IF delivered % RefreshEvery = 0 THEN "refresh"
                                  ELSE after_refresh(delivered)]
  /\ \E stale \in BOOLEAN : analyzer' = [analyzer EXCEPT !.stale = stale]
  /\ late' = IF g_running THEN late ELSE late + 1
  /\ UNCHANGED <<flags, kernel, counters, mainVars>>

Refresh(from, to, next) ==
  /\ cap.pc = from
  /\ IF offline
       THEN cap' = [cap EXCEPT !.pc = next] /\ UNCHANGED kernel
       ELSE cap' = [asked EXCEPT !.pc = to, !.todo = Fields] /\ kernel' = kernel_after_asking
  /\ UNCHANGED <<flags, counters, analyzer>> /\ captureStep

Publish(from, next) ==
  /\ cap.pc = from
  /\ \E f \in cap.todo :
       /\ counters' = [counters EXCEPT ![f] = cap.next[f]]
       /\ cap' = [cap EXCEPT !.todo = @ \ {f}, !.pc = IF cap.todo = {f} THEN next ELSE @]
  /\ UNCHANGED <<flags, kernel, analyzer>> /\ captureStep

PeriodicRefresh == \/ Refresh("refresh", "publish", after_refresh(cap.delivered))
                   \/ Publish("publish", after_refresh(cap.delivered))
FinalRefresh == \/ Refresh("final", "publish_final", "returned")
                \/ Publish("publish_final", "returned")

\* run returned false.
StopOnError ==
  /\ cap.pc = "failed"
  /\ cap' = [cap EXCEPT !.pc = "returned"]
  /\ stop("error")
  /\ UNCHANGED <<capture_done, capture_error, kernel, counters, analyzer>> /\ captureStep

mut_finish ==
  \/ cap.pc = "returned" /\ stop("capture") /\ UNCHANGED capture_done
  \/ cap.pc = "stopping" /\ capture_done' = TRUE /\ UNCHANGED <<g_running, stopped_by>>
mut2_finish ==
  \/ cap.pc = "returned" /\ capture_done' = TRUE /\ UNCHANGED <<g_running, stopped_by>>
  \/ cap.pc = "stopping" /\ UNCHANGED <<g_running, stopped_by, capture_done>>
\* capture_done is stored before g_running.
finish ==
  \/ cap.pc = "returned" /\ capture_done' = TRUE /\ UNCHANGED <<g_running, stopped_by>>
  \/ cap.pc = "stopping" /\ stop("capture") /\ UNCHANGED capture_done

ThreadEnds ==
  /\ finish
  /\ cap' = [cap EXCEPT !.pc = IF @ = "returned" THEN "stopping" ELSE "done"]
  /\ UNCHANGED <<capture_error, kernel, counters, analyzer>> /\ captureStep

CaptureThread == \/ LoopTop \/ ReceiveRaw \/ ReceivePcap \/ Timeout \/ EndOfFile \/ Sink
                 \/ PeriodicRefresh \/ FinalRefresh \/ StopOnError \/ ThreadEnds

-----------------------------------------------------------------------------
\* The main thread.

at(p) == main.pc = p
goto(p) == main' = [main EXCEPT !.pc = p]

\* open() succeeds, or gives back what it had opened and the program ends.
open ==
  /\ at("open")
  /\ \/ cap' = [cap EXCEPT !.open = TRUE] /\ goto("writer")
     \/ UNCHANGED cap /\ goto("exit")
  /\ UNCHANGED <<flags, kernel, counters, dashboard, writer, opt, analyzer, late>>

OpenRaw == opt.backend = "raw" /\ open
OpenPcap == opt.backend # "raw" /\ open

\* If the file cannot be opened main returns and the destructor closes the capture.
OpenWriter ==
  /\ at("writer")
  /\ \/ writer' = opt.write /\ UNCHANGED cap /\ goto("begin")
     \/ /\ opt.write
        /\ cap' = [cap EXCEPT !.open = FALSE]
        /\ UNCHANGED writer /\ goto("exit")
  /\ UNCHANGED <<flags, kernel, counters, dashboard, opt, analyzer, late>>

Begin ==
  /\ at("begin")
  /\ dashboard' = [dashboard EXCEPT !.active = opt.tui]
  /\ goto("spawn")
  /\ UNCHANGED <<flags, captureVars, writer, opt, analyzer, late>>

Spawn ==
  /\ at("spawn")
  /\ cap' = [cap EXCEPT !.pc = "loop"]
  /\ goto(IF opt.tui THEN "loop" ELSE "join")
  /\ UNCHANGED <<flags, kernel, counters, dashboard, writer, opt, analyzer, late>>

uiStep == UNCHANGED <<captureVars, capture_done, capture_error, writer, opt, late>>

CheckRunning ==
  /\ at("loop")
  /\ goto(IF g_running THEN "key" ELSE "last")
  /\ UNCHANGED <<g_running, stopped_by, dashboard, analyzer>> /\ uiStep

\* The counters are copied only while the dashboard is not paused.
after_key(paused) ==
  main' = [main EXCEPT !.pc = IF paused THEN "loop" ELSE "copy",
                       !.todo = IF paused THEN {} ELSE Fields]

QuitKey ==
  /\ at("key") /\ stop("user") /\ after_key(dashboard.paused)
  /\ UNCHANGED <<dashboard, analyzer>> /\ uiStep
PauseKey ==
  /\ at("key")
  /\ dashboard' = [dashboard EXCEPT !.paused = ~@] /\ after_key(~dashboard.paused)
  /\ UNCHANGED <<g_running, stopped_by, analyzer>> /\ uiStep
ResetKey ==
  /\ at("key")
  /\ analyzer' = [shown |-> Zero, stale |-> FALSE]
  /\ after_key(dashboard.paused)
  /\ UNCHANGED <<g_running, stopped_by, dashboard>> /\ uiStep
\* No key, or the sort key, which changes only the order of the flows on the screen.
NoKey ==
  /\ at("key") /\ after_key(dashboard.paused)
  /\ UNCHANGED <<g_running, stopped_by, dashboard, analyzer>> /\ uiStep

CopyField ==
  /\ at("copy")
  /\ \E f \in main.todo :
       main' = [main EXCEPT !.copy[f] = counters[f], !.todo = @ \ {f},
                            !.pc = IF main.todo = {f} THEN "show" ELSE @]
  /\ UNCHANGED <<g_running, stopped_by, dashboard, analyzer>> /\ uiStep

Show ==
  /\ at("show")
  /\ analyzer' = [analyzer EXCEPT !.shown = main.copy]
  /\ goto("render")
  /\ UNCHANGED <<g_running, stopped_by, dashboard>> /\ uiStep

Render ==
  /\ at("render")
  /\ LET ticks == (main.ticks + 1) % SweepEvery
     IN main' = [main EXCEPT !.ticks = ticks, !.pc = IF ticks = 0 THEN "sweep" ELSE "loop",
                             !.copy = Zero]
  /\ UNCHANGED <<g_running, stopped_by, dashboard, analyzer>> /\ uiStep

mut_expire_idle_flows == analyzer
expire_idle_flows == [analyzer EXCEPT !.stale = FALSE]

Sweep ==
  /\ at("sweep")
  /\ analyzer' = expire_idle_flows
  /\ goto("loop")
  /\ UNCHANGED <<g_running, stopped_by, dashboard>> /\ uiStep

\* The last frame of a finished file.
LastFrame ==
  /\ at("last")
  /\ dashboard' = [dashboard EXCEPT !.last_frame = capture_done /\ offline]
  /\ goto("join")
  /\ UNCHANGED <<g_running, stopped_by, analyzer>> /\ uiStep

mut_joined == TRUE
joined == cap.pc = "done"

Join ==
  /\ at("join") /\ joined
  /\ goto("end")
  /\ UNCHANGED <<g_running, stopped_by, dashboard, analyzer>> /\ uiStep

mut_dashboard_end == dashboard
dashboard_end == [dashboard EXCEPT !.active = FALSE]

End ==
  /\ at("end")
  /\ dashboard' = dashboard_end
  /\ goto("counters")
  /\ UNCHANGED <<g_running, stopped_by, analyzer>> /\ uiStep

LastCounters ==
  /\ at("counters")
  /\ analyzer' = [analyzer EXCEPT !.shown = counters]
  /\ goto("close")
  /\ UNCHANGED <<g_running, stopped_by, dashboard>> /\ uiStep

\* close() refreshes once more; nobody shows the result.
close ==
  /\ at("close")
  /\ cap' = [(IF offline THEN cap ELSE asked) EXCEPT !.open = FALSE]
  /\ counters' = IF offline THEN counters ELSE asked.next
  /\ kernel' = IF offline THEN kernel ELSE kernel_after_asking
  /\ goto("report")
  /\ UNCHANGED <<flags, dashboard, writer, opt, analyzer, late>>

CloseRaw == opt.backend = "raw" /\ close
ClosePcap == opt.backend # "raw" /\ close

CloseWriter ==
  /\ at("report")
  /\ writer' = FALSE
  /\ goto("summary")
  /\ UNCHANGED <<flags, captureVars, dashboard, opt, analyzer, late>>

PrintSummary ==
  /\ at("summary")
  /\ goto("exit")
  /\ UNCHANGED <<g_running, stopped_by, dashboard, analyzer>> /\ uiStep

MainThread == \/ OpenRaw \/ OpenPcap \/ OpenWriter \/ Begin \/ Spawn \/ CheckRunning
              \/ QuitKey \/ PauseKey \/ ResetKey \/ NoKey
              \/ CopyField \/ Show \/ Render \/ Sweep \/ LastFrame
              \/ Join \/ End \/ LastCounters
              \/ CloseRaw \/ ClosePcap \/ CloseWriter \/ PrintSummary

\* The program has ended.
Exited == at("exit") /\ UNCHANGED vars

Next == Arrive \/ handle_signal \/ ReadError \/ CaptureThread \/ MainThread \/ Exited

Spec == Init /\ [][Next]_vars
FairSpec == Spec /\ WF_vars(CaptureThread) /\ WF_vars(MainThread)

-----------------------------------------------------------------------------
\* Properties.

\* The state has its type; the fields still to be copied or stored are fields.
TypeOK ==
  /\ opt.backend \in Backends /\ opt.max_packets \in Limits
  /\ g_running \in BOOLEAN /\ capture_done \in BOOLEAN /\ capture_error \in BOOLEAN
  /\ kernel \in [queue: 0..QueueSize, seen: 0..MaxArrivals, drops: 0..MaxArrivals,
                 total_seen: 0..MaxArrivals, total_drops: 0..MaxArrivals]
  /\ cap.pc \in CapturePlaces /\ cap.todo \subseteq Fields
  /\ main.pc \in MainPlaces /\ main.todo \subseteq Fields
  /\ counters \in [Fields -> Nat] /\ analyzer.shown \in [Fields -> Nat]
  /\ (cap.pc \in {"publish", "publish_final"}) = (cap.todo # {})
  /\ (main.pc = "copy") = (main.todo # {})

\* The capture thread never works on a capture or a pcap file that the main
\* thread has closed: join() comes before close() on every way out of main.
NoUseAfterClose ==
  cap.pc \notin {"none", "done"} => cap.open /\ writer = opt.write

\* Whatever ends the program, the socket and the pcap file are closed, the terminal
\* is restored before the summary is printed, and no thread is left.
ExitIsClean ==
  /\ main.pc \in {"summary", "exit"} => ~cap.open /\ ~writer /\ ~dashboard.active
  /\ main.pc = "exit" => cap.pc \in {"none", "done"}

\* After g_running has become false at most the packet being waited for is analysed,
\* however many are queued: both run() loops test the flag for every packet.
StopsPromptly == late <= 1

\* After a capture without error the summary's counters cover every packet analysed,
\* and every drop of the raw socket but those the kernel has counted since its statistics
\* were last read, also when they were read, and reset by the kernel, many times.
SummaryCovers ==
  (~capture_error /\ ~offline /\ opt.stats_ok) =>
    /\ main.pc \in {"close", "report", "summary", "exit"} =>
         analyzer.shown.received >= cap.delivered + analyzer.shown.dropped
    /\ main.pc = "close" /\ opt.backend = "raw" =>
         analyzer.shown.dropped + kernel.drops = kernel.total_drops

\* When the end of a replayed file, and nothing else, stops the dashboard, its last
\* frame is drawn.
EndOfFileShown ==
  (main.pc = "exit" /\ offline /\ opt.tui /\ stopped_by = "capture") => dashboard.last_frame

\* A counter on the screen only falls by a reset, although it is copied field by
\* field while the capture thread stores new values.
ShownNeverFalls ==
  [][ \/ \A f \in Fields : analyzer'.shown[f] >= analyzer.shown[f]
      \/ analyzer'.shown = Zero ]_vars

\* Every reason to stop (signal, key, end of file, error, --count reached) ends both
\* threads and the program.
EveryStopEnds ==
  (~g_running \/ (offline /\ at("loop")) \/ limit_reached(cap.delivered)) ~> at("exit")

\* While the dashboard runs and is not paused, a flow that is idle for too long at the
\* time of the last packet is swept.
IdleFlowsSwept ==
  (analyzer.stale /\ opt.tui) ~> (~analyzer.stale \/ dashboard.paused \/ ~g_running)

=============================================================================
