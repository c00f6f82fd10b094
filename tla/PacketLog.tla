------------------------------ MODULE PacketLog ------------------------------
(***************************************************************************)
(* What a pcap file promises while it is being written: packets are read   *)
(* back in the order they were written, and of the packets written so far  *)
(* all up to the last multiple of FlushEvery are readable at every moment, *)
(* so that no more are lost when the process is killed. A file that was    *)
(* closed holds them all. A write error ends the promise.                  *)
(***************************************************************************)
EXTENDS Naturals, Sequences

CONSTANT FlushEvery

VARIABLES
  log,       \* packets written
  readable,  \* how many of them a reader finds in the file
  status,    \* "open", "closed" or "killed"
  damaged    \* has a write failed

vars == <<log, readable, status, damaged>>

flushed(n) == n - (n % FlushEvery)

Init == log = <<>> /\ readable = 0 /\ status = "open" /\ damaged = FALSE

Record ==
  /\ status = "open" /\ status' \in {"open", "killed"}
  /\ Len(log') = Len(log) + 1
  /\ SubSeq(log', 1, Len(log)) = log
  /\ readable' \in readable..Len(log') /\ readable' >= flushed(Len(log'))

\* The file grows by itself when the stdio buffer is full.
Grow ==
  /\ status = "open" /\ readable' \in readable..Len(log)
  /\ UNCHANGED <<log, status>>

Close ==
  /\ status = "open" /\ status' = "closed"
  /\ readable' = Len(log) /\ UNCHANGED log

Kill ==
  /\ status = "open" /\ status' = "killed"
  /\ UNCHANGED <<log, readable>>

Next == \/ (Record \/ Grow \/ Close \/ Kill) /\ UNCHANGED damaged
        \/ damaged'

Spec == Init /\ [][Next]_vars

=============================================================================
