---------------------------- MODULE BoundedQueue ----------------------------
(* The bounded std::deque of flow_table.cpp: recent_segments, holes and    *)
(* awaiting_ack all forget their oldest element when they are full.        *)
EXTENDS Sequences, Integers

\* Mutant: the queue is never trimmed.
mut_push_bounded(q, x, max) == Append(q, x)

\* push_back followed by pop_front once the deque is over its limit.
push_bounded(q, x, max) ==
  LET r == Append(q, x) IN IF Len(r) > max THEN Tail(r) ELSE r
=============================================================================
