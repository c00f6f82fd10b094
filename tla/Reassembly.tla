----------------------------- MODULE Reassembly -----------------------------
(***************************************************************************)
(* The class StreamReassembler: in-order reconstruction of one direction   *)
(* of a TCP stream.  The operators work on records with the fields of      *)
(* InitReassembler.  pending is the std::map from sequence number to the   *)
(* bytes waiting behind a gap, so its begin() is the numerically smallest  *)
(* key.  The write-only counters overlap_bytes_, buffered_segments_ and    *)
(* discarded_bytes_ are left out: nothing in the program reads them.       *)
(***************************************************************************)
EXTENDS SeqArith, SequencesExt

CONSTANTS
  max_prefix,     \* bytes of the stream that are kept (8192)
  max_buffered    \* bytes that may wait behind a gap (32768)
ASSUME ReassemblyAssumption == max_prefix \in Nat \ {0} /\ max_buffered \in Nat

InitReassembler ==
  [initialized |-> FALSE, next_seq |-> 0, prefix |-> << >>,
   pending |-> << >>, buffered_bytes |-> 0, delivered |-> 0]

saturated(r) == Len(r.prefix) >= max_prefix

\* Bytes of s from the n-th on.
Drop(s, n) == SubSeq(s, n + 1, Len(s))

append(prefix, data) ==
  prefix \o SubSeq(data, 1, Min({Len(data), max_prefix - Len(prefix)}))

\* Mutant: next_seq is kept in a wider integer and never wraps.
mut_deliver(r, data) ==
  [r EXCEPT !.prefix = append(@, data),
            !.next_seq = @ + Len(data),
            !.delivered = @ + Len(data)]

\* The bytes at next_seq reach the prefix (or are discarded behind it).
deliver(r, data) ==
  [r EXCEPT !.prefix = append(@, data),
            !.next_seq = SeqAdd(@, Len(data)),
            !.delivered = @ + Len(data)]

without(pending, n) == Restrict(pending, DOMAIN pending \ {n})
with(pending, n, data) ==
  [m \in DOMAIN pending \cup {n} |-> IF m = n THEN data ELSE pending[m]]

\* Mutant: the bytes of a drained segment are delivered untrimmed.
mut_drain_first(r) ==
  LET n == Min(DOMAIN r.pending)
  IN deliver([r EXCEPT !.pending = without(@, n),
                       !.buffered_bytes = @ - Len(r.pending[n])], r.pending[n])

\* Mutant: a held segment that turns out to be old keeps its budget.
mut2_drain_first(r) ==
  LET n    == Min(DOMAIN r.pending)
      rest == Drop(r.pending[n], SeqDiff(r.next_seq, n))
      r1   == [r EXCEPT !.pending = without(@, n)]
  IN IF rest = << >> THEN r1
     ELSE deliver([r1 EXCEPT !.buffered_bytes = @ - Len(r.pending[n])], rest)

\* The first held segment leaves the map; what is new of it is delivered.
drain_first(r) ==
  LET n    == Min(DOMAIN r.pending)
      rest == Drop(r.pending[n], SeqDiff(r.next_seq, n))
      r1   == [r EXCEPT !.pending = without(@, n),
                        !.buffered_bytes = @ - Len(r.pending[n])]
  IN IF rest = << >> THEN r1 ELSE deliver(r1, rest)

\* There is a first held segment and no hole in front of it.
drainable(r) == DOMAIN r.pending # {} /\ ~seq_gt(Min(DOMAIN r.pending), r.next_seq)

\* Mutant: only one held segment is released.
mut_drain(r) == IF drainable(r) THEN drain_first(r) ELSE r

\* The loop of drain(): each turn removes one held segment, so it ends after
\* at most as many turns as there are.
drain(r) ==
  LET turns == Cardinality(DOMAIN r.pending)
      after[i \in 0 .. turns] ==
        IF i = 0 THEN r
        ELSE IF drainable(after[i - 1]) THEN drain_first(after[i - 1])
        ELSE after[i - 1]
  IN after[turns]

\* May a segment of this length wait behind the gap?
fits(r, len) == ~saturated(r) /\ r.buffered_bytes + len <= max_buffered

\* Of two copies with the same sequence number the longer one is kept.
hold(r, n, data) ==
  LET held == IF n \in DOMAIN r.pending THEN Len(r.pending[n]) ELSE 0
  IN IF fits(r, Len(data)) /\ Len(data) > held
     THEN [r EXCEPT !.pending = with(@, n, data),
                    !.buffered_bytes = @ + Len(data) - held]
     ELSE r

anchor(r, seq, syn) ==
  IF r.initialized THEN r
  ELSE [r EXCEPT !.initialized = TRUE,
                 !.next_seq = IF syn THEN SeqAdd(seq, 1) ELSE seq]

\* Bytes at the front of a segment that were delivered already.
already(r, seq) == IF seq_lt(seq, r.next_seq) THEN SeqDiff(r.next_seq, seq) ELSE 0

\* Mutant: nothing is taken any more once the prefix is full.
mut_in_order(r, at) == at = r.next_seq /\ ~saturated(r)

in_order(r, at) == at = r.next_seq

\* push() returns the number of new bytes in order: the increase of delivered.
push(r0, seq, data, syn) ==
  LET r    == anchor(r0, seq, syn)
      old  == already(r, seq)
      rest == Drop(data, old)
      at   == SeqAdd(seq, old)
  IN IF rest = << >> THEN r
     ELSE IF in_order(r, at) THEN drain(deliver(r, rest))
     ELSE hold(r, at, rest)
=============================================================================
