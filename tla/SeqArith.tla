------------------------------ MODULE SeqArith ------------------------------
(***************************************************************************)
(* Serial-number arithmetic on TCP sequence numbers (flow.hpp and the      *)
(* range test of flow_table.cpp).  The code keeps sequence numbers in      *)
(* uint32_t and compares them through the sign of the int32_t difference;  *)
(* here the width is a parameter, so that TLC reaches the wraparound with  *)
(* a handful of numbers.                                                   *)
(***************************************************************************)
EXTENDS Integers

CONSTANT HalfSpace        \* half the sequence space: 2^31 in the program
ASSUME HalfSpaceAssumption == HalfSpace \in Nat \ {0}

SeqSpace == 2 * HalfSpace
SeqNums == 0 .. SeqSpace - 1

\* uint32_t addition and subtraction.
SeqAdd(a, n) == (a + n) % SeqSpace
SeqDiff(a, b) == (a - b) % SeqSpace

\* Mutant: the numbers are compared directly.
mut_seq_lt(a, b) == a < b

\* static_cast<int32_t>(a - b) < 0, <= 0 and > 0: the sign bit is set exactly
\* when the unsigned difference is in the upper half of the space.
seq_lt(a, b) == SeqDiff(a, b) >= HalfSpace
seq_le(a, b) == a = b \/ seq_lt(a, b)
seq_gt(a, b) == a # b /\ ~seq_lt(a, b)

\* Do [a_lo, a_hi) and [b_lo, b_hi) overlap?
ranges_overlap(a_lo, a_hi, b_lo, b_hi) == seq_lt(a_lo, b_hi) /\ seq_lt(b_lo, a_hi)
=============================================================================
