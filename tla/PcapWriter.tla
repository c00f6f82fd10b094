------------------------------ MODULE PcapWriter ------------------------------
(***************************************************************************)
(* PcapWriter: fwrite into a stdio buffer that spills into the file when   *)
(* it likes, a flush every kFlushEvery packets, the process killed at any  *)
(* moment, and a device that may refuse writes. The file is a sequence of  *)
(* units; a record is its header units followed by one unit per stored     *)
(* byte. The sink of main() writes a packet and then decodes it.           *)
(***************************************************************************)
EXTENDS Naturals, Sequences, SequencesExt

CONSTANTS
  Frames,       \* set of [caplen, wirelen]
  snaplen,
  HeaderUnits,  \* units of a record header that may be written apart
  FlushEvery,   \* kFlushEvery, 64 in the code
  MaxPackets,   \* bound: calls of write
  MaxFailures   \* bound: calls that the device refuses

ASSUME WriterAssumption ==
  /\ Frames \subseteq [caplen: Nat, wirelen: Nat] /\ snaplen \in Nat \ {0}
  /\ HeaderUnits \in Nat \ {0} /\ FlushEvery \in Nat \ {0} /\ MaxPackets \in Nat
  /\ MaxFailures \in Nat

VARIABLES
  stream,    \* units accepted by fwrite, in order
  synced,    \* how many of them have reached the file
  packets,   \* packets_
  status,    \* "new", "open", "decoding", "closed", "killed" or "crashed" (in the decoder)
  calls,     \* history: number of calls of write
  written,   \* history: the records written completely
  safe,      \* history: how many of them the last flush before any failure covers
  failures   \* history: calls refused by the device

writer_vars == <<stream, synced, packets, status, calls, written, safe, failures>>

FileHeader == <<"file">>
CutHeader == <<"cut">>     \* an incomplete file header, behind which no record is found

WriterInit ==
  /\ stream = <<>> /\ synced = 0 /\ packets = 0 /\ status = "new"
  /\ calls = 0 /\ written = <<>> /\ safe = 0 /\ failures = 0

file == SubSeq(stream, 1, synced)
write_failed == failures > 0

\* The device refuses a call: it is full, or gone.
refused == failures < MaxFailures /\ failures' = failures + 1

-----------------------------------------------------------------------------

mut_stored_len(frame) == frame.caplen
\* A record never claims more than snaplen bytes.
stored_len(frame) == IF frame.caplen > snaplen THEN snaplen ELSE frame.caplen
claimed_wirelen(frame) ==
  IF frame.wirelen < stored_len(frame) THEN stored_len(frame) ELSE frame.wirelen

mut_record_header(frame) ==
  LET claim == IF frame.wirelen > snaplen THEN snaplen ELSE claimed_wirelen(frame)
  IN [i \in 1..HeaderUnits |-> <<"header", calls + 1, i, claim, claimed_wirelen(frame)>>]
record_header(frame) ==
  [i \in 1..HeaderUnits |-> <<"header", calls + 1, i, stored_len(frame), claimed_wirelen(frame)>>]
record_data(frame) ==
  [i \in 1..stored_len(frame) |-> <<"byte", calls + 1, i>>]
record(frame) == record_header(frame) \o record_data(frame)

mut_flushes(n) == n % FlushEvery = 1 /\ n > 1
flushes(n) == n % FlushEvery = 0

\* fopen fails, or a part of the file header cannot be written and the file is closed
\* with whatever of it has reached the device.
OpenFails ==
  /\ status = "new"
  /\ stream' \in {<<>>, <<CutHeader>>} /\ synced' \in 0..Len(stream')
  /\ status' = "closed" /\ refused
  /\ UNCHANGED <<packets, calls, written, safe>>

Open ==
  /\ status = "new"
  /\ stream' = <<FileHeader>> /\ status' = "open"
  /\ UNCHANGED <<synced, packets, calls, written, safe, failures>>

Write(frame) ==
  /\ status = "open" /\ calls < MaxPackets
  /\ calls' = calls + 1
  /\ stream' = stream \o record(frame)
  /\ written' = Append(written, record(frame))
  /\ packets' = packets + 1
  /\ IF flushes(packets')
       THEN \/ /\ synced' = Len(stream')
               /\ safe' = (IF write_failed THEN safe ELSE Len(written')) /\ UNCHANGED failures
            \/ /\ refused                       \* fflush fails, nobody looks
               /\ synced' \in synced..Len(stream') /\ UNCHANGED safe
       ELSE UNCHANGED <<synced, safe, failures>>
  /\ status' = "decoding"

\* What fwrite leaves behind when the device refuses: buffered units may be gone,
\* and a part of the new ones may have been accepted. The rest of write() is skipped.
WriteFails(frame) ==
  /\ status = "open" /\ calls < MaxPackets
  /\ calls' = calls + 1
  /\ \E kept \in synced..Len(stream), part \in 0..(Len(record(frame)) - 1) :
       stream' = SubSeq(stream, 1, kept) \o SubSeq(record(frame), 1, part)
  /\ refused /\ status' = "decoding"
  /\ UNCHANGED <<synced, packets, written, safe>>

\* Analyzer::consume returns.
Decoded ==
  /\ status = "decoding" /\ status' = "open"
  /\ UNCHANGED <<stream, synced, packets, calls, written, safe, failures>>

\* The stdio buffer is full and goes to the file, up to any unit.
Spill ==
  /\ status \in {"open", "decoding"}
  /\ synced' \in (synced + 1)..Len(stream)
  /\ UNCHANGED <<stream, packets, status, calls, written, safe, failures>>

close_flush == Len(stream)

Close ==
  /\ status = "open" /\ status' = "closed"
  /\ \/ synced' = close_flush /\ UNCHANGED failures
     \/ refused /\ synced' \in synced..Len(stream)
  /\ UNCHANGED <<stream, packets, calls, written, safe>>

\* The process is killed, or the decoder crashes on the frame just written: what is
\* only in the stdio buffer is lost.
Die ==
  /\ \/ status \in {"open", "decoding"} /\ status' = "killed"
     \/ status = "decoding" /\ status' = "crashed"
  /\ stream' = file
  /\ UNCHANGED <<synced, packets, calls, written, safe, failures>>

WriterNext == \/ Open \/ OpenFails \/ Decoded \/ Spill \/ Close \/ Die
              \/ \E frame \in Frames : Write(frame) \/ WriteFails(frame)

WriterSpec == WriterInit /\ [][WriterNext]_writer_vars

-----------------------------------------------------------------------------
\* A reader takes a header, then as many units as the header claims, while they last.
records_from(units) ==
  LET n == Len(units)
      end(i) == i + HeaderUnits + (IF units[i][1] = "header" THEN units[i][4] ELSE 0)
      from[i \in 1..(n + 1)] ==
        IF i > n \/ end(i) > n + 1 THEN <<>> ELSE <<SubSeq(units, i, end(i) - 1)>> \o from[end(i)]
  IN from
\* The file header is the first unit.
read(units) == IF Len(units) = 0 THEN <<>> ELSE records_from(units)[2]

\* The state has its type; packets_ counts the complete records, and every record
\* fits the snap length that the file header announces.
WriterTypeOK ==
  /\ failures \in 0..MaxFailures /\ synced \in 0..Len(stream)
  /\ packets = Len(written) /\ calls \in 0..MaxPackets /\ safe \in 0..Len(written)
  /\ \A i \in 1..Len(stream) : stream[i][1] = "header" => stream[i][4] <= snaplen
  /\ status \in {"new", "open", "decoding", "closed", "killed", "crashed"}

\* Whatever fails later, a reader finds the records that an earlier flush covered,
\* in order; and as long as nothing failed it finds only records that were written.
ReadsBack ==
  /\ IsPrefix(SubSeq(written, 1, safe), read(file))
  /\ ~write_failed => IsPrefix(read(file), written)

\* The writer as PacketLog sees it.
found == Len(read(file))
log_status ==
  CASE status \in {"new", "open", "decoding"} -> "open"
    [] status \in {"killed", "crashed"} -> "killed"
    [] OTHER -> "closed"

Log == INSTANCE PacketLog WITH
  log <- written, readable <- found, damaged <- write_failed, status <- log_status

\* The file promises what PacketLog promises: bounded loss when the process is killed,
\* none when the file is closed.
KeepsLog == Log!Spec

\* pcap_writer.cpp says that a record never claims more bytes than it stores: every
\* record header that a failed write left in the file is followed by its data.
ClaimsWhatItStores ==
  status \in {"open", "closed"} =>
    \A i \in 1..Len(stream) :
      (stream[i][1] = "header" /\ stream[i][3] = HeaderUnits) =>
        /\ i + stream[i][4] <= Len(stream)
        /\ \A k \in 1..stream[i][4] : stream[i + k] = <<"byte", stream[i][2], k>>

\* main.cpp says that the frame on which the decoder crashes is in the file.
CrashLeavesFrame ==
  (status = "crashed" /\ ~write_failed) => read(file) = written

=============================================================================
