----------------------------- MODULE SFlowDecode -----------------------------
(***************************************************************************)
(* The sFlow decoder of decoders/sflow/sflow.go: a datagram holds samples, *)
(* a sample holds records, and each of them announces its length in bytes  *)
(* and how many there are. Nothing obliges these numbers to agree with the *)
(* bytes that are there. A buffer is the number of bytes left in it, and   *)
(* what is read from it may be any value. Names the NetFlow decoder has as *)
(* well stand here with the package's name.                                *)
(***************************************************************************)
EXTENDS Integers

CONSTANTS
  Datagrams,     \* bytes of a datagram after its header
  SampleLengths, \* lengths a sample header may announce
  RecordLengths, \* lengths a record header may announce
  SFlowCounts,   \* numbers of samples and of records announced
  MaxCount       \* the 1000 samples or records the decoder accepts

SFlowAssumption ==
  /\ Datagrams \subseteq Nat /\ SampleLengths \subseteq Nat
  /\ RecordLengths \subseteq Nat /\ SFlowCounts \subseteq Nat /\ MaxCount \in Nat

(* The bytes of a sample before its records: sequence number, source and    *)
(* the fields up to the count.                                              *)
SampleBytes == [flow |-> 32, counter |-> 12, expandedFlow |-> 44,
                expandedCounter |-> 16, drop |-> 32]
SampleFormats == DOMAIN SampleBytes
CounterFormats == {"counter", "expandedCounter"}

(* The fewest bytes of a record's data; the last four of the first group    *)
(* hold an address or lists of a length of their own and may need more.     *)
FlowRecordBytes ==
  [raw |-> 16, ethernet |-> 20, ipv4 |-> 32, ipv6 |-> 56, switch |-> 16,
   queue |-> 4, unknown |-> 0,
   router |-> 16, gateway |-> 32, acl |-> 12, function |-> 4]
CounterRecordBytes == [interface |-> 88, ethernet |-> 52, unknown |-> 0]
Elastic == {"router", "gateway", "acl", "function"}

RecordBytes(format) ==
  IF format \in CounterFormats THEN CounterRecordBytes ELSE FlowRecordBytes

VARIABLES
  spc,  \* where the worker is: "idle", "samples" or "records"
  pkt,  \* the datagram: see Packet
  smp   \* the sample being decoded: see Sample

sflowVars == <<spc, pkt, smp>>

(* count samples are announced and taken have been cut off; start and left  *)
(* are the bytes after the header and those not yet read, sum those of the  *)
(* samples taken as they announce it; records have been decoded in all.     *)
Packet(n, bytes) == [count |-> n, taken |-> 0, start |-> bytes, left |-> bytes,
                     sum |-> 0, records |-> 0]
(* rest bytes are left of the sample, taken of its count slots are filled.  *)
Sample(f, n, bytes) == [format |-> f, count |-> n, taken |-> 0, rest |-> bytes]
NoSample == Sample("flow", 0, 0)

SFlowInit == spc = "idle" /\ pkt = Packet(0, 0) /\ smp = NoSample

(* A datagram whose header can be read and which announces no more than     *)
(* MaxCount samples; any other changes nothing.                             *)
SFlowDecodeMessage ==
  /\ spc = "idle" /\ spc' = "samples"
  /\ \E n \in SFlowCounts, bytes \in Datagrams : n <= MaxCount /\ pkt' = Packet(n, bytes)
  /\ UNCHANGED smp

SFlowReturn == spc' = "idle" /\ pkt' = Packet(0, 0) /\ smp' = NoSample

MoreSamples == spc = "samples" /\ pkt.taken < pkt.count /\ pkt.left >= 8

(* All samples are read, or one announces more bytes than are left: the     *)
(* slots of the samples that are missing stay nil.                          *)
SFlowEndOfMessage ==
  /\ spc = "samples"
  /\ ~MoreSamples \/ \E length \in SampleLengths : length > pkt.left - 8
  /\ SFlowReturn

(* Cut the sample off the datagram and read its header up to the count.     *)
DecodeSample ==
  /\ MoreSamples
  /\ \E length \in SampleLengths, f \in SampleFormats, n \in SFlowCounts :
       /\ length <= pkt.left - 8 /\ length >= SampleBytes[f]
       /\ n <= MaxCount \/ f = "expandedFlow"
       /\ pkt' = [pkt EXCEPT !.taken = @ + 1, !.left = @ - (8 + length),
                             !.sum = @ + 8 + length]
       /\ smp' = Sample(f, n, length - SampleBytes[f])
  /\ spc' = "records"

(* A sample of an unknown format, too short for its own fields or with too  *)
(* many records ends the datagram with an error.                            *)
BadSample == MoreSamples /\ SFlowReturn

SFlowMoreRecords == spc = "records" /\ smp.taken < smp.count /\ smp.rest >= 8

(* Mutant: the header of a record is not counted.                           *)
DecodeRecordForFree ==
  /\ SFlowMoreRecords
  /\ \E length \in RecordLengths :
       /\ length <= smp.rest - 8
       /\ \E t \in DOMAIN RecordBytes(smp.format) : RecordBytes(smp.format)[t] <= length
       /\ smp' = [smp EXCEPT !.taken = @ + 1, !.rest = @ - length]
  /\ pkt' = [pkt EXCEPT !.records = @ + 1]
  /\ UNCHANGED spc

(* A record of the sample fills the next slot.                              *)
DecodeRecord ==
  /\ SFlowMoreRecords
  /\ \E length \in RecordLengths :
       /\ length <= smp.rest - 8
       /\ \E t \in DOMAIN RecordBytes(smp.format) : RecordBytes(smp.format)[t] <= length
       /\ smp' = [smp EXCEPT !.taken = @ + 1, !.rest = @ - (8 + length)]
  /\ pkt' = [pkt EXCEPT !.records = @ + 1]
  /\ UNCHANGED spc

(* Data that is too short for its type or does not fit a length of its own  *)
(* ends the datagram with an error.                                         *)
BadRecord ==
  /\ SFlowMoreRecords
  /\ \E length \in RecordLengths, t \in DOMAIN RecordBytes(smp.format) :
       /\ length <= smp.rest - 8
       /\ RecordBytes(smp.format)[t] > length \/ t \in Elastic
  /\ SFlowReturn

(* Mutant: what is left of a sample is read as the next one.                *)
EndOfSampleAtRest ==
  /\ spc = "records"
  /\ ~SFlowMoreRecords \/ \E length \in RecordLengths : length > smp.rest - 8
  /\ pkt' = [pkt EXCEPT !.left = @ + smp.rest]
  /\ spc' = "samples" /\ smp' = NoSample

(* All records are read, or one announces more bytes than are left: the     *)
(* remaining slots stay empty, and the next sample follows.                 *)
EndOfSample ==
  /\ spc = "records"
  /\ ~SFlowMoreRecords \/ \E length \in RecordLengths : length > smp.rest - 8
  /\ spc' = "samples" /\ smp' = NoSample
  /\ UNCHANGED pkt

SFlowStep ==
  \/ SFlowEndOfMessage \/ DecodeSample \/ BadSample
  \/ DecodeRecord \/ BadRecord \/ EndOfSample

SFlowNext == SFlowDecodeMessage \/ SFlowStep

SFlowSpec == SFlowInit /\ [][SFlowNext]_sflowVars

-----------------------------------------------------------------------------
(* The types of the decoder's variables; no more slots are filled than were *)
(* announced.                                                               *)
SFlowTypeOK ==
  /\ spc \in {"idle", "samples", "records"}
  /\ pkt \in [count : 0 .. MaxCount, taken : Nat, start : Nat, left : Nat,
              sum : Nat, records : Nat]
  /\ smp \in [format : SampleFormats, count : Nat, taken : Nat, rest : Nat]
  /\ pkt.taken <= pkt.count /\ smp.taken <= smp.count

(* Whatever a sample holds, and wherever the decoder stopped in it, the     *)
(* next one is looked for behind its announced length (sflow.go 544-560).   *)
SamplesAreAligned == spc = "samples" => pkt.start - pkt.left = pkt.sum

(* The loops are bounded by the bytes of the datagram and not by the counts *)
(* it announces: each sample and each record costs at least its header, so  *)
(* no more slots are filled than there are bytes for (sflow.go 456, 544).   *)
WorkIsBoundedByBytes == 8 * (pkt.taken + pkt.records) + pkt.left + smp.rest <= pkt.start
=============================================================================
