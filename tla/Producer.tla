------------------------------- MODULE Producer -------------------------------
(***************************************************************************)
(* The protobuf producer of producer/proto: the records of a decoded       *)
(* NetFlow v5, v9, IPFIX or sFlow datagram become flow messages, field by  *)
(* field, in messages taken from a pool. Beside a message stands the flow  *)
(* the exporter has sent it for, which the code does not see. Times are in *)
(* ticks, the finest digit that is told apart.                             *)
(***************************************************************************)
EXTENDS Integers, Sequences, FiniteSets

CONSTANTS
  Milli,       \* ticks of a millisecond, the unit of uptimes
  Second,      \* ticks of a second, the unit of a header's time of export
  Uptimes,     \* 2^32: the exporter's milliseconds since boot are modulo this
  Epoch,       \* 2208988800: the seconds from 1900, where NTP begins, to 1970
  Era,         \* 2^32: the seconds of NTP are modulo this
  Times,       \* 2^64: the times of a message are modulo this
  MinTime,     \* the exporter's clock is later than this
  MaxTime,     \* bound: and not later than this
  MaxRecords,  \* bound: records of a datagram
  FieldSets,   \* the sets of fields a v9 or IPFIX record may consist of
  SampleSets,  \* the sets of records an sFlow sample may consist of
  Payloads,    \* what the parser may find in a frame: what it sets, and to what
  Origins      \* what a record may be about: family, hosts, ages of both times

AddressFields == {"src4", "dst4", "src6", "dst6"}
SwitchedFields == {"first", "last"}
SecondsFields == {"startSeconds", "endSeconds"}
MillisFields == {"startMillis", "endMillis"}
NTPFields == {"startNTP", "endNTP"}
DeltaFields == {"startDelta", "endDelta"}
TimeFields == SwitchedFields \cup SecondsFields \cup MillisFields \cup NTPFields
              \cup DeltaFields
LabelFields == {"label1", "label2", "label3"}
OtherFields == {"version", "number", "private"}
SampleRecords == {"header", "ipv4", "ipv6", "other"}

RecordFields == AddressFields \cup TimeFields \cup LabelFields \cup OtherFields \cup {"frame"}
Families == {4, 6}
Hosts == {"zero", "host"}

(* Labels of MPLS: 1 to 3 are those the fields of a record may hold, 0 is    *)
(* none, 4 one that was found in a frame.                                    *)
Labels == 0 .. 4
Stacks == Seq(Labels)

ProducerAssumption ==
  /\ Milli \in Nat \ {0} /\ Second \in Nat /\ Milli <= Second
  /\ Uptimes \in Nat \ {0} /\ Epoch \in Nat /\ Era \in Nat /\ Epoch < Era
  /\ Times \in Nat /\ MinTime \in Nat /\ MaxTime \in Nat /\ MaxRecords \in Nat
  \* Nobody exports flows within a second of 1970 or of the year 2554.
  /\ Second + Milli <= MinTime /\ MinTime <= MaxTime /\ MaxTime + Milli < Times
  /\ FieldSets \subseteq SUBSET RecordFields
  /\ SampleSets \subseteq SUBSET SampleRecords
  /\ Payloads \subseteq [sets : SUBSET {"addresses", "etype", "labels"}, family : Families,
                         etype : Families \cup {0}, labels : Stacks]
  \* A flow ends after it has started; both ages are those at the export, and
  \* negative if the header's clocks were read before the flow was seen.
  /\ \A f \in Origins : /\ f.family \in Families /\ f.src \in Hosts /\ f.dst \in Hosts
                        /\ f.start \in Int /\ f.end \in Int /\ f.end <= f.start

VARIABLES
  rpc,    \* "idle", "records" or "fields"
  rpkt,   \* the datagram: kind, time of boot and of export, records left and filled
  todo,  \* the fields of the record that are not converted yet
  sent,  \* the flow the exporter has sent the record for
  fm,    \* the message being filled
  flows  \* the messages of the datagram, with the flows they are of

producerVars == <<rpc, rpkt, todo, sent, fm, flows>>

Address(family, host) == [family |-> family, host |-> host]
NoAddress == Address(0, "none")
FlowMessage(time) == [src |-> NoAddress, dst |-> NoAddress, etype |-> 0,
                  start |-> time, end |-> time, labels |-> <<>>]

NoPacket == [kind |-> "v5", boot |-> MinTime, now |-> MinTime, left |-> 0, filled |-> 0]

(* A flow is remembered with the datagram that tells of it. An all-zero      *)
(* record, of no flow, stands where a v5 header counts more records than the *)
(* datagram holds.                                                           *)
Flow(p, family, src, dst, start, end) ==
  [kind |-> p.kind, boot |-> p.boot, now |-> p.now, family |-> family,
   src |-> src, dst |-> dst, start |-> start, end |-> end, fields |-> {}, real |-> TRUE]
Ghost == [Flow(NoPacket, 4, "zero", "zero", 0, 0) EXCEPT !.real = FALSE]

ProducerInit ==
  /\ rpc = "idle" /\ rpkt = NoPacket /\ todo = {} /\ sent = Ghost
  /\ fm = FlowMessage(0) /\ flows = <<>>

-----------------------------------------------------------------------------
(* The clocks of the exporter as the datagram's header shows them when they  *)
(* are read: the time of export, of which v9 and IPFIX have the seconds      *)
(* only, and the uptime. sFlow has none; its times are those of reception,   *)
(* written when all samples are converted and read by nobody before (here    *)
(* it is received when it is exported).                                      *)
Whole(t, unit) == t \div unit
Base == IF rpkt.kind \in {"v9", "ipfix"} THEN Whole(rpkt.now, Second) * Second ELSE rpkt.now
Uptime(t) == Whole(t - rpkt.boot, Milli) % Uptimes

Produce ==
  /\ rpc = "idle"
  /\ \E kind \in {"v5", "v9", "ipfix", "sflow"}, boot, now \in MinTime .. MaxTime,
        n \in 0 .. MaxRecords, filled \in 0 .. MaxRecords :
       /\ boot <= now /\ filled <= n /\ (kind # "v5" => filled = n)
       /\ rpkt' = [kind |-> kind, boot |-> boot, now |-> now, left |-> n, filled |-> filled]
  /\ rpc' = "records"
  /\ UNCHANGED <<todo, sent, fm, flows>>

(* A new message, or one of the pool, with what the flow it was used for    *)
(* has left in it. The reset overwrites the fields of the flow, not those    *)
(* for the formatter.                                                       *)
Used == [src |-> Address(6, "old"), dst |-> Address(6, "old"), etype |-> 6,
         start |-> 1, end |-> 1, labels |-> <<4, 4, 4, 4>>]
Reset(m) == [m EXCEPT !.src = NoAddress, !.dst = NoAddress, !.etype = 0,
                      !.start = 0, !.end = 0, !.labels = <<>>]
Got == {Reset(m) : m \in {FlowMessage(0), Used}}

ProducerReturn ==
  /\ rpc' = "idle" /\ rpkt' = NoPacket /\ todo' = {} /\ sent' = Ghost
  /\ fm' = FlowMessage(0) /\ flows' = <<>>

Take ==
  /\ rpc = "records" /\ rpkt.left > 0
  /\ rpkt' = [rpkt EXCEPT !.left = @ - 1, !.filled = IF @ = 0 THEN 0 ELSE @ - 1]

(* Flows were seen since boot and less than the wrap of the uptime ago.     *)
Seen ==
  {Flow(rpkt, f.family, f.src, f.dst, rpkt.now - f.start, rpkt.now - f.end) :
     f \in {g \in Origins : /\ g.start <= rpkt.now - rpkt.boot
                           /\ g.start <= (Uptimes - 1) * Milli
                           /\ rpkt.now - g.end <= MaxTime}}

(* NetFlow v5: the whole record at once. Times are differences of uint32.   *)
(* Records has the length of the header's Count, filled of them were read.  *)
Age(t) == (Uptime(rpkt.now) - t) % Uptimes
Converted(m, f, first, last) ==
  [m EXCEPT !.src = Address(4, f.src), !.dst = Address(4, f.dst), !.etype = 4,
            !.start = (Base - Age(first) * Milli) % Times,
            !.end = (Base - Age(last) * Milli) % Times]
ConvertNetFlowLegacyRecord ==
  /\ Take /\ rpkt.kind = "v5"
  /\ \E f \in IF rpkt.filled > 0 THEN {g \in Seen : g.family = 4}
              ELSE {Ghost} :
       LET first == IF f.real THEN Uptime(f.start) ELSE 0
           last == IF f.real THEN Uptime(f.end) ELSE 0
       IN \E m \in Got :
            flows' = Append(flows, [fm |-> Converted(m, f, first, last), flow |-> f])
  /\ UNCHANGED <<rpc, todo, sent, fm>>

(* The other formats: the message has the time of export until the record   *)
(* tells better.                                                            *)
BeginRecord ==
  /\ Take /\ rpkt.kind # "v5"
  /\ \E f \in Seen,
        fields \in IF rpkt.kind = "sflow" THEN SampleSets ELSE FieldSets :
       \* A flow seen after the export has no age.
       /\ fields \cap DeltaFields # {} => f.end <= rpkt.now
       /\ todo' = fields
       /\ sent' = [f EXCEPT !.fields = fields]
  /\ \E m \in Got : fm' = [m EXCEPT !.start = Base, !.end = Base]
  /\ rpc' = "fields"
  /\ UNCHANGED flows
EndOfRecord ==
  /\ rpc = "fields" /\ todo = {}
  /\ flows' = Append(flows, [fm |-> fm, flow |-> sent])
  /\ rpc' = "records"
  /\ UNCHANGED <<rpkt, todo, sent, fm>>

-----------------------------------------------------------------------------
(* Fields come in the order of the exporter's template: in any order.       *)
Field(f) == rpc = "fields" /\ f \in todo /\ todo' = todo \ {f}
Fill(m) == fm' = m /\ UNCHANGED <<rpc, rpkt, sent, flows>>

Family(f) == IF f \in {"src4", "dst4"} THEN 4 ELSE 6
End(f) == IF f \in {"src4", "src6"} THEN "src" ELSE "dst"

(* A record may have fields for both families; that of the other one is all *)
(* zeroes.                                                                  *)
Value(f) == IF Family(f) = sent.family THEN sent[End(f)] ELSE "zero"

(* Mutant: the last address wins.                                           *)
ReplacesAlways(addr, host) == TRUE

(* addrReplaceCheck: zeroes do not replace an address that is there.        *)
Replaces(addr, host) == addr = NoAddress \/ host # "zero"
ConvertAddress ==
  \E f \in AddressFields :
    /\ Field(f)
    /\ IF Replaces(fm[End(f)], Value(f))
       THEN Fill([fm EXCEPT ![End(f)] = Address(Family(f), Value(f)), !.etype = Family(f)])
       ELSE Fill(fm)

FlowTime(f) ==
  IF f \in {"first", "startSeconds", "startMillis", "startNTP", "startDelta"}
  THEN "start" ELSE "end"

(* Mutant: the difference of the uptimes is one of uint32, as it is for v5.  *)
SinceBootWraps(t) == Base - ((Uptime(rpkt.now) - Uptime(t)) % Uptimes) * Milli

(* v9: times are differences of uint64 of what were uptimes of 32 bits.      *)
SinceBoot(t) == Base - (Uptime(rpkt.now) - Uptime(t)) * Milli

(* IPFIX: whole seconds or milliseconds since 1970; seconds since 1900 and a *)
(* fraction, which is in ticks here; or an age, which the exporter takes     *)
(* from the seconds of its header or from its clock.                         *)
ConvertNTPEpoch(seconds, fraction) == (seconds - Epoch) * Second + fraction
FromEpoch(f, t) ==
  CASE f \in SecondsFields -> {Whole(t, Second) * Second}
    [] f \in MillisFields -> {Whole(t, Milli) * Milli}
    [] f \in NTPFields -> {ConvertNTPEpoch((Whole(t, Second) + Epoch) % Era, t % Second)}
    [] f \in DeltaFields -> {Base - (now - t) : now \in {n \in {Base, rpkt.now} : t <= n}}

(* A field that the other version has for a time is none.                    *)
ClockFields(kind) ==
  CASE kind = "v9" -> SwitchedFields
    [] kind = "ipfix" -> TimeFields \ SwitchedFields
    [] OTHER -> {}
ConvertTime ==
  \E f \in TimeFields :
    /\ Field(f)
    /\ IF f \notin ClockFields(rpkt.kind) THEN Fill(fm)
       ELSE LET t == sent[FlowTime(f)] IN
            \E new \in IF rpkt.kind = "v9" THEN {SinceBoot(t)} ELSE FromEpoch(f, t) :
              Fill([fm EXCEPT ![FlowTime(f)] = new % Times])

(* Mutant: the list grows without its labels.                               *)
GrownEmpty(list, n) == IF Len(list) < n THEN [i \in 1 .. n |-> 0] ELSE list

(* MPLS labels have their place in the list, which grows when needed.       *)
Grown(list, n) ==
  [i \in 1 .. (IF Len(list) < n THEN n ELSE Len(list)) |->
     IF i <= Len(list) THEN list[i] ELSE 0]
Place(f) == CASE f = "label1" -> 1 [] f = "label2" -> 2 [] f = "label3" -> 3
ConvertLabel ==
  \E f \in LabelFields :
    /\ Field(f)
    /\ Fill([fm EXCEPT !.labels = [Grown(@, Place(f)) EXCEPT ![Place(f)] = Place(f)]])

(* The version of IP sets the ether type; numbers and private fields touch  *)
(* nothing the properties look at.                                          *)
ConvertOther ==
  \E f \in OtherFields \cup {"other"} :
    /\ Field(f)
    /\ Fill(IF f = "version" THEN [fm EXCEPT !.etype = sent.family] ELSE fm)

(* The parser writes what it finds in a frame over what the message holds:   *)
(* both addresses if it gets to a header of IP, the ether type unless the    *)
(* frame is too short for one, all labels of a stack.                        *)
Parsed(m, p) ==
  [m EXCEPT !.src = IF "addresses" \in p.sets THEN Address(p.family, "frame") ELSE @,
            !.dst = IF "addresses" \in p.sets THEN Address(p.family, "frame") ELSE @,
            !.etype = IF "etype" \in p.sets THEN p.etype ELSE @,
            !.labels = IF "labels" \in p.sets THEN p.labels ELSE @]

(* IPFIX may bring a section of a frame of the flow.                         *)
ConvertFrame ==
  /\ Field("frame")
  /\ IF rpkt.kind = "ipfix" THEN \E p \in Payloads : Fill(Parsed(fm, p)) ELSE Fill(fm)

(* The records of an sFlow sample: the header is parsed, unless it is of no  *)
(* Ethernet; the other two are addresses already.                            *)
Sampled(family) ==
  Fill([fm EXCEPT !.src = Address(family, sent.src),
                  !.dst = Address(family, sent.dst), !.etype = family])
ConvertSample ==
  \/ Field("header") /\ (Fill(fm) \/ \E p \in Payloads : Fill(Parsed(fm, p)))
  \/ Field("ipv4") /\ Sampled(4)
  \/ Field("ipv6") /\ Sampled(6)

(* A number of more than eight bytes, a field or a frame that cannot be      *)
(* mapped: the datagram is given up, the messages made so far are not sent.  *)
BadField ==
  /\ rpc = "fields" /\ todo \cap (RecordFields \cup {"header"}) # {}
  /\ ProducerReturn

(* A sampling rate of fewer bytes than expected, found after all records.   *)
BadSamplingRate ==
  /\ rpc = "records" /\ rpkt.left = 0 /\ rpkt.kind \in {"v9", "ipfix"}
  /\ ProducerReturn

(* All messages are complete, are sent and go back to the pool.             *)
EndOfPacket == rpc = "records" /\ rpkt.left = 0 /\ ProducerReturn

ProducerNext ==
  \/ Produce \/ ConvertNetFlowLegacyRecord
  \/ BeginRecord \/ EndOfRecord
  \/ ConvertAddress \/ ConvertTime \/ ConvertLabel \/ ConvertOther
  \/ ConvertFrame \/ ConvertSample
  \/ BadField \/ BadSamplingRate \/ EndOfPacket

ProducerSpec == ProducerInit /\ [][ProducerNext]_producerVars

-----------------------------------------------------------------------------
Addresses == [family : Families, host : Hosts \cup {"frame"}] \cup {NoAddress}
FlowMessages ==
  [src : Addresses, dst : Addresses, etype : Families \cup {0},
   start : 0 .. Times - 1, end : 0 .. Times - 1, labels : Stacks]
SentFlows ==
  [kind : {"v5", "v9", "ipfix", "sflow"}, boot : MinTime .. MaxTime,
   now : MinTime .. MaxTime, family : Families, src : Hosts, dst : Hosts,
   start : 0 .. MaxTime, end : 0 .. MaxTime,
   fields : SUBSET (RecordFields \cup SampleRecords), real : BOOLEAN]

(* The types of the producer's variables; nothing of a message that the     *)
(* pool gave is left in one that is being filled.                           *)
ProducerTypeOK ==
  /\ rpc \in {"idle", "records", "fields"}
  /\ rpkt \in [kind : {"v5", "v9", "ipfix", "sflow"}, boot : MinTime .. MaxTime,
               now : MinTime .. MaxTime, left : 0 .. MaxRecords, filled : 0 .. MaxRecords]
  /\ rpkt.boot <= rpkt.now /\ rpkt.filled <= rpkt.left
  /\ sent \in SentFlows /\ todo \subseteq RecordFields \cup SampleRecords
  /\ fm \in FlowMessages
  /\ flows \in Seq([fm : FlowMessages, flow : SentFlows])

Done == {flows[i] : i \in DOMAIN flows}

(* The fields a message has one of its times from, and what can be told of a *)
(* time by them: v5 has no flows seen after the header's uptime was read; v9 *)
(* may have, but its uptime may not wrap in between; the seconds of NTP end  *)
(* with its era, in 2036.                                                    *)
Sources(f, fields, at) == {x \in fields \cap ClockFields(f.kind) : FlowTime(x) = at}
Rounds(f, t) == Whole(t - f.boot, Milli) \div Uptimes
Told(f, t, sources) ==
  CASE f.kind = "v5" -> t <= f.now
    [] f.kind = "v9" -> sources # {} /\ Rounds(f, t) = Rounds(f, f.now)
    [] f.kind = "ipfix" ->
         /\ sources # {}
         /\ sources \cap NTPFields # {} => Whole(t, Second) + Epoch < Era
    [] OTHER -> FALSE

(* What the whole units of the header and of the fields may take away.       *)
Slack(f, sources) ==
  CASE f.kind = "v9" -> Second + Milli
    [] sources \cap (SecondsFields \cup DeltaFields) # {} -> Second
    [] OTHER -> Milli

(* A flow's times are those the exporter saw it at, as far as the units of   *)
(* the format go, in whatever order a record tells them: for v5 also if the  *)
(* uptime wraps in between, for v9 also if the flow was seen after the       *)
(* header's uptime was read (producer_nflegacy.go 14-17, producer_nf.go      *)
(* 266-279, 551-621).                                                        *)
FlowTimesAreClose ==
  \A d \in Done, at \in {"start", "end"} :
    LET t == d.flow[at] sources == Sources(d.flow, d.flow.fields, at) IN
    d.flow.real /\ Told(d.flow, t, sources) =>
      t - d.fm[at] < Slack(d.flow, sources) /\ d.fm[at] - t < Milli

(* Whatever the order of the fields, a record with fields for both families  *)
(* is reported with the addresses and the ether type of its own, unless one  *)
(* of its addresses is all zeroes; a section of a frame in the record may    *)
(* put its own in their place, never the zeroes (producer_nf.go 252-264,     *)
(* 390-409, 628-635).                                                        *)
AddressesAreTheFlows ==
  \A d \in Done : (d.flow.src # "zero" /\ d.flow.dst # "zero"
                   /\ AddressFields \subseteq d.flow.fields) =>
    LET framed == {Address(family, "frame") :
                     family \in IF "frame" \in d.flow.fields THEN Families ELSE {}} IN
    /\ d.fm.src \in {Address(d.flow.family, d.flow.src)} \cup framed
    /\ d.fm.dst \in {Address(d.flow.family, d.flow.dst)} \cup framed
    /\ "frame" \notin d.flow.fields => d.fm.etype = d.flow.family

(* Labels are at their depth in the stack in whatever order they come, and   *)
(* nothing is between them, in a record without a frame: the parser writes   *)
(* the stack of a frame over them (producer_nf.go 513-544,                   *)
(* producer_packet.go 524-563).                                              *)
LabelsKeepTheirPlace ==
  \A d \in Done : d.flow.fields \cap {"frame", "header"} = {} =>
    LET there == {Place(f) : f \in LabelFields \cap d.flow.fields} IN
    /\ \A i \in DOMAIN d.fm.labels : d.fm.labels[i] = IF i \in there THEN i ELSE 0
    /\ there \subseteq DOMAIN d.fm.labels
=============================================================================
