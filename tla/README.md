# A TLA+ model of DDoS_Detect

The repository detects sources of DDoS traffic from NetFlow/IPFIX/sFlow: the
collector `goflow2` receives datagrams, decodes them and sends flow records to
Kafka; ClickHouse tables and materialized views (`sql/`) aggregate them by
source address; `alert.py` polls a view and notifies an operator over Telegram.
This directory holds TLA+ modules translated from that code, the TLC instances
that check them, and proofs checked by TLAPS.

    tlc -config MCAlertMonitor.cfg MCAlertMonitor.tla     one run
    tlapm AlertMonitorProofs.tla                          the proofs of one module

## 1. Inventory

| Part | State | Operations | Talks to |
|---|---|---|---|
| Alert monitor, `src/alert.py` | `active_attacks`, `pending_check` | the polling loop | ClickHouse and Telegram over HTTP |
| Tables and views, `src/sql/` | `flow_metrics_10s`, `flow_stats_1m` in parts, merged in the background | insert, merge, expire, query | written from Kafka, read by `alert.py` |
| UDP receiver, `utils/udp.go` | channels `ready`, `q`, `dispatch`; pool of buffers; goroutines | Start, Stop, receive, decode | calls the pipe's DecodeFlow |
| NetFlow pipe, `utils/pipe.go` | template systems by exporter | DecodeFlow | decoder, producer, format, transport |
| Decoders, `decoders/` | the template store | decode | called by the pipe |
| Producer, `producer/proto` | sampling rate systems by host, pool of messages | Produce, Commit | called by the pipe |
| Transports, `transport/file`, `transport/kafka` | open file; Kafka producer and its error channel | Init, Send, Close, reopen on SIGHUP | called by the pipe and by main |
| Main program, `cmd/goflow2/main.go` | lists of receivers and pipes, `collecting` | start, error loops, shutdown | all of the above |
| Error muting, `utils/mute.go` | counter of an interval | Increment | called by the error loops |
| Enricher, metrics, formats, mapping, constants | none that decides anything | | |

What makes each part correct, and what is hard about it:

* **Alert monitor.** An address is watched or notified, never both; alerts and
  end notices alternate; no critical row is passed over; a sustained attack is
  confirmed only by growing persistence; what stopped is forgotten. Hard: calls
  that fail in silence, calls slow enough to use up the silence that ends an
  attack, addresses that change their status or vanish for a cycle, restarts.
* **UDP receiver.** A buffer has one owner; a stopped receiver is quiet and can be
  started again; Stop returns; every datagram is accounted for. Hard: receivers
  keep sending while Stop sends its nil packets into the same queue, Start can
  fail half way, closing goroutines are waited for by nobody.
* **NetFlow pipe.** Data is decoded with its own exporter's templates, and a
  template or sampling rate received is found later. Hard: both caches are read
  and filled in separate lock sections by several workers; a packet that fails
  half way leaves its templates behind.
* **Tables and views.** The view must not overstate traffic, must list what is
  critical and must not list what has stopped. Hard: parts that are not merged yet.
* **Collector.** Nothing is sent after the transport is closed, every error heard is
  logged or counted as muted, shutdown ends whatever the transport does. Hard: error
  loops, Sarama's channels, a SIGHUP and the shutdown meet in any order.
* **Decoders.** Whatever lengths and counts a datagram announces, they stay on the
  boundaries these announce, do no more work than there are bytes, and end. Hard:
  sixteen-bit arithmetic, templates of size zero, sets longer than the datagram.
* **Parser of sampled packets.** Fields come from the outer packet, and ports from the
  one whose addresses are reported. Hard: tunnels, several headers of one kind.
* **Producer.** A message describes the flow it was made of, whatever the order of the
  fields and whatever message of the pool it is put into. Hard: two families in one
  record, a frame among its fields, times in five units against two clocks of which one
  wraps, fields cut out of a packet bit by bit.

`PROJECT.json` lists the hazards, each at its line, with the properties that would show
it going wrong; where the code meets a hazard as coded and nothing promises otherwise, or
where a property excepts it, its note says so.

## 2. Modules

### AlertMonitor, AlertMonitorProofs, MCAlertMonitor (`alert.py`)

The loop is sequential, but each row, each step of the cleanup and each HTTP call
is an action, because time passes in a call, its failure is swallowed, and the
process may be restarted between any two of them.

| Code | Model |
|---|---|
| `get_attacks()` 30-66 | `GetAttacks`: the view's rows, or the empty list after a failure |
| row loop 77-161 | `SkipStaleRow`, `RefreshActive`, `AlertImmediate`, `StartWatch`, `KeepWatching`, `Confirm` |
| cleanup 168-171 | `DropVanishedPending` |
| cleanup 174-186 | `EndAttack`, `KeepActive` |
| `time.sleep` 191 | `Sleep`, `Wake` |
| process death and start 193 | `Restart` |
| `last_seen` | `silence`, the time since then, capped above `EndSilence` |
| the CASE of `sql/06` 40-52 | `Status` |

One unit of time is CHECK_INTERVAL. A view may change arbitrarily from query to
query, so the properties do not depend on how it is computed. `watchedFrom`,
`balance` and `notified` are history variables. `Restart` keeps nothing of the
process; `balance` counts what the present process has sent.

### UDPReceiver, ReceiverSession, UDPReceiverProofs, MCUDPReceiver (`utils/udp.go`)

Each goroutine is a set of actions on its own state: the caller (`Start`, `Listen`,
`ListenFails`, `Listening`, `Stop`, `SendNil`, `FinishStop`), a receiver per socket
(`Read`, `ReadFails`, `Enqueue`, `Quit`, `Drop`: a packet may be dropped whenever the
queue has no free place, even if a worker is about to wait for one), the goroutine that closes its
socket (`CloseSocket`, `CloseLingering`) and a worker (`Receive`, `FinishDecode`).
The channel `dispatch` is a sequence; with capacity 0 `Send` hands the packet to a
waiting worker. `cfg` is the UDPReceiverConfig, chosen in `Init`. A datagram is
the buffer that holds it; `free` is the pool plus unreferenced buffers, since
sync.Pool allocates when it is empty. The assumption on `Buffers` says that
every goroutine and every place of the queue can hold one.

`ReceiverSession` states what a caller may rely on: sessions open and close in
turn, refused calls change nothing, packets are decoded only in a session.
`UDPReceiver` implements it with `session` mapped to the channel `ready`.

### NetFlowPipe, NetFlowPipeProofs, MCNetFlowPipe (`utils/pipe.go`, `producer/proto/proto.go`)

One `DecodeFlow` call per worker, a record `job`. The lookup of the template system
and its creation are two lock sections, hence two actions; likewise for the sampling
rate system; each template flow set and each data flow set is one access to the
system's lock. A system bears the number of the packet it was created for. `learned`,
`rateLearned` and `sure` are history variables: what the packets of an exporter have
taught the collector so far and what a packet can therefore rely on.

### What a worker does with a datagram: MCDecoders

`AutoFlowPipe.DecodeFlow` (pipe.go 226-270) looks at the first bytes and hands the
datagram to one of the parts below. They pass values on and share no state, so
MCDecoders lets a behaviour follow one `part` and leaves the others as they began;
`PathProofs` shows that it is a behaviour of each part and what follows.
In all of them the bytes themselves are left out: what is read is a choice, and the
state is how much is left, where a boundary was announced, and what was done.

* **NetFlowDecode, DecoderProofs** (`decoders/netflow`): a buffer is the number
  of its bytes left. `DecodeMessage` takes the header and its Count or Length,
  `TakeTemplateSet`, `TakeDataSet`, `SkipDataSet` cut a flow set off, `ReadTemplate`,
  `BadTemplate`, `AddTemplates` and `ReadRecord`, `StarvedRecord`, `EndOfDataSet` work
  in it, `EndOfMessage` and `BadFlowSet` return. uint16 arithmetic is modulo `Word`.
* **SFlowDecode, DecoderProofs** (`decoders/sflow`): `SFlowDecodeMessage`,
  `DecodeSample` and `DecodeRecord` each cut off an announced length; `BadSample` and
  `BadRecord` are the error returns.
* **PacketParser, PacketProofs** (`producer_packet.go`): one action per parser of
  a layer, each with the choice of the next one that `NextParser` functions make.
  `flow` names the layer each field was collected from; `customPort` is what the
  configuration has registered for ports.
* **Producer, PathProofs** (`producer_nf.go`, `producer_nflegacy.go`,
  `producer_sf.go`): a record becomes a message field by field, in any order of its
  fields. `sent` is the flow the exporter means, with the clocks of the datagram that
  tells of it, a history variable that the code does not see. The exporter's clock runs in
  ticks; the code sees of it what a header or a field can hold (`Base`, `Uptime`,
  `FromEpoch`): whole seconds, whole milliseconds modulo `Uptimes`, seconds since 1900
  modulo `Era` with a fraction, ages. `ConvertNTPEpoch` and `SinceBoot` are the
  arithmetic of the code on that. `ConvertFrame` (a section of a frame in an IPFIX
  record) and the sampled header of sFlow run the parser on the message: `Parsed`
  writes what a `Payload` holds, over the addresses, the ether type and the labels.
* **CustomFields, PacketProofs** (`config_impl.go`, `reflect.go`, `render.go`,
  `messages.go`): fields that a mapping file takes out of a packet bit by bit. At a
  layer (`MapLayer`) the iterator goes through the entries of the mapping one by one:
  `SkipEntry` those for the other side of the tunnel, `MapCustom` takes the bits
  (`GetBytes`) and appends them as an unknown protobuf field, `MapCustomFails` gives the
  datagram up, `EndOfLayer` returns. `MapUnknown` is what the message is rendered with.
  `ByteBits` and `NumberBytes` stand for the 8 bits of a byte and the 8 bytes of a
  uint64, `Names` and `Types` for the strings of the file.

### Collector, CollectorProofs, BatchMute, FileTransport, KafkaTransport, MCCollector

`Collector` (`cmd/goflow2/main.go`, the workers' `formatSend`) extends a module for each
transport and one for muting. `main` starts the receivers and their error loops, waits
for a signal, and stops everything in its order; a worker takes packets and sends
messages; a loop per receiver and one of the transport log errors through a
`BatchMute`. A receiver is only what `ReceiverSession` promises: after Stop its workers
are off.

`FileTransport` (`transport/file`) has the lock, the goroutine that reopens the file on
SIGHUP, `Send` in its two halves (the writer is copied under the lock and used after
it) and `Close`. `KafkaTransport` (`transport/kafka`) has `Send`, the goroutine that
relays delivery errors, and `Close`; the Sarama producer with its bounded channels is
external and modelled by what the code relies on: it takes messages while there is
room, delivers them or reports an error, and Close waits until it has none left.
`BatchMute` (`utils/mute.go`) is `Increment`, with the passing of its interval a choice.

## 3. What the runs show

| Run | Instance | Shows |
|---|---|---|
| `alert_safety` | 2 addresses, persistence to 4, 3 checks, silence 1, delays to 1, 1 restart | all safety properties of the monitor, and `StoppedAttackIsClosed` under `FairSpec` |
| `alert_lost_message` | 1 address | violation: a lost alert counts as notified (`alert.py:20`) |
| `alert_false_end` | 1 address | violation: failing queries end attacks that go on (`alert.py:173`) |
| `udp_sessions` | 2 workers, 2 sockets, 5 buffers, capacity 0 or 1, blocking or not, 4 datagrams, 2 sessions, 1 fault | ownership, quiet, nil packets, accounting, refinement |
| `udp_liveness` | 2 workers, 1 socket, 4 buffers, 3 datagrams | Stop returns, queued packets are taken, sockets get closed |
| `pipe_workers` | 2 workers, 2 ports of one host, 3 packets | systems stay apart, hold own templates only and settle |
| `pipe_one_worker` | 1 worker, 3 exporters on 2 hosts, 4 packets | what was received is found and applied |
| `pipe_race` | 2 workers, 1 exporter | violation: a received template is lost |
| `decoders` | the five parts, see below | boundaries, bounded work, the end of decoding, the right header, times close to the flow's, own addresses, labels in place, the bits that were asked for |
| `decoders_icmp` | the same | violation: ICMP type and code are never collected (`producer_packet.go:450`) |
| `collector` | 2 receivers with 1 worker each, 2 packets of up to 2 messages, room for 1 message and 1 error, 1 SIGHUP | no message meets a closed transport, errors are accounted for, shutdown ends |
| `collector_reopen` | the same | violation: a reopening that fails leaves a closed file in use (`transport.go:68`) |

**Bounds, and why they are enough.** Rows of different addresses touch different entries
of the dictionaries and meet only in `todo`, `pc` and the passing of time, so two
addresses show every interaction; a persistence of 4 with 3 checks lets a watch
start too high to be confirmed, or just low enough; silence of 1 with delays of 1 lets
one slow call use up the silence of another address. In the receiver two workers and
two sockets give every race over the queue and the nil packets, capacity 1 fills
at once, the second session meets whatever the first left behind. In the pipe the
race needs two workers and two packets, the third observes the loss.

For NetFlow `Word = 64` lies above every datagram of at most 17 bytes behind its
header, as 2^16 lies above a UDP payload, so nothing wraps that does not in the code;
Length 15 is below the IPFIX header's 16 and wraps, 20 and 28 end before or behind the
bytes; set lengths 5, 9, 12 and 18 leave padding, no record, one, or more than the
datagram has; fields have length 0, 2 or a variable one, so that templates of size
zero occur. For sFlow a datagram of 160 bytes holds two samples with records, of 7 not
even a sample header; counts of 3 exceed `MaxCount = 2`, the code's 1000. Frames of 13
bytes end in the Ethernet header, of 74 hold three or four layers; ports 1 and 2 are
registered for Geneve and Teredo in some directions and protocols. The
exporter's clock takes 7 ticks, with 2 to a millisecond and 4 to a second, so that each
unit takes something away; the uptime wraps at 2 ms, hence once or not between a flow and
its export, flows are seen before and after the header's uptime is read, and the era of
NTP ends within the 7 ticks. Each exception in `Told` and each bound in `Slack` is needed:
without it, or with a unit less, TLC finds a flow that is off. Payloads are those of a frame too short
for anything, of one that ends behind its ether type, and of IP with and without a stack
of four labels, one more than a record's fields have places for.
Bytes of 3 bits put every offset and length to 10 over up to three byte borders, and
numbers of 3 bytes make a length of 10 one too many; one mapping has entries for both
sides of a tunnel, one has a destination that is no field. In the collector two
receivers show their order in the shutdown, and one place in each
channel makes every send meet a full one.

`MaxPersist` stands for the 30 minutes of the view's history. `MaxRestarts`,
`MaxDatagrams`, `MaxSessions`, `MaxFaults`, `MaxPackets`, `MaxMessages`, `MaxRecords`,
`MaxTime`, `MaxBytes`, `MaxFields`, `MaxTaken` and `MaxHups` only make runs finite.
The runs of the pipe, the decoders and the collector turn off the deadlock check: after
the last packet workers wait for ever, as they may, and the program of `collector` ends.

**Fairness.** The monitor's loop is one sequential program whose HTTP calls have
timeouts, so `WF(Loop)`; nothing is assumed of queries or of Telegram. In the
receiver every goroutine that can go on does (weak fairness), decodeFunc returns,
and a sender blocked on a channel is eventually served since Go queues them (strong
fairness of `SendNil`). No datagram need arrive, no caller need call. Decoding is
sequential code of one worker: `WF(Decode)`, and no datagram need come. In the collector
every goroutine that can go on does, and Sarama settles each message it took, by
delivery or an error; no signal, SIGHUP or packet need come.

**Findings.**
1. A Telegram failure loses the alert for as long as the attack lasts
   (`alert.py:116`).
2. An outage of the database for a minute announces the end of attacks that go on
   (`alert.py:64`).
3. Two workers that meet at a new exporter lose the templates of the first
   (`pipe.go:153`).
4. `ParsePacket` counts a call before it makes it, and the ICMP parsers collect only
   at count zero: the type and code that `docs/protocols.md:39` lists for sFlow are
   collected of no packet (`producer_packet.go:450`).
5. On SIGHUP the file is closed before the new one is opened; when that fails, the
   driver does not go on with the old file, as the comment says, but with a closed one
   (`transport.go:62`).

## 4. What is proved

Eight modules hold proofs. The assumptions are those on the constants
(`ConstantsAssumption` of `AlertMonitor`, `UDPReceiver` and `NetFlowPipe`,
`DecodeAssumption`, `SFlowAssumption`, `PacketAssumption`, `ProducerAssumption`,
`CollectorAssumption`, `CustomAssumption`, `MappingAssumption`, and `PartsAssumption` of
`MCDecoders`, which collects those of the parts), which the runs evaluate for their
instances; a theorem that needs more says so in its hypotheses. `NumberLemmas` holds what several proofs share: induction and
recursion on numbers, and division.

**AlertMonitorProofs**: for any number of addresses, any thresholds and any
bounds, every safety property of `AlertMonitor` that holds. `ConstantsAssumption` says:
the parameters are naturals, REQUIRED_CHECKS is positive and
`NoRow` is no row. The argument: `TypeOK` is inductive by itself, because it also
says that what is left to visit in the row loop are rows of the cycle and what is
left in the cleanup are open attacks. On top of it each invariant is shown
inductive relative to those before it: `OneBookPerAddress` needs only `TypeOK`;
`AlertsAndEndsPair` needs the second part of `TypeOK` to know that `EndAttack` finds an
open attack; `NoCriticalRowIgnored` uses `OneBookPerAddress` for the cleanup, where
an address seen in the cycle is never ended; `WatchIsUnbroken` and `ChecksAreGrowth`
follow step by step; `ConfirmationNeedsGrowth` is an action property and follows from
`ChecksAreGrowth` in the state before the step. `LateWatchNeverConfirms` derives from
it that a watch that starts too near the most the view can count is never confirmed.

**NetFlowPipeProofs**: for any workers, exporters, template ids and number of
packets, `TypeOK`, `SystemsAreApart`, `OnlyOwnTemplates` and `SystemsSettle`, from
a host for each exporter, at least one exporter and flow
sets of the declared ids. A system is named by the number of the packet it was
created for, so the inductive invariant `IInv` adds what makes that number a new
one: packets in hand have numbers of their own, and a number not used yet, or held
by a call that still searches, is referred to by nothing and its system is empty.
With it, a created system is new, hence shared with nobody and empty, and the three
invariants follow. The steps are first reduced to six shapes (a call starts, looks
up, creates, works, adds a template, ends), so that each invariant has one case per
shape. `CreationsSettle` says exactly when templates can be lost: only while a
creation for the same exporter is under way, the race that `pipe_race` shows.

What the race breaks holds without it. `TemplateRace` says that two workers have both
found no system for one exporter and are about to create one, `RateRace` the same of
the rates of a host. For any number of workers, as long as `TemplateRace` never
happens every template stored is found (`RetrievableWithoutRace`) and no data set is
skipped for want of a template stored before its packet was taken
(`FoundWithoutRace`); without `RateRace` known rates are applied
(`RateAppliedWithoutRace`). `StoreInv` says that who is about to create is right that
there is no system, that who holds one holds the current one, and that an exporter
without a system has sent no template yet; `KeptInv` says the same of rates. Most
behaviours satisfy the hypotheses, and with one worker all do (`OneWorkerKeepsAll`,
the case of the run `pipe_one_worker`). `OwnRates` needs no hypothesis: the rates of a
host are only what the host has sent.

**UDPReceiverProofs**: for any workers, sockets, buffers, queue sizes and numbers of
calls, `TypeOK`, `OneOwner`, `Accounted`, `OneNilPerWorker`, `StoppedIsQuiet`, and
that the receiver implements `ReceiverSession`. `TypeInv` says that a goroutine has a
buffer in hand exactly while it reads, sends or decodes, and that a closed session has
no goroutines. Ownership is a matter of places: a buffer is in one place of the queue
or in one hand, so lemmas on sequences say what appending and removing the first
packet do to the places of a buffer and to the number of nil packets. `NilInv` adds
what makes the counting of nil packets work: none is there outside of Stop, all
workers are on while the session is open, and in Stop there are as many nils, unsent
or queued, as running workers. With it `FinishStop` finds no worker on. The refinement
needs these invariants to show that every step is a step of the session or a stutter;
`ResultFits` gives the result of the call that a step ends.
`StopIsNeverStuck` is the safety half of `StopReturns`: in Stop there is always a nil
packet that can be sent or a worker that can make room for it, every worker still on can
go on, and so can every receiver still running or the goroutine that closes its socket.
ENABLED is out of the provers' reach, so the guards are written out (`NilCanGo`,
`WorkerCanGo`, `ReceiverCanGo`, `CloserCanGo`); TLC confirmed on the instance of the runs
that each implies that an action of that goroutine is enabled.

**DecoderProofs**, NetFlow: for datagrams of any length, any announced lengths and any
templates, a flow set begins where those before it end as announced
(`FlowSetsAreAligned`), and a message that is not given up ends where it says, by its
Count or with the last set that begins before its Length, or with the datagram
(`MessageEndsAtItsLength`). The invariant adds that the positions are within the
datagram and shorter than `Word`, so that nothing wraps but what the code lets wrap.

Types and `FixedRecordsAreWhole` rest on sums over the fields of a template, a function
that recurs over the sequence. The library's induction theorems cannot be used here,
but that the naturals are well-founded can: a set of naturals that holds 0 and the
successor of each member is all of them, since it lacks no least element (`Induction`
of `NumberLemmas`). With this the sum is a natural, bounds each prefix, and is the size
of a record read field by field. `SetInv` then says, for each place the decoder can be at, what is left of set,
record and field. `DecodingProgresses` is the safety half of `DecodeEnds`: every step
leaves less of the message, or closes a set, or leaves less of the set, except for the
records of a template that take no byte (`Endless`); that the code gets to the end of
what falls is left to TLC and fairness. What is decoded is paid for in bytes
(`RecordsCostBytes`): four of the datagram for each flow set, four of the set for each
template, one for each record, unless its template takes none.

**DecoderProofs**, sFlow: types, `SamplesAreAligned` and `WorkIsBoundedByBytes` for any
datagrams, lengths and counts; the invariant adds that nothing is left of a sample when
a datagram begins. `SFlowDecodingProgresses` is the safety half of its end: a step ends the
datagram, or leaves less of it, or leaves a sample, or leaves less of the sample.

**PacketProofs**, the parser: `PortsBelongToAddresses` and `InnerHeadersAreNotCollected`
for frames of any length and any ports registered for Teredo or Geneve. The invariant
describes the order of the layers of a packet in which no tunnel has been noticed yet:
behind the layer whose addresses are reported there is no other, transport follows
addresses, and a second link or address layer comes only behind GRE and a layer that
the comparison of neighbours skips. `WalkEnds` is about the loop of `ParsePacket`
(`producer_packet.go` 409): no frame has more layers than a quarter of its bytes
(`LayersFitTheFrame`), and every step of the walk ends it, runs over the end, or leaves
fewer bytes. The Teredo parser alone consumes nothing; `LayersInv` says that its layer
is paid for by the header of UDP or TCP that leads to it, and keeps the ten bytes in hand
that an Ethernet header, always the first, has more than four: ICMP is collected
from two bytes but counts as eight, past the end of the frame.

**PacketProofs**, the mapping: `RenderedIsTheBits` for bytes of any number of bits,
packets of any length, any mapping files and any bits in a packet, across byte borders
and behind its end (`BitsAreRendered`). `GetBytes`, `DecodeUNumber`, `MapUnknown` and the
reference `BitsNumber` are recursive functions; `Recursion` of `NumberLemmas` shows that
each exists, from the sequences that follow its step up to a number. The argument has
two halves. The bytes that `GetBytes` shifts and masks are numbers of bits
(`ShiftedFully`, `PartOfByte`), a number is made of the parts it is split into
(`NumberParts`), and so `DecodeUNumber` of them is `BitsNumber` (`NumberRead`), for lengths
up to a byte or of whole bytes, which is where the code is right: for every other length
`UnevenLengthsLeaveAGap` says that the number is that of the bits if and only if those
before the last few are all zero. And what is appended
under the index of a name is found under this name alone (`NameAndIndex`, from names that
share no index), behind or in place of what was found before (`MoreUnknown`), so that each
`MapCustom` adds to both sides the same value.

**PathProofs**, the producer: types, `FlowTimesAreClose`, `AddressesAreTheFlows` and
`LabelsKeepTheirPlace` for any units, wraps and eras, any templates, samples and frames and
any number of records. What is claimed of a finished message is generalised to the message
being filled, with the fields converted so far in place of the record's (`Right`).
An address that is there is displaced by no zeroes, only by a frame's, so the
converted ones stay in any order of the fields. The labels are claimed of records without
a frame, for the parser writes the stack of a frame over whatever there is.

The times are those at which the exporter saw the flow, up to what the units take away
(`Slack`): a second of the header and a millisecond of the uptime for v9, a millisecond for
v5, the field's own unit for IPFIX and a second for ages. They rest on lemmas on
remainders: the difference of two readings of a counter is that of what was counted if
both are of one round (`SameRound`, v9), and for less than a round if it wraps itself
(`WrappedDifference`, v5). So the two formats are right in different cases (`Told`): v5
across a wrap of the uptime but for no flow seen after the header's uptime was read, v9 the
other way round; in the excluded case each is 2^32 ms off. IPFIX is right until the 32
bits of NTP's seconds end in 2036. Assumed (`ProducerAssumption`, `Seen`): both times of a
flow lie after boot, it started less than one wrap before the export, a record with ages is
of a flow that ended before the export, and times are more than a second away from 1970
and from the end of 64 bits.

`RecordsBecomeMessages` says that a record is not left out or repeated: the
messages made and the records still to be converted add up to the same number from the
first record to the last (`MessagesDue`), and every step leaves fewer fields of its
record or fewer records.

**PathProofs**, the path: MCDecoders as it is checked, not only its parts.
`PathFollowsItsParts` says that a behaviour of the path is one of the NetFlow decoder, of
the sFlow decoder, of the parser, of the producer and of the mapping, since a step of
one part leaves the variables of the others alone. So every invariant proved of a part
holds on the path (`PathTypes`, and `PathKeepsItsPromises` for all of them in one formula),
and a worker makes progress whichever part it is in (`WorkersMakeProgress`).

**CollectorProofs**: for any number of receivers, workers, packets and messages, no
worker sends once the transport is being closed (`NoSendMeetsClose`) and
`ErrorsAreAccounted`. The invariant says that receivers go off in turn, that the
transport is closed only after all of them, and that a worker that sends to a file
holds its open handle as long as no SIGHUP has come. What workers,
loops and the relay of errors hold in hand is added to it as `GoInv`.

`ShutdownIsNeverStuck` is the safety half of `ShutdownEnds`: whatever main waits
for, a worker of the receiver being stopped, Close of the transport or an error loop, can
go on, or the transport can that it waits for, with full channels, a Kafka producer that
takes no message and a reopening that holds the lock (`main.go` 410-436, `kafka.go`
96-105, 257-271). It assumes `Room > 0` and `ErrorRoom > 0`: Sarama's channels are buffered
unless its ChannelBufferSize is set to 0, and `kafka.go` leaves it alone. As for Stop, the
guards are written out, and TLC confirmed that they imply the actions' ENABLED.

Only model-checked: liveness, since temporal reasoning with fairness and ENABLED is out
of the prover's reach (`StoppedAttackIsClosed`, `StopReturns`, `DecodeEnds`,
`ShutdownEnds` and their like). Their safety halves are proved: each loop has a measure
that falls, each wait somebody who can end it. Every invariant and action property that
the passing runs check, the initial state and steps of the refinement included, is a
theorem.

## 5. Plan

Modelled, checked and proved so far: the alert monitor, the receiver, the pipes, the
decoders, the parser, the producer, the collector and its transports. What is left, by
worth:

1. `FlowTables`: insert blocks of `flow_metrics_10s` and `flow_stats_1m` and what the
   view of `sql/06` reads of them, as far as the statements alone determine it, and
   its composition with `AlertMonitor`: which sustained attacks are confirmed.
2. Mapping destinations that are fields of the message, as a second part of
   `CustomFields`.

## 6. What is not modelled

* ClickHouse itself: when parts are merged, when a TTL is applied and how late a
  dictionary is refreshed decide what the view shows, and none of it is in the
  repository. The monitor is checked for every view there may be. The whitelist is
  constant data, the event log is written by nothing, the queries kept for reference
  are run by nobody.
* Sarama, TLS, SASL and the SCRAM handshake; flags, logging and the HTTP server of
  main.
* Metrics and panic wrappers (counters around calls), the enricher (a filter that
  looks addresses up in GeoIP files), generated code, dashboards and containers.
* What a parser finds in a frame is any payload in `Producer`, and the walk that finds it is
  `PacketParser`; the two are not composed. Of the section of a frame (`producer_nf.go`
  622-637) the counters of bytes and packets are left out, as are all fields copied number
  by number; the floating point of `ConvertNTPEpoch` rounds below a tick. sFlow has no
  times but that of reception. A mapping is taken to write to names of its own.
* Memory allocated for slots an sFlow sample announces; `WorkIsBoundedByBytes` counts those
  that are filled.
* Tables of names and constants, structure declarations, reading of integers, and the
  rendering of values and messages: conversions of data without control.
* Of the parts that are modelled: the error channel of `udp.go`, a send that never
  blocks; `max_pps` and the wording in `alert.py`, and the except clause of its loop,
  which no row of the view can reach; `RemoveTemplate`, `RegisterEtype` and
  `RegisterProto`, which nothing calls; fields of a record that are copied number by
  number, one action without effect; in `CustomFields` destinations that are fields of
  the message; in `PacketParser` other parsers than Teredo and Geneve registered for a
  port.
* `RenderedIsTheBits` says nothing of lengths above a byte that are no whole bytes:
  `GetBytes` moves their last bits to the end of the last byte, as it is modelled, and
  the number read from them is not that of the bits.
