------------------------------ MODULE PathProofs ------------------------------
(***************************************************************************)
(* Theorems about Producer, and about the path of a datagram from the      *)
(* decoders through the producer to the mapped fields as MCDecoders puts   *)
(* it together, for datagrams, templates, clocks and frames of any size.   *)
(*                                                                         *)
(* What the producer is claimed to make of a record holds of the message   *)
(* being filled, with the fields converted so far in the place of the      *)
(* record's fields.                                                        *)
(*                                                                         *)
(* The parts of the path share no state, so a behaviour of the path is one *)
(* of every part, in which the others' steps are stutters: what is proved  *)
(* of the parts holds on the path.                                         *)
(***************************************************************************)
EXTENDS MCDecoders, DecoderProofs, PacketProofs

(* A time of the flow lies after the boot of the exporter and less than the  *)
(* wrap of its uptime before the export.                                     *)
Recent(f, t) == /\ t \in Int /\ f.boot <= t /\ t <= MaxTime
                /\ f.now - t <= (Uptimes - 1) * Milli

TimeRight(x, f, t, sources) ==
  Told(f, t, sources) => t - x < Slack(f, sources) /\ x - t < Milli
TimesRight(m, f, done) ==
  f.real => \A at \in {"start", "end"} : TimeRight(m[at], f, f[at], Sources(f, done, at))

Own(f, end) == IF f.family = 4 THEN IF end = "src" THEN "src4" ELSE "dst4"
               ELSE IF end = "src" THEN "src6" ELSE "dst6"
Framed(done) ==
  {Address(family, "frame") : family \in IF "frame" \in done THEN Families ELSE {}}

(* Once an address is there, the zeroes of the other family do not replace   *)
(* it; once both are, neither do they change the ether type.                 *)
AddressesRight(m, f, done) ==
  /\ (f.src # "zero" /\ Own(f, "src") \in done) =>
       m.src \in {Address(f.family, f.src)} \cup Framed(done)
  /\ (f.dst # "zero" /\ Own(f, "dst") \in done) =>
       m.dst \in {Address(f.family, f.dst)} \cup Framed(done)
  /\ (/\ f.src # "zero" /\ Own(f, "src") \in done
      /\ f.dst # "zero" /\ Own(f, "dst") \in done
      /\ "frame" \notin done) => m.etype = f.family

Places(done) == {Place(f) : f \in LabelFields \cap done}
LabelsRight(m, done) ==
  done \cap {"frame", "header"} = {} =>
    /\ \A i \in DOMAIN m.labels : m.labels[i] = IF i \in Places(done) THEN i ELSE 0
    /\ Places(done) \subseteq DOMAIN m.labels

Right(m, f, done) ==
  TimesRight(m, f, done) /\ AddressesRight(m, f, done) /\ LabelsRight(m, done)

AllRight == \A i \in DOMAIN flows : Right(flows[i].fm, flows[i].flow, flows[i].flow.fields)

Filling ==
  /\ rpkt.kind # "v5" /\ sent.real /\ todo \subseteq sent.fields
  /\ sent.kind = rpkt.kind /\ sent.boot = rpkt.boot /\ sent.now = rpkt.now
  /\ IF rpkt.kind = "sflow" THEN sent.fields \subseteq SampleRecords
     ELSE sent.fields \subseteq RecordFields
  /\ Recent(sent, sent.start) /\ Recent(sent, sent.end)
  /\ Right(fm, sent, sent.fields \ todo)

ProducerInv ==
  /\ ProducerTypeOK /\ AllRight
  /\ rpc = "idle" => flows = <<>>
  /\ rpc = "fields" => Filling

-----------------------------------------------------------------------------
(* What the three properties say follows from AllRight.                      *)

LEMMA RightIsClose ==
  ASSUME AllRight
  PROVE  FlowTimesAreClose
<1> SUFFICES ASSUME NEW i \in DOMAIN flows, NEW at \in {"start", "end"}, flows[i].flow.real
             PROVE  TimeRight(flows[i].fm[at], flows[i].flow, flows[i].flow[at],
                              Sources(flows[i].flow, flows[i].flow.fields, at))
  BY DEF FlowTimesAreClose, Done, TimeRight
<1> QED
  BY DEF AllRight, Right, TimesRight

LEMMA RightIsTheFlows ==
  ASSUME AllRight
  PROVE  AddressesAreTheFlows
<1> SUFFICES ASSUME NEW i \in DOMAIN flows, flows[i].flow.src # "zero",
                    flows[i].flow.dst # "zero", AddressFields \subseteq flows[i].flow.fields
             PROVE  LET f == flows[i].flow m == flows[i].fm IN
                    /\ m.src \in {Address(f.family, f.src)} \cup Framed(f.fields)
                    /\ m.dst \in {Address(f.family, f.dst)} \cup Framed(f.fields)
                    /\ "frame" \notin f.fields => m.etype = f.family
  BY DEF AddressesAreTheFlows, Done, Framed
<1> DEFINE f == flows[i].flow
<1>1. Own(f, "src") \in f.fields /\ Own(f, "dst") \in f.fields
  BY DEF Own, AddressFields
<1>2. AddressesRight(flows[i].fm, f, f.fields)
  BY DEF AllRight, Right
<1> QED
  BY <1>1, <1>2 DEF AddressesRight

LEMMA RightIsInPlace ==
  ASSUME AllRight
  PROVE  LabelsKeepTheirPlace
<1> SUFFICES ASSUME NEW i \in DOMAIN flows
             PROVE  LabelsRight(flows[i].fm, flows[i].flow.fields)
  BY DEF LabelsKeepTheirPlace, Done, LabelsRight, Places
<1> QED
  BY DEF AllRight, Right

-----------------------------------------------------------------------------
(* The arithmetic of clocks that wrap.                                       *)

LEMMA Remainder ==
  ASSUME NEW U \in Nat \ {0}, NEW a \in Int
  PROVE  /\ a % U \in 0 .. U - 1 /\ a \div U \in Int
         /\ a = U * (a \div U) + (a % U)
  OBVIOUS

LEMMA Small ==
  ASSUME NEW U \in Nat \ {0}, NEW r \in Int, 0 <= r, r < U
  PROVE  r % U = r
  OBVIOUS

LEMMA Negative ==
  ASSUME NEW U \in Nat \ {0}, NEW r \in Int, -U <= r, r < 0
  PROVE  r % U = r + U
  OBVIOUS

\* What is less than the whole of a time.
LEMMA WholeUnits ==
  ASSUME NEW U \in Nat \ {0}, NEW a \in Int
  PROVE  /\ Whole(a, U) \in Int /\ Whole(a, U) * U \in Int
         /\ Whole(a, U) * U <= a /\ a < Whole(a, U) * U + U
<1> DEFINE q == a \div U
           r == a % U
<1>1. r \in 0 .. U - 1 /\ q \in Int /\ a = U * q + r
  BY Remainder
<1>2. Whole(a, U) = q
  BY DEF Whole
<1> HIDE DEF q, r
<1>3. q * U = U * q /\ q * U \in Int
  BY <1>1
<1> QED
  BY <1>1, <1>2, <1>3

\* Two readings of a counter that wraps differ by what was counted, as long as
\* they are of the same round.
LEMMA SameRound ==
  ASSUME NEW U \in Nat \ {0}, NEW a \in Int, NEW b \in Int, a \div U = b \div U
  PROVE  (a % U) - (b % U) = a - b
<1>1. PICK r \in 0 .. U - 1, q \in Int : r = a % U /\ q = a \div U /\ a = U * q + r
  BY Remainder
<1>2. PICK s \in 0 .. U - 1, p \in Int : s = b % U /\ p = b \div U /\ b = U * p + s
  BY Remainder
<1>3. p = q
  BY <1>1, <1>2
<1>4. U * p \in Int /\ U * p = U * q
  BY <1>2, <1>3
<1>5. r - s = a - b
  BY <1>1, <1>2, <1>4
<1> QED
  BY <1>1, <1>2, <1>5

\* The difference of two readings wraps as they do.
LEMMA WrappedDifference ==
  ASSUME NEW U \in Nat \ {0}, NEW a \in Int, NEW b \in Int, b <= a, a - b < U
  PROVE  ((a % U) - (b % U)) % U = a - b
<1>1. PICK r \in 0 .. U - 1, q \in Int : r = a % U /\ a = U * q + r
  BY Remainder
<1>2. PICK s \in 0 .. U - 1, p \in Int : s = b % U /\ b = U * p + s
  BY Remainder
<1>3. a - b = U * (q - p) + (r - s)
  BY <1>1, <1>2
<1>4. CASE q - p >= 2
  <2>1. U * (q - p) >= 2 * U
    BY <1>4
  <2> QED
    BY <1>3, <2>1
<1>5. CASE q - p <= -1
  <2>1. U * (q - p) <= -U
    BY <1>5
  <2> QED
    BY <1>1, <1>2, <1>3, <2>1
<1>6. CASE q - p = 0
  <2>1. U * (q - p) = 0
    BY <1>6
  <2>2. a - b = r - s /\ 0 <= r - s /\ r - s < U
    BY <1>3, <2>1
  <2> QED
    BY <1>1, <1>2, <2>2, Small
<1>7. CASE q - p = 1
  <2>1. U * (q - p) = U
    BY <1>7
  <2>2. a - b = U + (r - s) /\ -U <= r - s /\ r - s < 0
    BY <1>3, <2>1
  <2>3. (r - s) % U = r - s + U
    BY <2>2, Negative
  <2> QED
    BY <1>1, <1>2, <2>2, <2>3
<1> QED
  BY <1>4, <1>5, <1>6, <1>7

LEMMA InTimes ==
  ASSUME ProducerAssumption, NEW a \in Int
  PROVE  a % Times \in 0 .. Times - 1
<1>1. Times \in Nat \ {0}
  BY DEF ProducerAssumption
<1> QED
  BY <1>1, Remainder

\* Times close to that of a flow do not wrap.
LEMMA CloseIsInTimes ==
  ASSUME ProducerAssumption, NEW t \in Int, NEW n \in Int, MinTime <= t, t <= MaxTime,
         t - n < Second + Milli, n - t < Milli
  PROVE  n % Times = n
<1>1. Times \in Nat \ {0} /\ 0 <= n /\ n < Times
  BY DEF ProducerAssumption
<1> QED
  BY <1>1, Small

\* The header's time of export, as far as its units go.
LEMMA BaseIsClose ==
  ASSUME ProducerAssumption, ProducerTypeOK
  PROVE  /\ Base \in Int /\ Base <= rpkt.now /\ rpkt.now - Base < Second
         /\ rpkt.kind \notin {"v9", "ipfix"} => Base = rpkt.now
         /\ Base \in 0 .. Times - 1 /\ rpkt.now \in Int
<1>1. /\ Second \in Nat \ {0} /\ rpkt.now \in Int /\ Second <= rpkt.now
      /\ rpkt.now < Times /\ Times \in Nat
  BY DEF ProducerAssumption, ProducerTypeOK
<1> DEFINE w == Whole(rpkt.now, Second) * Second
<1>2. w \in Int /\ w <= rpkt.now /\ rpkt.now < w + Second
  BY <1>1, WholeUnits
<1>3. Base = IF rpkt.kind \in {"v9", "ipfix"} THEN w ELSE rpkt.now
  BY DEF Base
<1> HIDE DEF w
<1> QED
  BY <1>1, <1>2, <1>3

\* Milliseconds since boot, and what they are as an uptime.
LEMMA UptimeType ==
  ASSUME ProducerAssumption, ProducerTypeOK, NEW t \in Int
  PROVE  /\ Whole(t - rpkt.boot, Milli) \in Int
         /\ Whole(t - rpkt.boot, Milli) * Milli \in Int
         /\ Whole(t - rpkt.boot, Milli) * Milli <= t - rpkt.boot
         /\ t - rpkt.boot < Whole(t - rpkt.boot, Milli) * Milli + Milli
         /\ Uptime(t) = Whole(t - rpkt.boot, Milli) % Uptimes /\ Uptime(t) \in Int
<1>1. Milli \in Nat \ {0} /\ Uptimes \in Nat \ {0} /\ rpkt.boot \in Int
  BY DEF ProducerAssumption, ProducerTypeOK
<1> DEFINE a == t - rpkt.boot
           q == Whole(a, Milli)
<1>2. a \in Int
  BY <1>1
<1> HIDE DEF a
<1>3. q \in Int /\ q * Milli \in Int /\ q * Milli <= a /\ a < q * Milli + Milli
  BY <1>1, <1>2, WholeUnits
<1>4. Uptime(t) = q % Uptimes
  BY DEF Uptime, a
<1> HIDE DEF q
<1>5. q % Uptimes \in Int
  BY <1>1, <1>3, Remainder
<1> QED
  BY <1>3, <1>4, <1>5 DEF a, q

\* The age that v5 takes from the uptimes is that of the flow to a millisecond,
\* for its difference wraps too.
LEMMA AgeIsClose ==
  ASSUME ProducerAssumption, ProducerTypeOK, rpkt.kind = "v5",
         NEW t \in Int, rpkt.boot <= t, t <= rpkt.now, rpkt.now - t <= (Uptimes - 1) * Milli
  PROVE  /\ t - (Base - Age(Uptime(t)) * Milli) < Milli
         /\ (Base - Age(Uptime(t)) * Milli) - t < Milli
         /\ (Base - Age(Uptime(t)) * Milli) % Times = Base - Age(Uptime(t)) * Milli
<1>1. /\ Milli \in Nat \ {0} /\ Uptimes \in Nat \ {0} /\ rpkt.now \in Int
      /\ rpkt.boot \in Int /\ MinTime <= rpkt.boot /\ rpkt.now <= MaxTime
      /\ MinTime \in Int /\ MaxTime \in Int /\ Second \in Nat
  BY DEF ProducerAssumption, ProducerTypeOK
<1> DEFINE a == Whole(rpkt.now - rpkt.boot, Milli)
           b == Whole(t - rpkt.boot, Milli)
<1>2. /\ a \in Int /\ a * Milli \in Int /\ a * Milli <= rpkt.now - rpkt.boot
      /\ rpkt.now - rpkt.boot < a * Milli + Milli /\ Uptime(rpkt.now) = a % Uptimes
  BY <1>1, UptimeType
<1>3. /\ b \in Int /\ b * Milli \in Int /\ b * Milli <= t - rpkt.boot
      /\ t - rpkt.boot < b * Milli + Milli /\ Uptime(t) = b % Uptimes
  BY <1>1, UptimeType
<1> HIDE DEF a, b
<1>4. (a - b) * Milli = a * Milli - b * Milli
  BY <1>1, <1>2, <1>3
<1>5. b <= a
  <2> SUFFICES ASSUME a <= b - 1
               PROVE  FALSE
    BY <1>2, <1>3
  <2>1. a * Milli <= (b - 1) * Milli
    BY <1>1, <1>2, <1>3
  <2>2. (b - 1) * Milli = b * Milli - Milli
    BY <1>1, <1>3
  <2> QED
    BY <1>1, <1>2, <1>3, <2>1, <2>2
<1>6. a - b < Uptimes
  <2> SUFFICES ASSUME a - b >= Uptimes
               PROVE  FALSE
    BY <1>1, <1>2, <1>3
  <2>1. (a - b) * Milli >= Uptimes * Milli
    BY <1>1, <1>2, <1>3
  <2>2. (Uptimes - 1) * Milli = Uptimes * Milli - Milli /\ Uptimes * Milli \in Int
    BY <1>1
  <2> QED
    BY <1>1, <1>2, <1>3, <1>4, <2>1, <2>2
<1>7. Age(Uptime(t)) = a - b
  <2>1. ((a % Uptimes) - (b % Uptimes)) % Uptimes = a - b
    BY <1>1, <1>2, <1>3, <1>5, <1>6, WrappedDifference
  <2>2. Age(Uptime(t)) = (Uptime(rpkt.now) - Uptime(t)) % Uptimes
    BY DEF Age
  <2> QED
    BY <1>2, <1>3, <2>1, <2>2
<1>8. Base = rpkt.now
  BY BaseIsClose
<1> DEFINE n == Base - Age(Uptime(t)) * Milli
<1>9. n = rpkt.now - (a * Milli - b * Milli)
  BY <1>4, <1>7, <1>8
<1> HIDE DEF n
<1>10. n \in Int /\ t - n < Milli /\ n - t < Milli
  BY <1>1, <1>2, <1>3, <1>9
<1>11. n % Times = n
  BY <1>1, <1>10, CloseIsInTimes
<1> QED
  BY <1>10, <1>11 DEF n

\* A v9 time is that of the flow to a second and a millisecond, before and after
\* the uptime of the header.
LEMMA SinceBootIsClose ==
  ASSUME ProducerAssumption, ProducerTypeOK, NEW t \in Int, MinTime <= t, t <= MaxTime,
         Whole(t - rpkt.boot, Milli) \div Uptimes =
           Whole(rpkt.now - rpkt.boot, Milli) \div Uptimes
  PROVE  /\ t - SinceBoot(t) < Second + Milli /\ SinceBoot(t) - t < Milli
         /\ SinceBoot(t) % Times = SinceBoot(t)
<1>1. /\ Milli \in Nat \ {0} /\ Uptimes \in Nat \ {0} /\ rpkt.now \in Int
      /\ rpkt.boot \in Int /\ Second \in Nat
  BY DEF ProducerAssumption, ProducerTypeOK
<1> DEFINE a == Whole(rpkt.now - rpkt.boot, Milli)
           b == Whole(t - rpkt.boot, Milli)
<1>2. /\ a \in Int /\ a * Milli \in Int /\ a * Milli <= rpkt.now - rpkt.boot
      /\ rpkt.now - rpkt.boot < a * Milli + Milli /\ Uptime(rpkt.now) = a % Uptimes
  BY <1>1, UptimeType
<1>3. /\ b \in Int /\ b * Milli \in Int /\ b * Milli <= t - rpkt.boot
      /\ t - rpkt.boot < b * Milli + Milli /\ Uptime(t) = b % Uptimes
  BY UptimeType
<1>4. a \div Uptimes = b \div Uptimes
  OBVIOUS
<1> HIDE DEF a, b
<1>5. Uptime(rpkt.now) - Uptime(t) = a - b
  BY <1>1, <1>2, <1>3, <1>4, SameRound
<1>6. (a - b) * Milli = a * Milli - b * Milli
  BY <1>1, <1>2, <1>3
<1> DEFINE n == SinceBoot(t)
<1>7. n = Base - (a * Milli - b * Milli)
  BY <1>5, <1>6 DEF SinceBoot
<1>8. Base \in Int /\ Base <= rpkt.now /\ rpkt.now - Base < Second
  BY BaseIsClose
<1> HIDE DEF n
<1>9. n \in Int /\ t - n < Second + Milli /\ n - t < Milli
  BY <1>1, <1>2, <1>3, <1>7, <1>8
<1>10. n % Times = n
  BY <1>9, CloseIsInTimes
<1> QED
  BY <1>9, <1>10 DEF n

LEMMA SinceBootType ==
  ASSUME ProducerAssumption, ProducerTypeOK, NEW t \in Int
  PROVE  SinceBoot(t) \in Int
<1>1. Uptime(t) \in Int /\ Uptime(rpkt.now) \in Int /\ Base \in Int /\ Milli \in Int
  BY UptimeType, BaseIsClose DEF ProducerAssumption
<1> QED
  BY <1>1 DEF SinceBoot

\* An IPFIX time is that of the flow to the units of its field and of the header.
LEMMA FromEpochIsClose ==
  ASSUME ProducerAssumption, ProducerTypeOK, NEW t \in Int, MinTime <= t, t <= MaxTime,
         NEW x \in TimeFields \ SwitchedFields, NEW n \in FromEpoch(x, t)
  PROVE  /\ n \in Int
         /\ (x \in NTPFields => Whole(t, Second) + Epoch < Era) =>
              /\ n <= t /\ n % Times = n
              /\ t - n < IF x \in SecondsFields \cup DeltaFields THEN Second ELSE Milli
<1>1. /\ Milli \in Nat \ {0} /\ Second \in Nat \ {0} /\ Milli <= Second
      /\ rpkt.now \in Int /\ Epoch \in Nat /\ Era \in Nat \ {0} /\ 0 <= t
  BY DEF ProducerAssumption, ProducerTypeOK
<1>2. Base \in Int /\ Base <= rpkt.now /\ rpkt.now - Base < Second
  BY BaseIsClose
<1>3. ASSUME n \in Int, n <= t, t - n < Second
      PROVE  n % Times = n
  BY <1>1, <1>3, CloseIsInTimes
<1>4. CASE x \in SecondsFields
  <2>1. n = Whole(t, Second) * Second
    BY <1>4 DEF FromEpoch, SecondsFields, MillisFields, NTPFields, DeltaFields
  <2>2. n \in Int /\ n <= t /\ t - n < Second
    BY <1>1, <2>1, WholeUnits
  <2> QED
    BY <1>3, <1>4, <2>2
<1>5. CASE x \in MillisFields
  <2>1. n = Whole(t, Milli) * Milli
    BY <1>5 DEF FromEpoch, SecondsFields, MillisFields, NTPFields, DeltaFields
  <2>2. n \in Int /\ n <= t /\ t - n < Milli
    BY <1>1, <2>1, WholeUnits
  <2>3. x \notin SecondsFields \cup DeltaFields /\ t - n < Second
    BY <1>1, <1>5, <2>2 DEF SecondsFields, MillisFields, DeltaFields
  <2> QED
    BY <1>3, <2>2, <2>3
<1>6. CASE x \in NTPFields
  <2> DEFINE q == Whole(t, Second)
             s == (q + Epoch) % Era
             r == t % Second
  <2>1. n = ConvertNTPEpoch(s, r)
    BY <1>6 DEF FromEpoch, SecondsFields, MillisFields, NTPFields, DeltaFields
  <2>2. q \in Int /\ 0 <= q /\ r \in Int /\ t = Second * q + r
    <3>1. q = t \div Second
      BY DEF Whole
    <3>2. r \in 0 .. Second - 1 /\ q \in Int /\ t = Second * q + r
      BY <1>1, <3>1, Remainder
    <3> HIDE DEF q, r
    <3>3. ASSUME q <= -1
          PROVE  FALSE
      <4>1. Second * q <= -Second
        BY <1>1, <3>2, <3>3
      <4> QED
        BY <1>1, <3>2, <4>1
    <3> QED
      BY <3>2, <3>3
  <2> HIDE DEF q, r
  <2>3. s \in Int /\ (q + Epoch < Era => s = q + Epoch)
    <3> DEFINE e == q + Epoch
    <3>1. e \in Int /\ 0 <= e
      BY <1>1, <2>2
    <3> HIDE DEF e
    <3>2. e % Era \in Int
      BY <1>1, <3>1, Remainder
    <3>3. e < Era => e % Era = e
      BY <1>1, <3>1, Small
    <3> QED
      BY <3>2, <3>3 DEF e
  <2> HIDE DEF s
  <2>4. n = (s - Epoch) * Second + r
    BY <2>1 DEF ConvertNTPEpoch
  <2>5. n \in Int
    BY <1>1, <2>2, <2>3, <2>4
  <2>6. ASSUME q + Epoch < Era
        PROVE  n = t
    <3>1. s - Epoch = q
      BY <1>1, <2>2, <2>3, <2>6
    <3>2. q * Second = Second * q
      BY <1>1, <2>2
    <3> QED
      BY <2>2, <2>4, <3>1, <3>2
  <2>7. x \notin SecondsFields \cup DeltaFields
    BY <1>6 DEF SecondsFields, NTPFields, DeltaFields
  <2> QED
    BY <1>1, <1>3, <1>6, <2>5, <2>6, <2>7 DEF q
<1>7. CASE x \in DeltaFields
  <2>1. PICK now \in {Base, rpkt.now} : n = Base - (now - t)
    BY <1>7 DEF FromEpoch, SecondsFields, MillisFields, NTPFields, DeltaFields
  <2>2. n \in Int /\ n <= t /\ t - n < Second
    BY <1>1, <1>2, <2>1
  <2> QED
    BY <1>3, <1>7, <2>2
<1> QED
  BY <1>4, <1>5, <1>6, <1>7 DEF TimeFields

-----------------------------------------------------------------------------
(* Types.                                                                    *)

LEMMA MessageType ==
  ASSUME ProducerAssumption, NEW t \in 0 .. Times - 1
  PROVE  /\ FlowMessage(t) \in FlowMessages
         /\ FlowMessage(t).start = t /\ FlowMessage(t).end = t
         /\ FlowMessage(t).labels = <<>>
<1>1. NoAddress \in Addresses
  BY DEF Addresses
<1>2. <<>> \in Stacks
  BY DEF Stacks
<1> QED
  BY <1>1, <1>2 DEF FlowMessage, FlowMessages

\* Whatever was in a message of the pool, the reset has removed it.
LEMMA GotIsNew ==
  ASSUME NEW m \in Got
  PROVE  m = FlowMessage(0)
<1> DEFINE Emptied == [src : {NoAddress}, dst : {NoAddress}, etype : {0},
                       start : {0}, end : {0}, labels : {<<>>}]
<1>1. Reset(FlowMessage(0)) \in Emptied /\ Reset(Used) \in Emptied
  BY DEF Reset, Used, FlowMessage
<1>2. \A x \in Emptied : x = FlowMessage(0)
  BY DEF FlowMessage
<1> QED
  BY <1>1, <1>2 DEF Got

LEMMA GhostType ==
  ASSUME ProducerAssumption
  PROVE  /\ Ghost \in SentFlows /\ ~Ghost.real /\ Ghost.fields = {}
         /\ Ghost.family = 4 /\ Ghost.src = "zero" /\ Ghost.dst = "zero"
<1>1. 0 \in 0 .. MaxTime /\ MinTime \in MinTime .. MaxTime
  BY DEF ProducerAssumption
<1> QED
  BY <1>1 DEF Ghost, Flow, NoPacket, SentFlows, Families, Hosts

LEMMA SeenType ==
  ASSUME ProducerAssumption, ProducerTypeOK, NEW f \in Seen
  PROVE  /\ f \in SentFlows /\ f.real /\ f.fields = {}
         /\ f.kind = rpkt.kind /\ f.boot = rpkt.boot /\ f.now = rpkt.now
         /\ Recent(f, f.start) /\ Recent(f, f.end)
<1>1. PICK g \in Origins :
        /\ g.start <= rpkt.now - rpkt.boot /\ g.start <= (Uptimes - 1) * Milli
        /\ rpkt.now - g.end <= MaxTime
        /\ f = Flow(rpkt, g.family, g.src, g.dst, rpkt.now - g.start, rpkt.now - g.end)
  BY DEF Seen
<1>2. /\ g.family \in Families /\ g.src \in Hosts /\ g.dst \in Hosts
      /\ g.start \in Int /\ g.end \in Int /\ g.end <= g.start
      /\ MaxTime \in Nat /\ MinTime \in Nat
  BY DEF ProducerAssumption
<1>3. /\ rpkt.now \in MinTime .. MaxTime /\ rpkt.boot \in MinTime .. MaxTime
      /\ rpkt.kind \in {"v5", "v9", "ipfix", "sflow"}
  BY DEF ProducerTypeOK
<1> DEFINE w == (Uptimes - 1) * Milli
<1>4. w \in Int /\ g.start <= w
  BY <1>1 DEF ProducerAssumption
<1> HIDE DEF w
<1>5. /\ rpkt.now - g.start \in 0 .. MaxTime /\ rpkt.now - g.end \in 0 .. MaxTime
      /\ rpkt.boot <= rpkt.now - g.start /\ rpkt.boot <= rpkt.now - g.end
      /\ rpkt.now - (rpkt.now - g.start) <= w /\ rpkt.now - (rpkt.now - g.end) <= w
  BY <1>1, <1>2, <1>3, <1>4
<1>6. /\ f.kind = rpkt.kind /\ f.boot = rpkt.boot /\ f.now = rpkt.now
      /\ f.start = rpkt.now - g.start /\ f.end = rpkt.now - g.end
      /\ f.real /\ f.fields = {}
  BY <1>1 DEF Flow
<1>7. f \in SentFlows
  BY <1>1, <1>2, <1>3, <1>5 DEF Flow, SentFlows
<1>8. Recent(f, f.start) /\ Recent(f, f.end)
  BY <1>5, <1>6 DEF Recent, w
<1> QED
  BY <1>6, <1>7, <1>8

\* The list of labels with one more of them.
LEMMA GrownLabels ==
  ASSUME NEW list \in Stacks, NEW p \in 1 .. 3,
         NEW new, new = [Grown(list, p) EXCEPT ![p] = p]
  PROVE  /\ new \in Stacks /\ DOMAIN list \subseteq DOMAIN new
         /\ p \in DOMAIN new /\ new[p] = p
         /\ \A i \in DOMAIN new \ {p} : new[i] = IF i \in DOMAIN list THEN list[i] ELSE 0
<1>1. Len(list) \in Nat /\ DOMAIN list = 1 .. Len(list)
      /\ \A i \in 1 .. Len(list) : list[i] \in Labels
  BY DEF Stacks
<1> DEFINE l == Len(list)
           n == IF l < p THEN p ELSE l
<1>2. n \in Nat /\ l <= n /\ p <= n /\ l \in Nat
  BY <1>1
<1>3. Grown(list, p) = [i \in 1 .. n |-> IF i <= l THEN list[i] ELSE 0]
  BY DEF Grown
<1> HIDE DEF n
<1>4. new = [i \in 1 .. n |-> IF i = p THEN p ELSE IF i <= l THEN list[i] ELSE 0]
  BY <1>3
<1>5. \A i \in 1 .. n : new[i] \in Labels
  BY <1>1, <1>2, <1>4 DEF Labels
<1>6. new \in [1 .. n -> Labels]
  BY <1>4, <1>5
<1>7. new \in Stacks
  BY <1>2, <1>6, SeqDef DEF Stacks
<1> QED
  BY <1>1, <1>2, <1>4, <1>7

\* What the parser may make of a message.
LEMMA ParsedType ==
  ASSUME ProducerAssumption, NEW m \in FlowMessages, NEW p \in Payloads
  PROVE  /\ Parsed(m, p) \in FlowMessages
         /\ Parsed(m, p).start = m.start /\ Parsed(m, p).end = m.end
         /\ Parsed(m, p).src \in {m.src, Address(p.family, "frame")}
         /\ Parsed(m, p).dst \in {m.dst, Address(p.family, "frame")}
         /\ p.family \in Families
<1>1. p \in [sets : SUBSET {"addresses", "etype", "labels"}, family : Families,
             etype : Families \cup {0}, labels : Stacks]
  BY DEF ProducerAssumption
<1>2. Address(p.family, "frame") \in Addresses
  BY <1>1 DEF Address, Addresses
<1> DEFINE src == IF "addresses" \in p.sets THEN Address(p.family, "frame") ELSE m.src
           dst == IF "addresses" \in p.sets THEN Address(p.family, "frame") ELSE m.dst
           etype == IF "etype" \in p.sets THEN p.etype ELSE m.etype
           labels == IF "labels" \in p.sets THEN p.labels ELSE m.labels
<1>3. /\ src \in Addresses /\ dst \in Addresses /\ etype \in Families \cup {0}
      /\ labels \in Stacks
  BY <1>1, <1>2 DEF FlowMessages
<1>4. Parsed(m, p) = [m EXCEPT !.src = src, !.dst = dst, !.etype = etype, !.labels = labels]
  BY DEF Parsed
<1>5. /\ src \in {m.src, Address(p.family, "frame")}
      /\ dst \in {m.dst, Address(p.family, "frame")}
  OBVIOUS
<1> HIDE DEF src, dst, etype, labels
<1>6. Parsed(m, p) \in FlowMessages
  BY <1>3, <1>4 DEF FlowMessages
<1>7. /\ Parsed(m, p).start = m.start /\ Parsed(m, p).end = m.end
      /\ Parsed(m, p).src = src /\ Parsed(m, p).dst = dst
  BY <1>4 DEF FlowMessages
<1> QED
  BY <1>1, <1>5, <1>6, <1>7

-----------------------------------------------------------------------------
(* Steps outside of a record.                                                *)

LEMMA ProducerReturnKeeps ==
  ASSUME ProducerAssumption, ProducerReturn
  PROVE  ProducerInv'
<1>1. /\ 0 \in 0 .. Times - 1 /\ 0 \in 0 .. MaxRecords /\ MinTime \in MinTime .. MaxTime
      /\ MinTime <= MinTime
  BY DEF ProducerAssumption
<1>2. ProducerTypeOK'
  BY <1>1, MessageType, GhostType DEF ProducerReturn, ProducerTypeOK, NoPacket
<1> QED
  BY <1>2 DEF ProducerReturn, ProducerInv, AllRight

LEMMA ProducerInitially ==
  ASSUME ProducerAssumption, ProducerInit
  PROVE  ProducerInv
<1>1. /\ 0 \in 0 .. Times - 1 /\ 0 \in 0 .. MaxRecords /\ MinTime \in MinTime .. MaxTime
      /\ MinTime <= MinTime
  BY DEF ProducerAssumption
<1>2. ProducerTypeOK
  BY <1>1, MessageType, GhostType DEF ProducerInit, ProducerTypeOK, NoPacket
<1> QED
  BY <1>2 DEF ProducerInit, ProducerInv, AllRight

LEMMA ProduceKeeps ==
  ASSUME ProducerAssumption, ProducerInv, Produce
  PROVE  ProducerInv'
<1>1. ProducerTypeOK'
  <2>1. PICK kind \in {"v5", "v9", "ipfix", "sflow"}, boot \in MinTime .. MaxTime,
            now \in MinTime .. MaxTime, n \in 0 .. MaxRecords, filled \in 0 .. MaxRecords :
          /\ boot <= now /\ filled <= n
          /\ rpkt' = [kind |-> kind, boot |-> boot, now |-> now, left |-> n, filled |-> filled]
    BY DEF Produce
  <2> QED
    BY <2>1 DEF Produce, ProducerInv, ProducerTypeOK
<1>2. AllRight'
  BY DEF Produce, ProducerInv, AllRight
<1> QED
  BY <1>1, <1>2 DEF Produce, ProducerInv

LEMMA TakeType ==
  ASSUME ProducerAssumption, ProducerTypeOK, Take
  PROVE  /\ rpkt' \in [kind : {"v5", "v9", "ipfix", "sflow"}, boot : MinTime .. MaxTime,
                        now : MinTime .. MaxTime, left : 0 .. MaxRecords,
                        filled : 0 .. MaxRecords]
         /\ rpkt'.boot <= rpkt'.now /\ rpkt'.filled <= rpkt'.left
         /\ rpkt'.kind = rpkt.kind /\ rpkt'.boot = rpkt.boot /\ rpkt'.now = rpkt.now
<1>1. rpkt \in [kind : {"v5", "v9", "ipfix", "sflow"}, boot : MinTime .. MaxTime,
                now : MinTime .. MaxTime, left : 0 .. MaxRecords, filled : 0 .. MaxRecords]
      /\ rpkt.boot <= rpkt.now /\ rpkt.filled <= rpkt.left /\ MaxRecords \in Nat
  BY DEF ProducerTypeOK, ProducerAssumption
<1> DEFINE n == rpkt.left - 1
           k == IF rpkt.filled = 0 THEN 0 ELSE rpkt.filled - 1
<1>2. n \in 0 .. MaxRecords /\ k \in 0 .. MaxRecords /\ k <= n
  BY <1>1 DEF Take
<1>3. rpkt' = [rpkt EXCEPT !.left = n, !.filled = k]
  BY DEF Take
<1> HIDE DEF n, k
<1> QED
  BY <1>1, <1>2, <1>3

\* One more message of which all that is claimed holds.
LEMMA DoneKept ==
  ASSUME ProducerInv, NEW d, d \in [fm : FlowMessages, flow : SentFlows],
         Right(d.fm, d.flow, d.flow.fields), flows' = Append(flows, d)
  PROVE  AllRight' /\ flows' \in Seq([fm : FlowMessages, flow : SentFlows])
<1> DEFINE D == [fm : FlowMessages, flow : SentFlows]
<1>1. flows \in Seq(D) /\ d \in D
  BY DEF ProducerInv, ProducerTypeOK
<1> HIDE DEF D
<1>2. flows' \in Seq(D)
  BY <1>1
<1>3. \A i \in DOMAIN flows' :
        (i \in DOMAIN flows /\ flows'[i] = flows[i]) \/ flows'[i] = d
  BY <1>1
<1>4. ASSUME NEW i \in DOMAIN flows'
      PROVE  Right(flows'[i].fm, flows'[i].flow, flows'[i].flow.fields)
  BY <1>3 DEF ProducerInv, AllRight
<1> QED
  BY <1>2, <1>4 DEF AllRight, D

\* A v5 record of which the datagram holds all, or one of zeroes.
LEMMA LegacyRecordKeeps ==
  ASSUME ProducerAssumption, ProducerInv, ConvertNetFlowLegacyRecord
  PROVE  ProducerInv'
<1>1. PICK f, m, first, last :
        /\ f \in Seen \cup {Ghost} /\ m \in Got
        /\ first = IF f.real THEN Uptime(f.start) ELSE 0
        /\ last = IF f.real THEN Uptime(f.end) ELSE 0
        /\ f.family = 4
        /\ flows' = Append(flows, [fm |-> Converted(m, f, first, last), flow |-> f])
  BY GhostType DEF ConvertNetFlowLegacyRecord
<1>2. /\ f \in SentFlows /\ f.fields = {}
      /\ f.real => /\ f.kind = rpkt.kind /\ f.boot = rpkt.boot /\ f.now = rpkt.now
                   /\ Recent(f, f.start) /\ Recent(f, f.end)
  BY <1>1, SeenType, GhostType DEF ProducerInv
<1> DEFINE c == Converted(m, f, first, last)
<1>3. /\ rpkt'.kind = rpkt.kind /\ rpkt'.boot = rpkt.boot /\ rpkt'.now = rpkt.now
      /\ rpkt.kind = "v5" /\ ProducerTypeOK
  BY TakeType DEF ConvertNetFlowLegacyRecord, ProducerInv
<1>4. first \in Int /\ last \in Int
  <2>1. f.real => Uptime(f.start) \in Int /\ Uptime(f.end) \in Int
    BY <1>2, <1>3, UptimeType DEF Recent
  <2> QED
    BY <1>1, <2>1
<1>5. Age(first) \in Int /\ Age(last) \in Int
  <2>1. Uptime(rpkt.now) \in Int /\ Uptimes \in Nat \ {0}
    BY <1>3, UptimeType, BaseIsClose DEF ProducerAssumption
  <2> DEFINE a == Uptime(rpkt.now) - first
             b == Uptime(rpkt.now) - last
  <2>2. a \in Int /\ b \in Int
    BY <1>4, <2>1
  <2>3. Age(first) = a % Uptimes /\ Age(last) = b % Uptimes
    BY DEF Age
  <2> HIDE DEF a, b
  <2> QED
    BY <2>1, <2>2, <2>3, Remainder
<1> DEFINE start == Base - Age(first) * Milli
           end == Base - Age(last) * Milli
<1>6. start \in Int /\ end \in Int
  BY <1>3, <1>5, BaseIsClose DEF ProducerAssumption
<1>7. /\ c \in FlowMessages /\ c.labels = <<>>
      /\ c.start = start % Times /\ c.end = end % Times
  <2>1. 0 \in 0 .. Times - 1
    BY DEF ProducerAssumption
  <2>2. FlowMessage(0) \in FlowMessages /\ FlowMessage(0).labels = <<>>
    BY <2>1, MessageType
  <2>3. start % Times \in 0 .. Times - 1 /\ end % Times \in 0 .. Times - 1
    BY <1>6, InTimes
  <2>4. Address(4, f.src) \in Addresses /\ Address(4, f.dst) \in Addresses
    BY <1>2 DEF SentFlows, Address, Addresses, Families
  <2>5. m = FlowMessage(0)
    BY <1>1, GotIsNew
  <2>6. c = [m EXCEPT !.src = Address(4, f.src), !.dst = Address(4, f.dst), !.etype = 4,
                      !.start = start % Times, !.end = end % Times]
    BY DEF Converted
  <2> HIDE DEF start, end, c
  <2> QED
    BY <2>2, <2>3, <2>4, <2>5, <2>6 DEF FlowMessages, Families
<1>8. TimesRight(c, f, f.fields)
  <2> SUFFICES ASSUME f.real
               PROVE  /\ TimeRight(c.start, f, f.start, Sources(f, f.fields, "start"))
                      /\ TimeRight(c.end, f, f.end, Sources(f, f.fields, "end"))
    BY DEF TimesRight
  <2>1. \A s : Sources(f, f.fields, s) = {}
    BY <1>2 DEF Sources
  <2>2. Slack(f, {}) = Milli
    BY <1>2, <1>3 DEF Slack
  <2>3. ASSUME f.start <= rpkt.now
        PROVE  f.start - c.start < Milli /\ c.start - f.start < Milli
    BY <1>1, <1>2, <1>3, <1>7, <2>3, AgeIsClose DEF Recent
  <2>4. ASSUME f.end <= rpkt.now
        PROVE  f.end - c.end < Milli /\ c.end - f.end < Milli
    BY <1>1, <1>2, <1>3, <1>7, <2>4, AgeIsClose DEF Recent
  <2> HIDE DEF c
  <2> QED
    BY <1>2, <1>3, <2>1, <2>2, <2>3, <2>4 DEF TimeRight, Told
<1>9. AddressesRight(c, f, f.fields) /\ LabelsRight(c, f.fields)
  BY <1>2, <1>7 DEF AddressesRight, LabelsRight, Places
<1> DEFINE d == [fm |-> c, flow |-> f]
<1>10. /\ d \in [fm : FlowMessages, flow : SentFlows] /\ Right(d.fm, d.flow, d.flow.fields)
       /\ flows' = Append(flows, d)
  BY <1>1, <1>2, <1>7, <1>8, <1>9 DEF Right
<1> HIDE DEF d
<1>11. AllRight' /\ flows' \in Seq([fm : FlowMessages, flow : SentFlows])
  BY <1>10, DoneKept
<1>12. ProducerTypeOK'
  BY <1>11, TakeType DEF ConvertNetFlowLegacyRecord, ProducerInv, ProducerTypeOK
<1> QED
  BY <1>11, <1>12 DEF ConvertNetFlowLegacyRecord, Take, ProducerInv

\* An unfinished message, of which nothing is claimed yet.
LEMMA BeginRecordKeeps ==
  ASSUME ProducerAssumption, ProducerInv, BeginRecord
  PROVE  ProducerInv'
<1>1. PICK f \in Seen, fields \in IF rpkt.kind = "sflow" THEN SampleSets ELSE FieldSets :
        todo' = fields /\ sent' = [f EXCEPT !.fields = fields]
  BY DEF BeginRecord
<1>2. PICK m \in Got : fm' = [m EXCEPT !.start = Base, !.end = Base]
  BY DEF BeginRecord
<1>3. Base \in 0 .. Times - 1 /\ 0 \in 0 .. Times - 1
  BY BaseIsClose DEF ProducerInv, ProducerAssumption
<1>4. fm' \in FlowMessages /\ fm'.labels = <<>>
  BY ZenonT(40), <1>2, <1>3, GotIsNew, MessageType DEF FlowMessages
<1>5. IF rpkt.kind = "sflow" THEN fields \subseteq SampleRecords
      ELSE fields \subseteq RecordFields
  BY <1>1 DEF ProducerAssumption
<1>6. /\ f \in SentFlows /\ f.real
      /\ f.kind = rpkt.kind /\ f.boot = rpkt.boot /\ f.now = rpkt.now
      /\ Recent(f, f.start) /\ Recent(f, f.end)
  BY SeenType DEF ProducerInv
<1>7. /\ sent' \in SentFlows /\ sent'.real /\ sent'.fields = fields
      /\ sent'.kind = f.kind /\ sent'.boot = f.boot /\ sent'.now = f.now
      /\ sent'.start = f.start /\ sent'.end = f.end
  BY <1>1, <1>5, <1>6 DEF SentFlows
<1>8. /\ rpkt'.kind = rpkt.kind /\ rpkt'.boot = rpkt.boot /\ rpkt'.now = rpkt.now
      /\ rpkt.kind # "v5"
  BY TakeType DEF BeginRecord, ProducerInv
<1>9. Filling'
  <2>1. (sent.fields \ todo)' = {}
    BY <1>1, <1>7
  <2>2. \A at : Sources(sent', {}, at) = {}
    BY DEF Sources
  <2>3. \A t : ~Told(sent', t, {})
    BY <1>6, <1>7, <1>8 DEF Told, SentFlows
  <2>4. TimesRight(fm', sent', {})
    BY <2>2, <2>3 DEF TimesRight, TimeRight
  <2>5. AddressesRight(fm', sent', {}) /\ LabelsRight(fm', {})
    BY <1>4 DEF AddressesRight, LabelsRight, Places
  <2>6. Right(fm, sent, sent.fields \ todo)'
    BY <2>1, <2>4, <2>5 DEF Right
  <2>7. Recent(sent, sent.start)' /\ Recent(sent, sent.end)'
    BY <1>6, <1>7 DEF Recent
  <2> QED
    BY <1>1, <1>5, <1>6, <1>7, <1>8, <2>6, <2>7 DEF Filling
<1>10. AllRight'
  BY DEF BeginRecord, ProducerInv, AllRight
<1>11. ProducerTypeOK'
  BY <1>1, <1>4, <1>5, <1>7, TakeType DEF BeginRecord, ProducerInv, ProducerTypeOK
<1> QED
  BY <1>9, <1>10, <1>11 DEF BeginRecord, ProducerInv

LEMMA EndOfRecordKeeps ==
  ASSUME ProducerAssumption, ProducerInv, EndOfRecord
  PROVE  ProducerInv'
<1> DEFINE d == [fm |-> fm, flow |-> sent]
<1>1. /\ d \in [fm : FlowMessages, flow : SentFlows] /\ Right(d.fm, d.flow, d.flow.fields)
      /\ flows' = Append(flows, d)
  <2>1. sent.fields \ todo = sent.fields
    BY DEF EndOfRecord
  <2> QED
    BY <2>1 DEF EndOfRecord, ProducerInv, Filling, ProducerTypeOK
<1> HIDE DEF d
<1>2. AllRight' /\ flows' \in Seq([fm : FlowMessages, flow : SentFlows])
  BY <1>1, DoneKept
<1>3. ProducerTypeOK'
  BY <1>2 DEF EndOfRecord, ProducerInv, ProducerTypeOK
<1> QED
  BY <1>2, <1>3 DEF EndOfRecord, ProducerInv

-----------------------------------------------------------------------------
(* One field of a record.                                                    *)

LEMMA FieldKeeps ==
  ASSUME ProducerAssumption, ProducerInv, NEW f, NEW m, Field(f), Fill(m), m \in FlowMessages,
         Right(m, sent, (sent.fields \ todo) \cup {f})
  PROVE  ProducerInv'
<1>1. /\ todo' = todo \ {f} /\ f \in todo /\ fm' = m /\ rpc = "fields"
      /\ rpc' = rpc /\ rpkt' = rpkt /\ sent' = sent /\ flows' = flows
  BY DEF Field, Fill
<1>2. Filling
  BY <1>1 DEF ProducerInv
<1>3. (sent.fields \ todo)' = (sent.fields \ todo) \cup {f}
  BY <1>1, <1>2 DEF Filling
<1>4. Filling'
  <2>1. Right(fm, sent, sent.fields \ todo)'
    BY <1>1, <1>3
  <2>2. Recent(sent, sent.start)' /\ Recent(sent, sent.end)'
    BY <1>1, <1>2 DEF Filling, Recent
  <2> QED
    BY <1>1, <1>2, <2>1, <2>2 DEF Filling
<1>5. AllRight'
  BY <1>1 DEF ProducerInv, AllRight
<1>6. ProducerTypeOK'
  BY <1>1 DEF ProducerInv, ProducerTypeOK
<1> QED
  BY <1>1, <1>4, <1>5, <1>6 DEF ProducerInv

\* What a field does not write stays right.
LEMMA OthersKept ==
  ASSUME Filling, NEW f, NEW m
  PROVE  /\ (f \notin ClockFields(rpkt.kind) /\ m.start = fm.start /\ m.end = fm.end) =>
               TimesRight(m, sent, (sent.fields \ todo) \cup {f})
         /\ (f \notin AddressFields \cup {"frame"} /\ m.src = fm.src /\ m.dst = fm.dst
             /\ m.etype \in {fm.etype, sent.family}) =>
               AddressesRight(m, sent, (sent.fields \ todo) \cup {f})
         /\ (f \notin LabelFields /\ m.labels = fm.labels) =>
               LabelsRight(m, (sent.fields \ todo) \cup {f})
<1> DEFINE done == sent.fields \ todo
<1>1. Right(fm, sent, done) /\ sent.kind = rpkt.kind
  BY DEF Filling
<1> HIDE DEF done
<1>2. ASSUME f \notin ClockFields(rpkt.kind), m.start = fm.start, m.end = fm.end
      PROVE  TimesRight(m, sent, done \cup {f})
  <2>1. \A at : Sources(sent, done \cup {f}, at) = Sources(sent, done, at)
    BY <1>1, <1>2 DEF Sources
  <2>2. sent.real =>
          /\ TimeRight(fm.start, sent, sent.start, Sources(sent, done, "start"))
          /\ TimeRight(fm.end, sent, sent.end, Sources(sent, done, "end"))
    BY <1>1 DEF Right, TimesRight
  <2> QED
    BY <1>2, <2>1, <2>2 DEF TimesRight
<1>3. ASSUME f \notin AddressFields \cup {"frame"}, m.src = fm.src, m.dst = fm.dst,
             m.etype \in {fm.etype, sent.family}
      PROVE  AddressesRight(m, sent, done \cup {f})
  <2>1. Own(sent, "src") \in AddressFields /\ Own(sent, "dst") \in AddressFields
    BY DEF Own, AddressFields
  <2>2. Framed(done \cup {f}) = Framed(done)
    BY <1>3 DEF Framed
  <2> QED
    BY <1>1, <1>3, <2>1, <2>2 DEF Right, AddressesRight
<1>4. ASSUME f \notin LabelFields, m.labels = fm.labels
      PROVE  LabelsRight(m, done \cup {f})
  <2>1. Places(done \cup {f}) = Places(done)
    BY <1>4 DEF Places
  <2> QED
    BY <1>1, <1>4, <2>1 DEF Right, LabelsRight
<1> QED
  BY <1>2, <1>3, <1>4 DEF done

LEMMA AddressKeeps ==
  ASSUME ProducerAssumption, ProducerInv, ConvertAddress
  PROVE  ProducerInv'
<1>1. PICK f \in AddressFields :
        /\ Field(f)
        /\ IF Replaces(fm[End(f)], Value(f))
           THEN Fill([fm EXCEPT ![End(f)] = Address(Family(f), Value(f)), !.etype = Family(f)])
           ELSE Fill(fm)
  BY DEF ConvertAddress
<1> DEFINE done == sent.fields \ todo
           a == Address(Family(f), Value(f))
<1>2. Filling /\ fm \in FlowMessages /\ sent \in SentFlows
  BY <1>1 DEF Field, ProducerInv, ProducerTypeOK
<1>3. AddressesRight(fm, sent, done)
  BY <1>2 DEF Filling, Right
<1>4. f \notin ClockFields(rpkt.kind) /\ f \notin LabelFields /\ f # "frame"
  BY DEF AddressFields, LabelFields, ClockFields, TimeFields, SwitchedFields, SecondsFields,
         MillisFields, NTPFields, DeltaFields
<1>5. End(f) \in {"src", "dst"} /\ Family(f) \in Families
  BY DEF End, Family, Families
<1>6. Value(f) \in Hosts /\ a \in Addresses
  BY <1>2, <1>5 DEF Value, SentFlows, Hosts, Address, Addresses
<1>7. (f = Own(sent, "src") \/ f = Own(sent, "dst")) <=> Family(f) = sent.family
  BY <1>2 DEF Own, Family, AddressFields, SentFlows, Families
<1>8. /\ f = Own(sent, "src") => End(f) = "src"
      /\ f = Own(sent, "dst") => End(f) = "dst"
      /\ (End(f) = "src" /\ Family(f) = sent.family) => f = Own(sent, "src")
      /\ (End(f) = "dst" /\ Family(f) = sent.family) => f = Own(sent, "dst")
  BY <1>2 DEF Own, End, Family, AddressFields, SentFlows, Families
<1>9. Framed(done \cup {f}) = Framed(done)
  BY <1>4 DEF Framed
<1> DEFINE fr == Framed(done)
<1>10. NoAddress \notin fr /\ \A host : Address(sent.family, host) # NoAddress
  <2>1. \A family \in Families : \A host : Address(family, host).family # NoAddress.family
    BY DEF NoAddress, Address, Families
  <2>2. \A family \in Families : \A host : Address(family, host) # NoAddress
    BY <2>1
  <2>3. fr \subseteq {Address(family, "frame") : family \in Families}
    BY DEF Framed
  <2> QED
    BY <1>2, <2>2, <2>3 DEF SentFlows
<1>11. /\ (sent.src # "zero" /\ Own(sent, "src") \in done) =>
            fm.src \in {Address(sent.family, sent.src)} \cup fr
       /\ (sent.dst # "zero" /\ Own(sent, "dst") \in done) =>
            fm.dst \in {Address(sent.family, sent.dst)} \cup fr
       /\ (/\ sent.src # "zero" /\ Own(sent, "src") \in done
           /\ sent.dst # "zero" /\ Own(sent, "dst") \in done
           /\ "frame" \notin done) => fm.etype = sent.family
  BY <1>3 DEF AddressesRight
<1> HIDE DEF fr
<1>12. ASSUME NEW m,
              (sent.src # "zero" /\ Own(sent, "src") \in done \cup {f}) =>
                m.src \in {Address(sent.family, sent.src)} \cup fr,
              (sent.dst # "zero" /\ Own(sent, "dst") \in done \cup {f}) =>
                m.dst \in {Address(sent.family, sent.dst)} \cup fr,
              (/\ sent.src # "zero" /\ Own(sent, "src") \in done \cup {f}
               /\ sent.dst # "zero" /\ Own(sent, "dst") \in done \cup {f}
               /\ "frame" \notin done) => m.etype = sent.family
       PROVE  AddressesRight(m, sent, done \cup {f})
  BY <1>4, <1>9, <1>12 DEF AddressesRight, fr
<1>13. CASE ~Replaces(fm[End(f)], Value(f))
  <2>1. Value(f) = "zero"
    BY <1>13 DEF Replaces
  <2>2. AddressesRight(fm, sent, done \cup {f})
    <3>1. CASE Family(f) = sent.family
      <4>1. sent[End(f)] = "zero"
        BY <2>1, <3>1 DEF Value
      <4> QED
        BY <1>5, <1>8, <1>11, <1>12, <4>1
    <3>2. CASE Family(f) # sent.family
      <4>1. f # Own(sent, "src") /\ f # Own(sent, "dst")
        BY <1>7, <3>2
      <4> QED
        BY <1>11, <1>12, <4>1
    <3> QED
      BY <3>1, <3>2
  <2>3. Right(fm, sent, done \cup {f})
    BY <1>2, <1>4, <2>2, OthersKept DEF Right
  <2> QED
    BY <1>1, <1>2, <1>13, <2>3, FieldKeeps
<1>14. CASE Replaces(fm[End(f)], Value(f))
  <2> DEFINE m == [fm EXCEPT ![End(f)] = a, !.etype = Family(f)]
  <2>1. /\ m \in FlowMessages /\ m.start = fm.start /\ m.end = fm.end
        /\ m.labels = fm.labels /\ m.etype = Family(f)
        /\ m.src = IF End(f) = "src" THEN a ELSE fm.src
        /\ m.dst = IF End(f) = "dst" THEN a ELSE fm.dst
    <3>1. CASE End(f) = "src"
      BY <1>2, <1>5, <1>6, <3>1 DEF FlowMessages
    <3>2. CASE End(f) = "dst"
      BY <1>2, <1>5, <1>6, <3>2 DEF FlowMessages
    <3> QED
      BY <1>5, <3>1, <3>2
  <2> HIDE DEF m
  <2>2. AddressesRight(m, sent, done \cup {f})
    <3>1. CASE Family(f) = sent.family
      <4>1. a = Address(sent.family, sent[End(f)])
        BY <3>1 DEF Value
      <4>2. CASE End(f) = "src"
        <5>1. f = Own(sent, "src") /\ m.src = Address(sent.family, sent.src) /\ m.dst = fm.dst
          BY <1>8, <2>1, <3>1, <4>1, <4>2
        <5>2. f # Own(sent, "dst")
          BY <1>8, <4>2
        <5> QED
          BY <1>11, <1>12, <2>1, <3>1, <5>1, <5>2
      <4>3. CASE End(f) = "dst"
        <5>1. f = Own(sent, "dst") /\ m.dst = Address(sent.family, sent.dst) /\ m.src = fm.src
          BY <1>8, <2>1, <3>1, <4>1, <4>3
        <5>2. f # Own(sent, "src")
          BY <1>8, <4>3
        <5> QED
          BY <1>11, <1>12, <2>1, <3>1, <5>1, <5>2
      <4> QED
        BY <1>5, <4>2, <4>3
    <3>2. CASE Family(f) # sent.family
      <4>1. fm[End(f)] = NoAddress
        BY <1>14, <3>2 DEF Replaces, Value
      <4>2. f # Own(sent, "src") /\ f # Own(sent, "dst")
        BY <1>7, <3>2
      <4>3. CASE End(f) = "src"
        <5>1. fm.src = NoAddress /\ m.dst = fm.dst
          BY <2>1, <4>1, <4>3
        <5>2. ~(sent.src # "zero" /\ Own(sent, "src") \in done)
          BY <1>10, <1>11, <5>1
        <5> QED
          BY <1>11, <1>12, <4>2, <5>1, <5>2
      <4>4. CASE End(f) = "dst"
        <5>1. fm.dst = NoAddress /\ m.src = fm.src
          BY <2>1, <4>1, <4>4
        <5>2. ~(sent.dst # "zero" /\ Own(sent, "dst") \in done)
          BY <1>10, <1>11, <5>1
        <5> QED
          BY <1>11, <1>12, <4>2, <5>1, <5>2
      <4> QED
        BY <1>5, <4>3, <4>4
    <3> QED
      BY <3>1, <3>2
  <2>3. Right(m, sent, done \cup {f})
    BY <1>2, <1>4, <2>1, <2>2, OthersKept DEF Right
  <2>4. Fill(m)
    BY <1>1, <1>14 DEF m
  <2> QED
    BY <1>1, <2>1, <2>3, <2>4, FieldKeeps
<1> QED
  BY <1>13, <1>14

\* The value of one field makes its time as right as all fields of the time that
\* have been converted allow to claim.
LEMMA NewTimeIsRight ==
  ASSUME ProducerAssumption, ProducerTypeOK, Filling, NEW at \in {"start", "end"},
         NEW S, S \subseteq ClockFields(rpkt.kind), NEW f \in S,
         NEW new, new \in IF rpkt.kind = "v9" THEN {SinceBoot(sent[at])}
                          ELSE FromEpoch(f, sent[at])
  PROVE  new \in Int /\ TimeRight(new % Times, sent, sent[at], S)
<1> DEFINE t == sent[at]
<1>1. /\ sent.kind = rpkt.kind /\ sent.boot = rpkt.boot /\ sent.now = rpkt.now
      /\ Recent(sent, t)
  BY DEF Filling
<1>2. /\ rpkt.boot \in Int /\ MinTime <= rpkt.boot /\ MinTime \in Nat /\ MaxTime \in Nat
      /\ Milli \in Nat \ {0} /\ Second \in Nat /\ Milli <= Second
  BY DEF ProducerTypeOK, ProducerAssumption
<1>3. t \in Int /\ MinTime <= t /\ t <= MaxTime
  BY <1>1, <1>2 DEF Recent
<1> HIDE DEF t
<1>4. CASE rpkt.kind = "v9"
  <2>1. new = SinceBoot(t)
    BY <1>4 DEF t
  <2>2. new \in Int
    BY <1>3, <2>1, SinceBootType
  <2>3. ASSUME Told(sent, t, S)
        PROVE  t - new < Second + Milli /\ new - t < Milli /\ new % Times = new
    <3>1. Rounds(sent, t) = Rounds(sent, sent.now)
      BY <1>1, <1>4, <2>3 DEF Told
    <3>2. Whole(t - rpkt.boot, Milli) \div Uptimes
            = Whole(rpkt.now - rpkt.boot, Milli) \div Uptimes
      BY <1>1, <3>1 DEF Rounds
    <3> QED
      BY <1>3, <2>1, <3>2, SinceBootIsClose
  <2>4. Slack(sent, S) = Second + Milli
    <3>1. S \cap (SecondsFields \cup DeltaFields) = {}
      BY <1>4 DEF ClockFields, SwitchedFields, SecondsFields, DeltaFields
    <3> QED
      BY <1>1, <1>4, <3>1 DEF Slack
  <2> QED
    BY <2>2, <2>3, <2>4 DEF TimeRight, t
<1>5. CASE rpkt.kind # "v9"
  <2>1. rpkt.kind = "ipfix" /\ f \in TimeFields \ SwitchedFields
    BY <1>5 DEF ClockFields
  <2>2. new \in FromEpoch(f, t)
    BY <1>5 DEF t
  <2>3. /\ new \in Int
        /\ (f \in NTPFields => Whole(t, Second) + Epoch < Era) =>
             /\ new <= t /\ new % Times = new
             /\ t - new < IF f \in SecondsFields \cup DeltaFields THEN Second ELSE Milli
    BY <1>3, <2>1, <2>2, FromEpochIsClose
  <2>4. ASSUME Told(sent, t, S)
        PROVE  f \in NTPFields => Whole(t, Second) + Epoch < Era
    BY <1>1, <2>1, <2>4 DEF Told
  <2>5. /\ Slack(sent, S) \in {Second, Milli}
        /\ f \in SecondsFields \cup DeltaFields => Slack(sent, S) = Second
    BY <1>1, <2>1 DEF Slack
  <2>6. ASSUME Told(sent, t, S)
        PROVE  t - (new % Times) < Slack(sent, S) /\ (new % Times) - t < Milli
    BY <1>2, <1>3, <2>3, <2>4, <2>5, <2>6
  <2> QED
    BY <2>3, <2>6 DEF TimeRight, t
<1> QED
  BY <1>4, <1>5

LEMMA TimeKeeps ==
  ASSUME ProducerAssumption, ProducerInv, ConvertTime
  PROVE  ProducerInv'
<1>1. PICK f \in TimeFields :
        /\ Field(f)
        /\ IF f \notin ClockFields(rpkt.kind) THEN Fill(fm)
           ELSE \E new \in IF rpkt.kind = "v9" THEN {SinceBoot(sent[FlowTime(f)])}
                           ELSE FromEpoch(f, sent[FlowTime(f)]) :
                  Fill([fm EXCEPT ![FlowTime(f)] = new % Times])
  BY DEF ConvertTime
<1> DEFINE done == sent.fields \ todo
           at == FlowTime(f)
<1>2. Filling /\ fm \in FlowMessages /\ ProducerTypeOK
  BY <1>1 DEF Field, ProducerInv, ProducerTypeOK
<1>3. at \in {"start", "end"}
  BY DEF FlowTime
<1>4. f \notin AddressFields \cup {"frame"} /\ f \notin LabelFields
  BY DEF TimeFields, AddressFields, LabelFields, SwitchedFields, SecondsFields, MillisFields,
         NTPFields, DeltaFields
<1>5. CASE f \notin ClockFields(rpkt.kind)
  <2>1. Right(fm, sent, done \cup {f})
    BY <1>2, <1>4, <1>5, OthersKept DEF Right
  <2> QED
    BY <1>1, <1>2, <1>5, <2>1, FieldKeeps
<1>6. CASE f \in ClockFields(rpkt.kind)
  <2>1. PICK new \in IF rpkt.kind = "v9" THEN {SinceBoot(sent[at])} ELSE FromEpoch(f, sent[at]) :
          Fill([fm EXCEPT ![at] = new % Times])
    BY <1>1, <1>6
  <2> DEFINE S == Sources(sent, done \cup {f}, at)
             m == [fm EXCEPT ![at] = new % Times]
  <2>2. sent.kind = rpkt.kind /\ TimesRight(fm, sent, done)
    BY <1>2 DEF Filling, Right
  <2>3. S \subseteq ClockFields(rpkt.kind) /\ f \in S
    BY <1>6, <2>2 DEF Sources
  <2>4. new \in Int /\ TimeRight(new % Times, sent, sent[at], S)
    <3> HIDE DEF S, at
    <3> QED
      BY <1>2, <1>3, <2>1, <2>3, NewTimeIsRight
  <2>5. new % Times \in 0 .. Times - 1
    BY <2>4, InTimes
  <2>6. \A end : end # at => Sources(sent, done \cup {f}, end) = Sources(sent, done, end)
    BY DEF Sources
  <2> DEFINE stamp == new % Times
  <2> HIDE DEF S, stamp
  <2>7. /\ m \in FlowMessages /\ m.src = fm.src /\ m.dst = fm.dst /\ m.etype = fm.etype
        /\ m.labels = fm.labels
        /\ m.start = IF at = "start" THEN stamp ELSE fm.start
        /\ m.end = IF at = "end" THEN stamp ELSE fm.end
    <3>1. m = [fm EXCEPT ![at] = stamp] /\ stamp \in 0 .. Times - 1
      BY <2>5 DEF stamp
    <3>2. CASE at = "start"
      BY <1>2, <3>1, <3>2 DEF FlowMessages
    <3>3. CASE at = "end"
      BY <1>2, <3>1, <3>3 DEF FlowMessages
    <3> QED
      BY <1>3, <3>2, <3>3
  <2> HIDE DEF m
  <2>8. TimesRight(m, sent, done \cup {f})
    <3>1. TimeRight(stamp, sent, sent[at], Sources(sent, done \cup {f}, at))
      BY <2>4 DEF S, stamp
    <3> DEFINE other == IF at = "start" THEN "end" ELSE "start"
    <3>2. m[at] = stamp /\ m[other] = fm[other] /\ other # at /\ other \in {"start", "end"}
      BY <1>3, <2>7
    <3>3. Sources(sent, done \cup {f}, other) = Sources(sent, done, other)
      BY <2>6, <3>2
    <3>4. sent.real => TimeRight(fm[other], sent, sent[other], Sources(sent, done, other))
      BY <2>2, <3>2 DEF TimesRight
    <3>5. \A end \in {"start", "end"} : end = at \/ end = other
      BY <1>3
    <3> HIDE DEF other, at
    <3> QED
      BY <3>1, <3>2, <3>3, <3>4, <3>5 DEF TimesRight
  <2>9. Right(m, sent, done \cup {f})
    BY <1>2, <1>4, <2>7, <2>8, OthersKept DEF Right
  <2>10. Fill(m)
    BY <2>1 DEF m
  <2> QED
    BY <1>1, <2>7, <2>9, <2>10, FieldKeeps
<1> QED
  BY <1>5, <1>6

LEMMA LabelKeeps ==
  ASSUME ProducerAssumption, ProducerInv, ConvertLabel
  PROVE  ProducerInv'
<1>1. PICK f \in LabelFields :
        /\ Field(f)
        /\ Fill([fm EXCEPT !.labels = [Grown(@, Place(f)) EXCEPT ![Place(f)] = Place(f)]])
  BY DEF ConvertLabel
<1> DEFINE done == sent.fields \ todo
           p == Place(f)
           new == [Grown(fm.labels, p) EXCEPT ![p] = p]
           m == [fm EXCEPT !.labels = new]
<1>2. Filling /\ fm \in FlowMessages
  BY <1>1 DEF Field, ProducerInv, ProducerTypeOK
<1>3. LabelsRight(fm, done)
  BY <1>2 DEF Filling, Right
<1>4. p \in 1 .. 3
  BY DEF LabelFields, Place
<1>5. fm.labels \in Stacks
  BY <1>2 DEF FlowMessages
<1>6. Fill(m)
  BY <1>1
<1> HIDE DEF p
<1>7. /\ new \in Stacks /\ DOMAIN fm.labels \subseteq DOMAIN new
      /\ p \in DOMAIN new /\ new[p] = p
      /\ \A i \in DOMAIN new \ {p} :
           new[i] = IF i \in DOMAIN fm.labels THEN fm.labels[i] ELSE 0
  BY <1>4, <1>5, GrownLabels
<1> HIDE DEF new
<1>8. /\ m \in FlowMessages /\ m.src = fm.src /\ m.dst = fm.dst /\ m.etype = fm.etype
      /\ m.start = fm.start /\ m.end = fm.end /\ m.labels = new
  BY <1>2, <1>7 DEF FlowMessages
<1> HIDE DEF m
<1>9. LabelsRight(m, done \cup {f})
  <2> SUFFICES ASSUME done \cap {"frame", "header"} = {}
               PROVE  /\ \A i \in DOMAIN new :
                            new[i] = IF i \in Places(done \cup {f}) THEN i ELSE 0
                      /\ Places(done \cup {f}) \subseteq DOMAIN new
    BY <1>8 DEF LabelsRight
  <2>1. Places(done \cup {f}) = Places(done) \cup {p}
    BY DEF Places, p
  <2> QED
    BY <1>3, <1>7, <2>1 DEF LabelsRight
<1>10. f \notin ClockFields(rpkt.kind) /\ f \notin AddressFields \cup {"frame"}
  BY DEF LabelFields, AddressFields, ClockFields, TimeFields, SwitchedFields, SecondsFields,
         MillisFields, NTPFields, DeltaFields
<1>11. Right(m, sent, done \cup {f})
  BY <1>2, <1>8, <1>9, <1>10, OthersKept DEF Right
<1> QED
  BY <1>1, <1>6, <1>8, <1>11, FieldKeeps

LEMMA OtherKeeps ==
  ASSUME ProducerAssumption, ProducerInv, ConvertOther
  PROVE  ProducerInv'
<1>1. PICK f \in OtherFields \cup {"other"} :
        Field(f) /\ Fill(IF f = "version" THEN [fm EXCEPT !.etype = sent.family] ELSE fm)
  BY DEF ConvertOther
<1> DEFINE m == IF f = "version" THEN [fm EXCEPT !.etype = sent.family] ELSE fm
<1>2. Filling /\ fm \in FlowMessages /\ sent.family \in Families
  BY <1>1 DEF Field, ProducerInv, ProducerTypeOK, SentFlows
<1>3. /\ m \in FlowMessages /\ m.src = fm.src /\ m.dst = fm.dst
      /\ m.etype \in {fm.etype, sent.family}
      /\ m.start = fm.start /\ m.end = fm.end /\ m.labels = fm.labels
  BY <1>2 DEF FlowMessages
<1> HIDE DEF m
<1>4. /\ f \notin ClockFields(rpkt.kind) /\ f \notin AddressFields \cup {"frame"}
      /\ f \notin LabelFields
  BY DEF OtherFields, AddressFields, LabelFields, ClockFields, TimeFields, SwitchedFields,
         SecondsFields, MillisFields, NTPFields, DeltaFields
<1>5. Right(m, sent, (sent.fields \ todo) \cup {f})
  BY <1>2, <1>3, <1>4, OthersKept DEF Right
<1>6. Fill(m)
  BY <1>1 DEF m
<1> QED
  BY <1>1, <1>3, <1>5, <1>6, FieldKeeps

\* What the parser finds in the section of a frame: its own addresses, and a
\* stack of which nothing is claimed.
LEMMA FrameKeeps ==
  ASSUME ProducerAssumption, ProducerInv, ConvertFrame
  PROVE  ProducerInv'
<1> DEFINE done == sent.fields \ todo
<1>1. Field("frame") /\ Filling /\ fm \in FlowMessages
  BY DEF ConvertFrame, Field, ProducerInv, ProducerTypeOK
<1>2. PICK m \in FlowMessages :
        /\ Fill(m) /\ m.start = fm.start /\ m.end = fm.end
        /\ m.src \in {fm.src} \cup Framed({"frame"}) /\ m.dst \in {fm.dst} \cup Framed({"frame"})
  <2>1. CASE Fill(fm)
    BY <1>1, <2>1
  <2>2. CASE \E p \in Payloads : Fill(Parsed(fm, p))
    <3>1. PICK p \in Payloads : Fill(Parsed(fm, p))
      BY <2>2
    <3>2. \A family \in Families : Address(family, "frame") \in Framed({"frame"})
      BY DEF Framed
    <3> QED
      BY <1>1, <3>1, <3>2, ParsedType
  <2> QED
    BY <2>1, <2>2 DEF ConvertFrame
<1>3. TimesRight(m, sent, done \cup {"frame"})
  <2>1. "frame" \notin ClockFields(rpkt.kind)
    BY DEF ClockFields, TimeFields, SwitchedFields, SecondsFields, MillisFields, NTPFields,
           DeltaFields
  <2> QED
    BY <1>1, <1>2, <2>1, OthersKept
<1>4. AddressesRight(m, sent, done \cup {"frame"})
  <2>1. AddressesRight(fm, sent, done)
    BY <1>1 DEF Filling, Right
  <2>2. Own(sent, "src") # "frame" /\ Own(sent, "dst") # "frame"
    BY DEF Own
  <2>3. /\ Framed(done) \subseteq Framed(done \cup {"frame"})
        /\ Framed({"frame"}) = Framed(done \cup {"frame"})
    BY DEF Framed
  <2> QED
    BY <1>2, <2>1, <2>2, <2>3 DEF AddressesRight
<1>5. LabelsRight(m, done \cup {"frame"})
  BY DEF LabelsRight
<1>6. Right(m, sent, done \cup {"frame"})
  BY <1>3, <1>4, <1>5 DEF Right
<1> QED
  BY <1>1, <1>2, <1>6, FieldKeeps

\* Nothing is claimed of the times and the addresses of sampled packets, and
\* nothing of their labels once a header is parsed.
LEMMA SampleKeeps ==
  ASSUME ProducerAssumption, ProducerInv, ConvertSample
  PROVE  ProducerInv'
<1>1. PICK f \in {"header", "ipv4", "ipv6"} :
        /\ Field(f)
        /\ \/ f = "header" /\ (Fill(fm) \/ \E p \in Payloads : Fill(Parsed(fm, p)))
           \/ f # "header" /\ \E family \in Families : Sampled(family)
  BY DEF ConvertSample, Families
<1>2. Filling /\ fm \in FlowMessages /\ sent \in SentFlows
  BY <1>1 DEF Field, ProducerInv, ProducerTypeOK
<1>3. PICK m \in FlowMessages : Fill(m) /\ (f # "header" => m.labels = fm.labels)
  <2>1. CASE \E family \in Families : Sampled(family)
    <3>1. PICK family \in Families : Sampled(family)
      BY <2>1
    <3> DEFINE m == [fm EXCEPT !.src = Address(family, sent.src),
                               !.dst = Address(family, sent.dst), !.etype = family]
    <3>2. Address(family, sent.src) \in Addresses /\ Address(family, sent.dst) \in Addresses
      BY <1>2 DEF SentFlows, Address, Addresses
    <3>3. m \in FlowMessages /\ m.labels = fm.labels
      BY <1>2, <3>2 DEF FlowMessages
    <3>4. Fill(m)
      BY <3>1 DEF Sampled
    <3> HIDE DEF m
    <3> QED
      BY <3>3, <3>4
  <2>2. CASE f = "header" /\ \E p \in Payloads : Fill(Parsed(fm, p))
    BY <1>2, <2>2, ParsedType
  <2>3. CASE f = "header" /\ Fill(fm)
    BY <1>2, <2>3
  <2> QED
    BY <1>1, <2>1, <2>2, <2>3
<1> DEFINE done == sent.fields \ todo
<1>4. rpkt.kind = "sflow" /\ sent.kind = "sflow" /\ done \cup {f} \subseteq SampleRecords
  <2>1. f \in sent.fields /\ f \notin RecordFields
    BY <1>1, <1>2 DEF Field, Filling, RecordFields, AddressFields, TimeFields, LabelFields,
                      OtherFields, SwitchedFields, SecondsFields, MillisFields, NTPFields,
                      DeltaFields
  <2> QED
    BY <1>2, <2>1 DEF Filling
<1>5. TimesRight(m, sent, done \cup {f})
  BY <1>4 DEF TimesRight, TimeRight, Told
<1>6. AddressesRight(m, sent, done \cup {f})
  <2>1. Own(sent, "src") \notin SampleRecords /\ Own(sent, "dst") \notin SampleRecords
    BY DEF Own, SampleRecords
  <2> QED
    BY <1>4, <2>1 DEF AddressesRight
<1>7. LabelsRight(m, done \cup {f})
  <2>1. CASE f = "header"
    BY <2>1 DEF LabelsRight
  <2>2. CASE f # "header"
    BY <1>2, <1>3, <2>2, OthersKept DEF LabelFields
  <2> QED
    BY <2>1, <2>2
<1> QED
  BY <1>1, <1>3, <1>5, <1>6, <1>7, FieldKeeps DEF Right

-----------------------------------------------------------------------------
LEMMA StutterKeeps ==
  ASSUME ProducerInv, UNCHANGED producerVars
  PROVE  ProducerInv'
<1>1. /\ rpc' = rpc /\ rpkt' = rpkt /\ todo' = todo /\ sent' = sent /\ fm' = fm
      /\ flows' = flows
  BY DEF producerVars
<1>2. AllRight'
  BY <1>1 DEF ProducerInv, AllRight
<1>3. Filling => Filling'
  BY <1>1 DEF Filling, Recent
<1>4. ProducerTypeOK'
  BY <1>1 DEF ProducerInv, ProducerTypeOK
<1> QED
  BY <1>1, <1>2, <1>3, <1>4 DEF ProducerInv

LEMMA ProducerInductive ==
  ASSUME ProducerAssumption, ProducerInv, [ProducerNext]_producerVars
  PROVE  ProducerInv'
<1>1. CASE Produce
  BY <1>1, ProduceKeeps
<1>2. CASE ConvertNetFlowLegacyRecord
  BY <1>2, LegacyRecordKeeps
<1>3. CASE BeginRecord
  BY <1>3, BeginRecordKeeps
<1>4. CASE EndOfRecord
  BY <1>4, EndOfRecordKeeps
<1>5. CASE ConvertAddress
  BY <1>5, AddressKeeps
<1>6. CASE ConvertTime
  BY <1>6, TimeKeeps
<1>7. CASE ConvertLabel
  BY <1>7, LabelKeeps
<1>8. CASE ConvertOther
  BY <1>8, OtherKeeps
<1>9. CASE ConvertSample
  BY <1>9, SampleKeeps
<1>10. CASE ConvertFrame
  BY <1>10, FrameKeeps
<1>11. CASE BadField \/ BadSamplingRate \/ EndOfPacket
  BY <1>11, ProducerReturnKeeps DEF BadField, BadSamplingRate, EndOfPacket
<1>12. CASE UNCHANGED producerVars
  BY <1>12, StutterKeeps
<1> QED
  BY <1>1, <1>2, <1>3, <1>4, <1>5, <1>6, <1>7, <1>8, <1>9, <1>10, <1>11, <1>12
     DEF ProducerNext

LEMMA Invariance ==
  ASSUME ProducerAssumption
  PROVE  ProducerSpec => []ProducerInv
<1> QED
  BY ProducerInitially, ProducerInductive, PTL DEF ProducerSpec

(* Every variable of the producer keeps its type, for any number of records, *)
(* any frames and stacks of labels of any depth; times never leave the 64    *)
(* bits of a message, and a message of the pool brings nothing of the flow   *)
(* it was used for (producer_nf.go 551-669, producer_packet.go 497-599).     *)
THEOREM TypesHold ==
  ASSUME ProducerAssumption
  PROVE  ProducerSpec => []ProducerTypeOK
<1>1. ProducerInv => ProducerTypeOK
  BY DEF ProducerInv
<1> QED
  BY <1>1, Invariance, PTL

(* However long the exporter's uptime takes to wrap, whatever the units and  *)
(* the eras: the times of a flow are those the exporter saw it at, to the    *)
(* unit of the header and of the field, as long as it was seen before the    *)
(* header's uptime was read (v5), as the uptime did not wrap between the two *)
(* (v9) and as the seconds of NTP are not used up (IPFIX). The 32 bits of    *)
(* the uptimes, the whole seconds of the header and the change of epochs     *)
(* are those of the code (producer_nflegacy.go 14-17, producer_nf.go         *)
(* 266-302, 551-621).                                                        *)
THEOREM TimesAreClose ==
  ASSUME ProducerAssumption
  PROVE  ProducerSpec => []FlowTimesAreClose
<1>1. ProducerInv => FlowTimesAreClose
  BY RightIsClose DEF ProducerInv
<1> QED
  BY <1>1, Invariance, PTL

(* In whatever order a template has them, the zeroed addresses of the other  *)
(* family do not displace those of the flow; a section of a frame may, by    *)
(* its own, and takes the ether type with it (producer_nf.go 243-264,        *)
(* 390-409, 622-637).                                                        *)
THEOREM AddressesHold ==
  ASSUME ProducerAssumption
  PROVE  ProducerSpec => []AddressesAreTheFlows
<1>1. ProducerInv => AddressesAreTheFlows
  BY RightIsTheFlows DEF ProducerInv
<1> QED
  BY <1>1, Invariance, PTL

(* In whatever order a template has them, labels get the place of their      *)
(* depth and the places between hold nothing, in records of which no frame   *)
(* is parsed (producer_nf.go 513-548).                                       *)
THEOREM LabelsHold ==
  ASSUME ProducerAssumption
  PROVE  ProducerSpec => []LabelsKeepTheirPlace
<1>1. ProducerInv => LabelsKeepTheirPlace
  BY RightIsInPlace DEF ProducerInv
<1> QED
  BY <1>1, Invariance, PTL

-----------------------------------------------------------------------------
(* Records and messages                                                     *)

\* The messages a datagram is going to have made: those finished, the one being
\* filled and one for each record left.
MessagesDue == Len(flows) + rpkt.left + IF rpc = "fields" THEN 1 ELSE 0

\* A step gives the datagram up or finishes it, begins a record, ends one, or
\* leaves fewer fields of the one it converts.
ProducerProgress ==
  \/ rpc' = "idle"
  \/ rpkt'.left < rpkt.left
  \/ rpkt'.left = rpkt.left /\ rpc = "fields" /\ rpc' = "records"
  \/ rpkt'.left = rpkt.left /\ rpc' = rpc /\ todo' \subseteq todo /\ todo' # todo

\* Until a datagram is given up each record makes one message: none is skipped
\* and none is made twice, whatever its fields.
EachRecordIsOneMessage ==
  [][(rpc # "idle" /\ rpc' # "idle") => MessagesDue' = MessagesDue]_producerVars
ConversionMakesProgress == [][rpc # "idle" => ProducerProgress]_producerVars

\* Beginning a record takes one of those left.
LEMMA TakeCounts ==
  ASSUME ProducerTypeOK, Take
  PROVE  /\ rpkt.left \in Nat /\ rpkt.left > 0 /\ rpkt'.left = rpkt.left - 1
         /\ rpc = "records" /\ flows \in Seq([fm : FlowMessages, flow : SentFlows])
  BY DEF Take, ProducerTypeOK

\* A field is converted in place.
LEMMA FieldCounts ==
  ASSUME NEW f, Field(f), NEW m, Fill(m)
  PROVE  /\ rpc = "fields" /\ rpc' = rpc /\ rpkt' = rpkt /\ flows' = flows
         /\ todo' \subseteq todo /\ todo' # todo
  BY DEF Field, Fill

\* What a step does to the count and to the measure.
LEMMA RecordsAreCounted ==
  ASSUME ProducerTypeOK, ProducerNext, rpc # "idle"
  PROVE  ProducerProgress /\ (rpc' # "idle" => MessagesDue' = MessagesDue)
<1>1. CASE ConvertNetFlowLegacyRecord
  <2>1. \E x : flows' = Append(flows, x)
    BY <1>1 DEF ConvertNetFlowLegacyRecord
  <2>2. Take /\ rpc' = rpc
    BY <1>1 DEF ConvertNetFlowLegacyRecord
  <2>3. Len(flows') = Len(flows) + 1 /\ Len(flows) \in Nat
    BY <2>1, <2>2, TakeCounts
  <2> QED
    BY <2>2, <2>3, TakeCounts DEF ProducerProgress, MessagesDue
<1>2. CASE BeginRecord
  <2>1. Take /\ rpc' = "fields" /\ flows' = flows
    BY <1>2 DEF BeginRecord
  <2> QED
    BY <2>1, TakeCounts DEF ProducerProgress, MessagesDue
<1>3. CASE EndOfRecord
  <2>1. /\ rpc = "fields" /\ rpc' = "records" /\ rpkt' = rpkt
        /\ flows' = Append(flows, [fm |-> fm, flow |-> sent])
    BY <1>3 DEF EndOfRecord
  <2>2. Len(flows') = Len(flows) + 1 /\ Len(flows) \in Nat /\ rpkt.left \in Nat
    BY <2>1 DEF ProducerTypeOK
  <2> QED
    BY <2>1, <2>2 DEF ProducerProgress, MessagesDue
<1>4. CASE \/ ConvertAddress \/ ConvertTime \/ ConvertLabel \/ ConvertOther
           \/ ConvertFrame \/ ConvertSample
  <2>1. \E f, m : Field(f) /\ Fill(m)
    <3>1. ASSUME ConvertAddress PROVE \E f, m : Field(f) /\ Fill(m)
      BY <3>1 DEF ConvertAddress
    <3>2. ASSUME ConvertTime PROVE \E f, m : Field(f) /\ Fill(m)
      BY <3>2 DEF ConvertTime
    <3>3. ASSUME ConvertLabel PROVE \E f, m : Field(f) /\ Fill(m)
      BY <3>3 DEF ConvertLabel
    <3>4. ASSUME ConvertOther PROVE \E f, m : Field(f) /\ Fill(m)
      BY <3>4 DEF ConvertOther
    <3>5. ASSUME ConvertSample PROVE \E f, m : Field(f) /\ Fill(m)
      BY <3>5 DEF ConvertSample, Sampled
    <3>6. ASSUME ConvertFrame PROVE \E f, m : Field(f) /\ Fill(m)
      BY <3>6 DEF ConvertFrame
    <3> QED
      BY <1>4, <3>1, <3>2, <3>3, <3>4, <3>5, <3>6
  <2>2. /\ rpc = "fields" /\ rpc' = rpc /\ rpkt' = rpkt /\ flows' = flows
        /\ todo' \subseteq todo /\ todo' # todo
    BY <2>1, FieldCounts
  <2> QED
    BY <2>2 DEF ProducerProgress, MessagesDue
<1>5. CASE BadField \/ BadSamplingRate \/ EndOfPacket
  BY <1>5 DEF BadField, BadSamplingRate, EndOfPacket, ProducerReturn, ProducerProgress
<1>6. ~Produce
  BY DEF Produce
<1> QED
  BY <1>1, <1>2, <1>3, <1>4, <1>5, <1>6 DEF ProducerNext

(* A datagram of n records that is not given up is sent as n messages, and   *)
(* its conversion ends: the loops over records and over fields are left      *)
(* with less to do by every step (producer_nf.go 288, 645, 672,              *)
(* producer_nflegacy.go 46, producer_sf.go 60, 120).                         *)
THEOREM RecordsBecomeMessages ==
  ASSUME ProducerAssumption
  PROVE  ProducerSpec => EachRecordIsOneMessage /\ ConversionMakesProgress
<1>1. ProducerTypeOK /\ [ProducerNext]_producerVars =>
        /\ [(rpc # "idle" /\ rpc' # "idle") => MessagesDue' = MessagesDue]_producerVars
        /\ [rpc # "idle" => ProducerProgress]_producerVars
  BY RecordsAreCounted
<1> QED
  BY <1>1, TypesHold, PTL
     DEF ProducerSpec, EachRecordIsOneMessage, ConversionMakesProgress

-----------------------------------------------------------------------------
(* The path as a whole                                                      *)

\* Before the first datagram every part is in its initial state.
LEMMA PathBegins ==
  PathInit => Init /\ SFlowInit /\ ParserInit /\ ProducerInit /\ CustomInit
  BY DEF PathInit

\* A step of the path is a step of the part it follows, and leaves the others
\* alone.
LEMMA PathSteps ==
  ASSUME PathNext
  PROVE  \/ part = "netflow" /\ Next /\ UNCHANGED <<sflowVars, parserVars, producerVars, customVars>>
         \/ part = "sflow" /\ SFlowNext /\ UNCHANGED <<vars, parserVars, producerVars, customVars>>
         \/ part = "packet" /\ ParserNext /\ UNCHANGED <<vars, sflowVars, producerVars, customVars>>
         \/ part = "producer" /\ ProducerNext /\ UNCHANGED <<vars, sflowVars, parserVars, customVars>>
         \/ part = "mapping" /\ CustomNext /\ UNCHANGED <<vars, sflowVars, parserVars, producerVars>>
<1> USE DEF NetFlow, SFlow, Parse, Convert, Map
<1>1. CASE \/ NetFlow(DecodeMessage) \/ NetFlow(EndOfMessage) \/ NetFlow(BadFlowSet)
           \/ NetFlow(TakeTemplateSet) \/ NetFlow(TakeDataSet) \/ NetFlow(SkipDataSet)
           \/ NetFlow(ReadTemplate) \/ NetFlow(BadTemplate) \/ NetFlow(AddTemplates)
           \/ NetFlow(ReadRecord) \/ NetFlow(StarvedRecord) \/ NetFlow(EndOfDataSet)
  BY <1>1 DEF Next, Decode
<1>2. CASE \/ SFlow(SFlowDecodeMessage) \/ SFlow(SFlowEndOfMessage)
           \/ SFlow(DecodeSample) \/ SFlow(BadSample) \/ SFlow(DecodeRecord)
           \/ SFlow(BadRecord) \/ SFlow(EndOfSample)
  BY <1>2 DEF SFlowNext, SFlowStep
<1>3. CASE \/ Parse(ParsePacket) \/ Parse(ShortLayer) \/ Parse(ParseEthernet)
           \/ Parse(Parse8021Q) \/ Parse(ParseMPLS) \/ Parse(ParseIPv4)
           \/ Parse(ParseIPv6) \/ Parse(ParseIPv6HeaderFragment)
           \/ Parse(ParseIPv6HeaderRouting) \/ Parse(ParseTCP)
           \/ Parse(ParseUDP) \/ Parse(ParseGRE) \/ Parse(ParseTeredoDst)
           \/ Parse(ParseGeneve) \/ Parse(ParseICMP) \/ Parse(ParseICMPv6)
  BY <1>3 DEF ParserNext
<1>4. CASE \/ Convert(Produce) \/ Convert(ConvertNetFlowLegacyRecord)
           \/ Convert(BeginRecord) \/ Convert(EndOfRecord)
           \/ Convert(ConvertAddress) \/ Convert(ConvertTime)
           \/ Convert(ConvertLabel) \/ Convert(ConvertOther)
           \/ Convert(ConvertFrame) \/ Convert(ConvertSample) \/ Convert(BadField)
           \/ Convert(BadSamplingRate) \/ Convert(EndOfPacket)
  BY <1>4 DEF ProducerNext
<1>5. CASE \/ Map(MapConfig) \/ Map(CustomParsePacket) \/ Map(CustomEndOfPacket)
           \/ Map(EnterTunnel) \/ Map(MapLayer) \/ Map(SkipEntry) \/ Map(MapCustom)
           \/ Map(MapCustomFails) \/ Map(EndOfLayer)
  BY <1>5 DEF CustomNext
<1> QED
  BY <1>1, <1>2, <1>3, <1>4, <1>5 DEF PathNext

\* Whichever part a behaviour of the path follows, it is a behaviour of each
\* part: the model checker's run over the path is one over the five
\* specifications, and their theorems are theorems of the path (pipe.go 226-270).
THEOREM PathFollowsItsParts ==
  PathSpec => Spec /\ SFlowSpec /\ ParserSpec /\ ProducerSpec /\ CustomSpec
<1>1. [PathNext]_allVars => /\ [Next]_vars /\ [SFlowNext]_sflowVars /\ [ParserNext]_parserVars
                            /\ [ProducerNext]_producerVars /\ [CustomNext]_customVars
  <2>1. CASE PathNext
    BY <2>1, PathSteps
  <2>2. CASE UNCHANGED allVars
    BY <2>2 DEF allVars, vars, sflowVars, parserVars, producerVars, customVars
  <2> QED
    BY <2>1, <2>2
<1> QED
  BY <1>1, PathBegins, PTL
     DEF PathSpec, Spec, SFlowSpec, ParserSpec, ProducerSpec, CustomSpec

\* The part that is followed is one of the five for good.
LEMMA PartIsFixed ==
  PathSpec => [](part \in {"netflow", "sflow", "packet", "producer", "mapping"})
<1>1. PathInit => part \in {"netflow", "sflow", "packet", "producer", "mapping"}
  BY DEF PathInit
<1>2. [PathNext]_allVars => part' = part
  BY DEF PathNext, allVars, NetFlow, SFlow, Parse, Convert, Map
<1>3. part \in {"netflow", "sflow", "packet", "producer", "mapping"} /\ [PathNext]_allVars
        => (part \in {"netflow", "sflow", "packet", "producer", "mapping"})'
  BY <1>2
<1> QED
  BY <1>1, <1>3, PTL DEF PathSpec

\* The part that is followed keeps its types: what a datagram holds, in whatever
\* lengths, never drives a worker's buffers, counts or messages out of their
\* ranges.
THEOREM PathTypes == PathSpec => []PathTypeOK
<1>1. /\ part \in {"netflow", "sflow", "packet", "producer", "mapping"}
      /\ TypeOK /\ SFlowTypeOK /\ ParserTypeOK /\ ProducerTypeOK /\ CustomTypeOK
      => PathTypeOK
  BY DEF PathTypeOK
<1>2. Spec => []TypeOK
  BY DecoderTypes
<1>3. SFlowSpec => []SFlowTypeOK
  BY PartsAssumption, SFlowTypes
<1>4. ParserSpec => []ParserTypeOK
  BY PartsAssumption, PacketTypes
<1>5. ProducerSpec => []ProducerTypeOK
  BY PartsAssumption, TypesHold
<1>6. CustomSpec => []CustomTypeOK
  BY CustomTypes
<1> QED
  BY <1>1, <1>2, <1>3, <1>4, <1>5, <1>6, PathFollowsItsParts, PartIsFixed, PTL

\* What the five parts promise of a datagram, in one formula.
PathPromises ==
  /\ FlowSetsAreAligned /\ MessageEndsAtItsLength /\ FixedRecordsAreWhole
  /\ RecordsCostBytes
  /\ SamplesAreAligned /\ WorkIsBoundedByBytes
  /\ PortsBelongToAddresses /\ InnerHeadersAreNotCollected /\ LayersFitTheFrame
  /\ FlowTimesAreClose /\ AddressesAreTheFlows /\ LabelsKeepTheirPlace
  /\ RenderedIsTheBits

\* They hold of the path, whichever part it follows.
THEOREM PathKeepsItsPromises == PathSpec => []PathPromises
<1>1. Spec => [](/\ FlowSetsAreAligned /\ MessageEndsAtItsLength /\ FixedRecordsAreWhole
                 /\ RecordsCostBytes)
  BY FlowSetsStayAligned, MessagesEndAtTheirLength, FixedRecordsStayWhole,
     BytesBoundTheRecords, PTL
<1>2. SFlowSpec => [](SamplesAreAligned /\ WorkIsBoundedByBytes)
  BY PartsAssumption, SamplesStayAligned, BytesBoundTheWork, PTL
<1>3. ParserSpec => [](PortsBelongToAddresses /\ InnerHeadersAreNotCollected /\ LayersFitTheFrame)
  BY PartsAssumption, PortsFollowAddresses, TunnelsAreNotCollected, WalkEnds, PTL
<1>4. ProducerSpec => [](FlowTimesAreClose /\ AddressesAreTheFlows /\ LabelsKeepTheirPlace)
  BY PartsAssumption, TimesAreClose, AddressesHold, LabelsHold, PTL
<1>5. CustomSpec => []RenderedIsTheBits
  BY BitsAreRendered
<1> QED
  BY <1>1, <1>2, <1>3, <1>4, <1>5, PathFollowsItsParts, PTL DEF PathPromises

\* In the middle of its work the part that is followed makes progress in every
\* step; a packet to be mapped is in the middle of it at each of its layers.
PathMakesProgress ==
  [][/\ part = "netflow" /\ pc # "idle" => Progress \/ Endless
     /\ part = "sflow" /\ spc # "idle" => SFlowProgress
     /\ part = "packet" /\ Running => ParserProgress
     /\ part = "producer" /\ rpc # "idle" => ProducerProgress
     /\ part = "mapping" /\ cpc = "layer" => MappingProgress]_allVars

\* No datagram keeps a worker in a loop, on whatever part of the path, but one
\* with records of a template that takes no byte: every step leaves less to do.
\* That a worker which can go on does is the other half, which is left to the
\* model checker (DecodeEnds).
THEOREM WorkersMakeProgress == PathSpec => PathMakesProgress
<1> DEFINE All == SetInv /\ SFlowInv /\ ParserTypeOK /\ ProducerTypeOK /\ CustomTypeOK
           Steps == /\ part = "netflow" /\ pc # "idle" => Progress \/ Endless
                    /\ part = "sflow" /\ spc # "idle" => SFlowProgress
                    /\ part = "packet" /\ Running => ParserProgress
                    /\ part = "producer" /\ rpc # "idle" => ProducerProgress
                    /\ part = "mapping" /\ cpc = "layer" => MappingProgress
<1>1. PathSpec => []All
  <2>1. SFlowSpec => []SFlowInv
    BY PartsAssumption, SFlowInitially, SFlowInductive, PTL DEF SFlowSpec
  <2>2. ParserSpec => []ParserTypeOK
    BY PartsAssumption, PacketTypes
  <2>3. ProducerSpec => []ProducerTypeOK
    BY PartsAssumption, TypesHold
  <2> QED
    BY <2>1, <2>2, <2>3, SetInvariance, CustomTypes, PathFollowsItsParts, PTL
<1>2. ASSUME All, PathNext PROVE Steps
  <2>1. CASE part = "netflow" /\ Next
    <3>1. pc # "idle" => Decode
      BY <2>1 DEF Next, DecodeMessage
    <3> QED
      BY <1>2, <2>1, <3>1, DecodeProgresses
  <2>2. CASE part = "sflow" /\ SFlowNext
    <3>1. spc # "idle" => SFlowStep
      BY <2>2 DEF SFlowNext, SFlowDecodeMessage
    <3> QED
      BY <1>2, <2>2, <3>1, PartsAssumption, SFlowStepProgresses
  <2>3. CASE part = "packet" /\ ParserNext
    BY <1>2, <2>3, PartsAssumption, WalkProgresses
  <2>4. CASE part = "producer" /\ ProducerNext
    BY <1>2, <2>4, RecordsAreCounted
  <2>5. CASE part = "mapping" /\ CustomNext
    BY <1>2, <2>5, MappingProgresses
  <2> QED
    BY <1>2, <2>1, <2>2, <2>3, <2>4, <2>5, PathSteps
<1>3. All /\ [PathNext]_allVars => [Steps]_allVars
  BY <1>2
<1> QED
  BY <1>1, <1>3, PTL DEF PathSpec, PathMakesProgress
=============================================================================
