---------------------------- MODULE CollectorProofs ----------------------------
(***************************************************************************)
(* Theorems about Collector for any number of receivers, workers, packets, *)
(* errors and reopenings.                                                  *)
(*                                                                         *)
(* ErrorsAreAccounted is inductive with the types of the counters. For     *)
(* NoSendMeetsClose the invariant follows the shutdown: the workers of the *)
(* receivers already stopped are off, all are off from the closing of the  *)
(* transport on, and only then is a producer closed or, unless SIGHUP has  *)
(* come, the handle that senders have copied.                              *)
(***************************************************************************)
EXTENDS Collector, TLAPS

Closing == main \in {"closing", "closed", "ending", "end"}
Over == main \in {"closed", "ending", "end"}

CollectorTypeOK ==
  /\ driver \in {"file", "kafka"} /\ main \in Stages
  /\ work \in [Workers -> [pc : {"idle", "off", "sending", "failed"}, left : Nat,
                           kind : {"none", "muted", "other"}]]
  /\ main = "stopping" => turn \in 1 .. Receivers
  /\ turn \in Nat
  /\ writer \in [Workers -> Nat \cup {Unset}] /\ handle \in Nat
  /\ hups \in Nat /\ hupped \in BOOLEAN
  /\ producer \in {"open", "closing", "closed"} /\ queue \in Nat

CountersTypeOK ==
  /\ bm \in [Loops -> [ctr : Nat, max : Nat]]
  /\ tally \in [Loops -> [heard : Nat, logged : Nat, skipped : Nat, reports : Nat]]

OffInTurn ==
  \A w \in Workers :
    \/ Closing
    \/ main = "stopping" /\ ReceiverOf[w] < turn
    \/ main = "starting" /\ ReceiverOf[w] >= turn
    => work[w] = Off
ProducerIsLast ==
  /\ producer # "open" => Closing
  /\ driver = "file" => queue = 0
  /\ producer = "closed" => queue = 0
  /\ (driver = "kafka" /\ Over) => producer = "closed"
WritersSend ==
  \A w \in Workers :
    writer[w] # Unset => driver = "file" /\ work[w].pc = "sending" /\ work[w].left > 0
HandleIsOpen ==
  hups = 0 =>
    /\ ~hupped /\ reopener # "reopening"
    /\ ~Over => handle \in open
    /\ \A w \in Workers : writer[w] \in {Unset, handle}

IInv == CollectorTypeOK /\ OffInTurn /\ ProducerIsLast /\ WritersSend /\ HandleIsOpen

-----------------------------------------------------------------------------
(* The errors.                                                              *)

LEMMA CountersInitially ==
  ASSUME Init
  PROVE  CountersTypeOK /\ ErrorsAreAccounted
<1>1. PICK max \in Maxima : bm = [l \in Loops |-> [ctr |-> 0, max |-> max]]
  BY DEF Init, NewBatchMute
<1>2. max \in Nat
  BY CollectorAssumption DEF CollectorAssumption
<1>3. tally = [l \in Loops |-> [heard |-> 0, logged |-> 0, skipped |-> 0, reports |-> 0]]
  BY DEF Init
<1> QED
  BY <1>1, <1>2, <1>3 DEF CountersTypeOK, ErrorsAreAccounted, Unreported

\* One more muted error: logged, reported, or to be reported.
LEMMA IncrementCounts ==
  ASSUME NEW b \in [ctr : Nat, max : Nat], NEW late \in BOOLEAN
  PROVE  LET i == Increment(b, late)
             told == IF i.muted THEN 0 ELSE i.skipped IN
         /\ i.bm \in [ctr : Nat, max : Nat] /\ i.muted \in BOOLEAN /\ told \in Nat
         /\ 1 + Unreported(b) = told + (IF told > 0 THEN 1 ELSE 0)
                                + (IF ~i.muted /\ told = 0 THEN 1 ELSE 0)
                                + Unreported(i.bm)
<1> DEFINE ctr == IF b.max = 0 THEN b.ctr ELSE IF late THEN 1 ELSE b.ctr + 1
<1>1. b.ctr \in Nat /\ b.max \in Nat /\ ctr \in Nat
  OBVIOUS
<1>2. [b EXCEPT !.ctr = ctr] \in [ctr : Nat, max : Nat]
  BY <1>1
<1> DEFINE c == [b EXCEPT !.ctr = ctr]
<1>3. c.ctr = ctr /\ c.max = b.max
  OBVIOUS
<1>4. /\ Increment(b, late).bm = c
      /\ Increment(b, late).muted = (b.max > 0 /\ ctr > b.max)
      /\ Increment(b, late).skipped = Skipped(b)
  BY DEF Increment
<1>5. /\ Unreported(c) = IF b.max > 0 /\ ctr > b.max THEN ctr - b.max ELSE 0
      /\ Unreported(b) = IF b.max > 0 /\ b.ctr > b.max THEN b.ctr - b.max ELSE 0
      /\ Skipped(b) = IF b.max > 0 /\ b.ctr >= b.max THEN b.ctr - b.max ELSE 0
  BY <1>3 DEF Unreported, Skipped
<1> DEFINE told == IF Increment(b, late).muted THEN 0 ELSE Increment(b, late).skipped
           sum == told + (IF told > 0 THEN 1 ELSE 0)
                  + (IF ~Increment(b, late).muted /\ told = 0 THEN 1 ELSE 0)
<1>6. /\ Increment(b, late).muted \in BOOLEAN /\ told \in Nat
      /\ 1 + Unreported(b) = sum + Unreported(c)
  <2>1. CASE b.max > 0 /\ ctr > b.max
    <3>1. ~late /\ ctr = b.ctr + 1
      BY <1>1, <2>1
    <3>2. Increment(b, late).muted = TRUE
      BY <1>4, <2>1
    <3>3. told = 0 /\ sum = 0
      BY <3>2
    <3>4. Increment(b, late).muted \in BOOLEAN
      BY <3>2
    <3> HIDE DEF told, sum
    <3>5. 1 + Unreported(b) = sum + Unreported(c)
      BY <1>1, <1>5, <2>1, <3>1, <3>3
    <3> QED
      BY <3>3, <3>4, <3>5
  <2>2. CASE ~(b.max > 0 /\ ctr > b.max)
    <3>1. b.max > 0 /\ b.ctr >= b.max => late
      BY <1>1, <2>2
    <3>2. Increment(b, late).muted = FALSE
      BY <1>4, <2>2
    <3>3. told = Skipped(b)
      BY <1>4, <3>2
    <3>4. sum = told + 1
      BY <1>1, <1>5, <3>2, <3>3
    <3>5. Increment(b, late).muted \in BOOLEAN
      BY <3>2
    <3> HIDE DEF told, sum
    <3>6. told \in Nat
      BY <1>1, <1>5, <3>3
    <3>7. 1 + Unreported(b) = sum + Unreported(c)
      BY <1>1, <1>5, <2>2, <3>1, <3>3, <3>4
    <3> QED
      BY <3>5, <3>6, <3>7
  <2> QED
    BY <2>1, <2>2
<1>7. Increment(b, late).bm \in [ctr : Nat, max : Nat]
  BY <1>2, <1>4
<1> QED
  BY <1>4, <1>6, <1>7

LEMMA LogMutedCounts ==
  ASSUME CountersTypeOK, ErrorsAreAccounted, NEW l \in Loops, LogMuted(l)
  PROVE  (CountersTypeOK /\ ErrorsAreAccounted)'
<1>1. PICK late \in BOOLEAN :
        LET i == Increment(bm[l], late)
            told == IF i.muted THEN 0 ELSE i.skipped IN
        /\ bm' = [bm EXCEPT ![l] = i.bm]
        /\ tally' = [tally EXCEPT
             ![l].heard = @ + 1, ![l].skipped = @ + told,
             ![l].reports = @ + IF told > 0 THEN 1 ELSE 0,
             ![l].logged = @ + IF ~i.muted /\ told = 0 THEN 1 ELSE 0]
  BY DEF LogMuted
<1> DEFINE i == Increment(bm[l], late)
           told == IF i.muted THEN 0 ELSE i.skipped
           r == IF told > 0 THEN 1 ELSE 0
           g == IF ~i.muted /\ told = 0 THEN 1 ELSE 0
<1>2. bm[l] \in [ctr : Nat, max : Nat]
  BY DEF CountersTypeOK
<1>3. /\ i.bm \in [ctr : Nat, max : Nat] /\ told \in Nat
      /\ 1 + Unreported(bm[l]) = told + r + g + Unreported(i.bm)
  BY <1>2, IncrementCounts
<1>4. r \in Nat /\ g \in Nat
  OBVIOUS
<1> HIDE DEF i, told, r, g
<1>5. bm' = [bm EXCEPT ![l] = i.bm]
  BY <1>1 DEF i
<1>6. tally' = [tally EXCEPT ![l].heard = @ + 1, ![l].skipped = @ + told,
                             ![l].reports = @ + r, ![l].logged = @ + g]
  BY <1>1 DEF i, told, r, g
<1>7. tally[l] \in [heard : Nat, logged : Nat, skipped : Nat, reports : Nat]
  BY DEF CountersTypeOK
<1> DEFINE t == [heard |-> tally[l].heard + 1, logged |-> tally[l].logged + g,
                 skipped |-> tally[l].skipped + told, reports |-> tally[l].reports + r]
<1>8. tally'[l] = t /\ \A k \in Loops \ {l} : tally'[k] = tally[k]
  BY <1>6, <1>7 DEF CountersTypeOK
<1>9. t \in [heard : Nat, logged : Nat, skipped : Nat, reports : Nat]
  BY <1>3, <1>4, <1>7
<1>10. CountersTypeOK'
  <2>1. bm' \in [Loops -> [ctr : Nat, max : Nat]]
    BY <1>3, <1>5 DEF CountersTypeOK
  <2>2. tally' \in [Loops -> [heard : Nat, logged : Nat, skipped : Nat, reports : Nat]]
    <3>1. tally' = [k \in Loops |-> tally'[k]]
      BY <1>6 DEF CountersTypeOK
    <3>2. \A k \in Loops :
            tally'[k] \in [heard : Nat, logged : Nat, skipped : Nat, reports : Nat]
      BY <1>8, <1>9 DEF CountersTypeOK
    <3> QED
      BY <3>1, <3>2
  <2> QED
    BY <2>1, <2>2 DEF CountersTypeOK
<1>11. ErrorsAreAccounted'
  <2> SUFFICES ASSUME NEW k \in Loops
               PROVE  tally'[k].heard = tally'[k].logged + tally'[k].skipped
                                        + tally'[k].reports + Unreported(bm'[k])
    BY DEF ErrorsAreAccounted, Unreported
  <2>1. CASE k = l
    <3>1. bm'[l] = i.bm
      BY <1>5 DEF CountersTypeOK
    <3>2. tally[l].heard = tally[l].logged + tally[l].skipped + tally[l].reports
                           + Unreported(bm[l])
      BY DEF ErrorsAreAccounted
    <3>3. Unreported(bm[l]) \in Nat /\ Unreported(i.bm) \in Nat
      BY <1>2, <1>3 DEF Unreported
    <3>4. /\ tally[l].heard \in Nat /\ tally[l].logged \in Nat
          /\ tally[l].skipped \in Nat /\ tally[l].reports \in Nat
      BY <1>7
    <3> HIDE DEF t
    <3>5. /\ t.heard = tally[l].heard + 1 /\ t.logged = tally[l].logged + g
          /\ t.skipped = tally[l].skipped + told /\ t.reports = tally[l].reports + r
      BY DEF t
    <3> QED
      BY <1>3, <1>4, <1>8, <2>1, <3>1, <3>2, <3>3, <3>4, <3>5
  <2>2. CASE k # l
    BY <1>5, <1>8, <2>2 DEF ErrorsAreAccounted, CountersTypeOK
  <2> QED
    BY <2>1, <2>2
<1> QED
  BY <1>10, <1>11

LEMMA CountersInductive ==
  ASSUME CountersTypeOK, ErrorsAreAccounted, [Next]_vars
  PROVE  (CountersTypeOK /\ ErrorsAreAccounted)'
<1>1. CASE UNCHANGED <<bm, tally>>
  BY <1>1 DEF CountersTypeOK, ErrorsAreAccounted, Unreported
<1>2. CASE \E l \in Loops : LogMuted(l)
  BY <1>2, LogMutedCounts
<1>3. CASE UNCHANGED vars
  BY <1>1, <1>3 DEF vars
<1>4. CASE Main
  BY <1>1, <1>4 DEF Main, StartReceiver, StartFails, StartTransportLoop, StopCollecting,
     StopReceiver, CloseTransport, CloseQ, Wait, loopVars
<1>5. CASE Signal \/ Sarama \/ Relay \/ File(Hup) \/ File(Reopener) \/ EndOfErrors
  BY <1>1, <1>5 DEF Signal, Sarama, Relay, File, EndOfErrors, loopVars
<1>6. ASSUME NEW w \in Workers, Worker(w) PROVE UNCHANGED <<bm, tally>>
  BY <1>6 DEF Worker, TakePacket, FormatFails, SendKafka, SendFile, WriteFile, EndOfPacket,
     LogError, EndWorker, loopVars
<1>7. ASSUME NEW l \in Loops, Loop(l) PROVE LogMuted(l) \/ UNCHANGED <<bm, tally>>
  BY <1>7 DEF Loop, LogOther, EndLoop
<1> QED
  BY <1>1, <1>2, <1>3, <1>4, <1>5, <1>6, <1>7 DEF Next

\* Whatever was muted, and for any maximum, no muted error a loop has heard is
\* lost but the one that each report stands in for (mute.go 14-31).
THEOREM MutedErrorsAreCounted == Spec => []ErrorsAreAccounted
  BY CountersInitially, CountersInductive, PTL DEF Spec

-----------------------------------------------------------------------------
(* The shutdown.                                                            *)

LEMMA ShutdownInitially ==
  ASSUME Init
  PROVE  IInv
<1>1. CollectorTypeOK
  <2>1. work \in [Workers -> [pc : {"idle", "off", "sending", "failed"}, left : Nat,
                              kind : {"none", "muted", "other"}]]
    BY DEF Init, Off, Do
  <2>2. writer \in [Workers -> Nat \cup {Unset}]
    BY CollectorAssumption DEF Init, FileInit, CollectorAssumption
  <2>3. handle \in Nat
    BY DEF Init, FileInit
  <2> QED
    BY <2>1, <2>2, <2>3 DEF Init, KafkaInit, FileInit, CollectorTypeOK, Stages
<1>2. OffInTurn /\ ProducerIsLast
  BY DEF Init, KafkaInit, FileInit, OffInTurn, ProducerIsLast, Closing, Over
<1>3. WritersSend /\ HandleIsOpen
  BY CollectorAssumption
     DEF Init, KafkaInit, FileInit, WritersSend, HandleIsOpen, CollectorAssumption, Over
<1> QED
  BY <1>1, <1>2, <1>3 DEF IInv

\* Steps of main from stage to stage.
LEMMA StageKeeps ==
  ASSUME IInv, StartFails \/ StartTransportLoop \/ StopCollecting \/ StopReceiver \/ Wait \/ Signal
  PROVE  IInv'
<1> USE CollectorAssumption DEF CollectorAssumption, IInv, StartFails, StartTransportLoop,
      StopCollecting, StopReceiver, Wait, Signal, Stopped, Stages, mainVars, transportVars, kafkaVars, fileVars, loopVars
<1>1. CollectorTypeOK'
  BY DEF CollectorTypeOK
<1>2. OffInTurn'
  <2> SUFFICES ASSUME NEW w \in Workers,
                      \/ Closing'
                      \/ main' = "stopping" /\ ReceiverOf[w] < turn'
                      \/ main' = "starting" /\ ReceiverOf[w] >= turn'
               PROVE  work[w] = Off
    BY DEF OffInTurn
  <2>1. ReceiverOf[w] \in 1 .. Receivers /\ turn \in Nat
    BY DEF CollectorTypeOK
  <2>2. CASE StopReceiver
    <3>1. ReceiverOf[w] = turn => work[w] = Off
      BY <2>2
    <3>2. ReceiverOf[w] < turn => work[w] = Off
      BY <2>2 DEF OffInTurn
    <3>3. ReceiverOf[w] <= turn
      BY <2>1, <2>2 DEF Closing
    <3> QED
      BY <2>1, <3>1, <3>2, <3>3
  <2>3. CASE StopCollecting
    BY <2>1, <2>3 DEF Closing
  <2>4. CASE StartFails \/ StartTransportLoop \/ Wait \/ Signal
    BY <2>4 DEF OffInTurn, Closing
  <2> QED
    BY <2>2, <2>3, <2>4
<1>3. ProducerIsLast'
  BY DEF CollectorTypeOK, ProducerIsLast, Closing, Over
<1>4. WritersSend'
  BY DEF CollectorTypeOK, OffInTurn, WritersSend, Closing
<1>5. HandleIsOpen'
  BY DEF CollectorTypeOK, HandleIsOpen, WritersSend, OffInTurn, Closing, Over
<1> QED
  BY <1>1, <1>2, <1>3, <1>4, <1>5

\* The workers of a receiver that is started.
LEMMA StartReceiverKeeps ==
  ASSUME IInv, StartReceiver
  PROVE  IInv'
<1> USE CollectorAssumption DEF CollectorAssumption, IInv, StartReceiver, Idle, Off, Do, mainVars, transportVars, kafkaVars, fileVars, loopVars
<1>1. CollectorTypeOK'
  BY DEF CollectorTypeOK
<1>2. OffInTurn'
  BY DEF CollectorTypeOK, OffInTurn, Closing
<1>3. ProducerIsLast'
  BY DEF CollectorTypeOK, ProducerIsLast, Closing, Over
<1>4. WritersSend'
  BY DEF CollectorTypeOK, OffInTurn, WritersSend, Closing
<1>5. HandleIsOpen'
  BY DEF CollectorTypeOK, HandleIsOpen, WritersSend, OffInTurn, Closing, Over
<1> QED
  BY <1>1, <1>2, <1>3, <1>4, <1>5

\* Closing the transport when all workers are off.
LEMMA CloseTransportKeeps ==
  ASSUME IInv, CloseTransport \/ CloseQ
  PROVE  IInv'
<1> USE CollectorAssumption DEF CollectorAssumption, IInv, CloseTransport, CloseQ, AsyncClose, CloseTakes,
      CloseFlushed, CloseKafkaQ, CloseFile, CloseFileQ, Stdout, Locked, Off, Do, Stages, mainVars, transportVars, kafkaVars, fileVars, loopVars
<1>1. CollectorTypeOK'
  BY DEF CollectorTypeOK
<1>2. OffInTurn'
  BY DEF CollectorTypeOK, OffInTurn, Closing
<1>3. ProducerIsLast'
  BY DEF CollectorTypeOK, ProducerIsLast, Closing, Over
<1>4. WritersSend'
  BY DEF CollectorTypeOK, OffInTurn, WritersSend, Closing
<1>5. HandleIsOpen'
  BY DEF CollectorTypeOK, HandleIsOpen, WritersSend, OffInTurn, Closing, Over
<1> QED
  BY <1>1, <1>2, <1>3, <1>4, <1>5

\* A worker that takes, sends or fails.
LEMMA WorkerKeeps ==
  ASSUME IInv, NEW w \in Workers, TakePacket(w) \/ FormatFails(w) \/ EndOfPacket(w)
         \/ LogError(w) \/ EndWorker(w)
  PROVE  IInv'
<1> USE CollectorAssumption DEF CollectorAssumption, IInv, TakePacket, FormatFails, EndOfPacket, LogError, EndWorker,
      Fails, Sending, Kinds, Alive, Idle, Off, Do, mainVars, transportVars, kafkaVars, fileVars, loopVars
<1>1. CollectorTypeOK'
  BY DEF CollectorTypeOK
<1>2. OffInTurn'
  BY DEF CollectorTypeOK, OffInTurn, Closing
<1>3. ProducerIsLast'
  BY DEF CollectorTypeOK, ProducerIsLast, Closing, Over
<1>4. WritersSend'
  BY DEF CollectorTypeOK, OffInTurn, WritersSend, Closing
<1>5. HandleIsOpen'
  BY DEF CollectorTypeOK, HandleIsOpen, WritersSend, OffInTurn, Closing, Over
<1> QED
  BY <1>1, <1>2, <1>3, <1>4, <1>5

\* A worker that hands a message to the transport.
LEMMA SendKeeps ==
  ASSUME IInv, NEW w \in Workers, SendKafka(w) \/ SendFile(w) \/ WriteFile(w)
  PROVE  IInv'
<1> USE CollectorAssumption DEF CollectorAssumption, IInv, SendKafka, SendFile, WriteFile, Input, CopyWriter, Written,
      WriteFails, Fails, Sent, Sending, Locked, Unset, Alive, Off, Do, mainVars, transportVars, kafkaVars, fileVars, loopVars
<1>1. CollectorTypeOK'
  BY SMTT(30) DEF CollectorTypeOK
<1>2. OffInTurn'
  BY DEF CollectorTypeOK, OffInTurn, Closing
<1>3. ProducerIsLast'
  BY DEF CollectorTypeOK, ProducerIsLast, Closing, Over
<1>4. WritersSend'
  <2> SUFFICES ASSUME NEW v \in Workers, writer'[v] # Unset
               PROVE  driver' = "file" /\ work'[v].pc = "sending" /\ work'[v].left > 0
    BY DEF WritersSend
  <2>1. CASE SendKafka(w)
    <3>1. CASE v = w
      BY <2>1, <3>1 DEF CollectorTypeOK, WritersSend
    <3>2. CASE v # w
      BY <2>1, <3>2 DEF CollectorTypeOK, WritersSend
    <3> QED
      BY <3>1, <3>2
  <2>2. CASE SendFile(w)
    BY <2>2 DEF CollectorTypeOK, WritersSend
  <2>3. CASE WriteFile(w)
    BY <2>3 DEF CollectorTypeOK, WritersSend
  <2> QED
    BY <2>1, <2>2, <2>3
<1>5. HandleIsOpen'
  BY DEF CollectorTypeOK, HandleIsOpen, WritersSend, OffInTurn, Closing, Over
<1> QED
  BY <1>1, <1>2, <1>3, <1>4, <1>5

\* The goroutines of the transport.
LEMMA TransportKeeps ==
  ASSUME IInv, Sarama \/ Relay \/ File(Hup) \/ File(Reopener)
  PROVE  IInv'
<1> USE CollectorAssumption DEF CollectorAssumption, IInv, Sarama, Relay, File, Deliver, DeliverFails, RelayTakes,
      RelayOffers, RelayEnds, Hup, Reopener, CloseOld, OpenNew, OpenFails, EndReopener,
      Alive, mainVars, transportVars, kafkaVars, fileVars, loopVars
<1>1. CollectorTypeOK'
  <2>1. CASE Sarama
    BY <2>1 DEF CollectorTypeOK
  <2>2. CASE Relay
    BY <2>2 DEF CollectorTypeOK
  <2>3. CASE File(Hup)
    BY <2>3 DEF CollectorTypeOK
  <2>4. CASE File(Reopener)
    <3>1. handle' \in Nat /\ hups' = hups /\ writer' = writer
      BY <2>4 DEF CollectorTypeOK
    <3>3. hupped' \in {hupped, FALSE}
      BY <2>4
    <3>2. UNCHANGED <<mainVars, work, kafkaVars>>
      BY <2>4
    <3> QED
      BY <3>1, <3>2, <3>3 DEF CollectorTypeOK
  <2> QED
    BY <2>1, <2>2, <2>3, <2>4
<1>2. OffInTurn'
  BY DEF CollectorTypeOK, OffInTurn, Closing
<1>3. ProducerIsLast'
  BY DEF CollectorTypeOK, ProducerIsLast, Closing, Over
<1>4. WritersSend'
  BY DEF CollectorTypeOK, OffInTurn, WritersSend, Closing
<1>5. HandleIsOpen'
  BY DEF CollectorTypeOK, HandleIsOpen, WritersSend, OffInTurn, Closing, Over
<1> QED
  BY <1>1, <1>2, <1>3, <1>4, <1>5

\* The error loops change nothing of it.
LEMMA LoopKeeps ==
  ASSUME IInv, EndOfErrors \/ (\E l \in Loops : Loop(l)) \/ UNCHANGED vars
  PROVE  IInv'
<1>1. UNCHANGED <<driver, main, turn, work, producer, queue>> /\ UNCHANGED fileVars
  BY DEF EndOfErrors, Loop, LogOther, LogMuted, EndLoop, vars, mainVars, transportVars, kafkaVars
<1> QED
  BY <1>1 DEF fileVars, IInv, CollectorTypeOK, OffInTurn, ProducerIsLast, WritersSend,
              HandleIsOpen, Closing, Over

LEMMA ShutdownInductive ==
  ASSUME IInv, [Next]_vars
  PROVE  IInv'
<1>1. CASE Main \/ Signal
  BY <1>1, StageKeeps, StartReceiverKeeps, CloseTransportKeeps DEF Main
<1>2. ASSUME NEW w \in Workers, Worker(w) PROVE IInv'
  BY <1>2, WorkerKeeps, SendKeeps DEF Worker
<1>3. CASE Sarama \/ Relay \/ File(Hup) \/ File(Reopener)
  BY <1>3, TransportKeeps
<1>4. CASE EndOfErrors \/ (\E l \in Loops : Loop(l)) \/ UNCHANGED vars
  BY <1>4, LoopKeeps
<1> QED
  BY <1>1, <1>2, <1>3, <1>4 DEF Next

\* The order of the shutdown keeps every Send away from a transport that is
\* being closed, for any number of receivers and workers; only SIGHUP takes a
\* file from under a sender, and Close leaves no message behind
\* (main.go 414-427).
THEOREM SendsEndBeforeClose == Spec => []NoSendMeetsClose
<1>1. IInv => NoSendMeetsClose
  BY DEF IInv, CollectorTypeOK, OffInTurn, ProducerIsLast, WritersSend, HandleIsOpen,
         NoSendMeetsClose, WriteFails, Closing, Over, Off, Do
<1> QED
  BY <1>1, ShutdownInitially, ShutdownInductive, PTL DEF Spec

-----------------------------------------------------------------------------
(* Nobody waits for everybody.                                              *)

(* Who can go on: a worker with the messages of its packet, the error it has *)
(* to report or the nil packet of its receiver's Stop; Sarama, even if the   *)
(* broker takes no message; the goroutine that passes errors on; the         *)
(* goroutine that has the lock; Close of the transport; an error loop.       *)
WorkerCanGo(w) ==
  \/ work[w].pc = "failed"
  \/ work[w].pc = "sending" /\ work[w].left = 0
  \/ work[w].pc = "sending" /\ driver = "kafka" /\ producer = "open" /\ queue < Room
  \/ work[w].pc = "sending" /\ driver = "file" /\ (writer[w] # Unset \/ ~Locked)
  \/ work[w] = Idle /\ main = "stopping" /\ ReceiverOf[w] = turn
SaramaCanGo == driver = "kafka" /\ queue > 0 /\ errs < ErrorRoom
RelayCanGo == driver = "kafka" /\ (relay = "select" => errs > 0) /\ relay # "done"
ReopenerCanGo == driver = "file" /\ Locked
TransportCanGo == SaramaCanGo \/ RelayCanGo \/ ReopenerCanGo
CloseCanGo ==
  \/ driver = "file" /\ ~Locked
  \/ driver = "kafka" /\ (producer = "closing" => errs > 0 \/ queue = 0)
LoopCanGo(l) ==
  \/ loop[l].pc = "handling" /\ loop[l].kind \in {"muted", "other"}
  \/ loop[l].pc = "handling" /\ loop[l].kind = "nil" /\ l = 0
  \/ loop[l] = Waiting

(* At each stage of the shutdown what main waits for has happened, or one of *)
(* those it waits for can go on, or the transport can that they wait for.    *)
ShutdownGoesOn ==
  /\ main = "stopping" =>
       \/ Stopped(turn) \/ TransportCanGo
       \/ \E w \in Workers : ReceiverOf[w] = turn /\ WorkerCanGo(w)
  /\ main = "closing" => CloseCanGo \/ TransportCanGo
  /\ main = "ending" => \A l \in Loops : loop[l] = Done \/ LoopCanGo(l)

Errors == {"muted", "other", "nil"}
LoopStates == {NewLoop, Waiting, Done} \cup [pc : {"handling"}, kind : Errors]

(* A worker has an error to report only when it has failed, and every loop   *)
(* main waits for was started and is handed the nil of the transport only by *)
(* the transport; the goroutine that passes errors on outlives the producer. *)
WorkersFit ==
  \A w \in Workers : /\ work[w].pc = "idle" => work[w] = Idle
                     /\ work[w].pc = "off" => work[w] = Off
                     /\ work[w].pc = "failed" => work[w].kind \in Kinds
LoopsFit ==
  /\ loop \in [Loops -> LoopStates]
  /\ \A l \in Loops : loop[l].kind = "nil" => l = 0
  /\ main = "starting" => \A l \in Loops : l > 0 /\ l < turn => loop[l] # NewLoop
  /\ main \notin {"starting", "exit"} => \A l \in Loops : loop[l] # NewLoop
RelayLives ==
  /\ errs \in Nat /\ relay \in {"select", "error", "nil", "done"}
  /\ kafkaQ => producer = "closed"
  /\ relay \in {"nil", "done"} => producer = "closed"

GoInv == WorkersFit /\ LoopsFit /\ RelayLives

LEMMA GoInitially ==
  ASSUME Init
  PROVE  GoInv
  BY DEF Init, KafkaInit, GoInv, WorkersFit, LoopsFit, RelayLives, Idle, Off, Do, LoopStates,
         NewLoop, Loops

\* What a worker does next fits what it has done.
LEMMA WorkersStayFit ==
  ASSUME CollectorTypeOK, WorkersFit, [Next]_vars
  PROVE  WorkersFit'
<1> DEFINE Fit(x) == /\ x.pc = "idle" => x = Idle
                     /\ x.pc = "off" => x = Off
                     /\ x.pc = "failed" => x.kind \in Kinds
<1>1. Fit(Idle) /\ Fit(Off)
  BY DEF Idle, Off, Do
<1>2. \A n, k : Fit(Do("sending", n, k)) /\ (k \in Kinds => Fit(Do("failed", 0, k)))
  BY DEF Do
<1>3. \A w \in Workers : Fit(work[w])
  BY DEF WorkersFit
<1>4. \A x, n : x.pc = "sending" => Fit([x EXCEPT !.left = n])
  OBVIOUS
<1>5. "other" \in Kinds /\ work = [w \in Workers |-> work[w]]
  BY DEF Kinds, CollectorTypeOK
<1> SUFFICES ASSUME NEW v \in Workers PROVE Fit(work'[v])
  BY DEF WorkersFit
<1> HIDE DEF Fit
<1>6. CASE work' = work
  BY <1>3, <1>6
<1>7. CASE StartReceiver
  BY <1>1, <1>3, <1>7 DEF StartReceiver
<1>8. ASSUME NEW w \in Workers, Worker(w) PROVE Fit(work'[v])
  <2> SUFFICES work' = work \/ \E x : Fit(x) /\ work' = [work EXCEPT ![w] = x]
    BY <1>3, <1>5
  <2>1. CASE TakePacket(w)
    BY <1>2, <2>1 DEF TakePacket
  <2>2. CASE FormatFails(w)
    BY <1>2, <2>2 DEF FormatFails, Fails
  <2>3. CASE SendKafka(w) \/ WriteFile(w)
    <3>1. CASE Fails(w, "other")
      BY <1>2, <1>5, <3>1 DEF Fails
    <3>2. CASE Sending(w) /\ Sent(w)
      <4>1. work' = [work EXCEPT ![w] = [work[w] EXCEPT !.left = work[w].left - 1]]
        BY <3>2 DEF Sent
      <4>2. work[w].pc = "sending"
        BY <3>2 DEF Sending
      <4> QED
        BY <1>4, <4>1, <4>2
    <3> QED
      BY <2>3, <3>1, <3>2 DEF SendKafka, WriteFile
  <2>4. CASE SendFile(w)
    BY <2>4 DEF SendFile
  <2>5. CASE EndOfPacket(w) \/ LogError(w)
    BY <1>1, <2>5 DEF EndOfPacket, LogError
  <2>6. CASE EndWorker(w)
    BY <1>1, <2>6 DEF EndWorker
  <2> QED
    BY <1>8, <2>1, <2>2, <2>3, <2>4, <2>5, <2>6 DEF Worker
<1>9. Main => StartReceiver \/ work' = work
  BY DEF Main, StartFails, StartTransportLoop, StopCollecting, StopReceiver, CloseTransport,
         CloseQ, Wait
<1>10. Signal \/ Sarama \/ Relay \/ File(Hup) \/ File(Reopener) \/ EndOfErrors \/ UNCHANGED vars
         => work' = work
  BY DEF Signal, Sarama, Relay, File, EndOfErrors, vars
<1>11. ASSUME NEW l \in Loops, Loop(l) PROVE work' = work
  BY <1>11 DEF Loop, LogOther, LogMuted, EndLoop
<1> QED
  BY <1>6, <1>7, <1>8, <1>9, <1>10, <1>11 DEF Next

\* A loop that waits is handed an error it can handle.
LEMMA HandFits ==
  ASSUME LoopsFit, NEW l \in Loops, NEW kind \in Errors, kind = "nil" => l = 0,
         Hand(l, kind), UNCHANGED <<main, turn>>
  PROVE  LoopsFit'
<1>1. /\ loop' \in [Loops -> LoopStates]
      /\ \A k \in Loops : loop'[k] \in {loop[k], [pc |-> "handling", kind |-> kind]}
      /\ \A k \in Loops : k # l => loop'[k] = loop[k]
  BY DEF Hand, LoopsFit, LoopStates
<1>2. \A k \in Loops : loop[k] # NewLoop => loop'[k] # NewLoop
  BY <1>1 DEF NewLoop
<1>3. \A k \in Loops : loop'[k].kind = "nil" => k = 0
  BY <1>1 DEF LoopsFit
<1> QED
  BY <1>1, <1>2, <1>3 DEF LoopsFit

\* Loops are started before main needs them and none is taken back.
LEMMA LoopsStayFit ==
  ASSUME CollectorTypeOK, WorkersFit, LoopsFit, RelayLives, [Next]_vars
  PROVE  LoopsFit'
<1> USE CollectorAssumption DEF CollectorAssumption
<1>1. CASE UNCHANGED <<loop, main, turn>>
  BY <1>1 DEF LoopsFit
<1>2. CASE StartReceiver
  <2>1. main = "starting" /\ main' = main /\ turn' = turn + 1 /\ turn \in Nat
    BY <1>2 DEF StartReceiver, CollectorTypeOK, Closing
  <2>4. turn \in Loops
    BY <1>2, <2>1 DEF StartReceiver, Loops
  <2>5. loop' = [loop EXCEPT ![turn] = Waiting]
    BY <1>2 DEF StartReceiver
  <2>2. loop' \in [Loops -> LoopStates]
    BY <2>4, <2>5 DEF LoopsFit, LoopStates
  <2>3. \A l \in Loops : l > 0 /\ l < turn + 1 => l = turn \/ l < turn
    BY <2>1 DEF Loops
  <2> QED
    BY <2>1, <2>2, <2>3, <2>4, <2>5 DEF LoopsFit, Waiting, NewLoop
<1>3. CASE StartTransportLoop
  <2>1. /\ main = "starting" /\ main' = "collecting" /\ turn' = turn /\ turn > Receivers
        /\ turn \in Nat /\ 0 \in Loops /\ loop' = [loop EXCEPT ![0] = Waiting]
    BY <1>3 DEF StartTransportLoop, CollectorTypeOK, Loops
  <2>2. loop' \in [Loops -> LoopStates]
    BY <2>1 DEF LoopsFit, LoopStates
  <2>3. \A l \in Loops : l = 0 \/ (l > 0 /\ l < turn)
    BY <2>1 DEF Loops
  <2> QED
    BY <2>1, <2>2, <2>3 DEF LoopsFit, Waiting, NewLoop
<1>4. CASE \/ StartFails \/ StopCollecting \/ StopReceiver \/ CloseTransport \/ CloseQ \/ Wait
  <2>1. /\ loop' = loop /\ main' # "starting"
        /\ main \in {"starting", "exit"} => main' = "exit"
    BY <1>4 DEF StartFails, StopCollecting, StopReceiver, CloseTransport, CloseQ, Wait, loopVars
  <2> QED
    BY <2>1 DEF LoopsFit
<1>5. CASE Signal \/ Sarama \/ File(Hup) \/ File(Reopener) \/ UNCHANGED vars
  BY <1>1, <1>5 DEF Signal, Sarama, File, vars, mainVars, loopVars
<1>6. CASE Relay
  <2>1. CASE UNCHANGED loop
    BY <1>1, <1>6, <2>1 DEF Relay, mainVars
  <2>2. CASE Hand(0, IF relay = "nil" THEN "nil" ELSE "muted")
    BY <1>6, <2>2, HandFits DEF Relay, mainVars, Errors, Loops
  <2> QED
    BY <1>6, <2>1, <2>2 DEF Relay
<1>7. ASSUME NEW w \in Workers, Worker(w) PROVE LoopsFit'
  <2>1. CASE LogError(w)
    <3>1. work[w].kind \in Errors /\ work[w].kind # "nil"
      BY <2>1 DEF LogError, WorkersFit, Kinds, Errors
    <3>2. ReceiverOf[w] \in Loops
      BY DEF Loops
    <3> QED
      BY <2>1, <3>1, <3>2, HandFits DEF LogError, mainVars
  <2>2. CASE ~LogError(w)
    BY <1>1, <1>7, <2>2 DEF Worker, TakePacket, FormatFails, SendKafka, SendFile, WriteFile,
       EndOfPacket, EndWorker, mainVars, loopVars
  <2> QED
    BY <2>1, <2>2
<1>8. ASSUME NEW l \in Loops, loop' = [loop EXCEPT ![l] = Waiting] \/ loop' = [loop EXCEPT ![l] = Done],
             UNCHANGED <<main, turn>>
      PROVE  LoopsFit'
  <2>1. loop' \in [Loops -> LoopStates]
    BY <1>8 DEF LoopsFit, LoopStates
  <2>2. \A k \in Loops : loop'[k] \in {loop[k], Waiting, Done}
    BY <1>8 DEF LoopsFit
  <2>3. \A k \in Loops : loop[k] # NewLoop => loop'[k] # NewLoop
    BY <2>2 DEF Waiting, Done, NewLoop
  <2>4. \A k \in Loops : loop'[k].kind = "nil" => k = 0
    BY <2>2 DEF LoopsFit, Waiting, Done
  <2> QED
    BY <1>8, <2>1, <2>3, <2>4 DEF LoopsFit
<1>9. ASSUME NEW l \in Loops, Loop(l) PROVE LoopsFit'
  <2>1. loop' = [loop EXCEPT ![l] = Waiting] \/ loop' = [loop EXCEPT ![l] = Done]
    BY <1>9 DEF Loop, LogOther, LogMuted, EndLoop
  <2>2. UNCHANGED <<main, turn>>
    BY <1>9 DEF Loop, LogOther, LogMuted, EndLoop, mainVars
  <2> QED
    BY <1>8, <2>1, <2>2
<1>10. CASE EndOfErrors
  <2>1. 0 \in Loops
    BY DEF Loops
  <2>2. loop' = [loop EXCEPT ![0] = Done] /\ UNCHANGED <<main, turn>>
    BY <1>10 DEF EndOfErrors, mainVars
  <2> QED
    BY <1>8, <2>1, <2>2
<1> QED
  BY <1>2, <1>3, <1>4, <1>5, <1>6, <1>7, <1>9, <1>10 DEF Next, Main

\* The goroutine that passes errors on ends only behind the producer.
LEMMA RelayStaysAlive ==
  ASSUME CollectorTypeOK, RelayLives, [Next]_vars
  PROVE  RelayLives'
<1>1. CASE UNCHANGED kafkaVars
  BY <1>1 DEF RelayLives, kafkaVars
<1>2. CASE Deliver \/ DeliverFails
  BY <1>2 DEF Deliver, DeliverFails, RelayLives
<1>3. CASE RelayTakes \/ RelayOffers \/ RelayEnds
  BY <1>3 DEF RelayTakes, RelayOffers, RelayEnds, RelayLives
<1>4. CASE AsyncClose \/ CloseTakes \/ CloseFlushed \/ CloseKafkaQ
  BY <1>4 DEF AsyncClose, CloseTakes, CloseFlushed, CloseKafkaQ, RelayLives
<1>5. CASE Input
  BY <1>5 DEF Input, RelayLives
<1>6. CASE Main
  BY <1>1, <1>4, <1>6 DEF Main, StartReceiver, StartFails, StartTransportLoop, StopCollecting,
     StopReceiver, CloseTransport, CloseQ, Wait, transportVars
<1>7. CASE Signal \/ Sarama \/ Relay \/ File(Hup) \/ File(Reopener) \/ EndOfErrors \/ UNCHANGED vars
  BY <1>1, <1>2, <1>3, <1>7 DEF Signal, Sarama, Relay, File, EndOfErrors, vars, transportVars
<1>8. ASSUME NEW w \in Workers, Worker(w) PROVE RelayLives'
  BY <1>1, <1>5, <1>8 DEF Worker, TakePacket, FormatFails, SendKafka, SendFile, WriteFile,
     EndOfPacket, LogError, EndWorker, transportVars
<1>9. ASSUME NEW l \in Loops, Loop(l) PROVE RelayLives'
  BY <1>1, <1>9 DEF Loop, LogOther, LogMuted, EndLoop, transportVars
<1> QED
  BY <1>6, <1>7, <1>8, <1>9 DEF Next

\* A producer that takes nothing more has messages to settle, or errors to hand
\* to a goroutine that takes them.
LEMMA FullProducerGoesOn ==
  ASSUME IInv, RelayLives, Room > 0, ErrorRoom > 0, driver = "kafka", producer = "open",
         ~(queue < Room)
  PROVE  SaramaCanGo \/ RelayCanGo
<1>1. queue > 0
  BY CollectorAssumption DEF CollectorAssumption, IInv, CollectorTypeOK
<1>2. relay \in {"select", "error"}
  BY DEF RelayLives
<1>3. CASE errs < ErrorRoom
  BY <1>1, <1>3 DEF SaramaCanGo
<1>4. CASE ~(errs < ErrorRoom)
  <2>1. errs > 0
    BY <1>4, CollectorAssumption DEF CollectorAssumption, RelayLives
  <2> QED
    BY <1>2, <2>1 DEF RelayCanGo
<1> QED
  BY <1>3, <1>4

\* A worker that is not off can go on, or the transport it waits for can.
LEMMA WorkerGoesOn ==
  ASSUME IInv, GoInv, Room > 0, ErrorRoom > 0, main = "stopping",
         NEW w \in Workers, ReceiverOf[w] = turn, work[w] # Off
  PROVE  WorkerCanGo(w) \/ TransportCanGo
<1>1. work[w].pc \in {"idle", "sending", "failed"}
  BY DEF IInv, CollectorTypeOK, GoInv, WorkersFit
<1>2. CASE work[w].pc = "idle"
  BY <1>2 DEF GoInv, WorkersFit, WorkerCanGo
<1>3. CASE work[w].pc = "failed"
  BY <1>3 DEF WorkerCanGo
<1>4. CASE work[w].pc = "sending" /\ driver = "kafka"
  <2>1. producer = "open"
    BY DEF IInv, ProducerIsLast, Closing
  <2> QED
    BY <1>4, <2>1, FullProducerGoesOn DEF GoInv, WorkerCanGo, TransportCanGo
<1>5. CASE work[w].pc = "sending" /\ driver = "file"
  BY <1>5 DEF WorkerCanGo, TransportCanGo, ReopenerCanGo
<1> QED
  BY <1>1, <1>2, <1>3, <1>4, <1>5 DEF IInv, CollectorTypeOK

LEMMA CloseGoesOn ==
  ASSUME IInv, GoInv, ErrorRoom > 0, main = "closing"
  PROVE  CloseCanGo \/ TransportCanGo
<1>1. CASE driver = "file"
  BY <1>1 DEF CloseCanGo, TransportCanGo, ReopenerCanGo
<1>2. CASE driver = "kafka"
  <2>1. queue \in Nat /\ errs \in Nat /\ ErrorRoom \in Nat
    BY CollectorAssumption DEF CollectorAssumption, IInv, CollectorTypeOK, GoInv, RelayLives
  <2> QED
    BY <1>2, <2>1 DEF CloseCanGo, TransportCanGo, SaramaCanGo
<1> QED
  BY <1>1, <1>2 DEF IInv, CollectorTypeOK

LEMMA LoopGoesOn ==
  ASSUME GoInv, main = "ending", NEW l \in Loops
  PROVE  loop[l] = Done \/ LoopCanGo(l)
<1>1. loop[l] \in {Waiting, Done} \/ loop[l] \in [pc : {"handling"}, kind : Errors]
  BY DEF GoInv, LoopsFit, LoopStates
<1>2. loop[l].kind = "nil" => l = 0
  BY DEF GoInv, LoopsFit
<1> QED
  BY <1>1, <1>2 DEF LoopCanGo, Errors

\* The shutdown is never stuck: main waits for a worker, a transport or a loop
\* only while these can go on, though workers wait for a Kafka producer that is
\* full or for the lock that a reopening holds, and Close for messages the broker
\* takes none of (main.go 410-436, udp.go 307-321, kafka.go 96-105, 257-271).
THEOREM ShutdownIsNeverStuck ==
  ASSUME Room > 0, ErrorRoom > 0
  PROVE  Spec => []ShutdownGoesOn
<1>1. IInv /\ GoInv => ShutdownGoesOn
  BY WorkerGoesOn, CloseGoesOn, LoopGoesOn DEF ShutdownGoesOn, Stopped
<1>2. Init => IInv /\ GoInv
  BY ShutdownInitially, GoInitially
<1>3. IInv /\ GoInv /\ [Next]_vars => (IInv /\ GoInv)'
  BY ShutdownInductive, WorkersStayFit, LoopsStayFit, RelayStaysAlive DEF GoInv, IInv
<1> QED
  BY <1>1, <1>2, <1>3, PTL DEF Spec
=============================================================================
