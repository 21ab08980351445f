------------------------------ MODULE Collector ------------------------------
(***************************************************************************)
(* The collector as cmd/goflow2/main.go puts it together: receivers whose  *)
(* workers format and send the messages of a packet (utils/pipe.go),       *)
(* loops that log their errors, a transport with a loop of its own, and    *)
(* the shutdown by a signal, one after the other. A receiver is what       *)
(* ReceiverSession says of it: once Stop has returned its workers are off. *)
(***************************************************************************)
EXTENDS KafkaTransport, FileTransport, BatchMute

CONSTANTS
  Receivers,   \* how many addresses are listened on
  ReceiverOf,  \* the receiver each worker belongs to
  MaxPackets,  \* bound: packets taken by workers
  MaxMessages, \* bound: messages made of a packet
  Maxima       \* values of err.cnt

Workers == DOMAIN ReceiverOf

ASSUME CollectorAssumption ==
  /\ Receivers \in Nat \ {0} /\ MaxPackets \in Nat /\ MaxMessages \in Nat
  /\ Workers = Senders /\ ReceiverOf \in [Workers -> 1 .. Receivers]
  /\ Maxima \subseteq Nat /\ Room \in Nat /\ ErrorRoom \in Nat /\ MaxHups \in Nat

VARIABLES
  driver,    \* "file" or "kafka"
  main,      \* where main is: see Stages
  turn,      \* the receiver main starts or stops
  signal,    \* SIGINT or SIGTERM has arrived
  work,      \* what each worker does: see Idle
  packets,   \* packets taken so far
  loop,      \* the error loop of each receiver, and 0 that of the transport
  bm,        \* their BatchMutes
  tally      \* history: errors heard, logged, reported as skipped, reports

vars == <<driver, main, turn, signal, work, packets, loop, bm, tally,
          kafkaVars, fileVars>>

Stages == {"starting", "collecting", "stopping", "closing", "closed", "ending",
           "end", "exit"}
Loops == 0 .. Receivers

(* A worker has left messages to send, and an error of some kind to report. *)
Do(pc, left, kind) == [pc |-> pc, left |-> left, kind |-> kind]
Idle == Do("idle", 0, "none")
Off == Do("off", 0, "none")
NewLoop == [pc |-> "none", kind |-> "none"]
Waiting == [pc |-> "select", kind |-> "none"]
Done == [pc |-> "done", kind |-> "none"]

Init ==
  /\ driver \in {"file", "kafka"}
  /\ main = "starting" /\ turn = 1 /\ signal = FALSE
  /\ work = [w \in Workers |-> Off] /\ packets = 0
  /\ loop = [l \in Loops |-> NewLoop]
  /\ \E max \in Maxima : bm = [l \in Loops |-> NewBatchMute(max)]
  /\ tally = [l \in Loops |-> [heard |-> 0, logged |-> 0, skipped |-> 0, reports |-> 0]]
  /\ KafkaInit /\ FileInit
  /\ driver = "kafka" => Stdout

Alive == main \notin {"exit", "end"}
transportVars == <<kafkaVars, fileVars>>
loopVars == <<loop, bm, tally>>
mainVars == <<driver, main, turn, signal>>

-----------------------------------------------------------------------------
(* main: each receiver in turn, its loop once it runs; a receiver that      *)
(* cannot be started ends the program.                                      *)
StartReceiver ==
  /\ main = "starting" /\ turn <= Receivers
  /\ turn' = turn + 1
  /\ work' = [w \in Workers |-> IF ReceiverOf[w] = turn THEN Idle ELSE work[w]]
  /\ loop' = [loop EXCEPT ![turn] = Waiting]
  /\ UNCHANGED <<driver, main, signal, packets, bm, tally, transportVars>>
StartFails ==
  /\ main = "starting" /\ turn <= Receivers /\ main' = "exit"
  /\ UNCHANGED <<driver, turn, signal, work, packets, loopVars, transportVars>>
StartTransportLoop ==
  /\ main = "starting" /\ turn > Receivers /\ main' = "collecting"
  /\ loop' = [loop EXCEPT ![0] = Waiting]
  /\ UNCHANGED <<driver, turn, signal, work, packets, bm, tally, transportVars>>

Signal ==
  /\ Alive /\ ~signal /\ signal' = TRUE
  /\ UNCHANGED <<driver, main, turn, work, packets, loopVars, transportVars>>

StopCollecting ==
  /\ main = "collecting" /\ signal /\ main' = "stopping" /\ turn' = 1
  /\ UNCHANGED <<driver, signal, work, packets, loopVars, transportVars>>

Stopped(r) == \A w \in Workers : ReceiverOf[w] = r => work[w] = Off

(* Mutant: the receivers are told to stop and not waited for.               *)
StopReceiverInPassing ==
  /\ main = "stopping"
  /\ IF turn = Receivers THEN main' = "closing" /\ UNCHANGED turn
     ELSE turn' = turn + 1 /\ UNCHANGED main
  /\ UNCHANGED <<driver, signal, work, packets, loopVars, transportVars>>

(* recv.Stop of the receiver whose turn it is has returned; pipes and       *)
(* producer have nothing to close.                                          *)
StopReceiver ==
  /\ main = "stopping" /\ Stopped(turn)
  /\ IF turn = Receivers THEN main' = "closing" /\ UNCHANGED turn
     ELSE turn' = turn + 1 /\ UNCHANGED main
  /\ UNCHANGED <<driver, signal, work, packets, loopVars, transportVars>>

(* transporter.Close, step by step.                                         *)
CloseTransport ==
  /\ main = "closing"
  /\ \/ driver = "kafka" /\ (AsyncClose \/ CloseTakes \/ CloseFlushed)
        /\ UNCHANGED <<main, fileVars>>
     \/ driver = "kafka" /\ CloseKafkaQ /\ main' = "closed" /\ UNCHANGED fileVars
     \/ driver = "file" /\ CloseFile /\ main' = "closed" /\ UNCHANGED kafkaVars
  /\ UNCHANGED <<driver, turn, signal, work, packets, loopVars>>

(* What Close of the file does last, the HTTP server, and close(q).         *)
CloseQ ==
  /\ main = "closed" /\ main' = "ending"
  /\ IF driver = "file" THEN CloseFileQ ELSE UNCHANGED fileVars
  /\ UNCHANGED <<driver, turn, signal, work, packets, loopVars, kafkaVars>>

Wait ==
  /\ main = "ending" /\ \A l \in Loops : loop[l] = Done
  /\ main' = "end"
  /\ UNCHANGED <<driver, turn, signal, work, packets, loopVars, transportVars>>

-----------------------------------------------------------------------------
(* A worker decodes and produces a packet: messages to send, or an error.   *)
(* A template that is not known or a panic is muted, other errors are not.  *)
Kinds == {"muted", "other"}
TakePacket(w) ==
  /\ Alive /\ work[w] = Idle /\ packets < MaxPackets /\ packets' = packets + 1
  /\ \/ \E n \in 0 .. MaxMessages : work' = [work EXCEPT ![w] = Do("sending", n, "none")]
     \/ \E k \in Kinds : work' = [work EXCEPT ![w] = Do("failed", 0, k)]
  /\ UNCHANGED <<mainVars, loopVars, transportVars>>

Sent(w) == work' = [work EXCEPT ![w].left = @ - 1]
Fails(w, kind) == work' = [work EXCEPT ![w] = Do("failed", 0, kind)]
Sending(w) == Alive /\ work[w].pc = "sending" /\ work[w].left > 0

(* formatSend: the first message that cannot be formatted or sent ends it.  *)
FormatFails(w) ==
  /\ Sending(w) /\ writer[w] = Unset /\ \E k \in Kinds : Fails(w, k)
  /\ UNCHANGED <<mainVars, packets, loopVars, transportVars>>
SendKafka(w) ==
  /\ Sending(w) /\ driver = "kafka" /\ Input /\ Sent(w)
  /\ UNCHANGED <<mainVars, packets, loopVars, fileVars>>
SendFile(w) ==
  /\ Sending(w) /\ driver = "file" /\ CopyWriter(w)
  /\ UNCHANGED <<mainVars, work, packets, loopVars, kafkaVars>>
WriteFile(w) ==
  /\ Sending(w) /\ Written(w)
  /\ IF WriteFails(w) THEN Fails(w, "other") ELSE Sent(w)
  /\ UNCHANGED <<mainVars, packets, loopVars, kafkaVars>>
EndOfPacket(w) ==
  /\ Alive /\ work[w].pc = "sending" /\ work[w].left = 0
  /\ work' = [work EXCEPT ![w] = Idle]
  /\ UNCHANGED <<mainVars, packets, loopVars, transportVars>>

Hand(l, kind) ==
  loop' = IF loop[l] = Waiting
          THEN [loop EXCEPT ![l] = [pc |-> "handling", kind |-> kind]] ELSE loop

(* logError: the error goes to the loop if it waits, else nowhere.          *)
LogError(w) ==
  /\ Alive /\ work[w].pc = "failed"
  /\ Hand(ReceiverOf[w], work[w].kind)
  /\ work' = [work EXCEPT ![w] = Idle]
  /\ UNCHANGED <<mainVars, packets, bm, tally, transportVars>>

(* The nil packet of Stop.                                                  *)
EndWorker(w) ==
  /\ main = "stopping" /\ ReceiverOf[w] = turn /\ work[w] = Idle
  /\ work' = [work EXCEPT ![w] = Off]
  /\ UNCHANGED <<mainVars, packets, loopVars, transportVars>>

-----------------------------------------------------------------------------
Handling(l, kinds) == Alive /\ loop[l].pc = "handling" /\ loop[l].kind \in kinds

(* An error that is not muted, or a socket that was closed.                 *)
LogOther(l) ==
  /\ Handling(l, {"other"}) /\ loop' = [loop EXCEPT ![l] = Waiting]
  /\ UNCHANGED <<mainVars, work, packets, bm, tally, transportVars>>

(* Either the error is logged, or the number of errors skipped before it.   *)
LogMuted(l) ==
  /\ Handling(l, {"muted"}) /\ loop' = [loop EXCEPT ![l] = Waiting]
  /\ \E late \in BOOLEAN :
       LET i == Increment(bm[l], late)
           told == IF i.muted THEN 0 ELSE i.skipped IN
       /\ bm' = [bm EXCEPT ![l] = i.bm]
       /\ tally' = [tally EXCEPT
            ![l].heard = @ + 1, ![l].skipped = @ + told,
            ![l].reports = @ + IF told > 0 THEN 1 ELSE 0,
            ![l].logged = @ + IF ~i.muted /\ told = 0 THEN 1 ELSE 0]
  /\ UNCHANGED <<mainVars, work, packets, transportVars>>

(* The nil of a transport whose channel of errors is closed.                *)
EndOfErrors ==
  /\ Handling(0, {"nil"}) /\ loop' = [loop EXCEPT ![0] = Done]
  /\ UNCHANGED <<mainVars, work, packets, bm, tally, transportVars>>

(* Mutant: the loop of the transport does not look at q.                    *)
EndLoopOfReceiver(l) ==
  /\ main = "ending" /\ l # 0
  /\ loop[l] = Waiting /\ loop' = [loop EXCEPT ![l] = Done]
  /\ UNCHANGED <<mainVars, work, packets, bm, tally, transportVars>>

EndLoop(l) ==
  /\ main = "ending"
  /\ loop[l] = Waiting /\ loop' = [loop EXCEPT ![l] = Done]
  /\ UNCHANGED <<mainVars, work, packets, bm, tally, transportVars>>

(* Sarama settles messages, and the driver passes errors on.                *)
Sarama ==
  /\ Alive /\ driver = "kafka" /\ (Deliver \/ DeliverFails)
  /\ UNCHANGED <<mainVars, work, packets, loopVars, fileVars>>
Relay ==
  /\ Alive /\ driver = "kafka"
  /\ \/ (RelayTakes \/ RelayEnds) /\ UNCHANGED loop
     \/ RelayOffers /\ Hand(0, IF relay = "nil" THEN "nil" ELSE "muted")
  /\ UNCHANGED <<mainVars, work, packets, bm, tally, fileVars>>
File(step) ==
  /\ Alive /\ driver = "file" /\ step
  /\ UNCHANGED <<mainVars, work, packets, loopVars, kafkaVars>>

Main ==
  \/ StartReceiver \/ StartFails \/ StartTransportLoop
  \/ StopCollecting \/ StopReceiver \/ CloseTransport \/ CloseQ \/ Wait
Worker(w) ==
  \/ TakePacket(w) \/ FormatFails(w) \/ SendKafka(w) \/ SendFile(w) \/ WriteFile(w)
  \/ EndOfPacket(w) \/ LogError(w) \/ EndWorker(w)
Loop(l) == LogOther(l) \/ LogMuted(l) \/ EndLoop(l)

Next ==
  \/ Signal \/ Main \/ Sarama \/ Relay \/ File(Hup) \/ File(Reopener) \/ EndOfErrors
  \/ \E w \in Workers : Worker(w)
  \/ \E l \in Loops : Loop(l)

Spec == Init /\ [][Next]_vars

(* Goroutines that can go on do, and Sarama settles what it has taken; no   *)
(* signal need come.                                                        *)
FairSpec ==
  /\ Spec /\ WF_vars(Main) /\ WF_vars(Sarama) /\ WF_vars(Relay)
  /\ WF_vars(EndOfErrors) /\ WF_vars(File(Reopener))
  /\ \A w \in Workers : WF_vars(Worker(w))
  /\ \A l \in Loops : WF_vars(Loop(l))

-----------------------------------------------------------------------------
(* Shutdown never closes the transport under a Send: no message is handed   *)
(* to a producer being closed, which would panic, a writer is closed under  *)
(* its sender by SIGHUP only, and once Close has returned nothing that Send *)
(* had taken is left in the producer (main.go 414-427).                     *)
NoSendMeetsClose ==
  /\ producer # "open" => \A w \in Workers : work[w].pc # "sending"
  /\ \A w \in Workers : (writer[w] # Unset /\ WriteFails(w)) => hups > 0
  /\ main \in {"closed", "ending", "end"} => queue = 0

(* Every muted error a loop has heard is logged, counted in a report of     *)
(* skipped ones or counted towards the next report, save one for each       *)
(* report: the error that causes it (mute.go 14-31, main.go 342-364).       *)
Unreported(b) == IF b.max > 0 /\ b.ctr > b.max THEN b.ctr - b.max ELSE 0
ErrorsAreAccounted ==
  \A l \in Loops :
    tally[l].heard = tally[l].logged + tally[l].skipped + tally[l].reports
                     + Unreported(bm[l])

(* After a signal the program ends, whatever its workers, brokers and files *)
(* are at, and no loop is left that wg.Wait waits for (main.go 410-436).    *)
ShutdownEnds == signal ~> main \in {"end", "exit"}

(* As the comment at transport/file/transport.go 68 has it: after a failed  *)
(* reopening the driver keeps using the old file.                           *)
KeepsUsingTheOldFile ==
  (main \in {"starting", "collecting"} /\ ~Locked) => handle \in open
=============================================================================
