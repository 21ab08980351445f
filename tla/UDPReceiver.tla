----------------------------- MODULE UDPReceiver -----------------------------
(***************************************************************************)
(* utils.UDPReceiver (goflow2/utils/udp.go): receiver goroutines read      *)
(* datagrams from their sockets into pooled buffers and hand the buffers   *)
(* to worker goroutines over the channel dispatch; Start and Stop open and *)
(* close sessions.  The caller calls Start and Stop one at a time, as      *)
(* cmd/goflow2/main.go and udp_test.go do, in any order.                   *)
(*                                                                         *)
(* Abstractions.  A datagram is the buffer that holds it.  free is         *)
(* packetPool together with every buffer nobody references any more:       *)
(* sync.Pool allocates when it is empty, so a buffer that is dropped       *)
(* without Put costs an allocation, not a datagram.  A datagram of size 0  *)
(* only makes the receiver loop.  errCh is a non-blocking send into a      *)
(* channel that keeps nothing, so it is left out.                          *)
(***************************************************************************)
EXTENDS Integers, Sequences, FiniteSets

CONSTANTS
  Workers,       \* the worker goroutines, r.workers of them
  Sockets,       \* the receiver goroutines, r.sockets of them
  Buffers,       \* bound: buffers ever allocated
  QueueSizes,    \* the capacities of dispatch to try, 0 is the synchronous mode
  NoBuf,         \* "no buffer in hand"
  Nil,           \* the nil packet that ends a worker
  MaxDatagrams,  \* bound: datagrams read
  MaxSessions,   \* bound: successful calls of Start
  MaxFaults      \* bound: sockets that cannot be opened or fail while read

ASSUME ConstantsAssumption ==
  /\ IsFiniteSet(Workers) /\ Workers # {}
  /\ IsFiniteSet(Sockets) /\ Sockets # {}
  /\ IsFiniteSet(Buffers)
  /\ QueueSizes \subseteq Nat
  /\ NoBuf \notin Buffers /\ Nil \notin Buffers /\ NoBuf # Nil
  /\ MaxDatagrams \in Nat /\ MaxSessions \in Nat /\ MaxFaults \in Nat
  \* Every goroutine and every place of the queue can hold a buffer at once.
  /\ \A n \in QueueSizes :
       Cardinality(Buffers) >= Cardinality(Workers) + Cardinality(Sockets) + n

VARIABLES
  cfg,          \* the UDPReceiverConfig given to NewUDPReceiver
  ready,        \* the channel ready is closed: no session is open
  qClosed,      \* the channel r.q is closed: receivers are to quit
  decodersCnt,  \* workers started in this session
  ctl,          \* the caller: "idle", "listening" in Start, "stopping" in Stop
  result,       \* what the current or last call returns
  nilsLeft,     \* nil packets Stop has still to send
  worker,       \* [Workers -> {"off", "waiting", "decoding"}]
  wbuf,         \* the buffer a worker decodes
  receiver,     \* [Sockets -> {"none", "reading", "sending", "exited"}]
  rbuf,         \* the buffer a receiver reads into or sends
  open,         \* the receiver's socket is open
  lingering,    \* sockets left open by a receiver that has exited
  dispatch,     \* the channel of packets
  free,         \* buffers without an owner
  sessions, faults,                       \* counters for the bounds
  received, decoded, dropped, abandoned   \* ledger of datagrams (history)

ctlVars == <<cfg, ready, qClosed, decodersCnt, ctl, result, nilsLeft, sessions>>
workerVars == <<worker, wbuf>>
receiverVars == <<receiver, rbuf, open, lingering, faults>>
ledger == <<received, decoded, dropped, abandoned>>
vars == <<ctlVars, workerVars, receiverVars, dispatch, free, ledger>>

-----------------------------------------------------------------------------
Configs == [queueSize : QueueSizes, blocking : BOOLEAN]

Init ==
  /\ cfg \in Configs
  /\ ready = TRUE
  /\ qClosed = FALSE
  /\ decodersCnt = 0
  /\ ctl = "idle"
  /\ result = "ok"
  /\ nilsLeft = 0
  /\ worker = [w \in Workers |-> "off"]
  /\ wbuf = [w \in Workers |-> NoBuf]
  /\ receiver = [s \in Sockets |-> "none"]
  /\ rbuf = [s \in Sockets |-> NoBuf]
  /\ open = [s \in Sockets |-> FALSE]
  /\ lingering = 0
  /\ dispatch = <<>>
  /\ free = Buffers
  /\ sessions = 0 /\ faults = 0
  /\ received = 0 /\ decoded = 0 /\ dropped = 0 /\ abandoned = 0

\* The worker w gets x from the channel: a packet to decode, or nil to return.
Take(w, x) ==
  /\ worker[w] = "waiting"
  /\ worker' = [worker EXCEPT ![w] = IF x = Nil THEN "off" ELSE "decoding"]
  /\ wbuf' = [wbuf EXCEPT ![w] = IF x = Nil THEN NoBuf ELSE x]

\* Mutant: a full queue loses its oldest packet.
SendOrReplaceOldest(x) ==
  \/ /\ cfg.queueSize > 0
     /\ dispatch' = Append(IF Len(dispatch) < cfg.queueSize THEN dispatch
                           ELSE Tail(dispatch), x)
     /\ UNCHANGED workerVars
  \/ /\ cfg.queueSize = 0
     /\ \E w \in Workers : Take(w, x)
     /\ UNCHANGED dispatch

\* r.dispatch <- x, into the buffer or, without one, to a waiting worker.
Send(x) ==
  \/ /\ Len(dispatch) < cfg.queueSize
     /\ dispatch' = Append(dispatch, x)
     /\ UNCHANGED workerVars
  \/ /\ cfg.queueSize = 0
     /\ \E w \in Workers : Take(w, x)
     /\ UNCHANGED dispatch

-----------------------------------------------------------------------------
(* Start: ready is replaced, the workers are started, then the receivers one
   by one, each only after the previous one has its socket. *)
Start ==
  /\ ctl = "idle"
  /\ ready
  /\ sessions < MaxSessions
  /\ sessions' = sessions + 1
  /\ ready' = FALSE
  /\ worker' = [w \in Workers |-> "waiting"]
  /\ decodersCnt' = decodersCnt + Cardinality(Workers)
  /\ ctl' = "listening"
  /\ result' = "pending"
  /\ receiver' = [s \in Sockets |-> "none"]
  /\ UNCHANGED <<cfg, qClosed, nilsLeft, wbuf, rbuf, open, lingering, faults,
                 dispatch, free, ledger>>

StartAgain ==
  /\ ctl = "idle"
  /\ ~ready
  /\ result' = "already started"
  /\ UNCHANGED <<cfg, ready, qClosed, decodersCnt, ctl, nilsLeft, sessions,
                 workerVars, receiverVars, dispatch, free, ledger>>

\* The receiver of s takes its next buffer from the pool, given the pool.
NextBuffer(s, pool) ==
  \E b \in pool : /\ rbuf' = [rbuf EXCEPT ![s] = b]
                  /\ free' = pool \ {b}

Listen(s) ==
  /\ ctl = "listening"
  /\ receiver[s] = "none"
  /\ receiver' = [receiver EXCEPT ![s] = "reading"]
  /\ open' = [open EXCEPT ![s] = TRUE]
  /\ NextBuffer(s, free)
  /\ UNCHANGED <<ctlVars, workerVars, lingering, faults, dispatch, ledger>>

Listening ==
  /\ ctl = "listening"
  /\ \A s \in Sockets : receiver[s] # "none"
  /\ ctl' = "idle"
  /\ result' = "ok"
  /\ UNCHANGED <<cfg, ready, qClosed, decodersCnt, nilsLeft, sessions, workerVars,
                 receiverVars, dispatch, free, ledger>>

\* Mutant: a nil per configured worker, whether it was started or not.
BeginStopForAll(res) ==
  /\ ctl' = "stopping"
  /\ result' = res
  /\ qClosed' = TRUE
  /\ nilsLeft' = Cardinality(Workers)
  /\ UNCHANGED <<cfg, ready, decodersCnt, sessions, workerVars, dispatch, free,
                 ledger>>

(* Stop up to its loop: close(r.q) unless closed, then one nil per worker. *)
BeginStop(res) ==
  /\ ctl' = "stopping"
  /\ result' = res
  /\ qClosed' = TRUE
  /\ nilsLeft' = decodersCnt
  /\ UNCHANGED <<cfg, ready, decodersCnt, sessions, workerVars, dispatch, free,
                 ledger>>

\* A socket cannot be opened: Start stops what it started and returns the error.
ListenFails(s) ==
  /\ ctl = "listening"
  /\ receiver[s] = "none"
  /\ faults < MaxFaults
  /\ faults' = faults + 1
  /\ BeginStop("listen error")
  /\ UNCHANGED <<receiver, rbuf, open, lingering>>

Stop ==
  /\ ctl = "idle"
  /\ BeginStop("pending")
  /\ UNCHANGED receiverVars

SendNil ==
  /\ ctl = "stopping"
  /\ nilsLeft > 0
  /\ Send(Nil)
  /\ nilsLeft' = nilsLeft - 1
  /\ UNCHANGED <<cfg, ready, qClosed, decodersCnt, ctl, result, sessions,
                 receiverVars, free, ledger>>

Running(s) == receiver[s] \in {"reading", "sending"}

(* done, which is r.wg.Wait(), and then init(): a new r.q, and ready closed again unless it
   is closed already. *)
FinishStopWhen(done, counter) ==
  /\ ctl = "stopping"
  /\ nilsLeft = 0
  /\ done
  /\ qClosed' = FALSE
  /\ decodersCnt' = counter
  /\ ready' = TRUE
  /\ result' = IF result = "listen error" THEN result
               ELSE IF ready THEN "already stopped" ELSE "ok"
  /\ ctl' = "idle"
  /\ UNCHANGED <<cfg, nilsLeft, sessions, workerVars, receiverVars, dispatch, free,
                 ledger>>

WorkersAreOff == \A w \in Workers : worker[w] = "off"
ReceiversAreOff == \A s \in Sockets : ~Running(s)

\* Mutants: Stop does not reset decodersCnt, does not wait for the receivers, or
\* does not wait for the workers.
FinishStopCounting == FinishStopWhen(WorkersAreOff /\ ReceiversAreOff, decodersCnt)
FinishStopBeforeReceivers == FinishStopWhen(WorkersAreOff, 0)
FinishStopBeforeWorkers == FinishStopWhen(ReceiversAreOff, 0)

FinishStop == FinishStopWhen(WorkersAreOff /\ ReceiversAreOff, 0)

-----------------------------------------------------------------------------
(* The receiver of the socket s. *)

\* ReadFromUDP returns a datagram.
Read(s) ==
  /\ receiver[s] = "reading"
  /\ open[s]
  /\ received < MaxDatagrams
  /\ received' = received + 1
  /\ receiver' = [receiver EXCEPT ![s] = "sending"]
  /\ UNCHANGED <<ctlVars, workerVars, rbuf, open, lingering, faults, dispatch,
                 free, decoded, dropped, abandoned>>

\* The receiver returns; its own closer still has the socket to close, if open.
Exit(s) ==
  /\ receiver' = [receiver EXCEPT ![s] = "exited"]
  /\ rbuf' = [rbuf EXCEPT ![s] = NoBuf]
  /\ free' = free \cup {rbuf[s]}
  /\ open' = [open EXCEPT ![s] = FALSE]
  /\ lingering' = IF open[s] THEN lingering + 1 ELSE lingering

\* ReadFromUDP fails, because the socket was closed or for a reason of its own.
ReadFails(s) ==
  /\ receiver[s] = "reading"
  /\ \/ ~open[s] /\ UNCHANGED faults
     \/ open[s] /\ faults < MaxFaults /\ faults' = faults + 1
  /\ Exit(s)
  /\ UNCHANGED <<ctlVars, workerVars, dispatch, ledger>>

Enqueue(s) ==
  /\ receiver[s] = "sending"
  /\ Send(rbuf[s])
  /\ receiver' = [receiver EXCEPT ![s] = "reading"]
  /\ NextBuffer(s, free)
  /\ UNCHANGED <<ctlVars, open, lingering, faults, ledger>>

\* case <-r.q: return, and the packet in hand goes nowhere.
Quit(s) ==
  /\ receiver[s] = "sending"
  /\ qClosed
  /\ Exit(s)
  /\ abandoned' = abandoned + 1
  /\ UNCHANGED <<ctlVars, workerVars, faults, dispatch, received, decoded,
                 dropped>>

\* default: the queue is full, the callback counts the packet. Without a queue a
\* worker that has nothing to do may still be on its way to the channel, so that
\* the packet is dropped though nobody decodes.
Drop(s) ==
  /\ receiver[s] = "sending"
  /\ ~cfg.blocking
  /\ Len(dispatch) >= cfg.queueSize
  /\ ~qClosed
  /\ dropped' = dropped + 1
  /\ receiver' = [receiver EXCEPT ![s] = "reading"]
  /\ NextBuffer(s, free \cup {rbuf[s]})
  /\ UNCHANGED <<ctlVars, workerVars, open, lingering, faults, dispatch,
                 received, decoded, abandoned>>

\* Mutant: the closing goroutine waits only for its own receiver to return.
CloseSocketOnExit(s) ==
  /\ receiver[s] = "exited"
  /\ open[s]
  /\ open' = [open EXCEPT ![s] = FALSE]
  /\ UNCHANGED <<ctlVars, workerVars, receiver, rbuf, lingering, faults,
                 dispatch, free, ledger>>

\* The goroutine that waits for r.q and closes the socket.
CloseSocket(s) ==
  /\ qClosed
  /\ Running(s)
  /\ open[s]
  /\ open' = [open EXCEPT ![s] = FALSE]
  /\ UNCHANGED <<ctlVars, workerVars, receiver, rbuf, lingering, faults,
                 dispatch, free, ledger>>

\* Mutant: the closing goroutine waits only for r.q.
CloseLingeringOnStop ==
  /\ qClosed
  /\ lingering > 0
  /\ lingering' = lingering - 1
  /\ UNCHANGED <<ctlVars, workerVars, receiver, rbuf, open, faults, dispatch,
                 free, ledger>>

\* The same goroutine after its receiver has returned; Stop does not wait for it.
CloseLingering ==
  /\ lingering > 0
  /\ lingering' = lingering - 1
  /\ UNCHANGED <<ctlVars, workerVars, receiver, rbuf, open, faults, dispatch,
                 free, ledger>>

-----------------------------------------------------------------------------
(* The worker w. *)

\* Mutant: the buffer is put back as soon as it is taken from the channel.
ReceiveAndPut(w) ==
  /\ dispatch # <<>>
  /\ Take(w, Head(dispatch))
  /\ dispatch' = Tail(dispatch)
  /\ free' = free \cup ({Head(dispatch)} \ {Nil})
  /\ UNCHANGED <<ctlVars, receiverVars, ledger>>

Receive(w) ==
  /\ dispatch # <<>>
  /\ Take(w, Head(dispatch))
  /\ dispatch' = Tail(dispatch)
  /\ UNCHANGED <<ctlVars, receiverVars, free, ledger>>

\* Mutant: a worker returns after its packet, as on an error of decodeFunc.
FinishDecodeAndReturn(w) ==
  /\ worker[w] = "decoding"
  /\ worker' = [worker EXCEPT ![w] = "off"]
  /\ wbuf' = [wbuf EXCEPT ![w] = NoBuf]
  /\ free' = free \cup {wbuf[w]}
  /\ decoded' = decoded + 1
  /\ UNCHANGED <<ctlVars, receiverVars, dispatch, received, dropped, abandoned>>

\* decodeFunc returns, with or without an error, and the buffer is put back.
FinishDecode(w) ==
  /\ worker[w] = "decoding"
  /\ worker' = [worker EXCEPT ![w] = "waiting"]
  /\ wbuf' = [wbuf EXCEPT ![w] = NoBuf]
  /\ free' = free \cup {wbuf[w]}
  /\ decoded' = decoded + 1
  /\ UNCHANGED <<ctlVars, receiverVars, dispatch, received, dropped, abandoned>>

-----------------------------------------------------------------------------
Caller ==
  \/ Start \/ StartAgain \/ Listening \/ Stop \/ SendNil \/ FinishStop
  \/ \E s \in Sockets : Listen(s) \/ ListenFails(s)

Receiver(s) ==
  \/ Read(s) \/ ReadFails(s) \/ Enqueue(s) \/ Quit(s) \/ Drop(s)

Worker(w) == Receive(w) \/ FinishDecode(w)

Next ==
  \/ Caller
  \/ \E s \in Sockets : Receiver(s) \/ CloseSocket(s)
  \/ CloseLingering
  \/ \E w \in Workers : Worker(w)

Spec == Init /\ [][Next]_vars

(* The Go scheduler runs every goroutine; a call of Stop that has begun goes
   on.  Blocked senders of a channel are served in order, so the nil that Stop
   sends is not overtaken for ever.  Nothing makes the caller call Start or
   Stop, or a datagram arrive. *)
Fairness ==
  /\ SF_vars(SendNil)
  /\ WF_vars(FinishStop)
  /\ \A s \in Sockets : /\ WF_vars(ReadFails(s) /\ ~open[s])
                        /\ WF_vars(Enqueue(s) \/ Quit(s) \/ Drop(s))
                        /\ WF_vars(CloseSocket(s))
  /\ WF_vars(CloseLingering)
  /\ \A w \in Workers : WF_vars(Receive(w)) /\ WF_vars(FinishDecode(w))

FairSpec == Spec /\ Fairness

-----------------------------------------------------------------------------
(* Properties *)

Packets == {i \in DOMAIN dispatch : dispatch[i] # Nil}

TypeOK ==
  /\ cfg \in Configs
  /\ ready \in BOOLEAN /\ qClosed \in BOOLEAN
  /\ decodersCnt \in 0..Cardinality(Workers)
  /\ ctl \in {"idle", "listening", "stopping"}
  /\ result \in {"ok", "pending", "already started", "already stopped",
                 "listen error"}
  /\ nilsLeft \in 0..Cardinality(Workers)
  /\ worker \in [Workers -> {"off", "waiting", "decoding"}]
  /\ wbuf \in [Workers -> Buffers \cup {NoBuf}]
  /\ receiver \in [Sockets -> {"none", "reading", "sending", "exited"}]
  /\ rbuf \in [Sockets -> Buffers \cup {NoBuf}]
  /\ open \in [Sockets -> BOOLEAN]
  /\ lingering \in Nat
  /\ dispatch \in Seq(Buffers \cup {Nil})
  /\ Len(dispatch) <= cfg.queueSize
  /\ free \in SUBSET Buffers
  /\ sessions \in 0..MaxSessions /\ faults \in 0..MaxFaults
  /\ received \in 0..MaxDatagrams
  /\ decoded \in Nat /\ dropped \in Nat /\ abandoned \in Nat

\* A pooled buffer has one owner at a time: the pool, one receiver, one place of
\* the channel or one worker.  The payload a worker decodes is therefore never
\* overwritten under it (udp.go:166-203, 229-246).
OneOwner ==
  /\ \A s, t \in Sockets : s # t /\ rbuf[s] # NoBuf => rbuf[s] # rbuf[t]
  /\ \A v, w \in Workers : v # w /\ wbuf[v] # NoBuf => wbuf[v] # wbuf[w]
  /\ \A i, j \in Packets : i # j => dispatch[i] # dispatch[j]
  /\ \A s \in Sockets, w \in Workers : rbuf[s] # NoBuf => rbuf[s] # wbuf[w]
  /\ \A s \in Sockets, i \in Packets : dispatch[i] # rbuf[s]
  /\ \A w \in Workers, i \in Packets : dispatch[i] # wbuf[w]
  /\ \A s \in Sockets : rbuf[s] \notin free
  /\ \A w \in Workers : wbuf[w] \notin free
  /\ \A i \in Packets : dispatch[i] \notin free

\* Between sessions nothing is left that could disturb the next one: no
\* goroutine runs, r.q is open again, and no nil is left in dispatch to end a
\* worker of the next session (udp.go:307-321).
StoppedIsQuiet ==
  ctl = "idle" /\ ready =>
    /\ ~qClosed /\ decodersCnt = 0
    /\ \A w \in Workers : worker[w] = "off"
    /\ \A s \in Sockets : ~Running(s)
    /\ \A i \in DOMAIN dispatch : dispatch[i] # Nil

\* While stopping, the nils not yet sent and those in the channel are as many
\* as the workers that still wait or decode: each worker gets exactly one, none
\* is left over.
OneNilPerWorker ==
  ctl = "stopping" =>
    nilsLeft + Cardinality(DOMAIN dispatch \ Packets) =
      Cardinality({w \in Workers : worker[w] # "off"})

\* Every datagram read is in hand, in the channel, being decoded, decoded,
\* counted as dropped, or was in a receiver's hand when Stop closed r.q.
Accounted ==
  received = decoded + dropped + abandoned + Cardinality(Packets)
             + Cardinality({s \in Sockets : receiver[s] = "sending"})
             + Cardinality({w \in Workers : worker[w] = "decoding"})

\* UDPReceiver implements ReceiverSession: calls alternate as udp_test.go expects
\* and no packet is decoded outside a session (udp.go:108-119, 287-321).
Session == INSTANCE ReceiverSession
             WITH session <- IF ready THEN "closed" ELSE "open"
ImplementsSession == Session!SessionSpec

\* Stop returns, whatever was queued and whatever the receivers were doing.
StopReturns == ctl = "stopping" ~> ctl = "idle"

\* A packet in the channel of an open session is decoded, or Stop is called.
QueuedIsTaken ==
  \A b \in Buffers :
    ((\E i \in Packets : dispatch[i] = b) /\ ~ready)
      ~> (qClosed \/ \A i \in Packets : dispatch[i] # b)

\* No socket is leaked: the sockets of receivers that returned get closed.
SocketsGetClosed == lingering > 0 ~> lingering = 0
=============================================================================
