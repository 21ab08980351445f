--------------------------- MODULE UDPReceiverProofs ---------------------------
(***************************************************************************)
(* Theorems about UDPReceiver for any workers, sockets, capacity of the    *)
(* queue and bounds.                                                       *)
(*                                                                         *)
(* TypeInv says that a goroutine has a buffer in hand exactly while it     *)
(* reads, sends or decodes, and that a closed session has no goroutines:   *)
(* with it TypeOK, OneOwner and Accounted are inductive.  NilInv follows   *)
(* the nil packets of Stop: outside Stop there are none, inside it each    *)
(* worker that is not off has one to come, so the session that Stop leaves *)
(* is quiet.                                                               *)
(***************************************************************************)
EXTENDS UDPReceiver, FiniteSetTheorems, TLAPS

ClosedIsEmpty ==
  ready => /\ decodersCnt = 0
           /\ \A w \in Workers : worker[w] = "off"
           /\ \A s \in Sockets : ~Running(s)

BuffersInHand ==
  /\ \A s \in Sockets : rbuf[s] \in Buffers <=> Running(s)
  /\ \A w \in Workers : wbuf[w] \in Buffers <=> worker[w] = "decoding"

TypeInv == TypeOK /\ (ctl = "listening" => ~ready) /\ ClosedIsEmpty /\ BuffersInHand

NoNilOutsideStop ==
  ctl # "stopping" => /\ ~qClosed /\ nilsLeft = 0
                      /\ \A i \in DOMAIN dispatch : dispatch[i] # Nil

OpenHasWorkers ==
  ~ready /\ ctl # "stopping" =>
    decodersCnt = Cardinality(Workers) /\ \A w \in Workers : worker[w] # "off"

NilInv == NoNilOutsideStop /\ OpenHasWorkers /\ OneNilPerWorker

\* The places of the sequence q that hold an element of V.
Places(q, V) == {i \in DOMAIN q : q[i] \in V}

-----------------------------------------------------------------------------
(* Counting. *)

\* Two sets that differ at most in x.
LEMMA OneElement ==
  ASSUME NEW A, NEW B, NEW x, IsFiniteSet(A), A \ {x} = B \ {x}
  PROVE  /\ Cardinality(A) \in Nat /\ Cardinality(B) \in Nat
         /\ x \in A /\ x \in B => Cardinality(B) = Cardinality(A)
         /\ x \in A /\ x \notin B => Cardinality(B) = Cardinality(A) - 1
         /\ x \notin A /\ x \in B => Cardinality(B) = Cardinality(A) + 1
         /\ x \notin A /\ x \notin B => Cardinality(B) = Cardinality(A)
<1>1. IsFiniteSet(A \ {x}) /\ IsFiniteSet(B \ {x})
  BY FS_RemoveElement
<1>2. CASE x \in B
  <2>1. B = (B \ {x}) \cup {x}
    BY <1>2
  <2>2. IsFiniteSet(B) /\ Cardinality(B) = Cardinality(B \ {x}) + 1
    BY <1>1, <2>1, FS_AddElement
  <2>3. /\ Cardinality(A) \in Nat /\ Cardinality(B) \in Nat
        /\ Cardinality(A \ {x}) = IF x \in A THEN Cardinality(A) - 1 ELSE Cardinality(A)
    BY <2>2, FS_RemoveElement, FS_CardinalityType
  <2> QED
    BY <1>2, <2>2, <2>3
<1>3. CASE x \notin B
  <2>1. B = A \ {x}
    BY <1>3
  <2>2. /\ Cardinality(A) \in Nat /\ Cardinality(B) \in Nat
        /\ Cardinality(B) = IF x \in A THEN Cardinality(A) - 1 ELSE Cardinality(A)
    BY <1>1, <2>1, FS_RemoveElement, FS_CardinalityType
  <2> QED
    BY <1>3, <2>2
<1> QED
  BY <1>2, <1>3

\* Appending x adds a place, if x is counted.
LEMMA AppendPlaces ==
  ASSUME NEW T, NEW q \in Seq(T), NEW x \in T, NEW V
  PROVE  /\ IsFiniteSet(Places(q, V)) /\ Cardinality(Places(q, V)) \in Nat
         /\ x \in V => Cardinality(Places(Append(q, x), V)) = Cardinality(Places(q, V)) + 1
         /\ x \notin V => Cardinality(Places(Append(q, x), V)) = Cardinality(Places(q, V))
<1> DEFINE n == Len(q) + 1
           r == Append(q, x)
<1>1. n \in Nat /\ n > 0 /\ DOMAIN q = 1 .. Len(q) /\ n \notin DOMAIN q
  OBVIOUS
<1>2. DOMAIN r = 1 .. n /\ r[n] = x /\ \A i \in 1 .. Len(q) : r[i] = q[i]
  OBVIOUS
<1>3. IsFiniteSet(1 .. Len(q)) /\ Places(q, V) \in SUBSET (1 .. Len(q))
  BY <1>1, FS_Interval DEF Places
<1>4. IsFiniteSet(Places(q, V))
  BY <1>3, FS_Subset
<1>5. \A i : i \in 1 .. n /\ i # n <=> i \in 1 .. Len(q)
  BY <1>1
<1> HIDE DEF n, r
<1>6. Places(q, V) \ {n} = Places(r, V) \ {n}
  BY <1>1, <1>2, <1>5 DEF Places
<1>7. n \notin Places(q, V) /\ (n \in Places(r, V) <=> x \in V)
  BY <1>1, <1>2 DEF Places
<1> DEFINE A == Places(q, V)
           B == Places(r, V)
<1>8. /\ IsFiniteSet(A) /\ A \ {n} = B \ {n}
      /\ n \notin A /\ (n \in B <=> x \in V)
  BY <1>4, <1>6, <1>7
<1> HIDE DEF A, B
<1>9. /\ Cardinality(A) \in Nat
      /\ x \in V => Cardinality(B) = Cardinality(A) + 1
      /\ x \notin V => Cardinality(B) = Cardinality(A)
  BY <1>8, OneElement
<1> QED
  BY <1>8, <1>9 DEF A, B, r

\* Without its first element a sequence has the same places, moved by one.
LEMMA TailPlaces ==
  ASSUME NEW T, NEW q \in Seq(T), q # <<>>, NEW V
  PROVE  /\ Cardinality(Places(q, V)) \in Nat
         /\ Head(q) \in V => Cardinality(Places(Tail(q), V)) = Cardinality(Places(q, V)) - 1
         /\ Head(q) \notin V => Cardinality(Places(Tail(q), V)) = Cardinality(Places(q, V))
<1> DEFINE A == Places(q, V)
           B == Places(Tail(q), V)
           f == [i \in A \ {1} |-> i - 1]
<1>1. DOMAIN q = 1 .. Len(q) /\ Head(q) = q[1] /\ Len(q) \in Nat /\ Len(q) > 0
  OBVIOUS
<1>2. /\ DOMAIN Tail(q) = 1 .. (Len(q) - 1)
      /\ \A i \in 1 .. (Len(q) - 1) : Tail(q)[i] = q[i + 1]
  BY <1>1
<1>3. IsFiniteSet(A)
  <2>1. IsFiniteSet(1 .. Len(q)) /\ A \in SUBSET (1 .. Len(q))
    BY <1>1, FS_Interval DEF Places
  <2> QED
    BY <2>1, FS_Subset
<1>4. IsFiniteSet(A \ {1})
  BY <1>3, FS_RemoveElement
<1>5. \A i \in A \ {1} : i - 1 \in B
  BY <1>1, <1>2 DEF Places
<1>6. \A j \in B : j + 1 \in A \ {1} /\ j = (j + 1) - 1 /\ j \in Int
  BY <1>1, <1>2 DEF Places
<1>7. A \subseteq Int
  BY <1>1 DEF Places
<1> HIDE DEF A, B
<1>8. f \in [A \ {1} -> B]
  BY <1>5
<1>9. \A i, j \in A \ {1} : f[i] = f[j] => i = j
  BY <1>7
<1>10. \A j \in B : \E i \in A \ {1} : f[i] = j
  BY <1>6
<1> HIDE DEF f
<1>11. f \in Bijection(A \ {1}, B)
  BY <1>8, <1>9, <1>10 DEF Bijection, Injection, Surjection, IsInjective
<1>12. Cardinality(B) = Cardinality(A \ {1})
  BY <1>4, <1>11, FS_Bijection DEF ExistsBijection
<1>13. 1 \in A <=> Head(q) \in V
  BY <1>1 DEF A, Places
<1>14. /\ Cardinality(A) \in Nat
       /\ Cardinality(A \ {1}) = IF 1 \in A THEN Cardinality(A) - 1 ELSE Cardinality(A)
  BY <1>3, FS_RemoveElement, FS_CardinalityType
<1>15. /\ Cardinality(A) \in Nat
       /\ Head(q) \in V => Cardinality(B) = Cardinality(A) - 1
       /\ Head(q) \notin V => Cardinality(B) = Cardinality(A)
  BY <1>12, <1>13, <1>14
<1> QED
  BY <1>15 DEF A, B

-----------------------------------------------------------------------------
(* Types. *)

\* What a worker that takes a packet leaves in order.
WorkersOK ==
  /\ worker \in [Workers -> {"off", "waiting", "decoding"}]
  /\ wbuf \in [Workers -> Buffers \cup {NoBuf}]
  /\ \A w \in Workers : wbuf[w] \in Buffers <=> worker[w] = "decoding"
  /\ ready => \A w \in Workers : worker[w] = "off"

LEMMA TakeTypes ==
  ASSUME TypeInv, NEW w \in Workers, NEW x \in Buffers \cup {Nil}, Take(w, x),
         UNCHANGED ready
  PROVE  WorkersOK'
BY ConstantsAssumption DEF TypeInv, TypeOK, ClosedIsEmpty, BuffersInHand, Take,
   WorkersOK, ConstantsAssumption

LEMMA SendTypes ==
  ASSUME TypeInv, NEW x \in Buffers \cup {Nil}, Send(x), UNCHANGED <<cfg, ready>>
  PROVE  /\ WorkersOK'
         /\ dispatch' \in Seq(Buffers \cup {Nil}) /\ Len(dispatch') <= cfg'.queueSize
<1>1. CASE Len(dispatch) < cfg.queueSize /\ dispatch' = Append(dispatch, x)
           /\ UNCHANGED workerVars
  <2>1. dispatch \in Seq(Buffers \cup {Nil}) /\ cfg.queueSize \in Nat
    BY ConstantsAssumption DEF TypeInv, TypeOK, Configs, ConstantsAssumption
  <2>2. dispatch' \in Seq(Buffers \cup {Nil}) /\ Len(dispatch') = Len(dispatch) + 1
    BY <1>1, <2>1
  <2>3. Len(dispatch') <= cfg'.queueSize
    BY <1>1, <2>1, <2>2
  <2>4. WorkersOK'
    BY <1>1 DEF TypeInv, TypeOK, ClosedIsEmpty, BuffersInHand, WorkersOK, workerVars
  <2> QED
    BY <2>2, <2>3, <2>4
<1>2. CASE (\E w \in Workers : Take(w, x)) /\ UNCHANGED dispatch
  BY <1>2, TakeTypes DEF TypeInv, TypeOK
<1> QED
  BY <1>1, <1>2 DEF Send

\* TypeOK is NumbersOK /\ ShapesOK, and TypeInv adds Book.
NumbersOK ==
  /\ decodersCnt \in 0 .. Cardinality(Workers)
  /\ nilsLeft \in 0 .. Cardinality(Workers)
  /\ lingering \in Nat
  /\ sessions \in 0 .. MaxSessions /\ faults \in 0 .. MaxFaults
  /\ received \in 0 .. MaxDatagrams
  /\ decoded \in Nat /\ dropped \in Nat /\ abandoned \in Nat

ShapesOK ==
  /\ cfg \in Configs
  /\ ready \in BOOLEAN /\ qClosed \in BOOLEAN
  /\ ctl \in {"idle", "listening", "stopping"}
  /\ result \in {"ok", "pending", "already started", "already stopped", "listen error"}
  /\ worker \in [Workers -> {"off", "waiting", "decoding"}]
  /\ wbuf \in [Workers -> Buffers \cup {NoBuf}]
  /\ receiver \in [Sockets -> {"none", "reading", "sending", "exited"}]
  /\ rbuf \in [Sockets -> Buffers \cup {NoBuf}]
  /\ open \in [Sockets -> BOOLEAN]
  /\ dispatch \in Seq(Buffers \cup {Nil})
  /\ Len(dispatch) <= cfg.queueSize
  /\ free \in SUBSET Buffers

Book == (ctl = "listening" => ~ready) /\ ClosedIsEmpty /\ BuffersInHand

LEMMA Numbers ==
  /\ TypeInv => NumbersOK
  /\ Cardinality(Workers) \in Nat /\ MaxDatagrams \in Nat
  /\ MaxSessions \in Nat /\ MaxFaults \in Nat
<1>1. Cardinality(Workers) \in Nat
  BY ConstantsAssumption, FS_CardinalityType DEF ConstantsAssumption
<1> QED
  BY <1>1, ConstantsAssumption DEF TypeInv, TypeOK, NumbersOK, ConstantsAssumption

LEMMA InThreeParts ==
  /\ NumbersOK /\ ShapesOK /\ Book <=> TypeInv
  /\ (NumbersOK /\ ShapesOK /\ Book)' => TypeInv'
BY DEF NumbersOK, ShapesOK, Book, TypeInv, TypeOK

\* The buffer a receiver takes from the pool.
LEMMA NextBufferTypes ==
  ASSUME TypeInv, NEW s \in Sockets, NEW pool \in SUBSET Buffers, NextBuffer(s, pool)
  PROVE  /\ rbuf' \in [Sockets -> Buffers \cup {NoBuf}] /\ free' \in SUBSET Buffers
         /\ rbuf'[s] \in Buffers /\ \A t \in Sockets \ {s} : rbuf'[t] = rbuf[t]
BY DEF NextBuffer, TypeInv, TypeOK

LEMMA TypesInitially == ASSUME Init PROVE TypeInv
<1>1. NumbersOK
  BY Numbers DEF Init, NumbersOK
<1>2. cfg \in Configs /\ cfg.queueSize \in Nat /\ dispatch = <<>>
  BY ConstantsAssumption DEF Init, Configs, ConstantsAssumption
<1>3. Len(dispatch) <= cfg.queueSize /\ dispatch \in Seq(Buffers \cup {Nil})
  BY <1>2
<1>4. ShapesOK
  BY <1>2, <1>3 DEF Init, ShapesOK
<1>5. Book
  BY ConstantsAssumption
  DEF Init, Book, ClosedIsEmpty, BuffersInHand, Running, ConstantsAssumption
<1> QED
  BY <1>1, <1>4, <1>5, InThreeParts

\* The calls of Start and Stop but for the sending of a nil packet.
LEMMA CallTypes ==
  ASSUME TypeInv,
         \/ Start \/ StartAgain \/ Listening \/ Stop \/ FinishStop
         \/ \E s \in Sockets : Listen(s) \/ ListenFails(s)
  PROVE  TypeInv'
<1> USE ConstantsAssumption DEF ConstantsAssumption
<1>1. CASE Start
  <2>1. NumbersOK'
    <3>1. decodersCnt = 0
      BY <1>1 DEF Start, TypeInv, ClosedIsEmpty
    <3> QED
      BY <1>1, <3>1, Numbers DEF Start, NumbersOK, receiverVars, ledger
  <2>2. ShapesOK'
    BY <1>1 DEF Start, TypeInv, TypeOK, ShapesOK,
       BuffersInHand, Running, ctlVars, workerVars, receiverVars
  <2>3. Book'
    BY <1>1 DEF Start, TypeInv, TypeOK, Book,
       ClosedIsEmpty, BuffersInHand, Running, ctlVars, workerVars, receiverVars
  <2> QED
    BY <2>1, <2>2, <2>3, InThreeParts
<1>2. CASE StartAgain
  <2>1. NumbersOK'
    BY <1>2, Numbers DEF StartAgain, NumbersOK, ctlVars, workerVars, receiverVars, ledger
  <2>2. ShapesOK'
    BY <1>2 DEF StartAgain, TypeInv, TypeOK, ShapesOK,
       BuffersInHand, Running, ctlVars, workerVars, receiverVars
  <2>3. Book'
    BY <1>2 DEF StartAgain, TypeInv, TypeOK, Book,
       ClosedIsEmpty, BuffersInHand, Running, ctlVars, workerVars, receiverVars
  <2> QED
    BY <2>1, <2>2, <2>3, InThreeParts
<1>3. CASE Listening
  <2>1. NumbersOK'
    BY <1>3, Numbers DEF Listening, NumbersOK, ctlVars, workerVars, receiverVars, ledger
  <2>2. ShapesOK'
    BY <1>3 DEF Listening, TypeInv, TypeOK, ShapesOK,
       BuffersInHand, Running, ctlVars, workerVars, receiverVars
  <2>3. Book'
    BY <1>3 DEF Listening, TypeInv, TypeOK, Book,
       ClosedIsEmpty, BuffersInHand, Running, ctlVars, workerVars, receiverVars
  <2> QED
    BY <2>1, <2>2, <2>3, InThreeParts
<1>4. CASE Stop
  <2>1. NumbersOK'
    BY <1>4, Numbers DEF Stop, BeginStop, NumbersOK, ctlVars, workerVars, receiverVars,
       ledger
  <2>2. ShapesOK'
    BY <1>4 DEF Stop, BeginStop, TypeInv, TypeOK, ShapesOK,
       BuffersInHand, Running, ctlVars, workerVars, receiverVars
  <2>3. Book'
    BY <1>4 DEF Stop, BeginStop, TypeInv, TypeOK, Book,
       ClosedIsEmpty, BuffersInHand, Running, ctlVars, workerVars, receiverVars
  <2> QED
    BY <2>1, <2>2, <2>3, InThreeParts
<1>5. CASE FinishStop
  <2>1. NumbersOK'
    BY <1>5, Numbers DEF FinishStop, FinishStopWhen, WorkersAreOff, ReceiversAreOff,
       NumbersOK, ctlVars, workerVars, receiverVars, ledger
  <2>2. ShapesOK'
    BY <1>5 DEF FinishStop, FinishStopWhen, WorkersAreOff, ReceiversAreOff, TypeInv,
       TypeOK, ShapesOK,
       BuffersInHand, Running, ctlVars, workerVars, receiverVars
  <2>3. Book'
    BY <1>5 DEF FinishStop, FinishStopWhen, WorkersAreOff, ReceiversAreOff, TypeInv,
       TypeOK, Book,
       ClosedIsEmpty, BuffersInHand, Running, ctlVars, workerVars, receiverVars
  <2> QED
    BY <2>1, <2>2, <2>3, InThreeParts
<1>6. ASSUME NEW s \in Sockets, Listen(s) PROVE TypeInv'
  <2>1. NumbersOK'
    BY <1>6, Numbers DEF Listen, NextBuffer, NumbersOK, ctlVars, workerVars,
       receiverVars, ledger
  <2>2. rbuf' \in [Sockets -> Buffers \cup {NoBuf}] /\ free' \in SUBSET Buffers
    BY <1>6, NextBufferTypes DEF Listen, TypeInv, TypeOK
  <2>3. ShapesOK'
    BY <1>6, <2>2 DEF Listen, TypeInv, TypeOK, ShapesOK, ctlVars, workerVars
  <2>4. Book'
    BY <1>6 DEF Listen, NextBuffer, TypeInv, TypeOK, Book,
       ClosedIsEmpty, BuffersInHand, Running, ctlVars, workerVars, receiverVars
  <2> QED
    BY <2>1, <2>3, <2>4, InThreeParts
<1>7. ASSUME NEW s \in Sockets, ListenFails(s) PROVE TypeInv'
  <2>1. NumbersOK'
    <3>1. faults' = faults + 1 /\ faults < MaxFaults /\ nilsLeft' = decodersCnt
          /\ UNCHANGED <<decodersCnt, lingering, sessions, ledger>>
      BY <1>7 DEF ListenFails, BeginStop
    <3> QED
      BY <3>1, Numbers DEF NumbersOK, ledger
  <2>2. ShapesOK'
    BY <1>7 DEF ListenFails, BeginStop, TypeInv, TypeOK, ShapesOK,
       BuffersInHand, Running, ctlVars, workerVars, receiverVars
  <2>3. Book'
    BY <1>7 DEF ListenFails, BeginStop, TypeInv, TypeOK, Book,
       ClosedIsEmpty, BuffersInHand, Running, ctlVars, workerVars, receiverVars
  <2> QED
    BY <2>1, <2>2, <2>3, InThreeParts
<1> QED
  BY <1>1, <1>2, <1>3, <1>4, <1>5, <1>6, <1>7

\* The actions that use the channel.
LEMMA ChannelTypes ==
  ASSUME TypeInv,
         \/ SendNil \/ (\E s \in Sockets : Enqueue(s)) \/ \E w \in Workers : Receive(w)
  PROVE  TypeInv'
<1> USE ConstantsAssumption DEF ConstantsAssumption
<1>1. CASE SendNil
  <2>1. NumbersOK'
    BY <1>1, Numbers DEF SendNil, NumbersOK, receiverVars, ledger
  <2>2. WorkersOK' /\ dispatch' \in Seq(Buffers \cup {Nil})
        /\ Len(dispatch') <= cfg'.queueSize
    BY <1>1, SendTypes DEF SendNil
  <2>3. ShapesOK'
    BY <1>1, <2>2 DEF SendNil, WorkersOK, TypeInv, TypeOK, ShapesOK, receiverVars
  <2>4. Book'
    BY <1>1, <2>2 DEF SendNil, WorkersOK, TypeInv, Book, ClosedIsEmpty, BuffersInHand,
       Running, receiverVars
  <2> QED
    BY <2>1, <2>3, <2>4, InThreeParts
<1>2. ASSUME NEW s \in Sockets, Enqueue(s) PROVE TypeInv'
  <2>1. NumbersOK'
    BY <1>2, Numbers DEF Enqueue, NumbersOK, ctlVars, ledger
  <2>2. rbuf[s] \in Buffers
    BY <1>2 DEF Enqueue, TypeInv, BuffersInHand, Running
  <2>3. WorkersOK' /\ dispatch' \in Seq(Buffers \cup {Nil})
        /\ Len(dispatch') <= cfg'.queueSize
    BY <1>2, <2>2, SendTypes DEF Enqueue, ctlVars
  <2>4. rbuf' \in [Sockets -> Buffers \cup {NoBuf}] /\ free' \in SUBSET Buffers
    BY <1>2, NextBufferTypes DEF Enqueue, TypeInv, TypeOK
  <2>5. ShapesOK'
    BY <1>2, <2>3, <2>4 DEF Enqueue, WorkersOK, TypeInv, TypeOK, ShapesOK, ctlVars
  <2>6. Book'
    BY ZenonT(40), <1>2, <2>3 DEF Enqueue, NextBuffer, WorkersOK, TypeInv, TypeOK, Book,
       ClosedIsEmpty, BuffersInHand, Running, ctlVars
  <2> QED
    BY <2>1, <2>5, <2>6, InThreeParts
<1>3. ASSUME NEW w \in Workers, Receive(w) PROVE TypeInv'
  <2>1. dispatch \in Seq(Buffers \cup {Nil}) /\ dispatch # <<>>
        /\ Len(dispatch) <= cfg.queueSize /\ cfg.queueSize \in Nat
    BY <1>3 DEF Receive, TypeInv, TypeOK, Configs
  <2>2. /\ Head(dispatch) \in Buffers \cup {Nil}
        /\ dispatch' \in Seq(Buffers \cup {Nil}) /\ Len(dispatch') <= cfg.queueSize
    BY <1>3, <2>1 DEF Receive
  <2>3. WorkersOK'
    BY <1>3, <2>2, TakeTypes DEF Receive, ctlVars
  <2>4. NumbersOK'
    BY <1>3, Numbers DEF Receive, NumbersOK, ctlVars, receiverVars, ledger
  <2>5. ShapesOK'
    BY <1>3, <2>2, <2>3 DEF Receive, WorkersOK, TypeInv, TypeOK, ShapesOK, ctlVars,
       receiverVars
  <2>6. Book'
    BY <1>3, <2>3 DEF Receive, WorkersOK, TypeInv, Book, ClosedIsEmpty, BuffersInHand,
       Running, ctlVars, receiverVars
  <2> QED
    BY <2>4, <2>5, <2>6, InThreeParts
<1> QED
  BY <1>1, <1>2, <1>3

\* The other actions of receivers and workers.
LEMMA GoroutineTypes ==
  ASSUME TypeInv,
         \/ \E s \in Sockets : Read(s) \/ ReadFails(s) \/ Quit(s) \/ Drop(s) \/ CloseSocket(s)
         \/ CloseLingering
         \/ \E w \in Workers : FinishDecode(w)
  PROVE  TypeInv'
<1> USE ConstantsAssumption DEF ConstantsAssumption
<1>1. ASSUME NEW s \in Sockets, Read(s) PROVE TypeInv'
  <2>1. NumbersOK'
    BY <1>1, Numbers DEF Read, NumbersOK, ctlVars, workerVars, receiverVars, ledger
  <2>2. ShapesOK'
    BY <1>1 DEF Read, TypeInv, TypeOK, ShapesOK,
       BuffersInHand, Running, ctlVars, workerVars, receiverVars
  <2>3. Book'
    BY <1>1 DEF Read, TypeInv, TypeOK, Book,
       ClosedIsEmpty, BuffersInHand, Running, ctlVars, workerVars, receiverVars
  <2> QED
    BY <2>1, <2>2, <2>3, InThreeParts
<1>2. ASSUME NEW s \in Sockets, ReadFails(s) PROVE TypeInv'
  <2>1. NumbersOK'
    BY <1>2, Numbers DEF ReadFails, Exit, NumbersOK, ctlVars, workerVars, receiverVars,
       ledger
  <2>2. ShapesOK'
    BY <1>2 DEF ReadFails, Exit, TypeInv, TypeOK, ShapesOK,
       BuffersInHand, Running, ctlVars, workerVars, receiverVars
  <2>3. Book'
    BY <1>2 DEF ReadFails, Exit, TypeInv, TypeOK, Book,
       ClosedIsEmpty, BuffersInHand, Running, ctlVars, workerVars, receiverVars
  <2> QED
    BY <2>1, <2>2, <2>3, InThreeParts
<1>3. ASSUME NEW s \in Sockets, Quit(s) PROVE TypeInv'
  <2>1. NumbersOK'
    BY <1>3, Numbers DEF Quit, Exit, NumbersOK, ctlVars, workerVars, receiverVars, ledger
  <2>2. ShapesOK'
    BY <1>3 DEF Quit, Exit, TypeInv, TypeOK, ShapesOK,
       BuffersInHand, Running, ctlVars, workerVars, receiverVars
  <2>3. Book'
    BY <1>3 DEF Quit, Exit, TypeInv, TypeOK, Book,
       ClosedIsEmpty, BuffersInHand, Running, ctlVars, workerVars, receiverVars
  <2> QED
    BY <2>1, <2>2, <2>3, InThreeParts
<1>4. ASSUME NEW s \in Sockets, Drop(s) PROVE TypeInv'
  <2>1. NumbersOK'
    BY <1>4, Numbers DEF Drop, NextBuffer, NumbersOK, ctlVars, workerVars, receiverVars,
       ledger
  <2>2. ShapesOK'
    BY ZenonT(40), <1>4 DEF Drop, NextBuffer, TypeInv, TypeOK, ShapesOK,
       BuffersInHand, Running, ctlVars, workerVars, receiverVars
  <2>3. Book'
    BY <1>4 DEF Drop, NextBuffer, TypeInv, TypeOK, Book,
       ClosedIsEmpty, BuffersInHand, Running, ctlVars, workerVars, receiverVars
  <2> QED
    BY <2>1, <2>2, <2>3, InThreeParts
<1>5. ASSUME NEW s \in Sockets, CloseSocket(s) PROVE TypeInv'
  <2>1. NumbersOK'
    BY <1>5, Numbers DEF CloseSocket, NumbersOK, ctlVars, workerVars, receiverVars, ledger
  <2>2. ShapesOK'
    BY <1>5 DEF CloseSocket, TypeInv, TypeOK, ShapesOK,
       BuffersInHand, Running, ctlVars, workerVars, receiverVars
  <2>3. Book'
    BY <1>5 DEF CloseSocket, TypeInv, TypeOK, Book,
       ClosedIsEmpty, BuffersInHand, Running, ctlVars, workerVars, receiverVars
  <2> QED
    BY <2>1, <2>2, <2>3, InThreeParts
<1>6. CASE CloseLingering
  <2>1. NumbersOK'
    BY <1>6, Numbers DEF CloseLingering, NumbersOK, ctlVars, workerVars, receiverVars,
       ledger
  <2>2. ShapesOK'
    BY <1>6 DEF CloseLingering, TypeInv, TypeOK, ShapesOK,
       BuffersInHand, Running, ctlVars, workerVars, receiverVars
  <2>3. Book'
    BY <1>6 DEF CloseLingering, TypeInv, TypeOK, Book,
       ClosedIsEmpty, BuffersInHand, Running, ctlVars, workerVars, receiverVars
  <2> QED
    BY <2>1, <2>2, <2>3, InThreeParts
<1>7. ASSUME NEW w \in Workers, FinishDecode(w) PROVE TypeInv'
  <2>1. NumbersOK'
    BY <1>7, Numbers DEF FinishDecode, NumbersOK, ctlVars, workerVars, receiverVars, ledger
  <2>2. wbuf[w] \in Buffers
    BY <1>7 DEF FinishDecode, TypeInv, BuffersInHand
  <2>3. ShapesOK'
    BY <1>7, <2>2 DEF FinishDecode, TypeInv, TypeOK, ShapesOK, ctlVars, receiverVars
  <2>4. Book'
    BY <1>7 DEF FinishDecode, TypeInv, TypeOK, Book,
       ClosedIsEmpty, BuffersInHand, Running, ctlVars, workerVars, receiverVars
  <2> QED
    BY <2>1, <2>3, <2>4, InThreeParts
<1> QED
  BY <1>1, <1>2, <1>3, <1>4, <1>5, <1>6, <1>7

LEMMA TypesStep == ASSUME TypeInv, [Next]_vars PROVE TypeInv'
<1>1. CASE UNCHANGED vars
  BY <1>1 DEF vars, ctlVars, workerVars, receiverVars, ledger, TypeInv, TypeOK,
     ClosedIsEmpty, BuffersInHand, Running
<1>2. CASE Next
  BY <1>2, CallTypes, ChannelTypes, GoroutineTypes
  DEF Next, Caller, Receiver, Worker
<1> QED
  BY <1>1, <1>2

LEMMA TypeInvHolds == Spec => []TypeInv
<1> QED
  BY TypesInitially, TypesStep, PTL DEF Spec

\* The types of the receiver's state (udp.go:22-80), and a queue that never holds
\* more than its capacity.
THEOREM TypesHold == Spec => []TypeOK
<1>1. TypeInv => TypeOK
  BY DEF TypeInv
<1> QED
  BY <1>1, TypeInvHolds, PTL

-----------------------------------------------------------------------------
(* What passing a packet on does to the numbers of packets and of workers. *)

On == {w \in Workers : worker[w] # "off"}
Decoding == {w \in Workers : worker[w] = "decoding"}
Sending == {s \in Sockets : receiver[s] = "sending"}
Nils == DOMAIN dispatch \ Packets

Counts ==
  /\ Cardinality(On) \in Nat /\ Cardinality(Decoding) \in Nat
  /\ Cardinality(Sending) \in Nat
  /\ Cardinality(Nils) \in Nat /\ Cardinality(Packets) \in Nat

LEMMA PlacesOfPackets ==
  ASSUME NEW q \in Seq(Buffers \cup {Nil})
  PROVE  /\ {i \in DOMAIN q : q[i] # Nil} = Places(q, Buffers)
         /\ DOMAIN q \ Places(q, Buffers) = Places(q, {Nil})
<1>1. \A i \in DOMAIN q : q[i] \in Buffers \cup {Nil}
  OBVIOUS
<1> QED
  BY <1>1, ConstantsAssumption DEF Places, ConstantsAssumption

LEMMA FiniteParts ==
  /\ IsFiniteSet(On) /\ IsFiniteSet(Decoding) /\ IsFiniteSet(Sending)
  /\ TypeInv => Counts
<1>1. /\ IsFiniteSet(On) /\ IsFiniteSet(Decoding) /\ IsFiniteSet(Sending)
  <2>1. On \in SUBSET Workers /\ Decoding \in SUBSET Workers /\ Sending \in SUBSET Sockets
    BY DEF On, Decoding, Sending
  <2>2. IsFiniteSet(Workers) /\ IsFiniteSet(Sockets)
    BY ConstantsAssumption DEF ConstantsAssumption
  <2> QED
    BY <2>1, <2>2, FS_Subset
<1>2. ASSUME TypeInv PROVE Counts
  <2>1. Packets = Places(dispatch, Buffers) /\ Nils = Places(dispatch, {Nil})
    BY <1>2, PlacesOfPackets DEF TypeInv, TypeOK, Packets, Nils
  <2>2. dispatch \in Seq(Buffers \cup {Nil}) /\ Nil \in Buffers \cup {Nil}
    BY <1>2 DEF TypeInv, TypeOK
  <2>3. Cardinality(Packets) \in Nat /\ Cardinality(Nils) \in Nat
    BY <2>1, <2>2, AppendPlaces
  <2> QED
    BY <1>1, <2>3, FS_CardinalityType DEF Counts
<1> QED
  BY <1>1, <1>2

LEMMA FinitePartsLater == (TypeInv => Counts)'
<1>1. TypeInv => Counts
  BY FiniteParts
<1> QED
  BY <1>1, PTL

LEMMA TakeCounts ==
  ASSUME TypeInv, NEW w \in Workers, NEW x \in Buffers \cup {Nil}, Take(w, x)
  PROVE  /\ x = Nil => /\ Cardinality(On') = Cardinality(On) - 1
                       /\ Cardinality(Decoding') = Cardinality(Decoding)
         /\ x # Nil => /\ Cardinality(On') = Cardinality(On)
                       /\ Cardinality(Decoding') = Cardinality(Decoding) + 1
<1>1. worker \in [Workers -> {"off", "waiting", "decoding"}]
  BY DEF TypeInv, TypeOK
<1>2. /\ On \ {w} = On' \ {w} /\ Decoding \ {w} = Decoding' \ {w}
      /\ w \in On /\ w \notin Decoding
      /\ x = Nil => w \notin On' /\ w \notin Decoding'
      /\ x # Nil => w \in On' /\ w \in Decoding'
  BY <1>1 DEF On, Decoding, Take
<1>3. /\ x = Nil => Cardinality(On') = Cardinality(On) - 1
      /\ x # Nil => Cardinality(On') = Cardinality(On)
  BY <1>2, FiniteParts, OneElement
<1>4. /\ x = Nil => Cardinality(Decoding') = Cardinality(Decoding)
      /\ x # Nil => Cardinality(Decoding') = Cardinality(Decoding) + 1
  BY <1>2, FiniteParts, OneElement
<1> QED
  BY <1>3, <1>4

LEMMA SendCounts ==
  ASSUME TypeInv, TypeInv', NEW x \in Buffers \cup {Nil}, Send(x)
  PROVE  /\ x = Nil =>
              /\ Cardinality(Nils') - Cardinality(On') = Cardinality(Nils) - Cardinality(On) + 1
              /\ Cardinality(Packets') + Cardinality(Decoding')
                   = Cardinality(Packets) + Cardinality(Decoding)
         /\ x # Nil =>
              /\ Cardinality(Nils') - Cardinality(On') = Cardinality(Nils) - Cardinality(On)
              /\ Cardinality(Packets') + Cardinality(Decoding')
                   = Cardinality(Packets) + Cardinality(Decoding) + 1
<1>1. Counts
  BY FiniteParts
<1>2. CASE dispatch' = Append(dispatch, x) /\ UNCHANGED workerVars
  <2>1. /\ Packets = Places(dispatch, Buffers) /\ Nils = Places(dispatch, {Nil})
        /\ Packets' = Places(dispatch', Buffers) /\ Nils' = Places(dispatch', {Nil})
    BY PlacesOfPackets DEF TypeInv, TypeOK, Packets, Nils
  <2>2. dispatch \in Seq(Buffers \cup {Nil}) /\ Nil \notin Buffers
    BY ConstantsAssumption DEF TypeInv, TypeOK, ConstantsAssumption
  <2>3. /\ x \in Buffers => Cardinality(Packets') = Cardinality(Packets) + 1
        /\ x \notin Buffers => Cardinality(Packets') = Cardinality(Packets)
    BY <1>2, <2>1, <2>2, AppendPlaces
  <2>4. /\ x \in {Nil} => Cardinality(Nils') = Cardinality(Nils) + 1
        /\ x \notin {Nil} => Cardinality(Nils') = Cardinality(Nils)
    BY <1>2, <2>1, <2>2, AppendPlaces
  <2>5. On' = On /\ Decoding' = Decoding
    BY <1>2 DEF workerVars, On, Decoding
  <2>6. x \in Buffers <=> x # Nil
    BY <2>2
  <2> QED
    BY <1>1, <2>3, <2>4, <2>5, <2>6 DEF Counts
<1>3. ASSUME NEW w \in Workers, Take(w, x), UNCHANGED dispatch
      PROVE  /\ x = Nil =>
                  /\ Cardinality(Nils') - Cardinality(On') = Cardinality(Nils) - Cardinality(On) + 1
                  /\ Cardinality(Packets') + Cardinality(Decoding')
                       = Cardinality(Packets) + Cardinality(Decoding)
             /\ x # Nil =>
                  /\ Cardinality(Nils') - Cardinality(On') = Cardinality(Nils) - Cardinality(On)
                  /\ Cardinality(Packets') + Cardinality(Decoding')
                       = Cardinality(Packets) + Cardinality(Decoding) + 1
  <2>1. Nils' = Nils /\ Packets' = Packets
    BY <1>3 DEF Nils, Packets
  <2> QED
    BY <1>1, <1>3, <2>1, TakeCounts DEF Counts
<1> QED
  BY <1>2, <1>3 DEF Send

LEMMA ReceiveCounts ==
  ASSUME TypeInv, TypeInv', NEW w \in Workers, Receive(w)
  PROVE  /\ Cardinality(Nils') - Cardinality(On') = Cardinality(Nils) - Cardinality(On)
         /\ Cardinality(Packets') + Cardinality(Decoding')
              = Cardinality(Packets) + Cardinality(Decoding)
<1> DEFINE x == Head(dispatch)
<1>1. Counts
  BY FiniteParts
<1>2. /\ dispatch \in Seq(Buffers \cup {Nil}) /\ dispatch # <<>>
      /\ dispatch' = Tail(dispatch) /\ Take(w, x)
  BY DEF TypeInv, TypeOK, Receive
<1>3. x \in Buffers \cup {Nil}
  BY <1>2
<1>4. Nil \notin Buffers
  BY ConstantsAssumption DEF ConstantsAssumption
<1>5. /\ Packets = Places(dispatch, Buffers) /\ Nils = Places(dispatch, {Nil})
      /\ Packets' = Places(dispatch', Buffers) /\ Nils' = Places(dispatch', {Nil})
  BY PlacesOfPackets DEF TypeInv, TypeOK, Packets, Nils
<1>6. /\ x \in Buffers => Cardinality(Packets') = Cardinality(Packets) - 1
      /\ x \notin Buffers => Cardinality(Packets') = Cardinality(Packets)
  BY <1>2, <1>5, TailPlaces
<1>7. /\ x \in {Nil} => Cardinality(Nils') = Cardinality(Nils) - 1
      /\ x \notin {Nil} => Cardinality(Nils') = Cardinality(Nils)
  BY <1>2, <1>5, TailPlaces
<1>8. /\ x = Nil => /\ Cardinality(On') = Cardinality(On) - 1
                    /\ Cardinality(Decoding') = Cardinality(Decoding)
      /\ x # Nil => /\ Cardinality(On') = Cardinality(On)
                    /\ Cardinality(Decoding') = Cardinality(Decoding) + 1
  BY <1>2, <1>3, TakeCounts
<1>9. x \in Buffers <=> x # Nil
  BY <1>3, <1>4
<1> HIDE DEF x
<1> QED
  BY <1>1, <1>6, <1>7, <1>8, <1>9 DEF Counts

-----------------------------------------------------------------------------
(* The ledger. *)

Ledger ==
  received = decoded + dropped + abandoned + Cardinality(Packets)
             + Cardinality(Sending) + Cardinality(Decoding)

LEMMA AccountedIsLedger == Accounted <=> Ledger
BY DEF Accounted, Ledger, Packets, Sending, Decoding

\* A receiver that starts or ends sending.
LEMMA SendingCounts ==
  ASSUME TypeInv, NEW s \in Sockets,
         \A t \in Sockets \ {s} : receiver'[t] = receiver[t]
  PROVE  /\ receiver[s] = "sending" /\ receiver'[s] # "sending" =>
              Cardinality(Sending') = Cardinality(Sending) - 1
         /\ receiver[s] # "sending" /\ receiver'[s] = "sending" =>
              Cardinality(Sending') = Cardinality(Sending) + 1
         /\ receiver[s] # "sending" /\ receiver'[s] # "sending" =>
              Cardinality(Sending') = Cardinality(Sending)
<1>1. /\ Sending \ {s} = Sending' \ {s}
      /\ s \in Sending <=> receiver[s] = "sending"
      /\ s \in Sending' <=> receiver'[s] = "sending"
  BY DEF Sending
<1> QED
  BY <1>1, FiniteParts, OneElement

LEMMA LedgerInitially == ASSUME Init PROVE Ledger
<1>1. Packets = {} /\ Sending = {} /\ Decoding = {}
  BY DEF Init, Packets, Sending, Decoding
<1>2. received = 0 /\ decoded = 0 /\ dropped = 0 /\ abandoned = 0
  BY DEF Init
<1> QED
  BY <1>1, <1>2, FS_EmptySet DEF Ledger

LEMMA LedgerStep == ASSUME TypeInv, TypeInv', Ledger, [Next]_vars PROVE Ledger'
<1>1. Counts /\ NumbersOK
  BY FiniteParts, Numbers
<1>2. ASSUME UNCHANGED <<ledger, dispatch>>, Cardinality(Sending') = Cardinality(Sending),
             Cardinality(Decoding') = Cardinality(Decoding)
      PROVE  Ledger'
  BY <1>2 DEF Ledger, ledger, Packets
<1>3. CASE Start
  <2>1. Sending = {} /\ Sending' = {} /\ Decoding = {} /\ Decoding' = {}
    BY <1>3 DEF Start, TypeInv, ClosedIsEmpty, Running, Sending, Decoding
  <2> QED
    BY <1>2, <1>3, <2>1 DEF Start
<1>4. CASE \/ StartAgain \/ Listening \/ Stop \/ FinishStop \/ CloseLingering
           \/ (\E s \in Sockets : ListenFails(s) \/ CloseSocket(s)) \/ UNCHANGED vars
  <2>1. UNCHANGED <<ledger, dispatch, receiver, worker>>
    BY <1>4 DEF StartAgain, Listening, Stop, BeginStop, FinishStop, FinishStopWhen,
       CloseLingering, ListenFails, CloseSocket, vars, workerVars, receiverVars
  <2> QED
    BY <1>2, <2>1 DEF Sending, Decoding
<1>5. ASSUME NEW s \in Sockets, Listen(s) PROVE Ledger'
  <2>1. Cardinality(Sending') = Cardinality(Sending)
    <3>1. /\ receiver[s] = "none" /\ receiver'[s] = "reading"
          /\ \A t \in Sockets \ {s} : receiver'[t] = receiver[t]
      BY <1>5 DEF Listen, TypeInv, TypeOK
    <3> QED
      BY <3>1, SendingCounts
  <2> QED
    BY <1>2, <1>5, <2>1 DEF Listen, workerVars, Decoding
<1>6. CASE SendNil
  <2>1. Cardinality(Packets') + Cardinality(Decoding')
          = Cardinality(Packets) + Cardinality(Decoding)
    BY <1>6, SendCounts DEF SendNil
  <2>2. Sending' = Sending /\ UNCHANGED ledger /\ Counts'
    BY <1>6, FinitePartsLater DEF SendNil, Sending, receiverVars
  <2> QED
    BY <1>1, <2>1, <2>2 DEF Ledger, Counts, NumbersOK, ledger
<1>7. ASSUME NEW s \in Sockets, Read(s) PROVE Ledger'
  <2>1. Cardinality(Sending') = Cardinality(Sending) + 1
    <3>1. /\ receiver[s] = "reading" /\ receiver'[s] = "sending"
          /\ \A t \in Sockets \ {s} : receiver'[t] = receiver[t]
      BY <1>7 DEF Read, TypeInv, TypeOK
    <3> QED
      BY <3>1, SendingCounts
  <2>2. Packets' = Packets /\ Decoding' = Decoding /\ received' = received + 1
        /\ UNCHANGED <<decoded, dropped, abandoned>>
    BY <1>7 DEF Read, workerVars, Packets, Decoding
  <2> QED
    BY <1>1, <2>1, <2>2 DEF Ledger, Counts, NumbersOK
<1>8. ASSUME NEW s \in Sockets, ReadFails(s) PROVE Ledger'
  <2>1. Cardinality(Sending') = Cardinality(Sending)
    <3>1. /\ receiver[s] = "reading" /\ receiver'[s] = "exited"
          /\ \A t \in Sockets \ {s} : receiver'[t] = receiver[t]
      BY <1>8 DEF ReadFails, Exit, TypeInv, TypeOK
    <3> QED
      BY <3>1, SendingCounts
  <2> QED
    BY <1>2, <1>8, <2>1 DEF ReadFails, workerVars, Decoding
<1>9. ASSUME NEW s \in Sockets, Enqueue(s) PROVE Ledger'
  <2>1. rbuf[s] \in Buffers /\ Nil \notin Buffers
    BY <1>9, ConstantsAssumption
    DEF Enqueue, TypeInv, BuffersInHand, Running, ConstantsAssumption
  <2>2. Cardinality(Packets') + Cardinality(Decoding')
          = Cardinality(Packets) + Cardinality(Decoding) + 1
    BY <1>9, <2>1, SendCounts DEF Enqueue
  <2>3. Cardinality(Sending') = Cardinality(Sending) - 1
    <3>1. /\ receiver[s] = "sending" /\ receiver'[s] = "reading"
          /\ \A t \in Sockets \ {s} : receiver'[t] = receiver[t]
      BY <1>9 DEF Enqueue, TypeInv, TypeOK
    <3> QED
      BY <3>1, SendingCounts
  <2>4. UNCHANGED ledger /\ Counts'
    BY <1>9, FinitePartsLater DEF Enqueue
  <2> QED
    BY <1>1, <2>2, <2>3, <2>4 DEF Ledger, Counts, NumbersOK, ledger
<1>10. ASSUME NEW s \in Sockets, Quit(s) PROVE Ledger'
  <2>1. Cardinality(Sending') = Cardinality(Sending) - 1
    <3>1. /\ receiver[s] = "sending" /\ receiver'[s] = "exited"
          /\ \A t \in Sockets \ {s} : receiver'[t] = receiver[t]
      BY <1>10 DEF Quit, Exit, TypeInv, TypeOK
    <3> QED
      BY <3>1, SendingCounts
  <2>2. Packets' = Packets /\ Decoding' = Decoding /\ abandoned' = abandoned + 1
        /\ UNCHANGED <<received, decoded, dropped>>
    BY <1>10 DEF Quit, workerVars, Packets, Decoding
  <2> QED
    BY <1>1, <2>1, <2>2 DEF Ledger, Counts, NumbersOK
<1>11. ASSUME NEW s \in Sockets, Drop(s) PROVE Ledger'
  <2>1. Cardinality(Sending') = Cardinality(Sending) - 1
    <3>1. /\ receiver[s] = "sending" /\ receiver'[s] = "reading"
          /\ \A t \in Sockets \ {s} : receiver'[t] = receiver[t]
      BY <1>11 DEF Drop, TypeInv, TypeOK
    <3> QED
      BY <3>1, SendingCounts
  <2>2. Packets' = Packets /\ Decoding' = Decoding /\ dropped' = dropped + 1
        /\ UNCHANGED <<received, decoded, abandoned>>
    BY <1>11 DEF Drop, workerVars, Packets, Decoding
  <2> QED
    BY <1>1, <2>1, <2>2 DEF Ledger, Counts, NumbersOK
<1>12. ASSUME NEW w \in Workers, Receive(w) PROVE Ledger'
  <2>1. Cardinality(Packets') + Cardinality(Decoding')
          = Cardinality(Packets) + Cardinality(Decoding)
    BY <1>12, ReceiveCounts
  <2>2. Sending' = Sending /\ UNCHANGED ledger /\ Counts'
    BY <1>12, FinitePartsLater DEF Receive, Sending, receiverVars
  <2> QED
    BY <1>1, <2>1, <2>2 DEF Ledger, Counts, NumbersOK, ledger
<1>13. ASSUME NEW w \in Workers, FinishDecode(w) PROVE Ledger'
  <2>1. Decoding \ {w} = Decoding' \ {w} /\ w \in Decoding /\ w \notin Decoding'
    BY <1>13 DEF FinishDecode, Decoding, TypeInv, TypeOK
  <2>2. Cardinality(Decoding') = Cardinality(Decoding) - 1
    BY <2>1, FiniteParts, OneElement
  <2>3. Packets' = Packets /\ Sending' = Sending /\ decoded' = decoded + 1
        /\ UNCHANGED <<received, dropped, abandoned>>
    BY <1>13 DEF FinishDecode, receiverVars, Packets, Sending
  <2> QED
    BY <1>1, <2>2, <2>3 DEF Ledger, Counts, NumbersOK
<1> QED
  BY <1>3, <1>4, <1>5, <1>6, <1>7, <1>8, <1>9, <1>10, <1>11, <1>12, <1>13
  DEF Next, Caller, Receiver, Worker

\* No datagram disappears: whatever the order of reads, drops, nil packets and
\* Stop, each one read is still held by someone or was decoded, counted as
\* dropped or abandoned by a receiver that quits (udp.go:166-204, 229-246).
THEOREM NothingIsLost == Spec => []Accounted
<1>1. Spec => []Ledger
  BY LedgerInitially, LedgerStep, TypeInvHolds, PTL DEF Spec
<1> QED
  BY <1>1, AccountedIsLedger, PTL

-----------------------------------------------------------------------------
(* The nil packets. *)

NilsMatch == ctl = "stopping" => nilsLeft + Cardinality(Nils) = Cardinality(On)

LEMMA OneNilIsNilsMatch == OneNilPerWorker <=> NilsMatch
BY DEF OneNilPerWorker, NilsMatch, Nils, On

LEMMA NilsInitially == ASSUME Init PROVE NilInv
BY DEF Init, NilInv, NoNilOutsideStop, OpenHasWorkers, OneNilPerWorker

\* Stop begins, by itself or in a Start that fails.
LEMMA BeginStopMatches ==
  ASSUME TypeInv, NilInv, ctl # "stopping", UNCHANGED <<ready, worker, dispatch>>,
         NEW res, BeginStop(res)
  PROVE  NilInv'
<1>1. Nils' = {} /\ Cardinality(Nils') = 0
  BY FS_EmptySet DEF NilInv, NoNilOutsideStop, Nils, Packets
<1>2. nilsLeft' = Cardinality(On')
  <2>1. CASE ready
    <3>1. On' = {} /\ nilsLeft' = 0
      BY <2>1 DEF TypeInv, ClosedIsEmpty, BeginStop, On
    <3> QED
      BY <3>1, FS_EmptySet
  <2>2. CASE ~ready
    <3>1. On' = Workers /\ nilsLeft' = Cardinality(Workers)
      BY <2>2 DEF NilInv, OpenHasWorkers, BeginStop, On
    <3> QED
      BY <3>1
  <2> QED
    BY <2>1, <2>2
<1>3. nilsLeft' + Cardinality(Nils') = nilsLeft'
  <2>1. nilsLeft' = decodersCnt
    BY DEF BeginStop
  <2> QED
    BY <1>1, <2>1, Numbers DEF NumbersOK
<1>4. NilsMatch'
  BY <1>2, <1>3 DEF NilsMatch
<1>5. OneNilPerWorker'
  BY <1>4 DEF OneNilPerWorker, NilsMatch, Nils, On
<1> QED
  BY <1>5 DEF NilInv, NoNilOutsideStop, OpenHasWorkers, BeginStop

\* Stop ends: as no worker is left, neither is a nil packet.
LEMMA FinishStopMatches == ASSUME TypeInv, NilInv, FinishStop PROVE NilInv'
<1>1. ctl = "stopping" /\ nilsLeft = 0 /\ On = {}
  BY DEF FinishStop, FinishStopWhen, WorkersAreOff, On
<1>2. Cardinality(Nils) = 0
  BY <1>1, FiniteParts, FS_EmptySet DEF Counts, NilInv, OneNilPerWorker, Nils, On
<1>3. Nils = {}
  <2>1. Nils = Places(dispatch, {Nil}) /\ dispatch \in Seq(Buffers \cup {Nil})
    BY PlacesOfPackets DEF TypeInv, TypeOK, Packets, Nils
  <2>2. IsFiniteSet(Nils)
    BY <2>1, AppendPlaces
  <2> QED
    BY <1>2, <2>2, FS_EmptySet
<1>4. \A i \in DOMAIN dispatch : dispatch[i] # Nil
  BY <1>3 DEF Nils, Packets
<1>5. ctl' = "idle" /\ qClosed' = FALSE /\ nilsLeft' = 0 /\ ready' = TRUE
      /\ dispatch' = dispatch
  BY <1>1 DEF FinishStop, FinishStopWhen
<1> QED
  BY <1>4, <1>5 DEF NilInv, NoNilOutsideStop, OpenHasWorkers, OneNilPerWorker

LEMMA NilsStep == ASSUME TypeInv, TypeInv', NilInv, [Next]_vars PROVE NilInv'
<1>1. Counts /\ Counts'
  BY FiniteParts, FinitePartsLater
<1>2. Nil \notin Buffers
  BY ConstantsAssumption DEF ConstantsAssumption
\* A step of a goroutine leaves the caller alone and ends no worker unless by a nil.
<1>3. ASSUME UNCHANGED <<ready, qClosed, decodersCnt, ctl, nilsLeft>>,
             Cardinality(Nils') - Cardinality(On') = Cardinality(Nils) - Cardinality(On),
             ctl # "stopping" => /\ \A i \in DOMAIN dispatch' : dispatch'[i] # Nil
                                 /\ \A w \in Workers : worker[w] # "off" => worker'[w] # "off"
      PROVE  NilInv'
  <2>1. NilsMatch'
    BY <1>1, <1>3, Numbers DEF NilInv, OneNilPerWorker, NilsMatch, Nils, On, Counts,
       NumbersOK
  <2>2. OneNilPerWorker'
    BY <2>1 DEF OneNilPerWorker, NilsMatch, Nils, On
  <2> QED
    BY <1>3, <2>2 DEF NilInv, NoNilOutsideStop, OpenHasWorkers
<1>4. ASSUME UNCHANGED <<ctlVars, worker, dispatch>> PROVE NilInv'
  BY <1>4 DEF ctlVars, NilInv, NoNilOutsideStop, OpenHasWorkers, OneNilPerWorker, Packets
<1>5. CASE Start
  <2>1. decodersCnt' = Cardinality(Workers) /\ UNCHANGED <<qClosed, nilsLeft, dispatch>>
        /\ ctl = "idle" /\ ctl' = "listening" /\ worker' = [w \in Workers |-> "waiting"]
    <3>1. decodersCnt = 0 /\ decodersCnt' = decodersCnt + Cardinality(Workers)
      BY <1>5 DEF Start, TypeInv, ClosedIsEmpty
    <3>2. decodersCnt' = Cardinality(Workers)
      BY <3>1, Numbers
    <3> QED
      BY <1>5, <3>2 DEF Start
  <2> QED
    BY <2>1 DEF NilInv, NoNilOutsideStop, OpenHasWorkers, OneNilPerWorker
<1>6. CASE StartAgain \/ Listening
  <2>1. ctl # "stopping" /\ ctl' # "stopping"
        /\ UNCHANGED <<ready, qClosed, decodersCnt, nilsLeft, worker, dispatch>>
    BY <1>6 DEF StartAgain, Listening, workerVars
  <2> QED
    BY <2>1 DEF NilInv, NoNilOutsideStop, OpenHasWorkers, OneNilPerWorker
<1>7. CASE Stop
  BY <1>7, BeginStopMatches DEF Stop, BeginStop, workerVars
<1>8. ASSUME NEW s \in Sockets, ListenFails(s) PROVE NilInv'
  BY <1>8, BeginStopMatches DEF ListenFails, BeginStop, workerVars
<1>9. CASE SendNil
  <2>1. /\ nilsLeft' = nilsLeft - 1 /\ ctl = "stopping" /\ ctl' = "stopping"
        /\ Cardinality(Nils') - Cardinality(On') = Cardinality(Nils) - Cardinality(On) + 1
    BY <1>9, SendCounts DEF SendNil
  <2>2. NilsMatch'
    BY <1>1, <2>1, Numbers DEF NilInv, OneNilPerWorker, NilsMatch, Nils, On, Counts,
       NumbersOK
  <2>3. OneNilPerWorker'
    BY <2>2 DEF OneNilPerWorker, NilsMatch, Nils, On
  <2> QED
    BY <2>1, <2>3 DEF NilInv, NoNilOutsideStop, OpenHasWorkers
<1>10. ASSUME NEW s \in Sockets, Enqueue(s) PROVE NilInv'
  <2>1. rbuf[s] \in Buffers /\ Send(rbuf[s]) /\ UNCHANGED ctlVars
    BY <1>10 DEF Enqueue, TypeInv, BuffersInHand, Running
  <2>2. Cardinality(Nils') - Cardinality(On') = Cardinality(Nils) - Cardinality(On)
    BY <1>2, <2>1, SendCounts
  <2>3. ASSUME \A i \in DOMAIN dispatch : dispatch[i] # Nil
        PROVE  \A i \in DOMAIN dispatch' : dispatch'[i] # Nil
    <3>1. CASE UNCHANGED dispatch
      BY <2>3, <3>1
    <3>2. CASE dispatch' = Append(dispatch, rbuf[s])
      <4>1. dispatch \in Seq(Buffers \cup {Nil}) /\ rbuf[s] # Nil
        BY <1>2, <2>1 DEF TypeInv, TypeOK
      <4>2. \A i \in DOMAIN dispatch' : \/ i \in DOMAIN dispatch /\ dispatch'[i] = dispatch[i]
                                        \/ dispatch'[i] = rbuf[s]
        BY <3>2, <4>1
      <4> QED
        BY <2>3, <4>1, <4>2
    <3> QED
      BY <2>1, <3>1, <3>2 DEF Send
  <2>4. \A w \in Workers : worker[w] # "off" => worker'[w] # "off"
    BY <1>2, <2>1 DEF Send, Take, TypeInv, TypeOK, workerVars
  <2> QED
    BY <1>3, <2>1, <2>2, <2>3, <2>4 DEF NilInv, NoNilOutsideStop, ctlVars
<1>11. ASSUME NEW w \in Workers, Receive(w) PROVE NilInv'
  <2>1. dispatch \in Seq(Buffers \cup {Nil}) /\ dispatch # <<>>
        /\ dispatch' = Tail(dispatch) /\ Take(w, Head(dispatch)) /\ UNCHANGED ctlVars
    BY <1>11 DEF Receive, TypeInv, TypeOK
  <2>2. Cardinality(Nils') - Cardinality(On') = Cardinality(Nils) - Cardinality(On)
    BY <1>11, ReceiveCounts
  <2>3. ASSUME \A i \in DOMAIN dispatch : dispatch[i] # Nil
        PROVE  /\ \A i \in DOMAIN dispatch' : dispatch'[i] # Nil
               /\ Head(dispatch) # Nil
    BY <2>1, <2>3
  <2>4. ASSUME Head(dispatch) # Nil
        PROVE  \A v \in Workers : worker[v] # "off" => worker'[v] # "off"
    BY <2>1, <2>4 DEF Take, TypeInv, TypeOK
  <2> QED
    BY <1>3, <2>1, <2>2, <2>3, <2>4 DEF NilInv, NoNilOutsideStop, ctlVars
<1>12. ASSUME NEW w \in Workers, FinishDecode(w) PROVE NilInv'
  <2>1. On' = On /\ Nils' = Nils /\ UNCHANGED <<ctlVars, dispatch>>
        /\ \A v \in Workers : worker[v] # "off" => worker'[v] # "off"
    BY <1>12 DEF FinishDecode, On, Nils, Packets, TypeInv, TypeOK
  <2> QED
    BY <1>3, <2>1 DEF NilInv, NoNilOutsideStop, ctlVars
<1>13. CASE \/ CloseLingering \/ UNCHANGED vars
            \/ \E s \in Sockets : \/ Read(s) \/ ReadFails(s) \/ Quit(s) \/ Drop(s)
                                  \/ CloseSocket(s) \/ Listen(s)
  <2>1. CASE \/ CloseLingering \/ UNCHANGED vars
             \/ \E s \in Sockets : Read(s) \/ ReadFails(s) \/ Quit(s) \/ Drop(s) \/ CloseSocket(s)
    BY <1>4, <2>1 DEF CloseLingering, vars, Read, ReadFails, Quit, Drop, CloseSocket,
       workerVars
  <2>2. CASE \E s \in Sockets : Listen(s)
    BY <1>4, <2>2 DEF Listen, workerVars
  <2> QED
    BY <1>13, <2>1, <2>2
<1> QED
  BY <1>5, <1>6, <1>7, <1>8, <1>9, <1>10, <1>11, <1>12, <1>13, FinishStopMatches
  DEF Next, Caller, Receiver, Worker

LEMMA NilInvHolds == Spec => []NilInv
<1> QED
  BY NilsInitially, NilsStep, TypeInvHolds, PTL DEF Spec

\* Stop sends each worker that runs exactly one nil packet, though Start may have
\* failed half way and receivers still fill the queue (udp.go:307-315).
THEOREM NilsMatchWorkers == Spec => []OneNilPerWorker
<1>1. NilInv => OneNilPerWorker
  BY DEF NilInv
<1> QED
  BY <1>1, NilInvHolds, PTL

\* What Stop leaves, a later Start can rely on: no goroutine of the old session
\* and no nil packet that would end a worker of the new one (udp.go:299-321).
THEOREM StopLeavesQuiet == Spec => []StoppedIsQuiet
<1>1. TypeInv /\ NilInv => StoppedIsQuiet
  BY DEF TypeInv, NilInv, ClosedIsEmpty, NoNilOutsideStop, StoppedIsQuiet
<1> QED
  BY <1>1, TypeInvHolds, NilInvHolds, PTL

-----------------------------------------------------------------------------
(* Nobody waits for everybody. *)

\* Who can go on while Stop runs: the nil packet it has to send, a worker with a
\* packet or with one to take, a receiver that finds its socket or r.q closed, and
\* the goroutine that closes the socket.
CanSend == \/ Len(dispatch) < cfg.queueSize
           \/ cfg.queueSize = 0 /\ \E w \in Workers : worker[w] = "waiting"
NilCanGo == nilsLeft > 0 /\ CanSend
WorkerCanGo(w) ==
  \/ worker[w] = "decoding"
  \/ worker[w] = "waiting" /\ dispatch # <<>>
ReceiverCanGo(s) ==
  \/ receiver[s] = "sending" /\ qClosed
  \/ receiver[s] = "reading" /\ ~open[s]
CloserCanGo(s) == qClosed /\ Running(s) /\ open[s]

\* A nil packet waits only for workers that can make room; once all are sent
\* every worker still there can go on, and every receiver, or its closer, can at
\* any time.
StopGoesOn ==
  ctl = "stopping" =>
    /\ nilsLeft > 0 => NilCanGo \/ \E w \in Workers : WorkerCanGo(w)
    /\ nilsLeft = 0 => \A w \in On : WorkerCanGo(w)
    /\ \A s \in Sockets : Running(s) => ReceiverCanGo(s) \/ CloserCanGo(s)

StopClosesQ == ctl = "stopping" => qClosed

\* From the first line of Stop to init no other call gets between.
LEMMA StopClosesQHolds == Spec => []StopClosesQ
<1>1. Init => StopClosesQ
  BY DEF Init, StopClosesQ
<1>2. ASSUME StopClosesQ, [Next]_vars PROVE StopClosesQ'
  <2>1. CASE Caller
    BY <1>2, <2>1 DEF Caller, Start, StartAgain, Listening, Stop, SendNil, FinishStop,
       FinishStopWhen, Listen, ListenFails, BeginStop, StopClosesQ, ctlVars
  <2>2. CASE UNCHANGED ctlVars
    BY <1>2, <2>2 DEF StopClosesQ, ctlVars
  <2>3. CASE CloseLingering \/ UNCHANGED vars
    BY <2>2, <2>3 DEF CloseLingering, vars
  <2>4. ASSUME NEW s \in Sockets, Receiver(s) \/ CloseSocket(s) PROVE StopClosesQ'
    BY <2>2, <2>4 DEF Receiver, Read, ReadFails, Enqueue, Quit, Drop, CloseSocket
  <2>5. ASSUME NEW w \in Workers, Worker(w) PROVE StopClosesQ'
    BY <2>2, <2>5 DEF Worker, Receive, FinishDecode
  <2> QED
    BY <1>2, <2>1, <2>3, <2>4, <2>5 DEF Next
<1> QED
  BY <1>1, <1>2, PTL DEF Spec

\* A worker that waits has something to take, if anything is in the channel.
LEMMA SomeoneGoesOn ==
  ASSUME TypeInv, NEW w \in On
  PROVE  WorkerCanGo(w) \/ (worker[w] = "waiting" /\ dispatch = <<>>)
  BY DEF TypeInv, TypeOK, On, WorkerCanGo

\* Stop with a nil packet to send.
LEMMA NilGoesOn ==
  ASSUME TypeInv, NilInv, ctl = "stopping", nilsLeft > 0
  PROVE  NilCanGo \/ \E w \in Workers : WorkerCanGo(w)
<1>1. /\ nilsLeft + Cardinality(Nils) = Cardinality(On)
      /\ Cardinality(On) \in Nat /\ Cardinality(Nils) \in Nat
  BY OneNilIsNilsMatch, FiniteParts DEF NilInv, NilsMatch, Counts
<1>2. nilsLeft \in Nat
  BY Numbers DEF NumbersOK
<1>3. Cardinality(On) # 0
  BY <1>1, <1>2
<1>4. On # {}
  BY <1>3, FS_EmptySet
<1>5. PICK w \in On : TRUE
  BY <1>4
<1>6. w \in Workers
  BY DEF On
<1>7. CASE worker[w] = "waiting" /\ dispatch = <<>>
  <2>1. cfg.queueSize \in Nat /\ Len(dispatch) = 0
    BY <1>7, ConstantsAssumption DEF ConstantsAssumption, TypeInv, TypeOK, Configs
  <2>2. CanSend
    BY <1>6, <1>7, <2>1 DEF CanSend
  <2> QED
    BY <2>2 DEF NilCanGo
<1> QED
  BY <1>5, <1>6, <1>7, SomeoneGoesOn

\* Stop with all nil packets sent, and workers that have not had theirs.
LEMMA WorkersGoOn ==
  ASSUME TypeInv, NilInv, ctl = "stopping", nilsLeft = 0, NEW w \in On
  PROVE  WorkerCanGo(w)
<1>1. Cardinality(Nils) = Cardinality(On) /\ Cardinality(On) \in Nat /\ IsFiniteSet(On)
  BY OneNilIsNilsMatch, FiniteParts DEF NilInv, NilsMatch, Counts
<1>2. Cardinality(On) # 0
  BY <1>1, FS_EmptySet
<1>3. Nils # {}
  BY <1>1, <1>2, FS_EmptySet
<1>4. dispatch # <<>>
  BY <1>3 DEF Nils
<1> QED
  BY <1>4, SomeoneGoesOn

\* Stop is never stuck, though it sends into a queue that may be full, beside
\* receivers blocked on the same channel: whatever it waits for can happen
\* (udp.go:291-321).
THEOREM StopIsNeverStuck == Spec => []StopGoesOn
<1>1. ASSUME TypeInv, NilInv, StopClosesQ PROVE StopGoesOn
  <2> SUFFICES ASSUME ctl = "stopping" PROVE StopGoesOn
    BY DEF StopGoesOn
  <2>1. \A s \in Sockets : Running(s) => ReceiverCanGo(s) \/ CloserCanGo(s)
    BY <1>1 DEF StopClosesQ, Running, ReceiverCanGo, CloserCanGo
  <2> QED
    BY <1>1, <2>1, NilGoesOn, WorkersGoOn DEF StopGoesOn
<1> QED
  BY <1>1, TypeInvHolds, NilInvHolds, StopClosesQHolds, PTL

-----------------------------------------------------------------------------
(* Owners of buffers. *)

LEMMA OwnersInitially == ASSUME Init PROVE OneOwner
BY ConstantsAssumption DEF Init, OneOwner, Packets, ConstantsAssumption

\* What OneOwner is about, without the rest of the types.
Holders ==
  /\ rbuf \in [Sockets -> Buffers \cup {NoBuf}]
  /\ wbuf \in [Workers -> Buffers \cup {NoBuf}]
  /\ \A i \in Packets : dispatch[i] \in Buffers
  /\ free \subseteq Buffers /\ NoBuf \notin Buffers /\ Nil \notin Buffers

LEMMA HoldersFit == TypeInv => Holders
<1>1. ASSUME TypeInv PROVE \A i \in Packets : dispatch[i] \in Buffers
  <2>1. dispatch \in Seq(Buffers \cup {Nil})
    BY <1>1 DEF TypeInv, TypeOK
  <2> QED
    BY <2>1 DEF Packets
<1> QED
  BY <1>1, ConstantsAssumption DEF TypeInv, TypeOK, Holders, ConstantsAssumption

\* A receiver takes a buffer from the pool, with its own put back or not.
LEMMA NextBufferOwners ==
  ASSUME TypeInv, OneOwner, NEW s \in Sockets, UNCHANGED <<wbuf, dispatch>>,
         \/ rbuf[s] = NoBuf /\ NextBuffer(s, free)
         \/ rbuf[s] \in Buffers /\ NextBuffer(s, free \cup {rbuf[s]})
  PROVE  OneOwner'
<1>1. PICK b \in Buffers :
        /\ rbuf' = [rbuf EXCEPT ![s] = b]
        /\ b \in free \/ b = rbuf[s]
        /\ free' \subseteq (free \cup {rbuf[s]}) \ {b}
        /\ rbuf[s] \in free' => rbuf[s] \in Buffers
  BY DEF NextBuffer, TypeInv, TypeOK
<1>2. Packets' = Packets /\ Holders
  BY HoldersFit DEF Packets
<1> QED
  BY <1>1, <1>2 DEF Holders, OneOwner

\* A receiver that returns or a worker that has decoded puts its buffer back.
LEMMA ExitOwners ==
  ASSUME TypeInv, OneOwner, NEW s \in Sockets, rbuf[s] \in Buffers, Exit(s),
         UNCHANGED <<wbuf, dispatch>>
  PROVE  OneOwner'
<1>1. Packets' = Packets /\ Holders
  BY HoldersFit DEF Packets
<1> QED
  BY <1>1 DEF Exit, Holders, OneOwner

LEMMA FinishDecodeOwners ==
  ASSUME TypeInv, OneOwner, NEW w \in Workers, FinishDecode(w)
  PROVE  OneOwner'
<1>1. wbuf[w] \in Buffers
  BY DEF TypeInv, BuffersInHand, FinishDecode
<1>2. Packets' = Packets /\ Holders /\ UNCHANGED <<rbuf, dispatch>>
  BY HoldersFit DEF FinishDecode, receiverVars, Packets
<1> QED
  BY <1>1, <1>2 DEF FinishDecode, Holders, OneOwner

\* What is in the channel after a send.
LEMMA AppendFacts ==
  ASSUME NEW q \in Seq(Buffers \cup {Nil}), NEW x \in Buffers \cup {Nil}
  PROVE  LET r == Append(q, x) IN
         \A i \in DOMAIN r : \/ i \in DOMAIN q /\ r[i] = q[i]
                             \/ i = Len(q) + 1 /\ i \notin DOMAIN q /\ r[i] = x
OBVIOUS

LEMMA TailFacts ==
  ASSUME NEW q \in Seq(Buffers \cup {Nil}), q # <<>>
  PROVE  /\ 1 \in DOMAIN q /\ Head(q) = q[1]
         /\ \A i \in DOMAIN Tail(q) : i + 1 \in DOMAIN q /\ i + 1 # 1 /\ Tail(q)[i] = q[i + 1]
         /\ \A i, j \in DOMAIN Tail(q) : i # j => i + 1 # j + 1
OBVIOUS

LEMMA SendNilOwners == ASSUME TypeInv, OneOwner, SendNil PROVE OneOwner'
<1>1. CASE dispatch' = Append(dispatch, Nil) /\ UNCHANGED <<wbuf, rbuf, free>>
  <2>1. /\ dispatch \in Seq(Buffers \cup {Nil})
        /\ \A i \in Packets' : i \in Packets /\ dispatch'[i] = dispatch[i]
    BY ZenonT(40), <1>1, AppendFacts DEF Packets, TypeInv, TypeOK
  <2> QED
    BY ZenonT(40), <1>1, <2>1 DEF OneOwner
<1>2. ASSUME NEW w \in Workers, Take(w, Nil), UNCHANGED <<dispatch, rbuf, free>>
      PROVE  OneOwner'
  <2>1. wbuf' = wbuf
    BY <1>2 DEF Take, TypeInv, TypeOK, BuffersInHand
  <2> QED
    BY <1>2, <2>1 DEF OneOwner, Packets
<1> QED
  BY <1>1, <1>2 DEF SendNil, Send, workerVars, receiverVars

LEMMA EnqueueOwners ==
  ASSUME TypeInv, OneOwner, NEW s \in Sockets, Enqueue(s)
  PROVE  OneOwner'
<1>1. PICK b \in free : rbuf' = [rbuf EXCEPT ![s] = b] /\ free' = free \ {b}
  BY DEF Enqueue, NextBuffer
<1>2. rbuf[s] \in Buffers /\ b \in Buffers /\ rbuf[s] \notin free
  BY DEF Enqueue, TypeInv, TypeOK, BuffersInHand, Running, OneOwner
<1>3. Holders
  BY HoldersFit
<1>4. CASE dispatch' = Append(dispatch, rbuf[s]) /\ UNCHANGED wbuf
  <2>1. \A i \in Packets' : \/ i \in Packets /\ dispatch'[i] = dispatch[i]
                            \/ i \notin Packets /\ i = Len(dispatch) + 1 /\ dispatch'[i] = rbuf[s]
    <3>1. dispatch \in Seq(Buffers \cup {Nil})
      BY DEF TypeInv, TypeOK
    <3> QED
      BY <1>2, <1>4, <3>1, AppendFacts DEF Packets
  <2>2. wbuf' = wbuf
    BY <1>4
  <2>3. \A i, j \in Packets' : i # j => dispatch'[i] # dispatch'[j]
    BY <1>1, <1>2, <1>3, <2>1, <2>2 DEF OneOwner
  <2>4. \A i \in Packets' : /\ \A t \in Sockets : dispatch'[i] # rbuf'[t]
                            /\ \A v \in Workers : dispatch'[i] # wbuf'[v]
                            /\ dispatch'[i] \notin free'
    BY <1>1, <1>2, <1>3, <2>1, <2>2 DEF Holders, OneOwner
  <2>5. /\ \A t, u \in Sockets : t # u /\ rbuf'[t] # NoBuf => rbuf'[t] # rbuf'[u]
        /\ \A v, u \in Workers : v # u /\ wbuf'[v] # NoBuf => wbuf'[v] # wbuf'[u]
        /\ \A t \in Sockets, v \in Workers : rbuf'[t] # NoBuf => rbuf'[t] # wbuf'[v]
        /\ \A t \in Sockets : rbuf'[t] \notin free'
        /\ \A v \in Workers : wbuf'[v] \notin free'
    BY <1>1, <1>2, <1>3, <2>1, <2>2 DEF Holders, OneOwner
  <2> QED
    BY <2>3, <2>4, <2>5 DEF OneOwner
<1>5. ASSUME NEW w \in Workers, Take(w, rbuf[s]), UNCHANGED dispatch PROVE OneOwner'
  <2>1. wbuf' = [wbuf EXCEPT ![w] = rbuf[s]]
    BY <1>2, <1>5, ConstantsAssumption DEF Take, ConstantsAssumption
  <2> QED
    BY <1>1, <1>2, <1>5, <1>3, <2>1 DEF Holders, OneOwner, Packets
<1> QED
  BY <1>4, <1>5 DEF Enqueue, Send, workerVars

LEMMA ReceiveOwners ==
  ASSUME TypeInv, OneOwner, NEW w \in Workers, Receive(w)
  PROVE  OneOwner'
<1> DEFINE x == Head(dispatch)
<1>1. /\ dispatch \in Seq(Buffers \cup {Nil}) /\ dispatch # <<>> /\ dispatch' = Tail(dispatch)
      /\ UNCHANGED <<rbuf, free>>
  BY DEF Receive, receiverVars, TypeInv, TypeOK
<1>2. /\ 1 \in DOMAIN dispatch /\ x = dispatch[1]
      /\ \A i \in Packets' : i + 1 \in Packets /\ i + 1 # 1 /\ dispatch'[i] = dispatch[i + 1]
      /\ \A i, j \in Packets' : i # j => i + 1 # j + 1
  BY <1>1, TailFacts DEF Packets
<1>3. /\ wbuf[w] = NoBuf
      /\ wbuf' = [wbuf EXCEPT ![w] = IF x = Nil THEN NoBuf ELSE x]
  BY DEF Receive, Take, TypeInv, TypeOK, BuffersInHand
<1> HIDE DEF x
<1>4. Holders
  BY HoldersFit
<1>5. UNCHANGED <<rbuf, free>>
  BY <1>1
<1>6. CASE x = Nil
  <2>1. wbuf' = wbuf
    BY <1>3, <1>6 DEF TypeInv, TypeOK
  <2>2. \A i, j \in Packets' : i # j => dispatch'[i] # dispatch'[j]
    BY <1>2, <1>4, <1>5, <2>1 DEF OneOwner
  <2>3. \A i \in Packets' : /\ \A t \in Sockets : dispatch'[i] # rbuf'[t]
                            /\ \A v \in Workers : dispatch'[i] # wbuf'[v]
                            /\ dispatch'[i] \notin free'
    BY <1>2, <1>4, <1>5, <2>1 DEF Holders, OneOwner
  <2>4. /\ \A t, u \in Sockets : t # u /\ rbuf'[t] # NoBuf => rbuf'[t] # rbuf'[u]
        /\ \A v, u \in Workers : v # u /\ wbuf'[v] # NoBuf => wbuf'[v] # wbuf'[u]
        /\ \A t \in Sockets, v \in Workers : rbuf'[t] # NoBuf => rbuf'[t] # wbuf'[v]
        /\ \A t \in Sockets : rbuf'[t] \notin free'
        /\ \A v \in Workers : wbuf'[v] \notin free'
    BY <1>2, <1>4, <1>5, <2>1 DEF Holders, OneOwner
  <2> QED
    BY <2>2, <2>3, <2>4 DEF OneOwner
<1>7. CASE x # Nil
  <2>1. 1 \in Packets
    BY <1>2, <1>7 DEF Packets
  <2>2. wbuf' = [wbuf EXCEPT ![w] = x]
    BY <1>3, <1>7
  <2>3. \A i, j \in Packets' : i # j => dispatch'[i] # dispatch'[j]
    BY <1>2, <1>3, <1>4, <1>5, <2>1, <2>2 DEF OneOwner
  <2>4. \A i \in Packets' : /\ \A t \in Sockets : dispatch'[i] # rbuf'[t]
                            /\ \A v \in Workers : dispatch'[i] # wbuf'[v]
                            /\ dispatch'[i] \notin free'
    BY <1>2, <1>3, <1>4, <1>5, <2>1, <2>2 DEF Holders, OneOwner
  <2>5. /\ \A t, u \in Sockets : t # u /\ rbuf'[t] # NoBuf => rbuf'[t] # rbuf'[u]
        /\ \A v, u \in Workers : v # u /\ wbuf'[v] # NoBuf => wbuf'[v] # wbuf'[u]
        /\ \A t \in Sockets, v \in Workers : rbuf'[t] # NoBuf => rbuf'[t] # wbuf'[v]
        /\ \A t \in Sockets : rbuf'[t] \notin free'
        /\ \A v \in Workers : wbuf'[v] \notin free'
    BY <1>2, <1>3, <1>4, <1>5, <2>1, <2>2 DEF Holders, OneOwner
  <2> QED
    BY <2>3, <2>4, <2>5 DEF OneOwner
<1> QED
  BY <1>6, <1>7

LEMMA OwnersStep == ASSUME TypeInv, OneOwner, [Next]_vars PROVE OneOwner'
<1>1. CASE UNCHANGED <<rbuf, wbuf, dispatch, free>>
  BY <1>1 DEF OneOwner, Packets
<1>2. ASSUME NEW s \in Sockets, Listen(s) PROVE OneOwner'
  <2>1. rbuf[s] = NoBuf
    BY <1>2 DEF Listen, TypeInv, TypeOK, BuffersInHand, Running
  <2> QED
    BY <1>2, <2>1, NextBufferOwners DEF Listen, workerVars
<1>3. ASSUME NEW s \in Sockets, Drop(s) PROVE OneOwner'
  <2>1. rbuf[s] \in Buffers
    BY <1>3 DEF Drop, TypeInv, BuffersInHand, Running
  <2> QED
    BY <1>3, <2>1, NextBufferOwners DEF Drop, workerVars
<1>4. ASSUME NEW s \in Sockets, ReadFails(s) \/ Quit(s) PROVE OneOwner'
  <2>1. rbuf[s] \in Buffers
    BY <1>4 DEF ReadFails, Quit, TypeInv, BuffersInHand, Running
  <2> QED
    BY <1>4, <2>1, ExitOwners DEF ReadFails, Quit, workerVars
<1>5. CASE \/ Start \/ StartAgain \/ Listening \/ Stop \/ FinishStop \/ CloseLingering
           \/ (\E s \in Sockets : ListenFails(s) \/ Read(s) \/ CloseSocket(s))
           \/ UNCHANGED vars
  <2>1. UNCHANGED <<rbuf, wbuf, dispatch, free>>
    BY <1>5 DEF Start, StartAgain, Listening, Stop, BeginStop, FinishStop, FinishStopWhen,
       CloseLingering, ListenFails, Read, CloseSocket, vars, workerVars, receiverVars
  <2> QED
    BY <1>1, <2>1
<1> QED
  BY <1>2, <1>3, <1>4, <1>5, SendNilOwners, EnqueueOwners, ReceiveOwners,
     FinishDecodeOwners
  DEF Next, Caller, Receiver, Worker

\* No two goroutines, places of the channel or the pool ever hold the same
\* buffer: a payload being decoded is never overwritten by the next datagram
\* (udp.go:166-204, 229-246).
THEOREM BuffersHaveOneOwner == Spec => []OneOwner
<1> QED
  BY OwnersInitially, OwnersStep, TypeInvHolds, PTL DEF Spec

-----------------------------------------------------------------------------
(* The refinement. *)

\* What the call in progress is about to return.
ResultFits ==
  /\ ctl = "idle" => result # "pending"
  /\ ctl = "listening" => result = "pending"
  /\ ctl = "stopping" => \/ result = "pending"
                         \/ result = "listen error" /\ ~ready

LEMMA ResultInitially == ASSUME Init PROVE ResultFits
BY DEF Init, ResultFits

LEMMA ResultStep == ASSUME TypeInv, ResultFits, [Next]_vars PROVE ResultFits'
<1>1. CASE UNCHANGED <<ctl, result, ready>>
  BY <1>1 DEF ResultFits
<1>2. CASE Start \/ StartAgain \/ Listening
  BY <1>2 DEF Start, StartAgain, Listening, TypeInv, ResultFits
<1>3. CASE Stop
  BY <1>3 DEF Stop, BeginStop, ResultFits
<1>4. ASSUME NEW s \in Sockets, ListenFails(s) PROVE ResultFits'
  BY <1>4 DEF BeginStop, ListenFails, TypeInv, ResultFits
<1>5. CASE FinishStop
  BY <1>5 DEF FinishStop, FinishStopWhen, ResultFits
<1>6. CASE \/ SendNil \/ CloseLingering \/ UNCHANGED vars
           \/ (\E s \in Sockets : Listen(s) \/ Receiver(s) \/ CloseSocket(s))
           \/ (\E w \in Workers : Worker(w))
  <2>1. UNCHANGED <<ctl, result, ready>>
    BY <1>6 DEF SendNil, CloseLingering, vars, Listen, Receiver, Read, ReadFails, Enqueue,
       Quit, Drop, CloseSocket, Worker, Receive, FinishDecode, ctlVars
  <2> QED
    BY <1>1, <2>1
<1> QED
  BY <1>2, <1>6, <1>3, <1>5, <1>4 DEF Next, Caller

\* Each step of the receiver is a step of the session, or none.
LEMMA SessionStep ==
  ASSUME TypeInv, ResultFits, [Next]_vars
  PROVE  [Session!SessionNext]_(Session!sessionVars)
<1> USE DEF Session!SessionNext, Session!sessionVars
<1>1. CASE UNCHANGED <<ready, result, decoded>>
  BY <1>1
<1>2. CASE Start
  BY <1>2 DEF Start, ledger, Session!Opening
<1>3. CASE StartAgain
  BY <1>3 DEF StartAgain, ledger, ResultFits, Session!Refused
<1>4. CASE Listening
  BY <1>4 DEF Listening, ledger, ResultFits, TypeInv, Session!Opened
<1>5. CASE Stop
  BY <1>5 DEF Stop, BeginStop, ledger, ResultFits, Session!Stopping
<1>6. ASSUME NEW s \in Sockets, ListenFails(s) PROVE Session!Failing
  BY <1>6 DEF ListenFails, BeginStop, ledger, ResultFits, TypeInv, Session!Failing
<1>7. CASE FinishStop
  BY <1>7 DEF FinishStop, FinishStopWhen, ledger, ResultFits, Session!Undone,
     Session!Closed, Session!NotOpen
<1>8. ASSUME NEW w \in Workers, FinishDecode(w) PROVE Session!Decode
  BY <1>8 DEF FinishDecode, ctlVars, TypeInv, ClosedIsEmpty, Session!Decode
<1>9. CASE \/ SendNil \/ CloseLingering \/ UNCHANGED vars
           \/ (\E s \in Sockets : Listen(s) \/ Receiver(s) \/ CloseSocket(s))
           \/ (\E w \in Workers : Receive(w))
  <2>1. UNCHANGED <<ready, result, decoded>>
    BY <1>9 DEF SendNil, CloseLingering, vars, Listen, Receiver, Read, ReadFails, Enqueue,
       Quit, Drop, CloseSocket, Receive, ctlVars, ledger
  <2> QED
    BY <1>1, <2>1
<1> QED
  BY <1>2, <1>3, <1>4, <1>5, <1>6, <1>7, <1>8, <1>9 DEF Next, Caller, Worker

\* The receiver with its goroutines, channels and sockets implements
\* ReceiverSession: calls of Start and Stop alternate and nothing is decoded
\* outside a session (udp.go:108-119, 287-321).
THEOREM ReceiverImplementsSession == Spec => ImplementsSession
<1>1. Init => Session!SessionInit
  BY DEF Init, Session!SessionInit
<1>2. Spec => []ResultFits
  BY ResultInitially, ResultStep, TypeInvHolds, PTL DEF Spec
<1>3. Spec => Session!SessionSpec
  BY <1>1, <1>2, SessionStep, TypeInvHolds, PTL DEF Spec, Session!SessionSpec
<1> QED
  BY <1>3 DEF ImplementsSession
=============================================================================
