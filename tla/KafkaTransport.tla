---------------------------- MODULE KafkaTransport ----------------------------
(***************************************************************************)
(* The Kafka driver of transport/kafka/kafka.go over Sarama's asynchronous *)
(* producer, which is external: it takes messages while it has room,       *)
(* delivers each or gives it back as an error, and on Close waits for      *)
(* those under way and then closes its channel of errors.                  *)
(***************************************************************************)
EXTENDS Integers

CONSTANTS
  Room,      \* bound: messages the producer holds before Input blocks
  ErrorRoom  \* bound: errors that wait to be taken

VARIABLES
  producer,  \* "open", "closing" or "closed"
  queue,     \* messages taken and neither delivered nor failed
  errs,      \* errors in the producer's channel
  relay,     \* the goroutine of Init: "select", "error", "nil" or "done"
  kafkaQ     \* d.q is closed

kafkaVars == <<producer, queue, errs, relay, kafkaQ>>

KafkaInit ==
  /\ producer = "open" /\ queue = 0 /\ errs = 0
  /\ relay = "select" /\ kafkaQ = FALSE

(* Send, for which a producer being closed is a panic.                      *)
Input ==
  /\ producer = "open" /\ queue < Room
  /\ queue' = queue + 1
  /\ UNCHANGED <<producer, errs, relay, kafkaQ>>

Deliver ==
  /\ queue > 0 /\ queue' = queue - 1
  /\ UNCHANGED <<producer, errs, relay, kafkaQ>>
DeliverFails ==
  /\ queue > 0 /\ errs < ErrorRoom
  /\ queue' = queue - 1 /\ errs' = errs + 1
  /\ UNCHANGED <<producer, relay, kafkaQ>>

(* The goroutine of Init takes an error, or nil from the closed channel.    *)
RelayTakes ==
  /\ relay = "select"
  /\ \/ errs > 0 /\ errs' = errs - 1 /\ relay' = "error"
     \/ errs = 0 /\ producer = "closed" /\ relay' = "nil" /\ UNCHANGED errs
  /\ UNCHANGED <<producer, queue, kafkaQ>>
(* It offers what it has taken to whoever waits at this moment.             *)
RelayOffers ==
  /\ relay \in {"error", "nil"}
  /\ relay' = IF relay = "error" THEN "select" ELSE "done"
  /\ UNCHANGED <<producer, queue, errs, kafkaQ>>
RelayEnds ==
  /\ relay = "select" /\ kafkaQ /\ relay' = "done"
  /\ UNCHANGED <<producer, queue, errs, kafkaQ>>

(* Close: Sarama's, which takes errors from the same channel and returns    *)
(* them to a caller that does not look at them; then the goroutine.         *)
AsyncClose ==
  /\ producer = "open" /\ producer' = "closing"
  /\ UNCHANGED <<queue, errs, relay, kafkaQ>>
CloseTakes ==
  /\ producer = "closing" /\ errs > 0 /\ errs' = errs - 1
  /\ UNCHANGED <<producer, queue, relay, kafkaQ>>
CloseFlushed ==
  /\ producer = "closing" /\ queue = 0 /\ errs = 0
  /\ producer' = "closed"
  /\ UNCHANGED <<queue, errs, relay, kafkaQ>>
CloseKafkaQ ==
  /\ producer = "closed" /\ kafkaQ' = TRUE
  /\ UNCHANGED <<producer, queue, errs, relay>>
=============================================================================
