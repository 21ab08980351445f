--------------------------- MODULE ReceiverSession ---------------------------
(***************************************************************************)
(* What utils.UDPReceiver promises its caller: sessions opened by Start    *)
(* and closed by Stop alternate, a refused or failed call leaves the       *)
(* receiver in the state it found, and packets are decoded only while a    *)
(* session is open, never after Stop has returned.  UDPReceiver, with all  *)
(* its goroutines and channels, implements it.                             *)
(***************************************************************************)
EXTENDS Naturals

VARIABLES
  session,  \* "open" or "closed"
  result,   \* the result of the last call, "pending" while it runs
  decoded   \* packets decoded so far

sessionVars == <<session, result, decoded>>

SessionInit == session = "closed" /\ result = "ok" /\ decoded = 0

\* Start on a closed receiver opens it, and returns nil or the error of a socket.
Opening == /\ session = "closed" /\ session' = "open"
           /\ result' = "pending" /\ UNCHANGED decoded
Opened  == /\ session = "open" /\ result = "pending"
           /\ result' = "ok" /\ UNCHANGED <<session, decoded>>
Failing == /\ session = "open" /\ result = "pending"
           /\ result' = "listen error" /\ UNCHANGED <<session, decoded>>
Undone  == /\ session = "open" /\ result = "listen error"
           /\ session' = "closed" /\ UNCHANGED <<result, decoded>>

\* Start on an open receiver is refused.
Refused == /\ session = "open" /\ result # "pending"
           /\ result' = "already started" /\ UNCHANGED <<session, decoded>>

\* Stop closes an open receiver and is refused by a closed one.
Stopping == /\ result # "pending"
            /\ result' = "pending" /\ UNCHANGED <<session, decoded>>
Closed   == /\ session = "open" /\ result = "pending"
            /\ session' = "closed" /\ result' = "ok" /\ UNCHANGED decoded
NotOpen  == /\ session = "closed" /\ result = "pending"
            /\ result' = "already stopped" /\ UNCHANGED <<session, decoded>>

Decode == /\ session = "open"
          /\ decoded' = decoded + 1 /\ UNCHANGED <<session, result>>

SessionNext == Opening \/ Opened \/ Failing \/ Undone \/ Refused \/ Stopping
               \/ Closed \/ NotOpen \/ Decode

SessionSpec == SessionInit /\ [][SessionNext]_sessionVars
=============================================================================
