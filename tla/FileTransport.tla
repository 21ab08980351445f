---------------------------- MODULE FileTransport ----------------------------
(***************************************************************************)
(* The file driver of transport/file/transport.go: messages are appended   *)
(* to a file that SIGHUP closes and opens again, in a goroutine beside the *)
(* callers of Send and Close.                                              *)
(***************************************************************************)
EXTENDS Integers

CONSTANTS
  Senders,  \* goroutines that call Send
  MaxHups   \* bound: SIGHUPs

VARIABLES
  open,     \* the handles that are open; 0 is standard output
  handle,   \* d.w and d.file: the handle messages are written to
  hups,     \* SIGHUPs received so far
  hupped,   \* one of them waits in the channel
  reopener, \* the goroutine: "select", "reopening" with the lock held, "done"
  fileQ,    \* d.q is closed, and SIGHUP is ignored
  writer    \* the writer each sender has copied, Unset if none

Unset == -1
fileVars == <<open, handle, hups, hupped, reopener, fileQ, writer>>

(* Init of the driver: an open file and a goroutine, or standard output.    *)
FileInit ==
  /\ \/ handle = 0 /\ reopener = "done"
     \/ handle = 1 /\ reopener = "select"
  /\ open = {0, handle}
  /\ hups = 0 /\ hupped = FALSE /\ fileQ = FALSE
  /\ writer = [s \in Senders |-> Unset]

Stdout == handle = 0
Locked == reopener = "reopening"

(* The channel has room for one signal; more are dropped.                   *)
Hup ==
  /\ ~Stdout /\ ~fileQ /\ hups < MaxHups
  /\ hups' = hups + 1 /\ hupped' = TRUE
  /\ UNCHANGED <<open, handle, reopener, fileQ, writer>>

(* The lock is taken and the file closed.                                   *)
CloseOld ==
  /\ reopener = "select" /\ hupped
  /\ reopener' = "reopening" /\ hupped' = FALSE
  /\ open' = open \ {handle}
  /\ UNCHANGED <<handle, hups, fileQ, writer>>

OpenNew ==
  /\ reopener = "reopening" /\ reopener' = "select"
  /\ handle' = handle + 1 /\ open' = open \cup {handle + 1}
  /\ UNCHANGED <<hups, hupped, fileQ, writer>>

(* The goroutine ends; what d.w writes to stays closed.                     *)
OpenFails ==
  /\ reopener = "reopening" /\ reopener' = "done"
  /\ UNCHANGED <<open, handle, hups, hupped, fileQ, writer>>

EndReopener ==
  /\ reopener = "select" /\ fileQ /\ reopener' = "done"
  /\ UNCHANGED <<open, handle, hups, hupped, fileQ, writer>>

Reopener == CloseOld \/ OpenNew \/ OpenFails \/ EndReopener

(* Send copies the writer with the read lock and writes without it; the     *)
(* write fails if the handle has been closed.                               *)
CopyWriter(s) ==
  /\ ~Locked /\ writer[s] = Unset
  /\ writer' = [writer EXCEPT ![s] = handle]
  /\ UNCHANGED <<open, handle, hups, hupped, reopener, fileQ>>
WriteFails(s) == writer[s] \notin open
Written(s) ==
  /\ writer[s] # Unset
  /\ writer' = [writer EXCEPT ![s] = Unset]
  /\ UNCHANGED <<open, handle, hups, hupped, reopener, fileQ>>

(* Close: the file, then the signal and the goroutine.                      *)
CloseFile ==
  /\ ~Locked
  /\ open' = IF Stdout THEN open ELSE open \ {handle}
  /\ UNCHANGED <<handle, hups, hupped, reopener, fileQ, writer>>
CloseFileQ ==
  /\ fileQ' = TRUE
  /\ UNCHANGED <<open, handle, hups, hupped, reopener, writer>>
=============================================================================
