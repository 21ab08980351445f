------------------------------- MODULE BatchMute -------------------------------
(***************************************************************************)
(* The counter of utils/mute.go that keeps error loops from logging more   *)
(* than max messages in an interval. Time is a choice: an increment comes  *)
(* within the interval of the batch or late.                               *)
(***************************************************************************)
EXTENDS Integers

(* A maximum of zero, or an interval of zero, turns muting off.             *)
NewBatchMute(max) == [ctr |-> 0, max |-> max]

Skipped(b) == IF b.max > 0 /\ b.ctr >= b.max THEN b.ctr - b.max ELSE 0

(* Mutant: the counter is reset before what was skipped is taken from it.   *)
IncrementAfterReset(b, late) ==
  LET ctr == IF b.max = 0 THEN b.ctr ELSE IF late THEN 1 ELSE b.ctr + 1
  IN [bm |-> [b EXCEPT !.ctr = ctr],
      muted |-> b.max > 0 /\ ctr > b.max,
      skipped |-> IF late THEN 0 ELSE Skipped(b)]

(* One more message: whether it is muted, and how many were before it.      *)
Increment(b, late) ==
  LET ctr == IF b.max = 0 THEN b.ctr ELSE IF late THEN 1 ELSE b.ctr + 1
  IN [bm |-> [b EXCEPT !.ctr = ctr],
      muted |-> b.max > 0 /\ ctr > b.max,
      skipped |-> Skipped(b)]
=============================================================================
