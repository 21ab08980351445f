---------------------------- MODULE MCUDPReceiver ----------------------------
(* Instances of UDPReceiver for TLC. *)
EXTENDS UDPReceiver, TLC

Symmetry == Permutations(Workers) \cup Permutations(Sockets)
              \cup Permutations(Buffers)
=============================================================================
