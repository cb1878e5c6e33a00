---------------------------- MODULE MCRelayTerminals ----------------------------
(* Browser windows are told apart by nothing but the order they come in.     *)
EXTENDS RelayTerminals, TLC

Symmetry == Permutations(Viewers)
=============================================================================
