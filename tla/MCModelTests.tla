---------------------------- MODULE MCModelTests ----------------------------
(* Instances of ModelTests for TLC. *)
EXTENDS ModelTests, TLC

Alike == Permutations(Channels)
=============================================================================
