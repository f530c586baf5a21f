---------------------------- MODULE MCPlayground ----------------------------
(* Instances of Playground for TLC. *)
EXTENDS Playground, TLC

Alike == Permutations(Streams)

\* The default messages and two questions with their answers: a third request is made
\* only after messages were deleted, cleared or regenerated.
ShortList == Len(message) <= 6
=============================================================================
