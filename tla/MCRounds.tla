------------------------------ MODULE MCRounds ------------------------------
(* Instances of Rounds for TLC. *)
EXTENDS Rounds, TLC

CallSymmetry == Permutations(AskCalls)
=============================================================================
