----------------------------- MODULE MCStranded -----------------------------
(* Instances of Stranded for TLC. *)
EXTENDS Stranded, TLC

TabSymmetry == Permutations(Tabs)
=============================================================================
