----------------------------- MODULE MCDelivery -----------------------------
(* Instances of Delivery for TLC. *)
EXTENDS Delivery, TLC

(* Two rounds on a board of this daemon's, the history of one from before. *)
MCCap == [b \in Boards |-> IF b \in Legacy THEN 1 ELSE 2]

CallSymmetry == Permutations(Calls)
=============================================================================
