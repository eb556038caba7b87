------------------------------ MODULE InOrder ------------------------------
(* What the code takes in ascending order: the numbers of the rounds it    *)
(* closes or replays, and the ids of Watchers as they were minted.         *)
EXTENDS Naturals, FiniteSets

(* The k-th of them is the one no later than k of them.                    *)
Ascending(ns) ==
    [k \in 1 .. Cardinality(ns) |->
        CHOOSE n \in ns : Cardinality({m \in ns : m <= n}) = k]
=============================================================================
