------------------------------- MODULE MCLive -------------------------------
(***************************************************************************)
(* What must happen in the end: of delivery, of the rounds and of the      *)
(* shared stream, side by side.  One of the three moves, chosen at the     *)
(* start; the others stay as they began, and nothing fair is asked of them.*)
(***************************************************************************)
EXTENDS Delivery, Rounds, Stream

VARIABLE part

liveVars == <<part, vars, roundsVars, streamVars>>

MCCap == [b \in Boards |-> 2]

LiveInit ==
    /\ part \in {"delivery", "rounds", "stream"}
    /\ Init /\ RoundsInit /\ StreamInit

LiveNext ==
    \/ part = "delivery" /\ Next /\ UNCHANGED <<part, roundsVars, streamVars>>
    \/ part = "rounds" /\ RoundsNext /\ UNCHANGED <<part, vars, streamVars>>
    \/ part = "stream" /\ StreamNext /\ UNCHANGED <<part, vars, roundsVars>>

LiveSpec ==
    /\ LiveInit /\ [][LiveNext]_liveVars
    /\ \/ part = "delivery" /\ Fairness
       \/ part = "rounds" /\ RoundsFairness
       \/ part = "stream" /\ StreamFairness
=============================================================================
