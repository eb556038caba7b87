------------------------------- MODULE MCDesk -------------------------------
(***************************************************************************)
(* The reviewer's side: the page, the shared stream, the pomodoro, the     *)
(* mission watch and the waiting cache, side by side.  One of the five     *)
(* moves, chosen at the start; the others stay as they began.              *)
(***************************************************************************)
EXTENDS Page, Stream, Pomodoro, MissionWatch, WaitingCache

VARIABLE part

vars == <<part, pageVars, streamVars, pomoVars, watchVars, cacheVars>>

MCLength == [work |-> 6, break |-> 2, longBreak |-> 3]
MCJumps == {-2, 3, 5}

(* The watch, while it does not move, begins with every mission working.    *)
Init ==
    /\ part \in {"page", "stream", "pomodoro", "watch", "cache"}
    /\ PageInit /\ StreamInit /\ PomoInit /\ WatchInit /\ CacheInit
    /\ part # "watch" => \A m \in Watched : record[m].view = "working"

Next ==
    \/ /\ part = "page" /\ PageNext
       /\ UNCHANGED <<part, streamVars, pomoVars, watchVars, cacheVars>>
    \/ /\ part = "stream" /\ StreamNext
       /\ UNCHANGED <<part, pageVars, pomoVars, watchVars, cacheVars>>
    \/ /\ part = "pomodoro" /\ PomoNext
       /\ UNCHANGED <<part, pageVars, streamVars, watchVars, cacheVars>>
    \/ /\ part = "watch" /\ WatchNext
       /\ UNCHANGED <<part, pageVars, streamVars, pomoVars, cacheVars>>
    \/ /\ part = "cache" /\ CacheNext
       /\ UNCHANGED <<part, pageVars, streamVars, pomoVars, watchVars>>

Spec == Init /\ [][Next]_vars

(* Every variable of the five modules keeps its type.                      *)
TypesOK == PageTypeOK /\ StreamTypeOK /\ PomoTypeOK /\ WatchTypeOK /\ CacheTypeOK
=============================================================================
