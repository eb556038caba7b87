----------------------------- MODULE MCSessions -----------------------------
(***************************************************************************)
(* The agent's side: the shim and the missions ledger, side by side.  One  *)
(* of the two moves, chosen at the start; the other stays as it began.     *)
(***************************************************************************)
EXTENDS Shim, Missions, TLC

CONSTANTS c1, c2, con1, con2, p1, p2, p3, id1, id2, m1, m2

VARIABLE part

vars == <<part, shimVars, missionVars>>

(* Two processes of one pid, one after the other, and a third of its own.  *)
MCPid == [p \in {p1, p2, p3} |-> IF p = p3 THEN 2 ELSE 1]

(* The calls and the ids swap, and so do the contents and the missions, as *)
(* no part tells one from the other; and the two processes of one pid.     *)
Swap(u, v) == u :> v @@ v :> u
Names == Swap(c1, c2) @@ Swap(id1, id2)
Things == Swap(con1, con2) @@ Swap(m1, m2)
Processes == Swap(p1, p2)
Swapped(swap, f) == IF swap THEN f ELSE [v \in DOMAIN f |-> v]
Symmetry ==
    {Swapped(names, Names) @@ Swapped(things, Things) @@ Swapped(processes, Processes)
     : names, things, processes \in BOOLEAN}

Init ==
    /\ part \in {"shim", "missions"}
    /\ ShimInit /\ MissionInit

Next ==
    \/ part = "shim" /\ ShimNext /\ UNCHANGED <<part, missionVars>>
    \/ part = "missions" /\ MissionNext /\ UNCHANGED <<part, shimVars>>

Spec == Init /\ [][Next]_vars

(* Every variable of the two modules keeps its type.                       *)
TypesOK == ShimTypeOK /\ MissionTypeOK
=============================================================================
