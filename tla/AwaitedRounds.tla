--------------------------- MODULE AwaitedRounds ----------------------------
(***************************************************************************)
(* What the daemon promises about waiting (ADR 50), with no clock, poll,   *)
(* sweep or record in sight: a round is awaited from a post on and its     *)
(* deadline moves only while it is; what ends the wait ends it for good;   *)
(* an ask is put on an awaited round only; and what an ask is told timed   *)
(* out is past from that moment, for every reader.                         *)
(***************************************************************************)
EXTENDS Naturals

CONSTANTS Round, Call, NoRound

VARIABLES
    awaited,    \* the rounds somebody may still answer in time
    past,       \* the other rounds that were posted
    deadline,   \* the deadline each round has, or had when its wait ended
    on,         \* the round each ask waits on
    told        \* the rounds some ask was told timed out

vars == <<awaited, past, deadline, on, told>>

Init ==
    /\ awaited = {}
    /\ past = {}
    /\ deadline = [n \in Round |-> 0]
    /\ on = [c \in Call |-> NoRound]
    /\ told = {}

(* No round but n has its deadline moved, and a past one never.            *)
Moves(n) ==
    /\ deadline' \in [Round -> Nat]
    /\ \A m \in Round : m # n \/ m \in past => deadline'[m] = deadline[m]

(* A post makes a round, or joins one that is awaited.                     *)
Awaits(n) ==
    /\ n \notin past
    /\ awaited' = awaited \cup {n}
    /\ Moves(n)
    /\ UNCHANGED past

(* A post that no ask waits on: content, or a response that was lost.      *)
Post(n) ==
    /\ \/ Awaits(n)
       \/ /\ n \notin awaited
          /\ past' = past \cup {n}
          /\ UNCHANGED <<awaited, deadline>>
    /\ UNCHANGED <<on, told>>

Ask(c, n) ==
    /\ on[c] = NoRound
    /\ Awaits(n)
    /\ on' = [on EXCEPT ![c] = n]
    /\ UNCHANGED told

(* The reviewer is active on an awaited round. *)
Activity(n) ==
    /\ n \in awaited
    /\ Moves(n)
    /\ UNCHANGED <<awaited, past, on, told>>

(* Rounds are answered, abandoned or lapse. *)
End ==
    /\ UNCHANGED <<on, told, deadline>>
    /\ awaited' \subseteq awaited
    /\ past' = past \cup (awaited \ awaited')

(* An ask's wait times out, and takes its round with it; the answer may be *)
(* lost, and the ask then waits on.                                        *)
TimeOut(c) ==
    LET n == on[c]
    IN  /\ n # NoRound
        /\ awaited' = awaited \ {n}
        /\ past' = past \cup {n}
        /\ told' = told \cup {n}
        /\ Moves(n)
        /\ on' \in {on, [on EXCEPT ![c] = NoRound]}

(* Asks return with an answer, give up, are cancelled or cut off. *)
Leave ==
    /\ on' \in [Call -> Round \cup {NoRound}]
    /\ \A c \in Call : on'[c] \in {on[c], NoRound}
    /\ UNCHANGED <<awaited, past, deadline, told>>

Next ==
    \/ Leave
    \/ End
    \/ \E n \in Round : Post(n) \/ Activity(n)
    \/ \E c \in Call : TimeOut(c) \/ \E n \in Round : Ask(c, n)

Spec == Init /\ [][Next]_vars

=============================================================================
