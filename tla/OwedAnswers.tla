---------------------------- MODULE OwedAnswers -----------------------------
(***************************************************************************)
(* What the daemon promises about answers (ADR 107), with no packet, hold  *)
(* or ledger in sight: a round's answers are owed from the moment they are *)
(* submitted, some caller is given them, and only then may the daemon      *)
(* settle the round.  A packet may also hold a round that was settled, as  *)
(* a re-read does: how often one is handed out as owed is not said here.   *)
(***************************************************************************)
CONSTANT Round

VARIABLES owed, given, settled

vars == <<owed, given, settled>>

Init ==
    /\ owed = {}
    /\ given = {}
    /\ settled = {}

Submit(k) ==
    /\ owed' = owed \cup {k}
    /\ UNCHANGED <<given, settled>>

(* One response leaves with the answers of K and settles L: everything it  *)
(* settles has been given, by it or by an earlier one.                     *)
Give(K, L) ==
    /\ K \subseteq owed
    /\ L \subseteq given \cup K
    /\ given' = given \cup K
    /\ settled' = settled \cup L
    /\ UNCHANGED owed

Next ==
    \/ \E k \in Round : Submit(k)
    \/ \E K, L \in SUBSET Round : Give(K, L)

Spec == Init /\ [][Next]_vars

=============================================================================
