------------------------------ MODULE Stranded ------------------------------
(***************************************************************************)
(* The stranded rule (src/stranded.mjs) for one board: a round nobody is   *)
(* looking at is announced by a native banner after a grace.  The rule is  *)
(* driven by the posts, answers and abandons of the board, by the tabs     *)
(* that watch it and report whether they are focused (src/server.mjs       *)
(* createSseHub, handleEvents, handleAttended), and by the one timer it    *)
(* arms.  The record of what was announced is on the board document, or in *)
(* memory when the document cannot be written; each banner is a process    *)
(* that a signal takes off the screen.                                     *)
(*                                                                         *)
(* A timer fires at any moment: firing early, or a window renewed under    *)
(* it, is what announce re-decides for.  A banner is named by its place in *)
(* `banners`, which is its process as well.                                *)
(***************************************************************************)
EXTENDS Naturals, Sequences, FiniteSets

CONSTANTS
    Tabs,           \* the tabs that may watch the board
    Levels,         \* the banner levels the reviewer switches between
    NoRecord,       \* the absent banner record
    MaxRound,       \* bound on the rounds of the board
    MaxEdits,       \* bound on the amends
    MaxBanners,     \* bound on the banners raised
    MaxBreaks,      \* bound on the spells the store refuses writes
    MaxRestarts     \* bound on the daemon's restarts

ASSUME StrandedAssumption ==
    /\ Levels \subseteq {"off", "no-board", "this-board", "always"}
    /\ NoRecord \notin [round : Nat, returned : BOOLEAN, pid : Nat]
    /\ {MaxRound, MaxEdits, MaxBanners, MaxBreaks, MaxRestarts} \subseteq Nat

VARIABLES
    rounds,     \* on disk: the board's rounds, in order
    watch,      \* the rule's state on this board, its disk fields included
    hub,        \* what the daemon knows of each tab on the board
    elsewhere,  \* the same of the tabs on every other board
    level,      \* the reviewer's banner level
    broken,     \* the store refuses writes
    (***********************************************************************)
    (* History.                                                            *)
    (***********************************************************************)
    banners,    \* the round each banner ever raised was about
    edits,      \* amends of each round
    due,        \* the reviewer returned, or an announced round was amended
                \* unseen, since the last banner
    forgotten,    \* the countdown went with the daemon or with level "off"
    recordLost,       \* the record of a banner raised on a broken store is not read
                \* back: an older one shadows it, or the daemon restarted
    spells,     \* times the store broke
    restarts    \* times the daemon restarted

strandedHistory == <<banners, edits, due, forgotten, recordLost, spells, restarts>>
strandedVars == <<rounds, watch, hub, elsewhere, level, broken, strandedHistory>>

-----------------------------------------------------------------------------
RoundRecord == [status : {"open", "sent", "abandoned"}, awaited : BOOLEAN, dated : BOOLEAN]

BannerRecord == [round : 0 .. MaxRound, returned : BOOLEAN, pid : 0 .. MaxBanners]

(* `suppressed` and `record` are on the board document; a process whose    *)
(* banner is up is on `screen`, and `child` is the one this daemon holds.  *)
Watch == [pending : {"none", "grace", "window"},
          suppressed : BOOLEAN,
          record : BannerRecord \cup {NoRecord},
          memory : BannerRecord \cup {NoRecord},
          child : 0 .. MaxBanners,
          screen : SUBSET (1 .. MaxBanners)]

(* "unknown" has subscribed and not reported; "window" was focused within  *)
(* the look-away window.                                                   *)
TabState == {"none", "unknown", "focused", "window", "away"}

StrandedTypeOK ==
    /\ rounds \in Seq(RoundRecord) /\ Len(rounds) <= MaxRound
    /\ watch \in Watch
    /\ hub \in [Tabs -> TabState]
    /\ elsewhere \in {"focused", "window", "away"}
    /\ level \in Levels
    /\ {broken, due, forgotten, recordLost} \subseteq BOOLEAN
    /\ banners \in Seq(1 .. MaxRound) /\ Len(banners) <= MaxBanners
    /\ edits \in [1 .. MaxRound -> 0 .. MaxEdits]
    /\ spells \in 0 .. MaxBreaks
    /\ restarts \in 0 .. MaxRestarts
    /\ watch.screen \cup {watch.child} \subseteq 0 .. Len(banners)

StrandedInit ==
    /\ rounds = <<>>
    /\ watch = [pending |-> "none", suppressed |-> FALSE, record |-> NoRecord,
                memory |-> NoRecord, child |-> 0, screen |-> {}]
    /\ hub = [t \in Tabs |-> "none"]
    /\ elsewhere \in {"focused", "window", "away"}
    /\ level \in Levels
    /\ broken = FALSE
    /\ banners = <<>>
    /\ edits = [n \in 1 .. MaxRound |-> 0]
    /\ due = TRUE
    /\ forgotten = FALSE
    /\ recordLost = FALSE
    /\ spells = 0
    /\ restarts = 0

-----------------------------------------------------------------------------
(* Reading the board and the hub.                                          *)

Blank == [round |-> 0, returned |-> TRUE, pid |-> 0]

RecordOn(w) ==
    IF w.record # NoRecord THEN w.record
    ELSE IF w.memory # NoRecord THEN w.memory ELSE Blank

Waiting(rs) == {n \in DOMAIN rs : rs[n].status = "open" /\ rs[n].awaited}

(* A Suppressed board's own first round, waited on or not, then the oldest *)
(* waiting round past the mark.                                            *)
Announceable(w, rs) ==
    LET mark == RecordOn(w).round
    IN  IF /\ mark = 0 /\ w.suppressed /\ rs # <<>>
           /\ rs[1].status = "open" /\ ~rs[1].dated
        THEN {1}
        ELSE {n \in Waiting(rs) : n > mark}

NextToAnnounce(w, rs) ==
    CHOOSE n \in Announceable(w, rs) : \A m \in Announceable(w, rs) : n <= m

(* Mutation: the record is spent once its round is waited on no more.      *)
MayAnnounceSpent(w, rs) ==
    /\ RecordOn(w).returned \/ RecordOn(w).round \notin Waiting(rs)
    /\ Announceable(w, rs) # {}

MayAnnounce(w, rs) == RecordOn(w).returned /\ Announceable(w, rs) # {}

Focused(h) == \E t \in Tabs : h[t] = "focused"

Around(h) == \E t \in Tabs : h[t] \in {"focused", "window"}

-----------------------------------------------------------------------------
(* The rule's own functions, each from its state to its next one.          *)

Cancel(w) == [w EXCEPT !.pending = "none"]

(* Mutation: only the child this daemon holds goes.                        *)
TerminateOwn(w, pid) ==
    [w EXCEPT !.child = 0, !.screen = @ \ {w.child}]

(* Withdraw the banner on screen: the child held, else the process on      *)
(* record.                                                                 *)
Terminate(w, pid) ==
    [w EXCEPT !.child = 0, !.screen = @ \ {IF w.child # 0 THEN w.child ELSE pid}]

SpendSuppressed(w) == [w EXCEPT !.suppressed = @ /\ broken]

(* Rewrite the record with f where it stands, on disk and in memory.       *)
Rewrite(w, round, returned) ==
    LET f(rec) == IF rec = NoRecord THEN rec
                  ELSE [round |-> round, returned |-> returned, pid |-> 0]
    IN  [w EXCEPT !.record = f(@), !.memory = f(@)]

(* The record cannot follow: the banner stays up with it.                  *)
Refused(w) == w.record # NoRecord /\ broken

(* Mutation: a return erases the mark with the gate.                       *)
ReturnedForgets(w) ==
    LET w1 == SpendSuppressed(Cancel(w))
    IN  IF Refused(w1) THEN w1
        ELSE [Terminate(w1, RecordOn(w1).pid) EXCEPT !.record = NoRecord, !.memory = NoRecord]

Returned(w) ==
    LET w1 == SpendSuppressed(Cancel(w))
        rec == RecordOn(w1)
    IN  IF rec.returned THEN Terminate(w1, 0)
        ELSE IF Refused(w1) THEN w1
        ELSE Terminate(Rewrite(w1, rec.round, TRUE), rec.pid)

(* Mutation: no countdown while a look-away window runs.                   *)
EvaluateNotAround(w, rs, h) ==
    IF Focused(h) THEN Returned(w)
    ELSE IF Around(h) \/ ~MayAnnounce(w, rs) THEN Cancel(w)
    ELSE [w EXCEPT !.pending = "grace"]

Evaluate(w, rs, h) ==
    IF Focused(h) THEN Returned(w)
    ELSE IF ~MayAnnounce(w, rs) THEN Cancel(w)
    ELSE IF w.pending # "none" /\ ~(w.pending = "window" /\ ~Around(h)) THEN w
    ELSE [w EXCEPT !.pending = IF Around(h) /\ level # "always" THEN "window" ELSE "grace"]

(* Mutation: a killed daemon's banner outlives the answer to its round.    *)
AnsweredOwn(w, n) ==
    IF w.child # 0 /\ banners[w.child] = n THEN Terminate(w, 0) ELSE w

Answered(w, n) ==
    LET rec == RecordOn(w)
    IN  IF w.child # 0
        THEN IF banners[w.child] = n THEN Terminate(w, 0) ELSE w
        ELSE IF rec.round = n THEN Terminate(w, rec.pid) ELSE w

(* Mutation: the mark moves back two.                                      *)
AmendedTooFar(w, n, h) ==
    LET rec == RecordOn(w)
    IN  IF Around(h) \/ rec.round # n THEN w
        ELSE IF Refused(w) THEN Cancel(w)
        ELSE Terminate(Rewrite(Cancel(w), n - 2, TRUE), rec.pid)

(* The amended round's mark moves back one, the gate opens and the stale   *)
(* banner goes, unless the reviewer is around.                             *)
Amended(w, n, h) ==
    LET rec == RecordOn(w)
    IN  IF Around(h) \/ rec.round # n THEN w
        ELSE IF Refused(w) THEN Cancel(w)
        ELSE Terminate(Rewrite(Cancel(w), n - 1, TRUE), rec.pid)

Abandoned(w) ==
    LET rec == RecordOn(w)
        w1 == Terminate(Cancel(w), rec.pid)
    IN  IF rec.pid = 0 THEN w1
        ELSE [w1 EXCEPT !.record = IF @ = NoRecord \/ broken THEN @ ELSE [@ EXCEPT !.pid = 0],
                        !.memory = IF @ = NoRecord THEN @ ELSE [@ EXCEPT !.pid = 0]]

(* What the banner level says of the attendance that holds a banner back.  *)
Muted ==
    CASE level = "always" -> "no"
      [] level = "no-board" ->
            IF Focused(hub) \/ elsewhere = "focused" THEN "focused"
            ELSE IF Around(hub) \/ elsewhere = "window" THEN "window" ELSE "no"
      [] OTHER ->
            IF Focused(hub) THEN "focused" ELSE IF Around(hub) THEN "window" ELSE "no"

Raised(w, n) ==
    LET id == Len(banners) + 1
        rec == [round |-> n, returned |-> FALSE, pid |-> id]
    IN  [w EXCEPT !.record = IF broken THEN @ ELSE rec,
                  !.memory = IF broken THEN rec ELSE NoRecord,
                  !.child = id,
                  !.screen = @ \cup {id}]

-----------------------------------------------------------------------------
(* What happens to the board.  A store that refuses writes takes no posts, *)
(* answers or abandons.                                                    *)

Reevaluated(w, rs, h) ==
    /\ watch' = Evaluate(w, rs, h)
    /\ forgotten' = FALSE

NewRound(awaited) ==
    [status |-> "open", awaited |-> awaited, dated |-> awaited]

(* A post that mints a round; the first may be Suppressed.                 *)
Post(awaited, suppressed) ==
    /\ ~broken
    /\ Len(rounds) < MaxRound
    /\ suppressed => rounds = <<>>
    /\ rounds' = Append(rounds, NewRound(awaited))
    /\ Reevaluated([watch EXCEPT !.suppressed = @ \/ suppressed], rounds', hub)
    /\ UNCHANGED <<hub, elsewhere, level, broken, banners, edits, due, recordLost, spells, restarts>>

(* A post that amends the latest round, which is open and waited on.       *)
Amend ==
    LET n == Len(rounds)
    IN  /\ ~broken
        /\ n \in Waiting(rounds)
        /\ edits[n] < MaxEdits
        /\ edits' = [edits EXCEPT ![n] = @ + 1]
        /\ due' = (due \/ (~Around(hub) /\ \E i \in DOMAIN banners : banners[i] = n))
        /\ Reevaluated(Amended(watch, n, hub), rounds, hub)
        /\ UNCHANGED <<rounds, hub, elsewhere, level, broken, banners, recordLost, spells, restarts>>

(* An answer, to any round not sent yet: waited on, lapsed or abandoned. *)
Submit(n) ==
    /\ ~broken
    /\ rounds[n].status # "sent"
    /\ rounds' = [rounds EXCEPT ![n].status = "sent"]
    /\ Reevaluated(Answered(watch, n), rounds', hub)
    /\ UNCHANGED <<hub, elsewhere, level, broken, banners, edits, due, recordLost, spells, restarts>>

Abandon ==
    /\ ~broken
    /\ \E n \in DOMAIN rounds : rounds[n].status = "open"
    /\ rounds' = [n \in DOMAIN rounds |->
                    IF rounds[n].status = "open"
                    THEN [rounds[n] EXCEPT !.status = "abandoned", !.awaited = FALSE]
                    ELSE rounds[n]]
    /\ watch' = Abandoned(watch)
    /\ UNCHANGED <<hub, elsewhere, level, broken, strandedHistory>>

(* A deadline passes: the round is waited on no more, nothing is told, and *)
(* a banner about it has run out its own time.                             *)
Lapse(n) ==
    LET over == {i \in watch.screen : banners[i] = n}
    IN  /\ n \in Waiting(rounds)
        /\ rounds' = [rounds EXCEPT ![n].awaited = FALSE]
        /\ watch' = [watch EXCEPT !.screen = @ \ over,
                                  !.child = IF @ \in over THEN 0 ELSE @]
        /\ UNCHANGED <<hub, elsewhere, level, broken, strandedHistory>>

(* The reviewer's activity moves a deadline. *)
DeadlineMoves ==
    /\ ~broken
    /\ Waiting(rounds) # {}
    /\ Reevaluated(watch, rounds, hub)
    /\ UNCHANGED <<rounds, hub, elsewhere, level, broken, banners, edits, due, recordLost, spells, restarts>>

-----------------------------------------------------------------------------
(* The reviewer's tabs.                                                    *)

Seen(t, state) ==
    /\ rounds # <<>>
    /\ hub' = [hub EXCEPT ![t] = state]
    /\ due' = (due \/ Focused(hub'))
    /\ Reevaluated(watch, rounds, hub')
    /\ UNCHANGED <<rounds, elsewhere, level, broken, banners, edits, recordLost, spells, restarts>>

Subscribe(t) == hub[t] = "none" /\ Seen(t, "unknown")

Unsubscribe(t) == hub[t] # "none" /\ Seen(t, "none")

Focus(t) == hub[t] # "none" /\ Seen(t, "focused")

(* A tab reports it is not looked at: a window runs from its last focus,   *)
(* which a tab that reconnects tells the daemon of.                        *)
LookAway(t) ==
    \/ hub[t] \in {"focused", "window"} /\ Seen(t, "window")
    \/ hub[t] = "unknown" /\ \E state \in {"window", "away"} : Seen(t, state)
    \/ hub[t] = "away" /\ Seen(t, "away")

(* No event fires when a window expires. *)
WindowExpires(t) ==
    /\ hub[t] = "window"
    /\ hub' = [hub EXCEPT ![t] = "away"]
    /\ UNCHANGED <<rounds, watch, elsewhere, level, broken, strandedHistory>>

(* Attendance of another board is no event of this one. *)
Elsewhere(state) ==
    /\ elsewhere' = state
    /\ UNCHANGED <<rounds, watch, hub, level, broken, strandedHistory>>

SetLevel(l) ==
    /\ ~broken
    /\ level' = l
    /\ UNCHANGED <<rounds, watch, hub, elsewhere, broken, strandedHistory>>

-----------------------------------------------------------------------------
(* announce: the countdown ends, and everything is decided again.          *)
Fire ==
    LET w == Cancel(watch)
        n == NextToAnnounce(w, rounds)
        owed == w.suppressed /\ n = 1
    IN  /\ watch.pending # "none"
        /\ Len(banners) < MaxBanners
        /\ IF level = "off" \/ ~MayAnnounce(w, rounds)
           THEN /\ watch' = w
                /\ forgotten' = (level = "off")
                /\ UNCHANGED <<banners, due, recordLost>>
           ELSE IF ~owed /\ Muted # "no"
           THEN /\ watch' = IF Muted = "focused" /\ level # "no-board" THEN w
                            ELSE [w EXCEPT !.pending = "window"]
                /\ UNCHANGED <<banners, due, forgotten, recordLost>>
           ELSE /\ watch' = Raised(w, n)
                /\ banners' = Append(banners, n)
                /\ due' = FALSE
                /\ recordLost' = (recordLost \/ Refused(w))
                /\ UNCHANGED forgotten
        /\ UNCHANGED <<rounds, hub, elsewhere, level, broken, edits, spells, restarts>>

(* A banner's process exits by itself: clicked, dismissed or timed out.    *)
ChildExits(i) ==
    /\ i \in watch.screen
    /\ watch' = [watch EXCEPT !.screen = @ \ {i}, !.child = IF @ = i THEN 0 ELSE @]
    /\ UNCHANGED <<rounds, hub, elsewhere, level, broken, strandedHistory>>

-----------------------------------------------------------------------------
(* The daemon stops, killing the banner it holds and taking its process    *)
(* off the record, or is killed and leaves both; the next one starts with  *)
(* no countdown, no child and no tab.                                      *)
Stopped(w) ==
    IF w.child = 0 THEN w
    ELSE [Terminate(w, 0) EXCEPT
            !.record = IF @ = NoRecord \/ broken THEN @ ELSE [@ EXCEPT !.pid = 0]]

Restart(killed) ==
    /\ restarts < MaxRestarts
    /\ restarts' = restarts + 1
    /\ watch' = [(IF killed THEN watch ELSE Stopped(watch)) EXCEPT
                    !.pending = "none", !.child = 0, !.memory = NoRecord]
    /\ hub' = [t \in Tabs |-> "none"]
    /\ forgotten' = TRUE
    /\ recordLost' = (recordLost \/ watch.memory # NoRecord)
    /\ UNCHANGED <<rounds, elsewhere, level, broken, banners, edits, due, spells>>

Break ==
    /\ ~broken
    /\ spells < MaxBreaks
    /\ broken' = TRUE
    /\ spells' = spells + 1
    /\ UNCHANGED <<rounds, watch, hub, elsewhere, level, banners, edits, due, forgotten, recordLost, restarts>>

Heal ==
    /\ broken
    /\ broken' = FALSE
    /\ UNCHANGED <<rounds, watch, hub, elsewhere, level, strandedHistory>>

-----------------------------------------------------------------------------
StrandedNext ==
    \/ \E awaited, suppressed \in BOOLEAN : Post(awaited, suppressed)
    \/ Amend
    \/ \E n \in DOMAIN rounds : Submit(n) \/ Lapse(n)
    \/ Abandon
    \/ DeadlineMoves
    \/ \E t \in Tabs : \/ Subscribe(t) \/ Unsubscribe(t)
                       \/ Focus(t) \/ LookAway(t) \/ WindowExpires(t)
    \/ \E state \in {"focused", "window", "away"} : Elsewhere(state)
    \/ \E l \in Levels : SetLevel(l)
    \/ Fire
    \/ \E i \in 1 .. MaxBanners : ChildExits(i)
    \/ \E killed \in BOOLEAN : Restart(killed)
    \/ Break
    \/ Heal

StrandedSpec == StrandedInit /\ [][StrandedNext]_strandedVars

-----------------------------------------------------------------------------
(* A round is announced at most once for each version of its content, over *)
(* returns, restarts, level changes and rounds that lapse or are answered  *)
(* out of order, unless the record of a banner was lost (ADR 74, ADR 97).  *)
Announced(n) == Cardinality({i \in DOMAIN banners : banners[i] = n})

OncePerVersion ==
    ~recordLost => \A n \in DOMAIN rounds : Announced(n) <= 1 + edits[n]

(* After a banner the board says nothing more until the reviewer has       *)
(* genuinely looked at it, or an announced round was amended unseen: not   *)
(* for a look-away window, a reconnecting tab, an answer or a restart.     *)
OnePerAbsence ==
    [][banners' # banners /\ ~recordLost => due]_strandedVars

(* At most one banner of the board is on screen, and a restart over a      *)
(* killed daemon's banner does not raise another beside it.                *)
OneOnScreen == ~recordLost => Cardinality(watch.screen) <= 1

(* The banner on screen is about an open round and is not shown to a       *)
(* reviewer who is looking at the board, whichever daemon raised it.       *)
BannerIsWanted ==
    spells = 0 => \A i \in watch.screen :
        /\ rounds[banners[i]].status = "open"
        /\ ~Focused(hub)

(* A round that may be announced while no tab is focused has a countdown   *)
(* running: no window, reconnect, refused write or level change loses it.  *)
(* The next event on the board restores one that went with the daemon or   *)
(* with level "off".                                                       *)
NotForgotten ==
    /\ MayAnnounce(watch, rounds) /\ ~Focused(hub)
    /\ ~forgotten /\ ~recordLost
    => watch.pending # "none"

(***************************************************************************)
(* What the source says, and a run refutes.                                *)
(***************************************************************************)

(* A store that refuses writes `costs this rule its memory of one absence  *)
(* across a restart rather than a banner per round`: with no restart, a    *)
(* round is announced once whether or not the store takes writes.          *)
OnceOnBrokenStore ==
    restarts = 0 => \A n \in DOMAIN rounds : Announced(n) <= 1 + edits[n]

=============================================================================
