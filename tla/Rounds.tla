------------------------------- MODULE Rounds -------------------------------
(***************************************************************************)
(* A round's wait on one board: how a post lands (src/server.mjs           *)
(* handlePostBoard), how its deadline is minted, moved by the reviewer's   *)
(* activity and lapses (src/board.mjs mintAwait, src/badge.mjs), how the   *)
(* daemon ends a held-open GET /wait (handleWait), and how the MCP shim    *)
(* follows the deadline from its side (bin/mcp.mjs blockingWait).          *)
(*                                                                         *)
(* The clock is a bounded counter.  The daemon polls a held wait every     *)
(* 120 ms and the shim's timer fires on time, so the clock does not pass   *)
(* an instant at which an attached wait would end or a shim's own deadline *)
(* is due.  What the answers hold is Delivery's; here a round is sent or   *)
(* not.                                                                    *)
(***************************************************************************)
EXTENDS Naturals, Sequences

CONSTANTS
    AskCalls,      \* the ask calls of the thread's agents
    Question,   \* request ids whose blocks carry a question
    Page,       \* request ids of a page board posted with wait: true
    Note,       \* request ids of content nobody waits on
    Plain,      \* request ids of clients other than the shim, which declare
                \* no movingDeadline and keep no timer
    MaxRound,   \* bound on the rounds of the board
    LastPost,   \* no post begins after this instant
    Horizon,    \* bound on the clock
    Timeout,    \* waitTimeoutMs: a wait's length
    MinMove,    \* deadlineMoveMinMs: the least a move must gain
    Ceiling,    \* waitCeilingMs: the longest the daemon holds a moving wait
    Grace       \* WAIT_GRACE_MS: how much later the shim gives up

ASSUME RoundsAssumption ==
    /\ {MaxRound, LastPost, Horizon, Timeout, MinMove, Ceiling, Grace} \subseteq Nat
    /\ Timeout > 0 /\ MinMove > 0 /\ Grace > 0
    /\ Ceiling >= Timeout

Request == Question \cup Page \cup Note

VARIABLES
    now,        \* the wall clock
    rounds,     \* on disk: the board's rounds, in order
    last,       \* on disk: lastRequestId, the set of it or of nothing
    calling,      \* the ask calls and the daemon's side of their waits
    told,       \* history: rounds some call was told timed out
    alone       \* history: rounds a shim gave up on by itself, never cut off

roundsVars == <<now, rounds, last, calling, told, alone>>

Time == 0 .. Horizon + Timeout

(* A deadline of 0 is the null one: no wait was minted with the round. *)
RoundRecord == [status : {"open", "sent", "abandoned"},
                asks : BOOLEAN,
                awaited : BOOLEAN,
                deadline : Time,
                moving : BOOLEAN]

(* One ask call.  `follows` is the deadline the shim follows, 0 for a      *)
(* caller with no timer of its own; `since` is when its wait began;        *)
(* `entered` is when the daemon last took up its GET, whose ceiling counts *)
(* from there; `cut` remembers that the daemon was ever out of its reach.  *)
CallRecord == [at : {"idle", "detached", "attached"},
               round : 0 .. MaxRound,
               follows : Time,
               since : Time,
               entered : Time,
               cut : BOOLEAN]

NoAsk == [at |-> "idle", round |-> 0, follows |-> 0, since |-> 0,
         entered |-> 0, cut |-> FALSE]

RoundsTypeOK ==
    /\ now \in 0 .. Horizon
    /\ rounds \in Seq(RoundRecord) /\ Len(rounds) <= MaxRound
    /\ last \subseteq Request
    /\ calling \in [AskCalls -> CallRecord]
    /\ told \subseteq 1 .. MaxRound
    /\ alone \subseteq 1 .. MaxRound

RoundsInit ==
    /\ now = 0
    /\ rounds = <<>>
    /\ last = {}
    /\ calling = [c \in AskCalls |-> NoAsk]
    /\ told = {}
    /\ alone = {}

-----------------------------------------------------------------------------
(* Facts of a round, read at time t.                                       *)

Lapsed(r, t) == r.deadline # 0 /\ r.deadline <= t

AwaitedOpen(r) == r.status = "open" /\ r.awaited

Live(r, t) == AwaitedOpen(r) /\ r.deadline > t

DeadlineMoves(r, t) == Live(r, t) /\ r.moving

(* Every read of a board sweeps its lapsed waits. *)
CloseLapsed(rs, t) ==
    [n \in DOMAIN rs |->
        IF AwaitedOpen(rs[n]) /\ Lapsed(rs[n], t)
        THEN [rs[n] EXCEPT !.awaited = FALSE] ELSE rs[n]]

Board == CloseLapsed(rounds, now)

(* Mutant: a round that declared movingDeadline moves, lapsed or not. *)
RestartLapsed(r, t) ==
    IF r.status = "open" /\ r.moving /\ t + Timeout - r.deadline >= MinMove
    THEN [r EXCEPT !.deadline = t + Timeout, !.awaited = TRUE] ELSE r

RestartMoving(r, t) ==
    IF DeadlineMoves(r, t) /\ t + Timeout - r.deadline >= MinMove
    THEN [r EXCEPT !.deadline = t + Timeout] ELSE r

Mint(q) ==
    LET awaited == q \in Question \cup Page
    IN  [status |-> "open",
         asks |-> q \in Question,
         awaited |-> awaited,
         deadline |-> IF awaited THEN now + Timeout ELSE 0,
         moving |-> awaited /\ q \notin Plain]

-----------------------------------------------------------------------------
(* handlePostBoard.  `drifted` says that a file the round references has   *)
(* other bytes than when it was posted; it is looked at on a retry only.   *)

Retries(q) == rounds # <<>> /\ q \in last

(* Mutant: only `status` is looked at, which a lapse does not move. *)
ResumableOpen(r) == r.status = "open"

Resumable(r) == r.status = "open" /\ ~Lapsed(r, now)

Dedupes(q, drifted) ==
    /\ Retries(q)
    /\ Resumable(Board[Len(rounds)])
    /\ ~drifted

Amends(q, drifted) ==
    /\ rounds # <<>>
    /\ ~Dedupes(q, drifted)
    /\ Resumable(Board[Len(rounds)])
    /\ Board[Len(rounds)].asks
    /\ ~(Retries(q) /\ drifted)

(* A repeat that moves no deadline writes nothing; any other post writes   *)
(* the board it read.                                                      *)
Apply(q, drifted) ==
    IF Dedupes(q, drifted) \/ Amends(q, drifted)
    THEN LET n == Len(rounds)
             moved == [Board EXCEPT ![n] = RestartMoving(@, now)]
         IN  /\ rounds' = IF Dedupes(q, drifted) /\ moved = Board THEN rounds ELSE moved
             /\ last' = {q}
    ELSE /\ Len(rounds) < MaxRound
         /\ rounds' = Append(Board, Mint(q))
         /\ last' = {q}

(* The post's response reached the poster, which waits when both sides     *)
(* call the round awaited.  The shim follows the stored deadline and says  *)
(* so in the post (movingDeadline); another client does neither.           *)
Post(c, q, drifted) ==
    /\ calling[c].at = "idle"
    /\ now <= LastPost
    /\ Apply(q, drifted)
    /\ LET r == rounds'[Len(rounds')]
       IN  calling' = [calling EXCEPT ![c] =
             IF q \in Question \cup Page /\ r.awaited
             THEN [NoAsk EXCEPT !.at = "detached", !.round = Len(rounds'),
                                !.follows = IF q \in Plain THEN 0 ELSE r.deadline,
                                !.since = now]
             ELSE NoAsk]
    /\ UNCHANGED <<now, told, alone>>

(* The response was lost: the round is posted and the caller may retry. *)
PostLost(q, drifted) ==
    /\ now <= LastPost
    /\ Apply(q, drifted)
    /\ UNCHANGED <<now, calling, told, alone>>

-----------------------------------------------------------------------------
(* The daemon's side of a wait.                                            *)

Attach(c) ==
    /\ calling[c].at = "detached"
    /\ calling' = [calling EXCEPT ![c].at = "attached", ![c].entered = now]
    /\ UNCHANGED <<now, rounds, last, told, alone>>

RoundOf(c) == rounds[calling[c].round]

HeldUntil(c) == calling[c].entered + (IF RoundOf(c).moving THEN Ceiling ELSE Timeout)

TimesOut(c) == now >= HeldUntil(c) \/ (RoundOf(c).moving /\ Lapsed(RoundOf(c), now))

(* The socket died under a call: the shim reattaches, another client is    *)
(* gone.                                                                   *)
Dropped(c) ==
    IF calling[c].follows = 0 THEN NoAsk
    ELSE [calling[c] EXCEPT !.at = "detached", !.cut = TRUE, !.entered = 0]

PollEnds(c) ==
    /\ calling[c].at = "attached"
    /\ RoundOf(c).status # "open" \/ TimesOut(c)

(* Mutant: the ceiling ends the wait and leaves the round as it was. *)
EndWaitOnly(n) == Board

(* What the daemon writes when a wait times out: a moving round ended by   *)
(* the ceiling lapses with it.                                             *)
EndWait(n) ==
    LET ended == [Board EXCEPT ![n] =
                    IF @.moving /\ AwaitedOpen(@) /\ ~Lapsed(@, now)
                    THEN [@ EXCEPT !.deadline = now] ELSE @]
    IN  CloseLapsed(ended, now)

(* The poll that ends the wait, and its packet in the shim's hands or lost *)
(* on the way, in which case the shim reattaches.                          *)
Poll(c, lost) ==
    /\ PollEnds(c)
    /\ LET n == calling[c].round
       IN  /\ IF rounds[n].status = "open"
              THEN rounds' = EndWait(n) /\ told' = told \cup {n}
              ELSE UNCHANGED <<rounds, told>>
           /\ calling' = [calling EXCEPT ![c] = IF lost THEN Dropped(c) ELSE NoAsk]
    /\ UNCHANGED <<now, last, alone>>

(* The socket dies: the poll stops, and nothing is written. *)
Cut(c) ==
    /\ calling[c].at = "attached"
    /\ calling' = [calling EXCEPT ![c] = Dropped(c)]
    /\ UNCHANGED <<now, rounds, last, told, alone>>

(* The daemon restarts: every wait is dropped. *)
DaemonRestarts ==
    /\ calling' = [c \in AskCalls |-> IF calling[c].at = "attached" THEN Dropped(c) ELSE calling[c]]
    /\ UNCHANGED <<now, rounds, last, told, alone>>

-----------------------------------------------------------------------------
(* The shim's side of a wait.                                              *)

(* Mutant: the daemon's ceiling, copied bare. *)
AskCeilingBare == Ceiling

AskCeiling == Ceiling + Grace

Lesser(a, b) == IF a <= b THEN a ELSE b

(* Mutant: the moved deadline is followed past any ceiling. *)
GivesUpNever(c, follows) == follows + Grace

GivesUpAt(c, follows) == Lesser(follows + Grace, calling[c].since + AskCeiling)

Due(c) ==
    /\ calling[c].at # "idle"
    /\ calling[c].follows # 0
    /\ now >= GivesUpAt(c, calling[c].follows)

(* Its deadline has come with the wait still open: it reads the stored one *)
(* and follows it when that buys time, and gives up when it does not or    *)
(* the daemon does not answer.  The daemon's own packet may land meanwhile *)
(* and is then taken instead, which is Poll.                               *)
Extend(c, answered) ==
    /\ Due(c)
    /\ LET stored == RoundOf(c).deadline
       IN  IF answered /\ stored # 0 /\ GivesUpAt(c, stored) > now
           THEN /\ calling' = [calling EXCEPT ![c].follows = stored]
                /\ UNCHANGED alone
           ELSE /\ calling' = [calling EXCEPT ![c] = NoAsk]
                /\ alone' = IF calling[c].cut \/ ~answered THEN alone
                            ELSE alone \cup {calling[c].round}
    /\ UNCHANGED <<now, rounds, last, told>>

(* The user pressed escape: the call is gone and the daemon's poll with it. *)
Cancel(c) ==
    /\ calling[c].at # "idle"
    /\ calling' = [calling EXCEPT ![c] = NoAsk]
    /\ UNCHANGED <<now, rounds, last, told, alone>>

-----------------------------------------------------------------------------
(* The reviewer.                                                           *)

(* Mutant: the round is left with a status no reader knows. *)
SubmitUnknown(n) ==
    /\ rounds[n].status # "sent"
    /\ rounds' = [Board EXCEPT ![n].status = "submitted"]
    /\ UNCHANGED <<now, last, calling, told, alone>>

SubmitRound(n) ==
    /\ rounds[n].status # "sent"
    /\ rounds' = [Board EXCEPT ![n].status = "sent"]
    /\ UNCHANGED <<now, last, calling, told, alone>>

AbandonRounds ==
    /\ \E n \in DOMAIN rounds : rounds[n].status = "open"
    /\ rounds' = [n \in DOMAIN rounds |->
                    IF rounds[n].status = "open"
                    THEN [rounds[n] EXCEPT !.status = "abandoned", !.awaited = FALSE]
                    ELSE rounds[n]]
    /\ UNCHANGED <<now, last, calling, told, alone>>

(* An activity report moves the deadline of a round that is live and       *)
(* follows it.  The daemon's limit on how often a page may report answers  *)
(* 429 and changes nothing, so it only takes steps away.                   *)
Activity(n) ==
    LET moved == RestartMoving(Board[n], now)
    IN  /\ moved # Board[n]
        /\ rounds' = [Board EXCEPT ![n] = moved]
        /\ UNCHANGED <<now, last, calling, told, alone>>

(* Time passes.  A call's first GET leaves with its post's response, so a  *)
(* call waits detached only once it was cut.                               *)
Tick ==
    /\ now < Horizon
    /\ \A c \in AskCalls :
         /\ ~PollEnds(c) /\ ~Due(c)
         /\ calling[c].at = "detached" => calling[c].cut
    /\ now' = now + 1
    /\ UNCHANGED <<rounds, last, calling, told, alone>>

-----------------------------------------------------------------------------
RoundsNext ==
    \/ \E c \in AskCalls :
         \/ \E q \in Request, drifted \in BOOLEAN : Post(c, q, drifted)
         \/ Attach(c)
         \/ \E lost \in BOOLEAN : Poll(c, lost)
         \/ Cut(c)
         \/ \E answered \in BOOLEAN : Extend(c, answered)
         \/ Cancel(c)
    \/ \E q \in Request, drifted \in BOOLEAN : PostLost(q, drifted)
    \/ \E n \in DOMAIN rounds : SubmitRound(n) \/ Activity(n)
    \/ AbandonRounds
    \/ DaemonRestarts
    \/ Tick

RoundsSpec == RoundsInit /\ [][RoundsNext]_roundsVars

(* The clock moves whenever it may, the shim's timer fires, a held wait is *)
(* polled and a GET reaches the daemon.                                    *)
RoundsFairness ==
    /\ SF_roundsVars(Tick)
    /\ \A c \in AskCalls :
         /\ SF_roundsVars(\E answered \in BOOLEAN : Extend(c, answered))
         /\ WF_roundsVars(\E lost \in BOOLEAN : Poll(c, lost))
         /\ WF_roundsVars(Attach(c))

-----------------------------------------------------------------------------
(* A round whose wait died, by its deadline, an answer, an abandon or the  *)
(* ceiling, never counts as awaited again and keeps the deadline it died   *)
(* with, whatever posts, retries and activity reports come after.  No run  *)
(* checks it, as KeepsWaits below says more.                               *)
WaitDiesOnce ==
    [][\A n \in DOMAIN rounds :
         ~Live(rounds[n], now) =>
            /\ ~Live(rounds'[n], now')
            /\ rounds'[n].deadline = rounds[n].deadline]_roundsVars

(* A round some call was told timed out is over: nothing on screen calls   *)
(* it awaited, and no activity revives it, though another call may still   *)
(* be held on it (handleWait's ceiling branch).                            *)
TimedOutIsOver == \A n \in told : ~Live(rounds[n], now)

(* Whoever posts a round to wait on is handed one whose wait is alive,     *)
(* whatever timed out, was sent, was retried or was drifted before: no     *)
(* question is appended to a round nothing will ever answer from           *)
(* (handlePostBoard's lapse gates).                                        *)
AskIsAwaited ==
    [][\A c \in AskCalls, q \in Question \cup Page, drifted \in BOOLEAN :
         Post(c, q, drifted) =>
            /\ calling'[c].at = "detached"
            /\ Live(rounds'[calling'[c].round], now)]_roundsVars

(* A shim that was never cut off from the daemon gets the daemon's packet: *)
(* its own timer never ends a wait on a round that follows (WAIT_GRACE_MS, *)
(* ASK_CEILING_MS).                                                        *)
ShimOutlastsDaemon == \A n \in alone : ~rounds[n].moving

(* Every ask returns, however often its socket dies and however long the   *)
(* reviewer keeps moving the deadline.                                     *)
EveryAskReturns ==
    \A c \in AskCalls : calling[c].at # "idle" ~> calling[c].at = "idle"

(***************************************************************************)
(* The wait as AwaitedRounds promises it.                                  *)
(***************************************************************************)
LiveRounds == {n \in DOMAIN rounds : Live(rounds[n], now)}

DeadRounds == DOMAIN rounds \ LiveRounds

Deadlines == [n \in 1 .. MaxRound |-> IF n \in DOMAIN rounds THEN rounds[n].deadline ELSE 0]

WaitsOn == [c \in AskCalls |-> calling[c].round]

Waiting == INSTANCE AwaitedRounds WITH
    Round <- 1 .. MaxRound, Call <- AskCalls, NoRound <- 0,
    awaited <- LiveRounds, past <- DeadRounds, deadline <- Deadlines,
    on <- WaitsOn, told <- told

(* Whatever sweeps, polls, retries and lost answers do on the way, a wait  *)
(* begins with a post, dies once, takes its deadline with it, and is told  *)
(* timed out to an ask only as it dies (handlePostBoard, handleWait,       *)
(* closeLapsedAwaitedRounds).                                              *)
KeepsWaits == Waiting!Spec

=============================================================================
