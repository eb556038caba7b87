-------------------------------- MODULE Shim --------------------------------
(***************************************************************************)
(* One MCP shim process (bin/mcp.mjs) and the boards it mints: which board *)
(* an ask posts to.  The agent may run several asks at once, a call may    *)
(* give up on a post that is still running, any response may be lost, the  *)
(* daemon may prune the session's board under it, and two declarations     *)
(* start a conversation over: `fresh` on an ask, and a mission join or     *)
(* leave.                                                                  *)
(*                                                                         *)
(* The process is one event loop: what a settled promise wakes runs before *)
(* the next message or response is taken in (Quiet).  An ask is its        *)
(* content; a retry is another ask of the same content.  How long a round  *)
(* is waited on is Rounds'.                                                *)
(***************************************************************************)
EXTENDS Naturals, FiniteSets

CONSTANTS
    Calls,          \* slots for the tool calls under way at once
    Content,        \* what an ask may post
    None,           \* no content
    MaxBoards,      \* bound on the boards minted
    MaxBoundaries,  \* bound on the conversations after the first
    MaxGone         \* bound on the boards pruned

ASSUME ShimAssumption ==
    /\ None \notin Content
    /\ IsFiniteSet(Calls)
    /\ {MaxBoards, MaxBoundaries, MaxGone} \subseteq Nat

Board == 1 .. MaxBoards

Conversation == 0 .. MaxBoundaries

VARIABLES
    session,    \* the shim's memory of its conversation
    create,     \* the board-minting post in flight (session.creatingThread)
    calls,      \* the asks under way
    boards,     \* the daemon's boards, 1 .. minted
    minted,
    (***********************************************************************)
    (* History.                                                            *)
    (***********************************************************************)
    conv,       \* the conversation now
    lost,       \* boards whose minting response was lost
    dropped,    \* boards forgotten on a 404 for another board
    stray,      \* boards whose mint settled in a later conversation
    underfoot,  \* boards parked by a fresh ask older than they are
    parked,     \* boards a boundary parked
    closed,     \* boards an abandon was sent for
    doubled     \* boards that hold a retried post twice

shim == <<session, create, calls>>
daemon == <<boards, minted>>
shimHistory == <<conv, lost, dropped, stray, underfoot, parked, closed, doubled>>
shimVars == <<shim, daemon, shimHistory>>

-----------------------------------------------------------------------------
Session == [board : 0 .. MaxBoards,
            createContent : Content \cup {None},
            pending : 0 .. MaxBoards]

(* The post is on its way ("sent") or the daemon has minted its board.     *)
Create == [phase : {"none", "sent", "made"}, content : Content \cup {None},
           board : 0 .. MaxBoards, conv : Conversation]

(* Minting: the post of x on its way, in conversation k. *)
NoCreate == [phase |-> "none", content |-> None, board |-> 0, conv |-> 0]

Minting(x, k) == [NoCreate EXCEPT !.phase = "sent", !.content = x, !.conv = k]

(* "joining" waits out another call's mint, "woken" has seen it settle,    *)
(* and `board` is then what it minted.  A request key is the content and   *)
(* `scope`: the board, or 0 for the post that mints one and its retry.     *)
Call == [pc : {"idle", "joining", "woken", "minting", "pushing", "applied", "missing", "posted"},
         content : Content \cup {None},
         fresh : BOOLEAN,
         joined : BOOLEAN,
         board : 0 .. MaxBoards,
         scope : 0 .. MaxBoards,
         since : Conversation,
         before : 0 .. MaxBoards]

Idle == [pc |-> "idle", content |-> None, fresh |-> FALSE, joined |-> FALSE,
         board |-> 0, scope |-> 0, since |-> 0, before |-> 0]

(* A board: what its latest round holds while it is open, the content and  *)
(* the scope of the last post applied, and whether it was pruned.          *)
BoardRecord == [conv : Conversation, holds : SUBSET Content,
                scope : 0 .. MaxBoards, lately : Content, gone : BOOLEAN]

ShimTypeOK ==
    /\ session \in Session
    /\ create \in Create
    /\ calls \in [Calls -> Call]
    /\ minted \in 0 .. MaxBoards
    /\ boards \in [1 .. minted -> BoardRecord]
    /\ conv \in Conversation
    /\ {lost, dropped, stray, underfoot, parked, closed, doubled} \subseteq SUBSET Board

ShimInit ==
    /\ session = [board |-> 0, createContent |-> None, pending |-> 0]
    /\ create = NoCreate
    /\ calls = [c \in Calls |-> Idle]
    /\ boards = <<>>
    /\ minted = 0
    /\ conv = 0
    /\ lost = {} /\ dropped = {} /\ stray = {} /\ underfoot = {}
    /\ parked = {} /\ closed = {} /\ doubled = {}

(* No continuation is left to run. *)
Quiet == \A c \in Calls : calls[c].pc \notin {"woken", "posted"}

-----------------------------------------------------------------------------
(* The mutations a property of this module rules out stand beside what     *)
(* they change.                                                            *)

(* Mutation: the parked board is overwritten by the next one.              *)
BoundedOver(s) ==
    [board |-> 0, createContent |-> None,
     pending |-> IF s.board # 0 THEN s.board ELSE s.pending]

(* Mutation: the board is parked and kept.                                 *)
BoundedKeeps(s) ==
    [board |-> s.board, createContent |-> None,
     pending |-> IF s.board # 0 /\ s.pending = 0 THEN s.board ELSE s.pending]

(* Mutation: the first post's key is reset to what no key is.              *)
BoundedZero(s) ==
    [board |-> 0, createContent |-> 0,
     pending |-> IF s.board # 0 /\ s.pending = 0 THEN s.board ELSE s.pending]

(* declareBoundary: forget the board, and park it for the abandon sent     *)
(* once the next post lands; the first parked stays parked.                *)
Bounded(s) ==
    [board |-> 0, createContent |-> None,
     pending |-> IF s.board # 0 /\ s.pending = 0 THEN s.board ELSE s.pending]

Parks(s) == Bounded(s).pending # s.pending

(* Mutation: `fresh` declares whatever the call has waited out.            *)
DeclaresAlways(r) == r.fresh

(* A fresh ask declares its boundary once it has not joined a mint.        *)
Declares(r) == r.fresh /\ ~r.joined

(* Mutation: every push is keyed under its board.                          *)
ScopeBoard(s, x) == s.board

(* What a push is keyed under: the retry of the post that minted the board *)
(* goes under the content alone, as that post did.                         *)
Scope(s, x) == IF s.createContent = x THEN 0 ELSE s.board

(* postThisRound from the head of its loop to its next await, for call c   *)
(* with record r: join the mint under way, or declare the boundary and     *)
(* then mint or push.                                                      *)
Enter(c, r) ==
    IF create.phase # "none"
    THEN /\ calls' = [calls EXCEPT ![c] = [r EXCEPT !.pc = "joining"]]
         /\ UNCHANGED <<session, create, conv, underfoot, parked>>
    ELSE LET declares == Declares(r)
             s == IF declares THEN Bounded(session) ELSE session
             now == IF declares THEN conv + 1 ELSE conv
             bound == [Idle EXCEPT !.content = r.content,
                                   !.since = IF declares THEN now ELSE r.since]
             held == IF declares /\ Parks(session) THEN {session.board} ELSE {}
         IN  /\ conv' = now
             /\ parked' = parked \cup held
             /\ underfoot' = underfoot \cup {b \in held : b > r.before}
             /\ IF s.board = 0
                THEN /\ session' = [s EXCEPT !.createContent = r.content]
                     /\ create' = Minting(r.content, now)
                     /\ calls' = [calls EXCEPT ![c] = [bound EXCEPT !.pc = "minting"]]
                ELSE /\ session' = s
                     /\ UNCHANGED create
                     /\ calls' = [calls EXCEPT ![c] =
                          [bound EXCEPT !.pc = "pushing", !.board = s.board,
                                        !.scope = Scope(s, r.content)]]

(* Bound: a fresh ask may declare after it has waited.                     *)
Spare == conv + Cardinality({c \in Calls : calls[c].pc \in {"joining", "woken"}
                                           /\ calls[c].fresh}) < MaxBoundaries

Ask(c, x, fresh) ==
    /\ Quiet
    /\ calls[c].pc = "idle"
    /\ fresh => Spare
    /\ Enter(c, [Idle EXCEPT !.content = x, !.fresh = fresh,
                             !.since = conv, !.before = minted])
    /\ UNCHANGED <<daemon, lost, dropped, stray, closed, doubled>>

(* A call that waited out a mint: done when the mint was this very post,   *)
(* round the loop otherwise.                                               *)
Joined(c) ==
    /\ calls[c].pc = "woken"
    /\ LET r == [calls[c] EXCEPT !.joined = @ \/ calls[c].board # 0]
       IN  IF calls[c].board # 0 /\ session.createContent = calls[c].content
           THEN /\ calls' = [calls EXCEPT ![c] = [r EXCEPT !.pc = "posted"]]
                /\ UNCHANGED <<session, create, conv, underfoot, parked>>
           ELSE Enter(c, [r EXCEPT !.board = 0])
    /\ UNCHANGED <<daemon, lost, dropped, stray, closed, doubled>>

(* A mission join or leave whose answer changed the binding. *)
MissionBoundary ==
    /\ Quiet
    /\ Spare
    /\ conv' = conv + 1
    /\ session' = Bounded(session)
    /\ parked' = IF Parks(session) THEN parked \cup {session.board} ELSE parked
    /\ UNCHANGED <<create, calls, daemon, lost, dropped, stray, underfoot, closed, doubled>>

-----------------------------------------------------------------------------
(* The minting post.                                                       *)

DaemonMints ==
    /\ create.phase = "sent"
    /\ minted < MaxBoards
    /\ minted' = minted + 1
    /\ boards' = [b \in 1 .. minted' |->
                    IF b \in DOMAIN boards THEN boards[b]
                    ELSE [conv |-> create.conv,
                          holds |-> {create.content}, scope |-> 0,
                          lately |-> create.content, gone |-> FALSE]]
    /\ create' = [create EXCEPT !.phase = "made", !.board = minted']
    /\ UNCHANGED <<session, calls, shimHistory>>

(* Mutation: the guard goes down with the call that put it up.             *)
GiveUpClearsGuard(c) ==
    /\ Quiet
    /\ calls[c].pc = "minting"
    /\ calls' = [calls EXCEPT ![c] = Idle]
    /\ create' = NoCreate
    /\ UNCHANGED <<session, daemon, shimHistory>>

(* POST_TIMEOUT passes: the call gives up, and the post goes on. *)
GiveUp(c) ==
    /\ Quiet
    /\ calls[c].pc = "minting"
    /\ calls' = [calls EXCEPT ![c] = Idle]
    /\ UNCHANGED <<session, create, daemon, shimHistory>>

(* The post settles: the session has the board, or the response (or the    *)
(* request) was lost and it has none.  The guard is down either way before *)
(* those who waited run.                                                   *)
Settle(ok) ==
    /\ Quiet
    /\ IF ok THEN create.phase = "made" ELSE create.phase # "none"
    /\ session' = IF ok THEN [session EXCEPT !.board = create.board] ELSE session
    /\ create' = NoCreate
    /\ calls' = [c \in Calls |->
         CASE calls[c].pc = "joining" ->
                [calls[c] EXCEPT !.pc = "woken", !.board = IF ok THEN create.board ELSE 0]
           [] calls[c].pc = "minting" ->
                IF ok THEN [calls[c] EXCEPT !.pc = "posted", !.board = create.board] ELSE Idle
           [] OTHER -> calls[c]]
    /\ lost' = IF ok THEN lost ELSE lost \cup ({create.board} \ {0})
    /\ stray' = IF ok /\ create.conv # conv THEN stray \cup {create.board} ELSE stray
    /\ UNCHANGED <<daemon, conv, dropped, underfoot, parked, closed, doubled>>

-----------------------------------------------------------------------------
(* A push into the session's board.                                        *)

(* The daemon takes the post: gone, already applied, or applied to the     *)
(* open round or to a new one.                                             *)
DaemonTakes(c) ==
    /\ calls[c].pc = "pushing"
    /\ LET b == calls[c].board
           x == calls[c].content
           again == /\ boards[b].scope = calls[c].scope
                    /\ boards[b].lately = x
                    /\ boards[b].holds # {}
       IN  IF boards[b].gone
           THEN /\ calls' = [calls EXCEPT ![c].pc = "missing"]
                /\ UNCHANGED <<boards, doubled>>
           ELSE /\ calls' = [calls EXCEPT ![c].pc = "applied"]
                /\ boards' = IF again THEN boards
                             ELSE [boards EXCEPT ![b].holds = @ \cup {x},
                                                 ![b].scope = calls[c].scope,
                                                 ![b].lately = x]
                /\ doubled' = IF ~again /\ x \in boards[b].holds /\ boards[b].lately = x
                              THEN doubled \cup {b} ELSE doubled
    /\ UNCHANGED <<session, create, minted, conv, lost, dropped, stray, underfoot,
                   parked, closed>>

CallAnswered(c) ==
    /\ Quiet
    /\ calls[c].pc = "applied"
    /\ calls' = [calls EXCEPT ![c].pc = "posted"]
    /\ UNCHANGED <<session, create, daemon, shimHistory>>

(* 404: forget the dead id and run the call again, on the mint branch or   *)
(* behind a mint under way.                                                *)
NotFound(c) ==
    /\ Quiet
    /\ calls[c].pc = "missing"
    /\ LET r == [Idle EXCEPT !.content = calls[c].content, !.since = calls[c].since]
       IN  IF create.phase # "none"
           THEN /\ session' = [session EXCEPT !.board = 0]
                /\ calls' = [calls EXCEPT ![c] = [r EXCEPT !.pc = "joining"]]
                /\ UNCHANGED create
           ELSE /\ session' = [session EXCEPT !.board = 0, !.createContent = r.content]
                /\ create' = Minting(r.content, conv)
                /\ calls' = [calls EXCEPT ![c] = [r EXCEPT !.pc = "minting"]]
    /\ dropped' = dropped \cup ({session.board} \ {0, calls[c].board})
    /\ UNCHANGED <<daemon, conv, lost, stray, underfoot, parked, closed, doubled>>

(* The response never came: the call fails, and the agent may retry. *)
PushLost(c) ==
    /\ Quiet
    /\ calls[c].pc \in {"pushing", "applied", "missing"}
    /\ calls' = [calls EXCEPT ![c] = Idle]
    /\ UNCHANGED <<session, create, daemon, shimHistory>>

-----------------------------------------------------------------------------
(* flushBoundary, once the post has landed: the parked board is taken      *)
(* before the abandon is sent, and nothing hangs on whether it arrives.    *)
(* The ask is over as far as the session goes: the rest is its wait.       *)
Flush(c) ==
    /\ calls[c].pc = "posted"
    /\ session' = [session EXCEPT !.pending = 0]
    /\ closed' = closed \cup ({session.pending} \ {0})
    /\ calls' = [calls EXCEPT ![c] = Idle]
    /\ UNCHANGED <<create, daemon, conv, lost, dropped, stray, underfoot, parked, doubled>>

(* The reviewer sends a board's open round, or its wait lapses. *)
Sent(b) ==
    /\ boards[b].holds # {}
    /\ boards' = [boards EXCEPT ![b].holds = {}]
    /\ UNCHANGED <<shim, minted, shimHistory>>

(* The board is pruned from the index's settings panel, its rounds with it. *)
Prune(b) ==
    /\ ~boards[b].gone
    /\ Cardinality({d \in DOMAIN boards : boards[d].gone}) < MaxGone
    /\ boards' = [boards EXCEPT ![b].gone = TRUE, ![b].holds = {}]
    /\ UNCHANGED <<shim, minted, shimHistory>>

-----------------------------------------------------------------------------
ShimNext ==
    \/ \E c \in Calls :
         \/ \E x \in Content, fresh \in BOOLEAN : Ask(c, x, fresh)
         \/ Joined(c)
         \/ GiveUp(c)
         \/ DaemonTakes(c)
         \/ CallAnswered(c)
         \/ NotFound(c)
         \/ PushLost(c)
         \/ Flush(c)
    \/ MissionBoundary
    \/ DaemonMints
    \/ \E ok \in BOOLEAN : Settle(ok)
    \/ \E b \in DOMAIN boards : Sent(b) \/ Prune(b)

ShimSpec == ShimInit /\ [][ShimNext]_shimVars

-----------------------------------------------------------------------------
(* One conversation keeps one board and one tab: of the boards minted in   *)
(* it, at most one is neither pruned, nor unknown to the shim because its  *)
(* response was lost, nor forgotten on a late 404.                         *)
OneBoard ==
    \A k \in Conversation :
        Cardinality({b \in DOMAIN boards :
            /\ boards[b].conv = k
            /\ ~boards[b].gone
            /\ b \notin lost \cup dropped}) <= 1

(* `fresh` walks away from what an earlier conversation left, never from a *)
(* board a concurrent ask minted after this one was made.                  *)
FreshSparesConcurrent == underfoot = {}

(* A board parked for closing is closed once a post lands: whatever other  *)
(* boundary comes in between, it is still parked until then.               *)
ParkedIsClosed == parked \subseteq closed \cup {session.pending}

(* An ask is not posted to a board of a conversation that was over when    *)
(* the ask was made, unless the board's mint was under way at the boundary. *)
NotIntoThePast ==
    \A c \in Calls : calls[c].board # 0 =>
        \/ boards[calls[c].board].conv >= calls[c].since
        \/ calls[c].board \in stray

(* A retry of the post a board took last is never applied a second time    *)
(* while its round is open, the post that minted the board included.       *)
RetryIsSafe == doubled \subseteq stray

(***************************************************************************)
(* What the source says, and the runs refute.                              *)
(***************************************************************************)

(* The 404 recovery forgets "the dead id": never a live board.             *)
ForgetsOnlyTheDead == \A b \in dropped : boards[b].gone

(* After a mission join or leave "the next ask starts a board of its own": *)
(* no ask made after a boundary goes to a board from before it.            *)
BoundaryStartsBoard ==
    \A c \in Calls : calls[c].board # 0 => boards[calls[c].board].conv >= calls[c].since

=============================================================================
