------------------------------- MODULE Page -------------------------------
(***************************************************************************)
(* A reviewer's tab (src/ui.mjs) and the daemon behind it: the board the   *)
(* tab's script holds, the sections its document shows, and what the       *)
(* reviewer put into them, while pushes, catch-ups and the answers to its  *)
(* own Sends arrive on connections of their own, in any order among them.  *)
(*                                                                         *)
(* A round has one block, whose content is a number an amend raises.  The  *)
(* stream is ordered and carries no replay.  The catch-ups of one tab are  *)
(* answered by the daemon in the order it sent them, and land in any.      *)
(***************************************************************************)
EXTENDS Naturals, Sequences, FiniteSets, SequencesExt, InOrder

CONSTANTS
    MaxRounds, MaxText,   \* bound the rounds posted and their amends
    MaxTroubles,          \* bounds the streams lost, waits run out and fetches failed
    MaxSends,             \* bounds the Sends the reviewer has in the air
    MaxReads,             \* bounds the catch-ups a nudge finds in the air
    Asks,                 \* the rounds that ask a question
    Pages,                \* the page rounds: one artifact, a Send of their own
    Comment,
    NoDraft

ASSUME PageNulls == NoDraft \notin 0 .. MaxText
ASSUME PageBounds ==
    {MaxRounds, MaxText, MaxTroubles, MaxSends, MaxReads} \subseteq Nat /\ MaxRounds # 0
ASSUME PageKinds == Asks \cap Pages = {} /\ Asks \cup Pages \subseteq 1 .. MaxRounds

VARIABLES
    held,     \* the daemon's board
    stored,     \* the comments it holds
    wire,       \* the pushes on their way to the tab
    up,         \* the tab is subscribed
    board,      \* the tab's copy of the board
    dom,        \* the sections of each round in the document
    applied,    \* the rounds whose sent record the tab has applied
    on,         \* the round each comment was written on, 0 for none yet
    queue,      \* pendingComments
    draft,      \* the content each round's unsent answer was made to
    frozen,     \* the page rounds whose compose surface is frozen
    sends,      \* the tab's Sends in the air
    reads,      \* its catch-ups in the air that it would still apply
    troubles    \* how many of those there were

heldVars == <<held, stored>>
pageVars == <<held, stored, wire, up, board, dom, applied, on, queue, draft,
              frozen, sends, reads, troubles>>

RoundNo == 1 .. MaxRounds
Text == 0 .. MaxText
RoundRec == [status : {"open", "abandoned", "sent"}, text : Text]
Board == UNION {[1 .. k -> RoundRec] : k \in RoundNo}
NoBoard == <<>>

(* A section as it was rendered: live, marked history, or the sent record. *)
Section == [as : {"live", "history", "record"}, text : Text]
Live(t) == [as |-> "live", text |-> t]
Record(t) == [as |-> "record", text |-> t]

Push == [type : {"new-round", "amend", "submitted", "awaitExpired"},
         n : RoundNo, snap : Board]
SendRecord == [n : RoundNo, comments : SUBSET Comment, by : {"bar", "page", "flush"},
         at : {"sent", "stored", "refused"}, snap : Board \cup {NoBoard}]

InBoard(b, n) == n \in DOMAIN b
Unsent(b, n) == InBoard(b, n) /\ b[n].status # "sent"
Shown(n) == dom[n] # <<>>
ShownLive(n) == Shown(n) /\ Head(dom[n]).as = "live"

(* openRoundNumber: the latest round nobody has sent, 0 for none.          *)
OpenRound(b) == Max({n \in DOMAIN b : Unsent(b, n)} \cup {0})

(* roundOwesAnswer *)
Owes(b, n) == Unsent(b, n) /\ n \in Asks

(* currentPageSendable, of the page the reviewer is on.                    *)
Sendable(n) == Unsent(board, n) /\ (n = OpenRound(board) \/ Owes(board, n))

(* commentsSentFrom: a page's own comments, and from the newest unsent     *)
(* page those of every page that owes no answer.                           *)
SentFrom(n) ==
    {c \in queue : on[c] = n \/ (n = OpenRound(board) /\ ~Owes(board, on[c]))}

-----------------------------------------------------------------------------
(* computeBoardPatch, of a board's one block per round.                    *)

Added(old, new) == DOMAIN new \ DOMAIN old
Changed(old, new) ==
    {n \in DOMAIN old \cap DOMAIN new : old[n].text # new[n].text}
NowSent(old, new) ==
    {n \in DOMAIN old \cap DOMAIN new : Unsent(old, n) /\ ~Unsent(new, n)}

(* roundsClosedUnsent *)
ClosedUnsent(old, new) ==
    {n \in DOMAIN old \cap DOMAIN new :
        old[n].status = "open" /\ new[n].status = "abandoned"}

-----------------------------------------------------------------------------
(* The tab's parts a change of its board moves, taken through the steps of *)
(* a handler as one record.                                                *)
ThisTab == [board |-> board, dom |-> dom, applied |-> applied, draft |-> draft]

ClearFields(t, ns) ==
    [t EXCEPT !.draft = [n \in RoundNo |-> IF n \in ns THEN NoDraft ELSE @[n]]]

(* Only the first section of a round is ever looked up.                    *)
First(d, n, s) == [d EXCEPT ![n] = IF @ = <<>> THEN @ ELSE <<s>> \o Tail(@)]

MarkHistory(t, ns) ==
    [t EXCEPT !.dom = [n \in RoundNo |->
        IF n \in ns /\ @[n] # <<>>
        THEN <<[Head(@[n]) EXCEPT !.as = "history"]>> \o Tail(@[n]) ELSE @[n]]]

(* Mutant: the diff read after the board was replaced.                     *)
DiffedLate(t, snap) == {}

(* The blocks whose fields a push clears.                                  *)
Cleared(t, snap) == Changed(t.board, snap)

(* applyRoundPush.  A new round is appended whatever is there already.     *)
RoundPush(t, mode, n, snap) ==
    LET s == IF snap[n].status = "sent" THEN Record(snap[n].text) ELSE Live(snap[n].text)
        amended == [Head(t.dom[n]) EXCEPT !.text = snap[n].text]
        placed == IF mode = "new-round" THEN [t.dom EXCEPT ![n] = Append(@, s)]
                  ELSE IF t.dom[n] = <<>> THEN t.dom
                  ELSE First(t.dom, n, amended)
        shown == [ClearFields(t, Cleared(t, snap)) EXCEPT !.board = snap, !.dom = placed]
    IN  MarkHistory(shown, NowSent(t.board, snap))

(* applySubmittedPush: a round's sent record is applied once.              *)
SubmittedPush(t, n, snap) ==
    IF n \in t.applied THEN t
    ELSE LET record == Record(snap[n].text)
         IN  [ClearFields(t, {n}) EXCEPT
                !.board = snap, !.applied = @ \cup {n},
                !.dom = IF t.dom[n] = <<>> THEN [@ EXCEPT ![n] = <<record>>]
                        ELSE First(@, n, record)]

(* applySentRounds *)
SentRounds(t, ns, snap) ==
    LET after[k \in 0 .. Cardinality(ns)] ==
            IF k = 0 THEN t ELSE SubmittedPush(after[k - 1], Ascending(ns)[k], snap)
    IN  after[Cardinality(ns)]

(* applyResync: the missed pushes replayed, each as the one that was       *)
(* missed.  A round closed unsent is adopted ahead of them.                *)
Replay(t, n, fresh) ==
    RoundPush(t, IF t.dom[n] = <<>> THEN "new-round" ELSE "amend", n, fresh)

Replayed(t, ns, fresh) ==
    LET after[k \in 0 .. Cardinality(ns)] ==
            IF k = 0 THEN t ELSE Replay(after[k - 1], Ascending(ns)[k], fresh)
    IN  after[Cardinality(ns)]

Resync(t, fresh) ==
    LET touched == Added(t.board, fresh) \cup Changed(t.board, fresh)
        sent == NowSent(t.board, fresh)
        closed == ClosedUnsent(t.board, fresh)
        adopted == IF closed # {} \/ (touched = {} /\ sent # {})
                   THEN [t EXCEPT !.board = fresh] ELSE t
    IN  SentRounds(Replayed(adopted, touched, fresh), sent, fresh)

(* Whether it repainted, and so ran refreshAwaitDisplay.                   *)
Repaints(old, fresh) ==
    Added(old, fresh) \cup Changed(old, fresh) \cup NowSent(old, fresh)
      \cup ClosedUnsent(old, fresh) # {}

(* refreshAwaitDisplay: the surface of a page round that closed unsent is  *)
(* frozen, what is queued on it posted first (flushPendingOnExpiry).       *)
Flush(n, q) ==
    IF {c \in q : on[c] = n} = {} THEN {}
    ELSE {[n |-> n, comments |-> {c \in q : on[c] = n}, by |-> "flush",
           at |-> "sent", snap |-> NoBoard]}

(* The tab becomes t, repainted, with the comments q queued.               *)
Become(t, q, standing) ==
    LET closed == {n \in Pages \ frozen :
                     /\ InBoard(t.board, n) /\ t.board[n].status = "abandoned"
                     /\ t.dom[n] # <<>> /\ Head(t.dom[n]).as = "live"}
    IN  /\ board' = t.board
        /\ dom' = t.dom
        /\ applied' = t.applied
        /\ draft' = t.draft
        /\ frozen' = frozen \cup closed
        /\ sends' = standing \cup UNION {Flush(n, q) : n \in closed}

-----------------------------------------------------------------------------
PageInit ==
    /\ held = <<[status |-> "open", text |-> 0]>>
    /\ stored = {}
    /\ wire = <<>>
    /\ up = TRUE
    /\ board = held
    /\ dom = [n \in RoundNo |-> IF n = 1 THEN <<Live(0)>> ELSE <<>>]
    /\ applied = {}
    /\ on = [c \in Comment |-> 0]
    /\ queue = {}
    /\ draft = [n \in RoundNo |-> NoDraft]
    /\ frozen = {}
    /\ sends = {}
    /\ reads = <<>>
    /\ troubles = 0

tabVars == <<board, dom, applied, on, queue, draft, frozen, sends, reads>>

Pushed(type, n, snap) == [type |-> type, n |-> n, snap |-> snap]

Trouble == troubles < MaxTroubles /\ troubles' = troubles + 1

Broadcast(ps) == wire' = IF up THEN wire \o ps ELSE wire

(* handlePostRound: a round minted, or the latest amended while it is open *)
(* and asks.  A lapsed or drifted one is followed by another round.        *)
PostRound ==
    LET n == Len(held) + 1
        after == Append(held, [status |-> "open", text |-> 0])
    IN  /\ n \in RoundNo
        /\ held' = after
        /\ Broadcast(<<Pushed("new-round", n, after)>>)
        /\ UNCHANGED <<stored, up, troubles, tabVars>>

AmendRound ==
    LET n == Len(held)
        after == [held EXCEPT ![n].text = @ + 1]
    IN  /\ held[n].status = "open" /\ n \in Asks
        /\ held[n].text < MaxText
        /\ held' = after
        /\ Broadcast(<<Pushed("amend", n, after)>>)
        /\ UNCHANGED <<stored, up, troubles, tabVars>>

(* handleAbandon: every open round closed unsent, a nudge for each.        *)
AbandonBoard ==
    LET closed == {n \in DOMAIN held : held[n].status = "open"}
        after == [n \in DOMAIN held |->
                    IF n \in closed THEN [held[n] EXCEPT !.status = "abandoned"]
                    ELSE held[n]]
    IN  /\ closed # {}
        /\ held' = after
        /\ Broadcast([k \in 1 .. Cardinality(closed) |->
                        Pushed("awaitExpired", Ascending(closed)[k], after)])
        /\ UNCHANGED <<stored, up, troubles, tabVars>>

(* handleWait's timeout: the same nudge, of a wait that ran out.           *)
WaitRunsOut(n) ==
    /\ Trouble
    /\ n \in DOMAIN held /\ held[n].status = "open"
    /\ Broadcast(<<Pushed("awaitExpired", n, held)>>)
    /\ UNCHANGED <<heldVars, up, tabVars>>

(* handleSubmit, of another tab's Send or a relay.                         *)
SentBy(n) == [held EXCEPT ![n].status = "sent"]

OtherSends(n) ==
    /\ Unsent(held, n)
    /\ held' = SentBy(n)
    /\ Broadcast(<<Pushed("submitted", n, SentBy(n))>>)
    /\ UNCHANGED <<stored, up, troubles, tabVars>>

(* handleSubmit, of this tab's: stored and pushed, or refused as sent; its *)
(* answer carries the same board as the push.                              *)
HandleSubmit(p) ==
    /\ p \in sends /\ p.at = "sent"
    /\ \/ /\ Unsent(held, p.n)
          /\ held' = SentBy(p.n)
          /\ stored' = stored \cup p.comments
          /\ Broadcast(<<Pushed("submitted", p.n, SentBy(p.n))>>)
          /\ sends' = (sends \ {p}) \cup {[p EXCEPT !.at = "stored", !.snap = SentBy(p.n)]}
       \/ /\ ~Unsent(held, p.n)
          /\ sends' = (sends \ {p}) \cup {[p EXCEPT !.at = "refused"]}
          /\ UNCHANGED <<held, stored, wire>>
    /\ UNCHANGED <<up, troubles, board, dom, applied, on, queue, draft, frozen, reads>>

(* handleGetPage, of the oldest catch-up not answered yet.                 *)
Serve ==
    \E k \in DOMAIN reads :
        /\ reads[k] = NoBoard
        /\ \A j \in 1 .. (k - 1) : reads[j] # NoBoard
        /\ reads' = [reads EXCEPT ![k] = held]
        /\ UNCHANGED <<heldVars, wire, up, troubles, board, dom, applied, on,
                       queue, draft, frozen, sends>>

-----------------------------------------------------------------------------
(* The stream is lost, whatever was on it with it, and comes back: 'open'  *)
(* reads the board again.                                                  *)
Drop ==
    /\ up
    /\ Trouble
    /\ up' = FALSE
    /\ wire' = <<>>
    /\ UNCHANGED <<heldVars, tabVars>>

Reopen ==
    /\ ~up
    /\ up' = TRUE
    /\ reads' = Append(reads, NoBoard)
    /\ UNCHANGED <<heldVars, wire, troubles, board, dom, applied, on, queue,
                   draft, frozen, sends>>

(* Mutant: a push leaves the catch-ups issued before it to be applied.     *)
ReadsKept == reads

(* pushGeneration: a push drops every catch-up issued before it.           *)
ReadsAfterPush == <<>>

RecvPush ==
    LET p == Head(wire)
        t == IF p.type = "submitted" THEN SubmittedPush(ThisTab, p.n, p.snap)
             ELSE RoundPush(ThisTab, p.type, p.n, p.snap)
        repeated == p.type = "submitted" /\ p.n \in applied
    IN  /\ wire # <<>> /\ p.type # "awaitExpired"
        /\ IF repeated THEN UNCHANGED <<board, dom, applied, draft, frozen, sends, reads>>
           ELSE Become(t, queue, sends) /\ reads' = ReadsAfterPush
        /\ wire' = Tail(wire)
        /\ UNCHANGED <<heldVars, up, troubles, on, queue>>

(* 'awaitExpired': the surfaces refreshed, the board read again.           *)
RecvNudge ==
    /\ wire # <<>> /\ Head(wire).type = "awaitExpired"
    /\ Len(reads) < MaxReads
    /\ Become(ThisTab, queue, sends)
    /\ reads' = Append(reads, NoBoard)
    /\ wire' = Tail(wire)
    /\ UNCHANGED <<heldVars, up, troubles, on, queue>>

(* The reviewer comments on a page, and answers one.                       *)
WriteComment(c, n) ==
    /\ on[c] = 0
    /\ ShownLive(n) /\ Unsent(board, n) /\ n \notin frozen
    /\ on' = [on EXCEPT ![c] = n]
    /\ queue' = queue \cup {c}
    /\ UNCHANGED <<heldVars, wire, up, troubles, board, dom, applied, draft,
                   frozen, sends, reads>>

AnswerRound(n) ==
    /\ n \in Asks /\ ShownLive(n) /\ Unsent(board, n)
    /\ draft[n] = NoDraft
    /\ draft' = [draft EXCEPT ![n] = Head(dom[n]).text]
    /\ UNCHANGED <<heldVars, wire, up, troubles, board, dom, applied, on, queue,
                   frozen, sends, reads>>

(* submitBoard, one at a time.                                             *)
Send(n) ==
    /\ n \notin Pages /\ Shown(n) /\ Sendable(n)
    /\ ~\E p \in sends : p.by = "bar"
    /\ Cardinality(sends) < MaxSends
    /\ sends' = sends \cup {[n |-> n, comments |-> SentFrom(n), by |-> "bar",
                             at |-> "sent", snap |-> NoBoard]}
    /\ UNCHANGED <<heldVars, wire, up, troubles, board, dom, applied, on, queue,
                   draft, frozen, reads>>

(* submitPageRound, from the page's own Send.                              *)
SendPage(n) ==
    /\ n \in Pages /\ ShownLive(n) /\ Unsent(board, n) /\ n \notin frozen
    /\ ~\E p \in sends : p.by = "page" /\ p.n = n
    /\ Cardinality(sends) < MaxSends
    /\ sends' = sends \cup {[n |-> n, comments |-> {c \in queue : on[c] = n}, by |-> "page",
                             at |-> "sent", snap |-> NoBoard]}
    /\ UNCHANGED <<heldVars, wire, up, troubles, board, dom, applied, on, queue,
                   draft, frozen, reads>>

(* The deadline of an awaited page round passes on the reader's clock.     *)
Expire(n) ==
    /\ n \in Pages \ frozen /\ ShownLive(n)
    /\ InBoard(board, n) /\ board[n].status = "open"
    /\ frozen' = frozen \cup {n}
    /\ sends' = sends \cup Flush(n, queue)
    /\ UNCHANGED <<heldVars, wire, up, troubles, board, dom, applied, on, queue,
                   draft, reads>>

(* Mutant: a refused Send empties the queue as a stored one does.          *)
LeavesAnyhow(p) == IF p.by = "bar" THEN p.comments ELSE {c \in queue : on[c] = p.n}

(* What a Send's answer takes off the queue: the bar's Send what it        *)
(* carried, a page's whatever stands on the page by then.                  *)
Leaves(p) ==
    IF p.at = "refused" THEN {}
    ELSE IF p.by = "bar" THEN p.comments ELSE {c \in queue : on[c] = p.n}

(* A Send's answer lands: applyOwnSend, unless the round is sent already.  *)
AnswerLands(p) ==
    /\ p \in sends /\ p.at \in {"stored", "refused"}
    /\ queue' = queue \ Leaves(p)
    /\ IF p.at = "stored" /\ ~(InBoard(board, p.n) /\ ~Unsent(board, p.n))
          /\ p.n \notin applied
       THEN /\ Become(SubmittedPush(ThisTab, p.n, p.snap), queue \ Leaves(p), sends \ {p})
            /\ reads' = ReadsAfterPush
       ELSE /\ sends' = sends \ {p}
            /\ UNCHANGED <<board, dom, applied, draft, frozen, reads>>
    /\ UNCHANGED <<heldVars, wire, up, troubles, on>>

(* The fetch fails before or after the daemon took it: nothing leaves.     *)
SendFails(p) ==
    /\ p \in sends
    /\ sends' = sends \ {p}
    /\ Trouble
    /\ UNCHANGED <<heldVars, wire, up, board, dom, applied, on, queue,
                   draft, frozen, reads>>

(* A catch-up lands, and drops those issued before it (resyncNewest).      *)
ReadsAfter(k) == SubSeq(reads, k + 1, Len(reads))

CatchUp(k) ==
    /\ k \in DOMAIN reads /\ reads[k] # NoBoard
    /\ IF Repaints(board, reads[k]) THEN Become(Resync(ThisTab, reads[k]), queue, sends)
       ELSE UNCHANGED <<board, dom, applied, draft, frozen, sends>>
    /\ reads' = ReadsAfter(k)
    /\ UNCHANGED <<heldVars, wire, up, troubles, on, queue>>

CatchUpFails(k) ==
    /\ k \in DOMAIN reads
    /\ reads' = RemoveAt(reads, k)
    /\ Trouble
    /\ UNCHANGED <<heldVars, wire, up, board, dom, applied, on, queue,
                   draft, frozen, sends>>

PageNext ==
    \/ PostRound \/ AmendRound \/ AbandonBoard \/ Serve
    \/ \E n \in RoundNo : WaitRunsOut(n) \/ OtherSends(n)
    \/ \E p \in sends : HandleSubmit(p) \/ AnswerLands(p) \/ SendFails(p)
    \/ Drop \/ Reopen \/ RecvPush \/ RecvNudge
    \/ \E n \in RoundNo :
         \/ \E c \in Comment : WriteComment(c, n)
         \/ AnswerRound(n) \/ Send(n) \/ SendPage(n) \/ Expire(n)
    \/ \E k \in 1 .. Len(reads) : CatchUp(k) \/ CatchUpFails(k)

PageSpec == PageInit /\ [][PageNext]_pageVars

-----------------------------------------------------------------------------
PageTypeOK ==
    /\ held \in Board /\ board \in Board
    /\ stored \in SUBSET Comment /\ queue \in SUBSET Comment
    /\ \A k \in DOMAIN wire : wire[k] \in Push
    /\ up \in BOOLEAN
    /\ \A n \in RoundNo : \A k \in DOMAIN dom[n] : dom[n][k] \in Section
    /\ applied \in SUBSET RoundNo
    /\ on \in [Comment -> 0 .. MaxRounds]
    /\ draft \in [RoundNo -> Text \cup {NoDraft}]
    /\ frozen \in SUBSET Pages
    /\ sends \subseteq SendRecord
    /\ \A k \in DOMAIN reads : reads[k] \in Board \cup {NoBoard}
    /\ troubles \in 0 .. MaxTroubles

(* A comment the reviewer queued on a page that is not a page round stays  *)
(* in the tab until the daemon holds it: through a refused or a failed     *)
(* Send, one whose answer was lost, and rounds sent or closed under it     *)
(* (submitBoard).                                                          *)
CommentsKept ==
    \A c \in Comment :
        on[c] # 0 /\ on[c] \notin Pages => c \in queue \cup stored

(* A step that changes the content a page shows, while page and board      *)
(* agree on it, takes the reviewer's answer to the old content away, so    *)
(* that no answer rides along under another question (clearFieldState).    *)
(* The exception is a snapshot that also closes a round unsent.            *)
NoStaleAnswer ==
    [][\A n \in RoundNo :
         (/\ dom'[n] # dom[n]
          /\ Shown(n) /\ InBoard(board, n) /\ board[n].text = Head(dom[n]).text
          /\ Head(dom'[n]).text # Head(dom[n]).text
          /\ ClosedUnsent(board, board') = {}) =>
         draft'[n] = NoDraft]_pageVars

(* How far a board has come: rounds are only added, amended, closed, sent. *)
Stage(s) == CASE s = "open" -> 0 [] s = "abandoned" -> 1 [] s = "sent" -> 2
NoOlder(old, new) ==
    /\ DOMAIN old \subseteq DOMAIN new
    /\ \A n \in DOMAIN old :
         /\ old[n].text <= new[n].text
         /\ Stage(old[n].status) <= Stage(new[n].status)

(* A catch-up, which changes the board with no push and no Send's answer,  *)
(* never takes it back to before what the tab held, over any race of it    *)
(* with pushes, the tab's own Sends and other catch-ups (resync).          *)
CatchUpNeverReverts ==
    [][board' # board /\ wire' = wire /\ sends \subseteq sends' =>
         NoOlder(board, board')]_pageVars

(* A catch-up that lands, nothing being on the stream, leaves every round  *)
(* of the board on the page: a round whose push was missed is shown then   *)
(* at the latest (goToRound).                                              *)
CatchUpRepairs ==
    [][\A k \in 1 .. Len(reads) :
         CatchUp(k) /\ wire = <<>> =>
             \A n \in DOMAIN board' : dom'[n] # <<>>]_pageVars

=============================================================================
