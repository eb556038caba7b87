------------------------------ MODULE Stream ------------------------------
(***************************************************************************)
(* The shared stream (ADR 144): one worker per browser holds one stream to *)
(* the daemon for every tab (src/stream-worker.mjs), the daemon registers  *)
(* each board tab on it as a Watcher (src/browser-stream.mjs), and each    *)
(* tab reports to its Watcher whether it is attended (src/ui.mjs,          *)
(* createSseHub in src/server.mjs).                                        *)
(*                                                                         *)
(* The tabs show one board.  A Watcher id and a stream id are numbers that *)
(* grow.  The frames of a stream stay in order; a `watch` and a tab's      *)
(* report are requests of their own, handled in any order and answered in  *)
(* any.  A beat and an `unwatch` reach the daemon at once, the beat's      *)
(* answer late.  A message between the worker and a tab is instant.        *)
(***************************************************************************)
EXTENDS Naturals, Sequences, FiniteSets, InOrder

CONSTANTS
    Tab,
    MaxPushes,      \* bounds the pushes to the board
    MaxEdges,       \* bounds the tabs' focuses and blurs
    MaxLosses       \* bounds the streams lost, posts failed and late beats

ASSUME StreamBounds == {MaxPushes, MaxEdges, MaxLosses} \subseteq Nat

VARIABLES
    tab,        \* each tab: alive, focused, its Watcher, epoch and board, and
                \* whether its last re-read of the board failed
    worker,     \* the worker's entry for each tab
    conn,       \* the stream the worker is connected by, 0 for none
    streamId,   \* the one it was told the name of
    frames,     \* the frames on their way down that stream
    posts,      \* the worker's posts in the air, answered ones too
    reports,    \* the tabs' attended reports in the air
    streams,    \* the streams the daemon holds
    watchers,   \* the Watchers it holds
    issued,     \* the Watchers and streams it has minted
    version,    \* how often the board was pushed
    edges, losses

streamVars == <<tab, worker, conn, streamId, frames, posts, reports, streams,
                watchers, issued, version, edges, losses>>

Unheld == [held |-> FALSE, reg |-> 0, watcher |-> 0, pending |-> 0]

Watcher == [id : Nat, tab : Tab, stream : Nat,
            attended : {"unknown", "yes", "no"}, seq : Nat]

Attends(t) == IF tab[t].focus THEN "yes" ELSE "no"
Registered(w) == \E x \in watchers : x.id = w

-----------------------------------------------------------------------------
StreamInit ==
    /\ tab = [t \in Tab |-> [is |-> "unborn", focus |-> FALSE, watcher |-> 0,
                             epoch |-> 0, seen |-> 0, unread |-> FALSE]]
    /\ worker = [t \in Tab |-> Unheld]
    /\ conn = 0 /\ streamId = 0
    /\ frames = <<>>
    /\ posts = {} /\ reports = {}
    /\ streams = {} /\ watchers = {}
    /\ issued = [watchers |-> 0, streams |-> 0]
    /\ version = 0
    /\ edges = 0 /\ losses = 0

Loss == losses < MaxLosses /\ losses' = losses + 1

(* sendAttended: a tab's report names its epoch.                           *)
Report(t, w, attends, epoch) ==
    [tab |-> t, watcher |-> w, attends |-> attends, epoch |-> epoch]

(* watch: the tabs of wk not registered, nor being registered, on sid.     *)
Wanting(wk, sid) ==
    IF sid = 0 THEN {}
    ELSE {t \in Tab : wk[t].held /\ wk[t].watcher = 0 /\ wk[t].pending # sid}

Pending(wk, sid) ==
    [t \in Tab |-> IF t \in Wanting(wk, sid) THEN [wk[t] EXCEPT !.pending = sid]
                   ELSE wk[t]]

WatchPosts(wk, sid) ==
    {[type |-> "watch", tab |-> t, reg |-> wk[t].reg, sid |-> sid, answer |-> 0,
      at |-> "sent"] : t \in Wanting(wk, sid)}

(* unwatch: the daemon drops the tab's Watcher, unless the post is lost.   *)
Unwatch(t) ==
    {w \in watchers : w.stream # streamId \/ w.id # worker[t].watcher}

(* The worker becomes wk, and registers the tabs of it that want to be.    *)
Register(wk, standing) ==
    /\ worker' = Pending(wk, streamId)
    /\ posts' = standing \cup WatchPosts(wk, streamId)

(* Mutant: a tab whose Watcher was replaced is not told to read again.     *)
SeenQuietly(t) == IF tab[t].watcher = 0 THEN version ELSE tab[t].seen

(* What the tab has seen once it read the board again: as it is.           *)
SeenOnOpen(t) == version

(* adopt, of the worker wk: the tab hears 'open', and its new Watcher,     *)
(* which it reports to.  On the one it reads the board again (resync), or  *)
(* fails to, and then not before the next: which matters where there was   *)
(* something it had not read.                                              *)
Adopt(wk, t, w) ==
    IF ~wk[t].held \/ wk[t].watcher = w
    THEN worker' = wk /\ UNCHANGED <<tab, reports>>
    ELSE /\ worker' = [wk EXCEPT ![t].watcher = w]
         /\ IF tab[t].is # "live" THEN UNCHANGED <<tab, reports>>
            ELSE LET epoch == tab[t].epoch + 1
                     heard == [tab[t] EXCEPT !.watcher = w, !.epoch = epoch]
                 IN  /\ \/ tab' = [tab EXCEPT ![t] =
                               [heard EXCEPT !.seen = SeenOnOpen(t), !.unread = FALSE]]
                        \/ /\ tab[t].unread \/ tab[t].seen # version
                           /\ tab' = [tab EXCEPT ![t] = [heard EXCEPT !.unread = TRUE]]
                     /\ reports' = reports \cup {Report(t, w, Attends(t), epoch)}

-----------------------------------------------------------------------------
(* The tabs. *)

(* The page loads, hello said by its next beat, below.                     *)
Open(t) ==
    /\ tab[t].is = "unborn"
    /\ \E focus \in BOOLEAN :
         tab' = [tab EXCEPT ![t] = [@ EXCEPT !.is = "live", !.focus = focus, !.seen = version]]
    /\ UNCHANGED <<worker, conn, streamId, frames, posts, reports, streams, watchers,
                   issued, version, edges, losses>>

(* A hello, or a beat the worker does not know the tab of; a hello it does *)
(* know drops the tab first.                                               *)
Beats(t) ==
    /\ tab[t].is = "live"
    /\ IF worker[t].held THEN Loss /\ watchers' = Unwatch(t)
       ELSE UNCHANGED <<losses, watchers>>
    /\ Register([worker EXCEPT ![t] =
                    [Unheld EXCEPT !.held = TRUE, !.reg = worker[t].reg + 1]], posts)
    /\ UNCHANGED <<tab, conn, streamId, frames, reports, streams, issued, version, edges>>

(* visibilitychange, focus and blur: reportAttended.                       *)
Edge(t) ==
    /\ tab[t].is = "live" /\ edges < MaxEdges
    /\ edges' = edges + 1
    /\ LET focus == ~tab[t].focus
           w == tab[t].watcher
           epoch == tab[t].epoch + 1
       IN  IF w = 0 THEN /\ tab' = [tab EXCEPT ![t].focus = focus]
                         /\ UNCHANGED reports
           ELSE /\ tab' = [tab EXCEPT ![t] = [@ EXCEPT !.focus = focus, !.epoch = epoch]]
                /\ reports' = reports \cup
                     {Report(t, w, IF focus THEN "yes" ELSE "no", epoch)}
    /\ UNCHANGED <<worker, conn, streamId, frames, posts, streams, watchers, issued,
                   version, losses>>

Shut(t) ==
    /\ tab[t].is = "live"
    /\ tab' = [tab EXCEPT ![t].is = "gone"]
    /\ UNCHANGED <<worker, conn, streamId, frames, posts, reports, streams, watchers,
                   issued, version, edges, losses>>

(* A superseded report that failed is not sent again; another one is,      *)
(* until it lands.                                                         *)
ReportFails(r) ==
    /\ r \in reports
    /\ tab[r.tab].is # "live" \/ r.epoch # tab[r.tab].epoch
    /\ reports' = reports \ {r}
    /\ UNCHANGED <<tab, worker, conn, streamId, frames, posts, streams, watchers, issued,
                   version, edges, losses>>

-----------------------------------------------------------------------------
(* The worker. *)

(* drop: a tab whose lock freed, which said bye, or was long silent.       *)
DropTab(t) ==
    /\ worker[t].held
    /\ worker' = [worker EXCEPT ![t] = [Unheld EXCEPT !.reg = worker[t].reg]]
    /\ \/ /\ watchers' = Unwatch(t)
          /\ IF tab[t].is = "live" THEN Loss ELSE UNCHANGED losses
       \/ /\ UNCHANGED watchers
          /\ Loss
    /\ UNCHANGED <<tab, conn, streamId, frames, posts, reports, streams, issued, version,
                   edges>>

(* The interval: the unregistered tabs asked for, the Watchers beaten for  *)
(* and those the daemon does not hold answered; with neither, nothing.     *)
Interval ==
    LET beaten == {worker[t].watcher : t \in {u \in Tab : worker[u].held}} \ {0}
        unknown == beaten \ {w.id : w \in {x \in watchers : x.stream = streamId}}
        answer == [type |-> "beat", unknown |-> unknown, sid |-> streamId]
    IN  /\ streamId # 0
        /\ ~\E p \in posts : p.type = "beat"
        /\ unknown # {} \/ Wanting(worker, streamId) # {}
        /\ Register(worker, posts \cup IF unknown = {} \/ streamId \notin streams THEN {}
                                      ELSE {answer})
        /\ UNCHANGED <<tab, conn, streamId, frames, reports, streams, watchers, issued,
                       version, edges, losses>>

(* EventSource opens, or reopens; the daemon names the stream (open).      *)
Connect ==
    /\ conn = 0 /\ \E t \in Tab : tab[t].is = "live"
    /\ conn' = issued.streams + 1
    /\ issued' = [issued EXCEPT !.streams = @ + 1]
    /\ streams' = streams \cup {conn'}
    /\ frames' = <<[type |-> "stream"]>>
    /\ UNCHANGED <<tab, worker, streamId, posts, reports, watchers, version, edges, losses>>

(* onerror *)
Disconnect ==
    /\ conn # 0
    /\ Loss
    /\ conn' = 0 /\ streamId' = 0
    /\ frames' = <<>>
    /\ UNCHANGED <<tab, worker, posts, reports, streams, watchers, issued, version, edges>>

(* The worker ends, with the last tab or by itself; the tabs' beats will   *)
(* find a fresh one.                                                       *)
WorkerEnds ==
    /\ conn # 0
    /\ IF \E t \in Tab : tab[t].is = "live" THEN Loss ELSE UNCHANGED losses
    /\ conn' = 0 /\ streamId' = 0
    /\ frames' = <<>>
    /\ worker' = [t \in Tab |-> [Unheld EXCEPT !.reg = worker[t].reg]]
    /\ UNCHANGED <<tab, posts, reports, streams, watchers, issued, version, edges>>

(* onFrame, of a stream's name: every tab is registered on it again.       *)
FrameStream ==
    /\ frames # <<>> /\ Head(frames).type = "stream"
    /\ streamId' = conn
    /\ LET wk == [t \in Tab |-> [worker[t] EXCEPT !.watcher = 0, !.pending = 0]]
       IN  /\ worker' = Pending(wk, conn)
           /\ posts' = posts \cup WatchPosts(wk, conn)
    /\ frames' = Tail(frames)
    /\ UNCHANGED <<tab, conn, reports, streams, watchers, issued, version, edges, losses>>

FrameWatcher ==
    /\ frames # <<>> /\ Head(frames).type = "watcher"
    /\ Adopt(worker, Head(frames).tab, Head(frames).watcher)
    /\ frames' = Tail(frames)
    /\ UNCHANGED <<conn, streamId, posts, streams, watchers, issued, version, edges, losses>>

FramePush ==
    LET f == Head(frames)
        heard == {t \in Tab : /\ worker[t].held /\ worker[t].watcher = f.watcher
                              /\ tab[t].is = "live"}
    IN  /\ frames # <<>> /\ f.type = "push"
        /\ tab' = [t \in Tab |-> IF t \in heard /\ tab[t].seen < f.version
                                 THEN [tab[t] EXCEPT !.seen = f.version] ELSE tab[t]]
        /\ frames' = Tail(frames)
        /\ UNCHANGED <<worker, conn, streamId, posts, reports, streams, watchers, issued,
                       version, edges, losses>>

(* Mutant: an answer that failed leaves the tab waiting for it.            *)
LeavesPending(p) == worker

(* The answer to `watch` adopts too, for the tab and stream it was asked   *)
(* for; a failed one leaves the next beat to ask.                          *)
Settled(p) ==
    [worker EXCEPT ![p.tab].pending =
        IF worker[p.tab].reg = p.reg /\ @ = p.sid THEN 0 ELSE @]

WatchAnswered(p) ==
    LET t == p.tab
        asked == worker[t].reg = p.reg /\ streamId = p.sid
    IN  /\ p \in posts /\ p.type = "watch" /\ p.at = "done"
        /\ IF asked /\ p.answer # 0 THEN Adopt(Settled(p), t, p.answer)
           ELSE worker' = Settled(p) /\ UNCHANGED <<tab, reports>>
        /\ posts' = posts \ {p}
        /\ UNCHANGED <<conn, streamId, frames, streams, watchers, issued, version,
                       edges, losses>>

(* The answer to a beat: the Watchers the daemon lost are asked for again. *)
BeatAnswered(p) ==
    /\ p \in posts /\ p.type = "beat"
    /\ LET lost == {t \in Tab : worker[t].held /\ worker[t].watcher \in p.unknown}
           wk == [t \in Tab |-> IF t \in lost THEN [worker[t] EXCEPT !.watcher = 0]
                                ELSE worker[t]]
           sid == IF lost = {} THEN 0 ELSE streamId
       IN  IF streamId # p.sid THEN UNCHANGED worker /\ posts' = posts \ {p}
           ELSE /\ worker' = [t \in Tab |-> IF t \in lost THEN Pending(wk, sid)[t] ELSE wk[t]]
                /\ posts' = (posts \ {p}) \cup {q \in WatchPosts(wk, sid) : q.tab \in lost}
    /\ UNCHANGED <<tab, conn, streamId, frames, reports, streams, watchers, issued,
                   version, edges, losses>>

(* A post fails, before or after the daemon took it.                       *)
PostFails(p) ==
    /\ p \in posts
    /\ Loss
    /\ worker' = IF p.type = "watch" THEN Settled(p) ELSE worker
    /\ posts' = posts \ {p}
    /\ UNCHANGED <<tab, conn, streamId, frames, reports, streams, watchers, issued,
                   version, edges>>

-----------------------------------------------------------------------------
(* The daemon. *)

(* watch: a Watcher minted, its frame ahead of any push to it.  A stream   *)
(* it does not hold answers none.                                          *)
HandleWatch(p) ==
    /\ p \in posts /\ p.type = "watch" /\ p.at = "sent"
    /\ LET w == issued.watchers + 1
       IN  IF p.sid \notin streams
           THEN /\ posts' = (posts \ {p}) \cup {[p EXCEPT !.at = "done"]}
                /\ UNCHANGED <<watchers, issued, frames>>
           ELSE /\ issued' = [issued EXCEPT !.watchers = w]
                /\ watchers' = watchers \cup
                     {[id |-> w, tab |-> p.tab, stream |-> p.sid, attended |-> "unknown", seq |-> 0]}
                /\ posts' = (posts \ {p}) \cup {[p EXCEPT !.at = "done", !.answer = w]}
                /\ frames' = IF p.sid # conn THEN frames
                             ELSE Append(frames, [type |-> "watcher", watcher |-> w, tab |-> p.tab])
    /\ UNCHANGED <<tab, worker, conn, streamId, reports, streams, version, edges, losses>>

(* The worker beats for a Watcher, or is about to once it hears of it.     *)
Beaten(w) ==
    /\ w.stream = conn
    /\ \/ worker[w.tab].held /\ worker[w.tab].watcher = w.id
       \/ \E k \in DOMAIN frames : frames[k].type = "watcher" /\ frames[k].watcher = w.id
       \/ \E p \in posts : p.type = "watch" /\ p.answer = w.id

(* sweep: a Watcher no beat has named for the TTL, unless beats are late   *)
(* one the worker does not beat for.                                       *)
Sweep(w) ==
    /\ w \in watchers
    /\ IF Beaten(w) THEN Loss ELSE UNCHANGED losses
    /\ watchers' = watchers \ {w}
    /\ UNCHANGED <<tab, worker, conn, streamId, frames, posts, reports, streams, issued,
                   version, edges>>

(* close: the daemon hears that a stream is gone, and drops its Watchers.  *)
CloseStream(s) ==
    /\ s \in streams /\ s # conn
    /\ streams' = streams \ {s}
    /\ watchers' = {w \in watchers : w.stream # s}
    /\ UNCHANGED <<tab, worker, conn, streamId, frames, posts, reports, issued, version,
                   edges, losses>>

(* broadcast: every Watcher of the board, on whichever stream.             *)
PushBoard ==
    LET heard == Ascending({w.id : w \in {x \in watchers : x.stream = conn}})
    IN  /\ version < MaxPushes
        /\ version' = version + 1
        /\ frames' = frames \o [k \in DOMAIN heard |->
                          [type |-> "push", watcher |-> heard[k], version |-> version + 1]]
        /\ UNCHANGED <<tab, worker, conn, streamId, posts, reports, streams, watchers,
                       issued, edges, losses>>

(* Mutant: reports applied as they come.                                   *)
InAnyOrder(w, r) == FALSE

(* setAttended: a report overtaken by a later edge's is dropped.           *)
Overtaken(w, r) == r.epoch <= w.seq

HandleAttended(r) ==
    /\ r \in reports
    /\ watchers' = {IF w.id = r.watcher /\ ~Overtaken(w, r)
                    THEN [w EXCEPT !.attended = r.attends, !.seq = r.epoch] ELSE w
                    : w \in watchers}
    /\ reports' = reports \ {r}
    /\ UNCHANGED <<tab, worker, conn, streamId, frames, posts, streams, issued, version,
                   edges, losses>>

StreamNext ==
    \/ \E t \in Tab : Open(t) \/ Beats(t) \/ Edge(t) \/ Shut(t) \/ DropTab(t)
    \/ \E r \in reports : ReportFails(r) \/ HandleAttended(r)
    \/ Interval \/ Connect \/ Disconnect \/ WorkerEnds
    \/ FrameStream \/ FrameWatcher \/ FramePush
    \/ \E p \in posts :
         \/ HandleWatch(p) \/ WatchAnswered(p) \/ BeatAnswered(p) \/ PostFails(p)
    \/ \E w \in watchers : Sweep(w)
    \/ \E s \in streams : CloseStream(s)
    \/ PushBoard

StreamSpec == StreamInit /\ [][StreamNext]_streamVars

(* What the browser's timers, the network and the daemon's sweep do unless *)
(* a fault, or somebody, comes between.                                    *)
StreamFairness ==
    /\ \A t \in Tab :
         /\ WF_streamVars(~worker[t].held /\ Beats(t))
         /\ WF_streamVars(tab[t].is = "gone" /\ DropTab(t))
    /\ WF_streamVars(Interval) /\ WF_streamVars(Connect)
    /\ WF_streamVars(FrameStream \/ FrameWatcher \/ FramePush)
    /\ WF_streamVars(\E p \in posts : WatchAnswered(p) \/ BeatAnswered(p))
    /\ WF_streamVars(\E p \in posts : HandleWatch(p))
    /\ WF_streamVars(\E w \in watchers : ~Beaten(w) /\ Sweep(w))
    /\ WF_streamVars(\E s \in streams : CloseStream(s))

-----------------------------------------------------------------------------
StreamTypeOK ==
    /\ tab \in [Tab -> [is : {"unborn", "live", "gone"}, focus : BOOLEAN, watcher : Nat,
                        epoch : Nat, seen : 0 .. MaxPushes, unread : BOOLEAN]]
    /\ worker \in [Tab -> [held : BOOLEAN, reg : Nat, watcher : Nat, pending : Nat]]
    /\ conn \in Nat /\ streamId \in {0, conn}
    /\ \A k \in DOMAIN frames : frames[k].type \in {"stream", "watcher", "push"}
    /\ \A p \in posts : p.type \in {"watch", "beat"}
    /\ \A r \in reports : r.tab \in Tab /\ r.attends \in {"yes", "no"}
    /\ streams \in SUBSET Nat
    /\ watchers \subseteq Watcher
    /\ version \in 0 .. MaxPushes
    /\ edges \in 0 .. MaxEdges
    /\ losses \in 0 .. MaxLosses

(* Once a tab's latest report has landed, the daemon holds its Watcher     *)
(* attended exactly while the tab is focused, in whichever order its       *)
(* earlier reports arrive (setAttended).                                   *)
AttendanceSettles ==
    \A t \in Tab, w \in watchers :
        (/\ tab[t].is = "live" /\ tab[t].watcher = w.id
         /\ \A r \in reports : r.tab = t => r.epoch # tab[t].epoch) =>
        w.attended = Attends(t)

(* A tab whose Watcher the worker and the daemon agree on has seen every   *)
(* push, or has one on its way: what it missed while streams, Watchers and *)
(* workers were replaced, it read again, unless its last reading failed    *)
(* (adopt, resync).                                                        *)
PushesReachTab ==
    \A t \in Tab, w \in watchers :
        (/\ tab[t].is = "live" /\ ~tab[t].unread
         /\ worker[t].held /\ worker[t].watcher = w.id
         /\ w.stream = conn /\ streamId = conn
         /\ \A k \in DOMAIN frames : frames[k].type = "push" => frames[k].watcher # w.id) =>
        tab[t].seen = version

Followed(t) ==
    \E w \in watchers :
        w.tab = t /\ w.stream = conn /\ w.id = worker[t].watcher /\ w.id = tab[t].watcher

(* Every open tab is watched in the end, and every Watcher of a tab that   *)
(* went away is dropped, also when its unwatch was lost (sweep).           *)
TabsFollowed ==
    \A t \in Tab :
        /\ (tab[t].is = "live") ~> (tab[t].is = "gone" \/ Followed(t))
        /\ (tab[t].is = "gone") ~> [](\A w \in watchers : w.tab # t)

=============================================================================
