# TLA+ verification of claude-board

claude-board lets a coding agent ask its user questions on a local web page and wait for
the answers. A daemon (`src/server.mjs`) keeps boards on disk and serves them; a shim
(`bin/mcp.mjs`) turns the agent's tool calls into posts and waits; a page (`src/ui.mjs`)
shows a board and sends answers. This directory models the parts of it whose correctness
depends on order, on failure and on time, checks them with TLC, and proves with TLAPS every
safety property the passing runs check; only liveness is left to TLC. All paths below are
relative to the repository's root.

## 1. The system

| Component | State | Operations | Hard part |
|---|---|---|---|
| Answer delivery (`src/server.mjs`, `src/board.mjs`) | each board's `answersDelivered` ledger, comments' delivered flags, the holds of responses on the wire | submit, relay, `/wait`, `noWait` post, read, the answer watch's collect, abandon | a response may die after it was built; two are built before either leaves; marks may fail |
| Round lifecycle (`src/server.mjs`, `src/badge.mjs`, `src/board.mjs`) | rounds: status, `awaited`, `awaitDeadline`, `movingDeadline`; the last request id | post, retry, amend, wait, submit, abandon, activity | a lapsed round stays `open`; deadlines move; several waits on one round |
| Shim (`bin/mcp.mjs`) | the session: board, thread, mint under way, retry key, parked abandon; calls in flight | ask, mission, read, cancel | state is read before an await and used after it; calls time out while their posts go on |
| Stranded rule (`src/stranded.mjs`) | a countdown and a child process per board; the mark and return gate on the board; a fallback in memory | evaluate, answered, amended, abandoned, announce, close | timers against events; windows that end silently; restarts; failed writes |
| SSE hub and shared stream (`src/server.mjs`, `src/browser-stream.mjs`) | watchers of each board, their attendance and last focus; streams and beats | subscribe, unsubscribe, report, beat, sweep, broadcast | reconnects, reports out of order, tabs that die silently |
| Board content (`src/board.mjs`, `src/resolve.mjs`, `src/anchor.mjs`) | blocks, block ids, counters, answers, comments | normalise, add, amend, submit, anchor | ids must stay stable over amends |
| Store (`src/store.mjs`) | one JSON document per board, pages, assets | read (sweeps lapses), atomic write, prune, fingerprint | prune against a live session |
| Missions (`src/missions.mjs`, `src/mission-watch.mjs`) | a record per mission: session, takeover, queue, orders, facts; the watch's last read and its batch | launch, bind, beat, join, leave, release, take over, order; tick, speak | ids and pids are reused; silence is not death; a batch is spoken a minute late |
| Pomodoro (`src/pomodoro.mjs`) | one document, one armed timeout | enable, start, pause, resume, skip, restart, settle, day roll | sleep, clock steps, a late timeout, refused writes, restarts |
| Handoff and sign-in (`src/handoff.mjs`, `src/secret.mjs`) | live tokens with an expiry | mint, consume | single use |
| Sessions, bindings (`src/sessions.mjs`, `src/bindings.mjs`) | none: reads of processes and files | list | stale answers |
| Waiting cache (`src/server.mjs`) | kept rows, fingerprint, next lapse | rows, noteWrite, reset | staleness after a lapse, a mark, another writer |
| Page (`src/ui.mjs`, `src/patch.mjs`) | the tab's board, its sections, drafts, queued comments, Sends and catch-ups in the air | push, resync, submit, submitPageRound, comment, turn to a round | three kinds of answers arrive in any order, each with a whole board |
| Rendering, native parts, install | processes of the platform | | outside the models |

How they interact. The shim posts a round and then holds `/wait` open; the daemon polls
the board and answers with a packet, into which it drains what the whole thread is still
owed. A submit changes the board, tells watchers over SSE, and tells the stranded rule. A
post, an answer, an abandon, a deadline move and every change of attendance makes that rule
decide again. The reviewer's activity moves the deadlines of awaited rounds, which the
daemon's wait, the shim's timer, the banner and the page all follow separately. A mission
join or leave makes the shim leave its board.

The daemon is one node process. A handler runs in one turn from the moment its body is
read until it awaits or returns, and every handler below writes its boards in that turn.
That is why a handler is one action, and why what interleaves is: responses being written,
polls, timers, sockets closing, and the shim's continuations after an await.

What makes each modelled component correct is stated in section 3. For the others: a block
id never names another block; an order is marked seen only by the bound session; a token is
used at most once.

## 2. Modules

| Module | Models | Runs |
|---|---|---|
| `OwedAnswers` | what delivery promises, abstractly | via `KeepsPromise` |
| `Delivery` | delivery of answers and comments | `delivery`, `live`, `delivery_first`, `delivery_adoption` |
| `DeliveryProofs` | theorems about `Delivery` | proofs |
| `AwaitedRounds` | what the daemon promises about waiting, abstractly | via `KeepsWaits` |
| `Rounds` | a round's life, the daemon's wait, the shim's wait | `rounds`, `live` |
| `RoundsProofs` | theorems about `Rounds` | proofs |
| `Shim` | the shim's session and its posts against the daemon | `sessions`, `shim_gone`, `shim_boundary` |
| `ShimProofs` | theorems about `Shim` | proofs |
| `Missions` | which session works which mission | `sessions` |
| `MissionsProofs` | theorems about `Missions`, and about the two parts of `MCSessions` side by side | proofs |
| `Stranded` | the stranded rule with tabs, banners, restarts | `stranded`, `stranded_broken` |
| `StrandedProofs` | theorems about `Stranded` | proofs |
| `Page` | a tab's script and document against the daemon's board | `desk`, `page_missed` |
| `Stream` | the shared stream: worker, tabs, watchers, attendance | `desk`, `live` |
| `InOrder` | what `Page` and `Stream` take in ascending order | `desk` |
| `TabProofs` | theorems about `Page` and `Stream` | proofs |
| `Pomodoro` | the clock's document and its one timeout | `desk` |
| `MissionWatch` | what the missions watch publishes and speaks | `desk` |
| `DeskProofs` | theorems about `Pomodoro` and `MissionWatch`, and about the five parts of `MCDesk` side by side | proofs |
| `WaitingCache` | the waiting list against the store | `desk` |
| `WaitingCacheProofs` | theorems about `WaitingCache` | proofs |
| `MC*` | constants, symmetry and composition for TLC | |

Operators introduced by a comment starting `Mutation:` or `Mutant:`, or "as it would be if",
are faulty variants of the definition below them. No specification uses them; substituting
one makes a property fail, which shows that the property depends on that definition.

`MCSessions`, `MCDesk` and `MCLive` hold several components at once. Those share no state in
the code (each has its own documents and its own timers), so a joint state space would be a
product that shows nothing more. A variable `part` is chosen at the start; the component it
names moves and the others stay as they began. The space is the sum, and each property speaks
of its own component. Components that do interact are in one module: delivery's responses and
restarts, the round's daemon and shim waits, the stranded rule with tabs and banners, the
stream's worker with the daemon's hub, the tab with the daemon's board.

### Delivery

One thread of several boards. A round is a pair of a board and a number; `status`, `asks`,
`remark`, `ledger`, `ledgered` are what is on disk (`remark` stands for a round's comments
together). A call is a response being built and written: `takes` is what its hold claims
(`createHold`), `body` the rounds whose answers it carries, `owes` those of them it hands out as
owed, `says` the rounds whose comments it carries, and `marks`, `touches` and `remarks` what
`spendWhenSent` will write once it has left. `Wait`, `PostNoWait`,
`CollectMarks` and `CollectDelivered` build one; `Finish` sends it and writes the marks,
`FinishUnmarked` sends it and fails one board's write; `Close` loses it; `Restart` drops them
all with the holds. `got`, `paid`, `heard`, `born` and `faults` only observe.

`CollectMarks` and `CollectDelivered` are the two ends of the answer watch's collect: a round
nobody else holds is claimed and marked, a delivered one is returned without a mark.

### Rounds

One board with a clock. A post is a retry of the last request, an amend of the latest round,
or a new round (`Dedupes`, `Amends`, `Apply`); `drifted` is a file it references having
changed. `calls` joins the shim's wait (`follows`, `since`, `cut`) with the daemon's held
poll (`at`, `entered`). `Poll` is `waitForRound` ending: the round was sent or abandoned, or
timed out, in which case `EndWait` is what `handleWait` writes. `Extend` is the shim's
deadline arriving. A clock tick is only possible when no poll has ended and no deadline is
due: the model's tick is far longer than the poll's interval. The limit on how often a page
may report activity is left out, since a refused report changes nothing.

`AwaitedRounds` is what this comes to without clock, poll, sweep or record: which rounds are
awaited, which are past, the deadline of each, what each ask waits on and what was told timed
out. A round is awaited in the mapping exactly while `Live` says so, although a lapsed one
stays `open` on disk until the next read sweeps it.

### Shim

`session`, `create` and `calls` are the shim's; `boards` the daemon's. Between awaits the
shim runs one continuation at a time, so an external event waits until `Quiet`. `Enter` is
`postThisRound` from the head of its loop to its next await. The 404 recovery re-enters it
without `fresh`, as the code does. `conv` counts the conversation's boundaries. The other
variables record what happened to which board, for the properties.

### Stranded

One board. `watch` is the rule's state: the countdown (`grace`, or `window` when it was
armed past a look-away window), the record on disk and in memory, the child held, and the
banners on screen. `hub` is the attendance of each tab of the board and `elsewhere` of all
others. Every function of the rule is an operator from its state to the next. Timers fire at
any moment, which covers every length of grace and window. `broken` makes writes fail.

### Missions

Each mission's record (`sessionOf`, `state`, `fired`, `takeover`) and the world it is about:
`running` says which session id each process runs, and `Pid` gives processes a pid of their own or
one that was used before. A session is known by its id, which a `/clear` changes and a resume
carries into another process, and by its process. `Launch`, `Bind` (a bind or a heartbeat),
`Join`, `Rejoin`, `AskTakeover`, `Leave`, `Upsert` and `Fire` are the functions the routes of
`handleMission` call; a refused call changes nothing and is no step. `Start`, `Clear` and `Die`
are the world. What a handler reads besides the records is chosen anew in every step: `now` says
whose time is up (`quiet`) and whether the session watcher reads up (`listed`), and `asking` whose
board waits on the reviewer. An action takes one step for each way such readings may decide it. One live process per id is assumed of the world. A call picks the names it gives its
session: id and process, the id alone, and for a bind also the process alone or neither
(`Namings`, `ById`), which is what `sessionRef` takes; a pid that comes without its process's
start is left out. `Surprise` bounds the writes, clears and takeovers nobody planned and the calls
that name a session by half, and `MaxVague` the missions that have names of such a call.

### MissionWatch

`record` is what a read finds, `seen` the last read, `batch` and `window` what will be spoken
and when. A tick is one action that compares, publishes, joins and flushes, in the code's
order. `shown` is what a subscriber of the stream knows. `Drift` moves a view with no write of the
mission's own: its session died, fell silent or was heard of, or one of its boards was posted to
or answered.

### Pomodoro

`doc` is the file, `armed` the daemon's one timeout, with the skew the wall clock gained over it
(`Jump`: a step or a sleep). Wall time is relative, so that the state space is finite: a running
timer's `time` is its deadline minus now, down to `LongOver`, from where taking back a forward
step (`applyClockStep`) does not make it current again. `TimerFires` is `reconcile` after a wait
(repair of a step, settling of what is due, arming), `Control` the transforms behind `POST
/api/pomodoro`; each may have its write refused. `owed` observes what an interval has left by the
clock that is not set; a step not yet repaired when a write is refused or the daemon stops never
is (`armRetry` measures none), so `owed` then counts it as time run. Jumps stay within one day: a
backward step over 05:00 is left out.

### Page and Stream

`Page` is one tab. The daemon's `held` board changes by posts, amends, Sends of other tabs and
lapses; `wire` is the ordered stream of pushes, `reads` the catch-ups and `sends` the Sends,
each answered by a snapshot at an instant of its own. `board` is the script's copy and `dom`
the sections in the document: the two are not the same, which is what the catch-up's diff
overlooks (finding 6). `draft` holds the content an unsent answer was made to, `queue` the
comments not yet known to be stored. One block per round, whose content is a number.

`Stream` is the worker of one browser with its tabs. `frames` is the stream, in order; `posts`
(a `watch`) and `reports` are requests of their own, in any order. A stream may die, a post
may fail, a beat may come late and have its watchers swept. The read a tab makes of its board when
it hears 'open' is one step with it and may fail (`unread`, `resync` in `src/ui.mjs`), which the
page leaves to its next 'open'. `watchers` is the daemon's side,
with the newest report's `seq`.

### WaitingCache

`file` is each board's version and its round's deadline; the fingerprint is the versions.
`StoreBoard`, `MoveDeadline`, `StoreMark`, `PruneStore` are the daemon's writes,
`StoreUnheard` one that nobody noted (another process, or a route that failed between its
board and its page). `unheard` observes those.

## 3. Runs

Two workers. `CHECK_DEADLOCK FALSE` appears where everything may simply be done.

| Run | Bounds | What it shows |
|---|---|---|
| `delivery` | 2 boards (1 from before the ledger), 2 responses, 1 failed mark | `HoldExclusive`, `NothingLost`, `RemarksNeverLost`, `OwedPaidOnce`; refinement of `OwedAnswers` |
| `delivery_first` | 1 new board | finding 1 |
| `delivery_adoption` | 1 old board and 1 new | finding 2 |
| `rounds` | 2 calls, 1 question and 1 page request, 2 rounds, wait 2 ticks, ceiling 3, horizon 6 | `TimedOutIsOver`, `AskIsAwaited`, `ShimOutlastsDaemon`; refinement of `AwaitedRounds` (`KeepsWaits`) |
| `sessions` | shim: 2 calls, 2 contents, 2 boards, 2 boundaries, 1 pruned board; missions: 2, 2 ids, 3 processes over 2 pids, 1 working, 1 alive, 2 surprises, 1 mission named by half | `OneBoard`, `FreshSparesConcurrent`, `ParkedIsClosed`, `NotIntoThePast`, `RetryIsSafe`; `JoinsKeepOneMission`, `NeverDisplaced`, `EndedStaysOut`; deadlock checked |
| `shim_gone`, `shim_boundary` | as little as shows them | findings 3 and 4 |
| `stranded` | 2 rounds, 1 amend each, 1 tab, 4 levels, 3 banners, 1 broken spell, 1 restart | `OncePerVersion`, `OnePerAbsence`, `OneOnScreen`, `BannerIsWanted`, `NotForgotten` |
| `stranded_broken` | 2 rounds, 1 level, no restart | finding 5 |
| `desk` | page: 2 rounds (a page round and a question), 1 amend, 1 comment, 1 Send and 2 catch-ups in the air, 1 trouble; stream: 1 tab, 1 push, 1 edge, 1 loss; pomodoro: 4 hitches over 3 jumps; watch: 2 missions, 3 moves; cache: 2 boards, 4 writes, 3 instants | `CommentsKept`, `NoStaleAnswer`, `CatchUpNeverReverts`; `AttendanceSettles`, `PushesReachTab`; `RunningIsArmed`, `IntervalsRunTheirTime`; `BatchSpeaksTrue`; `RowsAreTrue` |
| `page_missed` | 2 rounds, 2 troubles, no comment | finding 6 |
| `live` | delivery: 1 board, 2 responses; rounds: 1 call, horizon 6; stream: 1 tab, 1 loss | `OwedReachesAgent`, `RemarkReachesAgent`, `EveryAskReturns`, `TabsFollowed` |

Why the bounds are enough. Delivery: every interference is between two responses over one
round, or over an adopting board and another board, and both fit. Rounds: a third round
never interacts with the first, as only the latest one is retried or amended; the horizon
lets a wait lapse, a ceiling end it and a post follow. Shim: three boards are
indistinguishable from two for a session that holds one and parks one. Missions: every rule
relates one mission to at most one other, and a displaced session to one that displaced it;
two processes of one pid and one of another cover a reused pid and an id that moved; with one
mission of names by half the other is one named in full, which is how the two differ. Stranded:
the mark and the gate relate one announced round to one later round; three banners are enough
to repeat one. Page: two catch-ups are the least that can overtake each other, and one may
overtake a push; a second tab is an amend or a Send of the daemon's. Stream: tabs share only
the stream, so a second one repeats the first. Pomodoro: four hitches are a step, a refused
write, its retry refused and a restart. Watch: two missions share one batch. Cache: a write of
one board adopts the fingerprint over the other.

A property that says "unless" says it in its formula. `NothingLost` speaks of rounds
answered once their board had a ledger, `OwedPaidOnce` allows one repeat per failed mark (the
code prefers a repeat to a loss). `RetryIsSafe` leaves out boards the session got from a mint
that settled after its conversation ended. In `stranded`, `recordLost` is a banner record that
cannot be read back, which is either the documented memory loss (a restart over a store that
refused it) or finding 5, and `BannerIsWanted` holds in a store that took every write: the
code keeps a banner up when it cannot record its withdrawal. `forgotten` is a countdown that
went with the daemon, or was dropped at level "off": after a restart nothing decides for a
board until its next event. `JoinsKeepOneMission` speaks of joins that name the session by id
and process (`joined`): a join by the id alone, a plain bind and a takeover do not see every
mission the session has (below). `EndedStaysOut` excepts the missions with a name by half
(`vague`). `PushesReachTab` excepts a tab whose last re-read failed. `RowsAreTrue` excepts
`unheard` boards.

### Fairness

`live` has no fairness on the components that do not move: each condition is on the actions of
the `part` chosen.

* `Delivery!Fairness`: a response that was built either leaves or closes (weak: sockets do one
  or the other); the thread keeps waiting (strong, on `Wait`: an assumption on the agent); of
  the responses that carry a given round, not all close for ever (strong, per round). The
  daemon promises nothing without the last two, as a redelivery needs a request.
* `RoundsFairness`: the clock advances; the shim's timer fires; a GET that was sent arrives; a
  wait that is over is polled. All are timers or the local socket. Nothing is assumed of the
  reviewer, the agent or of `Cut`, which may happen for ever.
* `StreamFairness`: what was sent down a stream or posted arrives, the worker reconnects, posts
  again and beats, and the daemon sweeps what missed its beats. Losses are bounded; nothing is
  assumed of a tab, which may close, or die without a word, at any point.

## 4. Findings

1. A new board has no ledger, so the first packet adopts its past: an answer sent after its
   wait ended and before any packet left is never carried (`src/server.mjs:1899`, against ADR 107
   and `src/server.mjs:1848`).
2. Two responses adopting one old board at once can leave its history owed
   (`src/server.mjs:1901`, against `src/board.mjs:1746`).
3. A late 404 makes the shim forget a board that is alive (`bin/mcp.mjs:1247`, against `:1238`).
4. A mission boundary during a mint is undone by the mint (`bin/mcp.mjs:1700`, against `:1696`).
5. With a record on the board and a store that then refuses writes, the stranded rule
   announces the same round again (`src/stranded.mjs:211`, against `:127`).
6. A tab that missed a round's push and learns of the round with another push, or with its own
   Send's answer, never shows it: the catch-up compares boards, not sections
   (`src/ui.mjs:7330`, against `:5304`).

Each is the counterexample of a run that checks what the source says. One more is accepted by
the source itself (`src/server.mjs:1425`): what a `noWait` response carried into a call that
had already given up is gone.

Met while modelling, and kept out of the properties by their formulas or their bounds:

* Missions. A join that leaves the process out does not find the mission its session joined before
  a `/clear` and binds it to a second one (`src/missions.mjs:870`, against `:851`). A session that
  a launch replaced, its id cleared, may bind again by the new id alone, and its next join in full
  is then taken for its rejoin. A session that asked to take over m1, then joined m2, is bound to
  both when m1's holder leaves (`src/missions.mjs:920`, against `:851`); a plain bind looks at no
  other mission; the takeover's "is it gone" probe takes a reused pid for the session, as it
  leaves out the process's start.
* Page. The answer to a page round's Send drops every comment on its block, one queued while the
  Send was in the air included (`src/ui.mjs:6011`). An own Send's answer that overtakes an older
  push lets that push put the older board back; it also counts as a push, so a newer catch-up
  issued before it is dropped.
* Pomodoro. The retry of a refused boundary comes 60 s later and the expiry grace is 30 s, so the
  boundary is then always discarded rather than credited (`src/pomodoro.mjs:889`). A step of the
  clock between the last timeout and a pause is never repaired.
* MissionWatch. A death between two reads that a heartbeat's write separates is not published by
  the watch, which takes it for the write's own (`src/mission-watch.mjs:159`, against
  `PROTOCOL.md:2095`); the page's own poll finds it.
* WaitingCache. When a page cannot be written after its board was, the write is not noted, and the
  next board's write adopts the fingerprint over it: the row is stale until a lapse or an unnoted
  write, not for one poll (`src/server.mjs:2961`).

## 5. Proofs

`DeliveryProofs` proves, for any boards, rounds, calls and bounds that satisfy
`DeliveryAssumption` (`Cap[b]` a natural number per board, `Legacy` a set of boards, `MaxFaults`
a natural number), which TLC evaluates in every run of `Delivery`:

| Theorem | Says |
|---|---|
| `TypeCorrect` | `TypeOK` |
| `HoldsAreExclusive` | `HoldExclusive` |
| `AnswersAreNotLost` | `NothingLost` |
| `CommentsAreNotLost` | `RemarksNeverLost` |
| `PaidOnce` | `OwedPaidOnce` |
| `KeepsThePromise` | `Delivery` implements `OwedAnswers` |

`NothingLost` alone is not inductive: a response could be about to mark what it does not carry.
`IInv` adds `CallCarries` (what a response will mark it carries, unless the mark is an adoption;
what it hands out as owed it holds and will mark), `DiskAgrees` (what is on a ledger was sent,
asked something, and is on a board that has one) and `PaidOnlyByFault` (a round off the ledger, or
in a response on the wire, has been paid at most once per failed mark). There is one lemma per
action that it preserves `IInv`; `DrainCarries` and `NewCall` are the shared facts about what a
new response holds, and `MarkLands` about what leaving does to the disk. The refinement maps the
departure of a response to `Give`, an answer to `Submit`, and everything else to a stutter.

`RoundsProofs` proves, for any calls and requests, any bounds and any lengths of the waits that
satisfy `RoundsAssumption` (all naturals; the wait, the least move and the grace positive; the
ceiling no shorter than a wait):

| Theorem | Says |
|---|---|
| `RoundsTypeCorrect` | `RoundsTypeOK` |
| `ToldIsOver` | `TimedOutIsOver` |
| `ShimIsPatient` | `ShimOutlastsDaemon` |
| `AsksAreAwaited` | `AskIsAwaited` |
| `WaitsAreKept` | `Rounds` implements `AwaitedRounds` (`KeepsWaits`) |
| `WaitsDieOnce` | `WaitDiesOnce`, which no run checks as `KeepsWaits` says more |

`RoundsInv` strengthens the two invariants with `RoundsSound` (a round once awaited keeps a
deadline, and while it is open only the deadline ends its being awaited), `LastWasAwaited` (the
last request is repeated only into a round that was awaited; otherwise a repeat would hand out
a round nobody waits on) and `CallsSound` (a round that does not move lapses before the poll's
own limit; a poll never cut off has let no end of its wait go by; otherwise the daemon could
still be holding when the shim gives up). What a step does to the board is stated once:
`RoundStep` is what any step may make of a round and `BoardStep` of the list. The sweep, the
restart of a moving deadline, a post, a Send, an abandon, an end and an extension are shown to
be such steps, so each action's lemma is left with its own calls.

For the refinement, the sweep is a stutter: it changes neither whether a round is live nor its
deadline (`SameWait`). Every other step moves the deadline of one round at most
(`OneRoundMoves`, and for posts `PostMoves`) or ends some and moves none (`RoundsEnd`). A clock
tick is an `End`, as it only lets deadlines pass; a poll that timed out is a `TimeOut`, a post
an `Ask` or a `Post`. `IdleIsFree` (a call that is idle waits on no round) is inductive beside
`RoundsInv`, and is why an `Ask` finds its call free.

`WaitingCacheProofs` proves, for any boards, clock and number of writes (`CacheBounds`):

| Theorem | Says |
|---|---|
| `CacheTypeCorrect` | `CacheTypeOK` |
| `RowsTrue` | `RowsAreTrue` |

`RowsAreTrue` speaks only of a cache that may be served now. It is not inductive: a cache whose
fingerprint is stale becomes servable again when the next noted write adopts the fingerprint.
`CacheInv` therefore keeps the rows of every heard board right up to the cached lapse even
while the fingerprint differs, with that lapse no later than the deadline of any row
(`RowsKept`); the second half is what lets the clock tick. `VersionsCounted` bounds the
versions.

`ShimProofs` proves, for any finite set of calls, any content and any bounds
(`ShimAssumption`):

| Theorem | Says |
|---|---|
| `ShimTypeCorrect` | `ShimTypeOK` |
| `OneBoardEach` | `OneBoard` |
| `FreshSpares` | `FreshSparesConcurrent` |
| `ParkedGetsClosed` | `ParkedIsClosed` |
| `NeverIntoThePast` | `NotIntoThePast` |
| `RetriesAreSafe` | `RetryIsSafe` |

`OneBoard` counts boards; `OneKnown` says the same of two of them, and is kept because
`CurrentIsHeld` has the one of this conversation in the session or in the post under way, and a
post goes out only into a conversation that holds none (`CreateSound`). `CallsSound` is what a
call carries over its awaits: the conversation it was made in is not ahead of its board's.
`KeysAgree` is what makes a retry safe: for every board there is one content that minted it,
and whoever is about to post to it, whether the session, the mint or another call, derives the
key from that one. `SpareKept` counts the calls still waiting to declare a boundary, so that a
call that is woken finds one left; it is why the calls are finite.

`StrandedProofs` proves, for any tabs, banner levels and bounds (`StrandedAssumption`, which
also has "no record" differ from every record):

| Theorem | Says |
|---|---|
| `StrandedTypeCorrect` | `StrandedTypeOK` |
| `AnnouncedOncePerVersion` | `OncePerVersion` |
| `AnnouncedOncePerAbsence` | `OnePerAbsence` |
| `NeverTwoOnScreen` | `OneOnScreen` |
| `BannersAreWanted` | `BannerIsWanted` |
| `CountdownIsKept` | `NotForgotten` |

The inductive part is `RecordFollows`: as long as the record can be read it is in one place,
names the banner on screen if there is one, and lets another be raised only when one is due.
`Counted` then bounds the banners of a round by what the mark still allows: one fewer than its
versions above the mark, and one per version at or below it. `BannerIsWanted` and
`NotForgotten` are inductive beside these, with `LookedAt` (a board that is looked at counts
nothing down) and `StoreKept`.

`MissionsProofs` proves, for any missions, session ids, processes and pids:

| Theorem | Says |
|---|---|
| `MissionTypeCorrect` | `MissionTypeOK` |
| `NeverEverDisplaced` | `NeverDisplaced` |
| `JoinsAlwaysKeepOneMission` | `JoinsKeepOneMission` |
| `TheEndedStayOut` | `EndedStaysOut` |
| `SessionsTypeCorrect` | `TypesOK` of `MCSessions` |

No call has to name its process, and the theorems hold for every `MaxVague` and `MaxSurprises`.
What a call leaves out is what the two properties turn on: a bind without a process, at a mission
whose session is bound by its pid, is heard as that session whatever id it gives, and puts its id
beside the other one's pid (`otherId` in `src/missions.mjs:721` asks for a bound session without a
pid), so the record names two sessions. Hence `joined` and `vague`: a mission that such a call
wrote is not counted as joined, until a call in full joins it anew, and is not spoken of by
`EndedStaysOut`. `NamesInv` is about the names that are left (`Refs`): those of the missions
joined in full, and all those of a mission no call named by half. Two of them that a running
session answers to match each other (`Agree`), none is of a process yet to start (`Born`), and
no two joined missions have matching sessions (`Disjoint`). A pid or an id alone would not do, as
both are reused. The point of the proof is that a name by half never gets into `Refs`, whichever
mission it is written to.

`DeskProofs` proves, for any lengths of the intervals and any lateness of the timeout that
satisfy the assumptions, and for any missions:

| Theorem | Says |
|---|---|
| `PomoTypeCorrect`, `WatchTypeCorrect` | `PomoTypeOK`, `WatchTypeOK` |
| `RunningAlwaysArmed` | `RunningIsArmed` |
| `IntervalsRun` | `IntervalsRunTheirTime` |
| `BatchAlwaysSpeaksTrue` | `BatchSpeaksTrue` |
| `DeskTypeCorrect` | `TypesOK` of `MCDesk` |

`DeskTypeCorrect` and `SessionsTypeCorrect` rest on one fact each (`DeskParts`,
`SessionParts`): a behaviour of the components side by side is, for each of them, a behaviour
of that component, which stutters while another one moves. The same fact carries every theorem
about a component over to the run it shares with others.

`OwedIsKept` ties the file to the clock nobody sets: `time` is what is owed, but for the step that
the wait under way has met and will take back, or else both are past the grace. It would fail with
a floor of `time` at the grace itself, from which taking back a forward step brings an interval
long over into the grace again; hence `LongOver`. `PausedIsUnarmed` and `IdleIsUnarmed` say when
no wait is under way. `BatchSpeaksTrue` needs only what a read finds and that a stamp is never
ahead of the writes.

`TabProofs` proves, for any tabs, rounds, comments and bounds (`PageBounds`: at least one
round):

| Theorem | Says |
|---|---|
| `StreamTypeCorrect` | `StreamTypeOK` |
| `AttendanceAlwaysSettles` | `AttendanceSettles` |
| `PushesAlwaysReachTab` | `PushesReachTab` |
| `CommentsAlwaysKept` | `CommentsKept` |
| `CatchUpsNeverRevert` | `CatchUpNeverReverts` |
| `PageTypeCorrect` | `PageTypeOK` |
| `AnswersNeverStale` | `NoStaleAnswer` |

For the stream, `Names` has every mention of a Watcher's id, in a tab, in the worker, in a post
or a report and on the stream, speak of the same tab. `Attending` follows a tab's latest
report: it is on its way to the tab's Watcher, or the Watcher has it (`Landing`), and a Watcher
that heard the latest is right (`SeqSound`). `Reaches` does the same for the latest push. For the
page, what the daemon answered it stored it holds (`CommentsInv`); and boards are ordered by
content and by how far a round has come (`NoOlder`): the tab's is no newer than the daemon's,
and the catch-ups it would still apply lie between the two in the order they were read
(`BoardsInv`), which is what dropping the overtaken reads is for. `TabInv` adds what the
sections, the drafts and the Sends are.

A catch-up is taken on as pushes replayed one by one, in ascending order of their rounds
(`Replayed`, a recursive function over `Ascending`). What every push keeps, the whole replay
keeps: `ReplayedStays` and `SentRoundsStay` show that by induction over the rounds replayed,
from `UpTo` (induction on the position in a list, out of the library's fact that a nonempty set
of naturals has a least member) and `InTurn` (steps that keep a set lead from a member of it,
one after the other, to a member). `ReplayedFacts` then says of the tab after a catch-up that
it keeps its types, has no draft for a round whose text changed, and shows the same text of any
other, which is what `NoStaleAnswer` needs of a step that replays several rounds.
`Resync` says of the board that it is the fresh one afterwards, as in each branch of
`applyResync` that has anything to take on.

Only model-checked: the properties of `live`, as liveness under fairness is out of TLAPS's
reach.

## 6. Plan

Done in this order, most central first: `OwedAnswers`, `Delivery` and its proofs; `Rounds`;
`Shim`; `Stranded`; `Missions`; `Stream`; `Page`; `Pomodoro`; `MissionWatch`; `WaitingCache`;
the proofs of `Rounds` and `WaitingCache`; those of `Shim`, `Stranded`, `Pomodoro`,
`MissionWatch`, `Missions`, `Stream` and `Page`; the replay of a catch-up and what it keeps; the
components of a run side by side; `AwaitedRounds` and its refinement.
Next:

1. Abstract specifications that `Stranded` and `Shim` implement: one announcement per absence,
   and one board per conversation.
2. Orders on a mission (added, seen, resent, acknowledged by the bound session only), as a part
   of `Missions`.
3. `BlockIds`: the id ledger of `src/board.mjs` as operators with theorems.

## 7. Not modelled

Most of the repository's lines are text the models have no use for: styles and markup
(`src/styles.mjs`, `src/render.mjs`, the templates in `src/ui.mjs` and `src/indexpage.mjs`),
generated bundles kept as examples (`examples/`), and comments, which are more than half of
several files. Modelling a larger share of lines would mean naming lines no definition
translates.

Left out beside those: authorisation, rate limits, sizes and wording; block content, ids and
anchors; assets; orders, PR facts and card statuses of missions; handoff tokens, whose single
use is one synchronous map operation; the process table and session files, whose answers are
inputs; native processes beyond "on screen or not"; installation. `PROJECT.json` lists every
component with its status.
