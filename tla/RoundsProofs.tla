---------------------------- MODULE RoundsProofs ----------------------------
(***************************************************************************)
(* Proofs about Rounds, for any calls and requests, any bound on the       *)
(* rounds and the clock, and any lengths of the waits.                     *)
(***************************************************************************)
EXTENDS Rounds, SequenceTheorems, TLAPS

-----------------------------------------------------------------------------
(* The inductive invariant.                                                *)

(* A round that was awaited keeps its deadline; while it is open, only the *)
(* deadline ends its being awaited; and no deadline is further away than a *)
(* wait's length.                                                          *)
Sound(r, t) ==
    /\ r \in RoundRecord
    /\ r.awaited \/ r.asks => r.deadline # 0
    /\ r.status = "open" /\ r.deadline # 0 /\ ~r.awaited => r.deadline <= t
    /\ r.deadline <= t + Timeout

RoundsSound == \A n \in 1 .. Len(rounds) : Sound(rounds[n], now)

(* The last request is retried only into a round that was awaited.         *)
LastWasAwaited ==
    \A q \in last \cap (Question \cup Page) :
        rounds # <<>> => rounds[Len(rounds)].deadline # 0

(* A call is on a round of the board, which, if its deadline does not      *)
(* move, lapses before the poll's own limit.  One that was never cut off   *)
(* and follows a moving round took its GET up in the instant of its post,  *)
(* and the daemon's poll has let no end of its wait go by.                 *)
CallSound(k, rs, t) ==
    k.at # "idle" =>
        /\ k.round \in 1 .. Len(rs)
        /\ k.at = "attached" /\ ~rs[k.round].moving =>
              rs[k.round].deadline <= k.entered + Timeout
        /\ ~k.cut /\ rs[k.round].moving =>
              /\ rs[k.round].deadline # 0
              /\ t <= rs[k.round].deadline
              /\ k.at = "detached" => t = k.since
              /\ k.at = "attached" => k.entered = k.since /\ t <= k.since + Ceiling

CallsSound == \A c \in AskCalls : CallSound(calling[c], rounds, now)

ToldAndAlone ==
    /\ told \subseteq 1 .. Len(rounds)
    /\ alone \subseteq 1 .. Len(rounds)

RoundsInv ==
    /\ RoundsTypeOK
    /\ RoundsSound
    /\ LastWasAwaited
    /\ CallsSound
    /\ ToldAndAlone
    /\ TimedOutIsOver
    /\ ShimOutlastsDaemon

-----------------------------------------------------------------------------
(* What a step may make of a round, and of the board.                      *)

RoundStep(r, s) ==
    /\ Sound(s, now)
    /\ s.moving = r.moving
    /\ ~Live(r, now) => ~Live(s, now) /\ s.deadline = r.deadline
    /\ r.deadline # 0 => s.deadline # 0
    /\ s.deadline # r.deadline => r.moving /\ now <= s.deadline

BoardStep(bd) ==
    /\ bd \in Seq(RoundRecord)
    /\ Len(rounds) <= Len(bd) /\ Len(bd) <= MaxRound
    /\ \A n \in 1 .. Len(rounds) : RoundStep(rounds[n], bd[n])
    /\ \A n \in 1 .. Len(bd) : Sound(bd[n], now)

BoardMoves == BoardStep(rounds') /\ now' = now

LEMMA Numbers ==
    /\ MaxRound \in Nat /\ LastPost \in Nat /\ Horizon \in Nat /\ Timeout \in Nat
    /\ MinMove \in Nat /\ Ceiling \in Nat /\ Grace \in Nat
    /\ Timeout > 0 /\ MinMove > 0 /\ Grace > 0 /\ Ceiling >= Timeout
  BY RoundsAssumption

LEMMA StepStays ==
  ASSUME NEW r, Sound(r, now)
  PROVE  RoundStep(r, r)
  BY DEF RoundStep

LEMMA StepTwice ==
  ASSUME NEW r, NEW s, NEW u, RoundStep(r, s), RoundStep(s, u)
  PROVE  RoundStep(r, u)
  BY DEF RoundStep

LEMMA SweepIsStep ==
  ASSUME NEW r, now \in 0 .. Horizon, Sound(r, now)
  PROVE  /\ AwaitedOpen(r) /\ Lapsed(r, now) => RoundStep(r, [r EXCEPT !.awaited = FALSE])
         /\ RoundStep(r, r)
  BY Numbers DEF RoundStep, Sound, RoundRecord, Time, AwaitedOpen, Lapsed, Live

LEMMA RestartIsStep ==
  ASSUME NEW r, now \in 0 .. Horizon, Sound(r, now)
  PROVE  RoundStep(r, RestartMoving(r, now))
  BY Numbers DEF RoundStep, Sound, RoundRecord, Time, AwaitedOpen, Lapsed, Live,
                 RestartMoving, DeadlineMoves

LEMMA CloseLapsedIsStep ==
  ASSUME NEW bd, now \in 0 .. Horizon, BoardStep(bd)
  PROVE  /\ BoardStep(CloseLapsed(bd, now))
         /\ Len(CloseLapsed(bd, now)) = Len(bd)
         /\ \A n \in 1 .. Len(bd) :
              CloseLapsed(bd, now)[n] = IF AwaitedOpen(bd[n]) /\ Lapsed(bd[n], now)
                                        THEN [bd[n] EXCEPT !.awaited = FALSE] ELSE bd[n]
  <1> DEFINE e(n) == IF AwaitedOpen(bd[n]) /\ Lapsed(bd[n], now)
                     THEN [bd[n] EXCEPT !.awaited = FALSE] ELSE bd[n]
             swept == CloseLapsed(bd, now)
  <1>1. Len(bd) \in Nat /\ DOMAIN bd = 1 .. Len(bd)
    BY LenProperties DEF BoardStep
  <1>2. swept = [n \in 1 .. Len(bd) |-> e(n)]
    BY <1>1 DEF CloseLapsed
  <1>3. \A n \in 1 .. Len(bd) : RoundStep(bd[n], e(n))
    BY SweepIsStep DEF BoardStep
  <1>4. \A n \in 1 .. Len(bd) : e(n) \in RoundRecord
    BY <1>3 DEF RoundStep, Sound
  <1>5. swept \in [1 .. Len(bd) -> RoundRecord]
    BY <1>2, <1>4
  <1>6. swept \in Seq(RoundRecord) /\ Len(swept) = Len(bd)
    BY <1>1, <1>5, SeqDef
  <1>7. \A n \in 1 .. Len(bd) : swept[n] = e(n)
    BY <1>2
  <1>8. BoardStep(swept)
    <2>1. \A n \in 1 .. Len(rounds) : n \in 1 .. Len(bd)
      BY <1>1 DEF BoardStep
    <2>2. \A n \in 1 .. Len(rounds) : RoundStep(rounds[n], swept[n])
      BY <2>1, <1>3, <1>7, StepTwice DEF BoardStep
    <2>3. \A n \in 1 .. Len(swept) : Sound(swept[n], now)
      BY <1>3, <1>6, <1>7 DEF RoundStep
    <2> QED BY <2>2, <2>3, <1>6 DEF BoardStep
  <1> QED BY <1>6, <1>7, <1>8

LEMMA ExceptIsStep ==
  ASSUME NEW bd, BoardStep(bd), NEW n \in 1 .. Len(bd), NEW r, RoundStep(bd[n], r)
  PROVE  /\ BoardStep([bd EXCEPT ![n] = r])
         /\ Len([bd EXCEPT ![n] = r]) = Len(bd)
         /\ [bd EXCEPT ![n] = r][n] = r
  <1> DEFINE new == [bd EXCEPT ![n] = r]
  <1>1. r \in RoundRecord
    BY DEF RoundStep, Sound
  <1>2. /\ new \in Seq(RoundRecord)
        /\ Len(new) = Len(bd)
        /\ \A j \in 1 .. Len(bd) : new[j] = IF j = n THEN r ELSE bd[j]
    BY <1>1, ExceptSeq DEF BoardStep
  <1>3. Len(bd) \in Nat
    BY LenProperties DEF BoardStep
  <1>4. \A j \in 1 .. Len(rounds) : j \in 1 .. Len(bd) /\ RoundStep(rounds[j], new[j])
    BY <1>2, <1>3, StepTwice DEF BoardStep
  <1>5. \A j \in 1 .. Len(new) : Sound(new[j], now)
    BY <1>2 DEF BoardStep, RoundStep
  <1> HIDE DEF new
  <1> QED BY <1>2, <1>4, <1>5 DEF BoardStep, new

LEMMA BoardIsStep ==
  ASSUME RoundsInv
  PROVE  /\ now \in 0 .. Horizon
         /\ Len(rounds) \in Nat /\ DOMAIN rounds = 1 .. Len(rounds)
         /\ BoardStep(rounds)
         /\ BoardStep(Board) /\ Len(Board) = Len(rounds)
         /\ \A n \in 1 .. Len(rounds) :
              Board[n] = IF AwaitedOpen(rounds[n]) /\ Lapsed(rounds[n], now)
                         THEN [rounds[n] EXCEPT !.awaited = FALSE] ELSE rounds[n]
  <1>1. now \in 0 .. Horizon /\ rounds \in Seq(RoundRecord) /\ Len(rounds) <= MaxRound
    BY DEF RoundsInv, RoundsTypeOK
  <1>2. Len(rounds) \in Nat /\ DOMAIN rounds = 1 .. Len(rounds)
    BY <1>1, LenProperties
  <1>3. BoardStep(rounds)
    BY <1>1, <1>2, StepStays DEF BoardStep, RoundsInv, RoundsSound
  <1> QED BY <1>1, <1>2, <1>3, CloseLapsedIsStep DEF Board

LEMMA FreshIsSound ==
  ASSUME now \in 0 .. Horizon,
         NEW a \in BOOLEAN, NEW w \in BOOLEAN, NEW m \in BOOLEAN, a => w
  PROVE  LET r == [status |-> "open", asks |-> a, awaited |-> w,
                   deadline |-> IF w THEN now + Timeout ELSE 0, moving |-> m]
         IN  Sound(r, now) /\ (w => Live(r, now))
  <1>1. CASE w
    BY <1>1, Numbers DEF Sound, RoundRecord, Time, Live, AwaitedOpen
  <1>2. CASE ~w
    BY <1>2, Numbers DEF Sound, RoundRecord, Time, Live, AwaitedOpen
  <1> QED BY <1>1, <1>2

LEMMA MintIsSound ==
  ASSUME now \in 0 .. Horizon, NEW q \in Request
  PROVE  /\ Sound(Mint(q), now)
         /\ q \in Question \cup Page => Live(Mint(q), now)
  <1> DEFINE a == q \in Question
             w == q \in Question \cup Page
             m == w /\ q \notin Plain
  <1>1. a \in BOOLEAN /\ w \in BOOLEAN /\ m \in BOOLEAN /\ (a => w)
    OBVIOUS
  <1>2. Mint(q) = [status |-> "open", asks |-> a, awaited |-> w,
                   deadline |-> IF w THEN now + Timeout ELSE 0, moving |-> m]
    BY DEF Mint
  <1> HIDE DEF a, w, m
  <1>3. Sound(Mint(q), now) /\ (w => Live(Mint(q), now))
    BY <1>1, <1>2, FreshIsSound
  <1> QED BY <1>3 DEF w

LEMMA AppendIsStep ==
  ASSUME NEW bd, BoardStep(bd), NEW r, Sound(r, now), Len(bd) < MaxRound
  PROVE  /\ BoardStep(Append(bd, r))
         /\ Len(Append(bd, r)) = Len(bd) + 1
         /\ Append(bd, r)[Len(bd) + 1] = r
  <1> DEFINE new == Append(bd, r)
  <1>1. Len(bd) \in Nat /\ Len(rounds) <= Len(bd) /\ MaxRound \in Nat
    BY LenProperties, Numbers DEF BoardStep
  <1>2. r \in RoundRecord
    BY DEF Sound
  <1>3. /\ new \in Seq(RoundRecord)
        /\ Len(new) = Len(bd) + 1
        /\ \A j \in 1 .. Len(bd) : new[j] = bd[j]
        /\ new[Len(bd) + 1] = r
    BY <1>2, AppendProperties DEF BoardStep
  <1>4. \A j \in 1 .. Len(rounds) : j \in 1 .. Len(bd)
    BY <1>1, LenProperties
  <1>5. \A j \in 1 .. Len(new) : j \in 1 .. Len(bd) \/ j = Len(bd) + 1
    BY <1>1, <1>3
  <1>6. \A j \in 1 .. Len(rounds) : RoundStep(rounds[j], new[j])
    BY <1>3, <1>4 DEF BoardStep
  <1>7. \A j \in 1 .. Len(new) : Sound(new[j], now)
    BY <1>3, <1>5 DEF BoardStep
  <1>8. Len(rounds) \in Nat \/ Len(rounds) <= Len(new)
    BY <1>1, <1>3
  <1> HIDE DEF new
  <1> QED BY <1>1, <1>3, <1>6, <1>7 DEF BoardStep, new

-----------------------------------------------------------------------------
(* The writes of the actions are steps of the board.                       *)

LEMMA RestartKeepsLive ==
  ASSUME NEW r, now \in 0 .. Horizon, Sound(r, now), Live(r, now)
  PROVE  Live(RestartMoving(r, now), now)
  BY Numbers DEF Sound, RoundRecord, Time, Live, AwaitedOpen, RestartMoving, DeadlineMoves

LEMMA ResumableIsLive ==
  ASSUME NEW r, now \in 0 .. Horizon, Sound(r, now), Resumable(r), r.deadline # 0
  PROVE  Live(r, now)
  BY Numbers DEF Sound, RoundRecord, Time, Live, AwaitedOpen, Resumable, Lapsed

(* A post is a step, and a post to wait on leaves the latest round live.   *)
LEMMA ApplyIsStep ==
  ASSUME RoundsInv, NEW q \in Request, NEW drifted \in BOOLEAN, Apply(q, drifted)
  PROVE  /\ BoardStep(rounds') /\ last' = {q}
         /\ Len(rounds') \in 1 .. MaxRound
         /\ q \in Question \cup Page => Live(rounds'[Len(rounds')], now)
  <1> DEFINE n == Len(rounds)
             again == RestartMoving(Board[n], now)
             moved == [Board EXCEPT ![n] = again]
  <1>1. /\ now \in 0 .. Horizon /\ n \in Nat /\ DOMAIN rounds = 1 .. n
        /\ BoardStep(rounds) /\ BoardStep(Board) /\ Len(Board) = n
        /\ n <= MaxRound /\ MaxRound \in Nat
    BY BoardIsStep, Numbers DEF BoardStep
  <1>2. CASE Dedupes(q, drifted) \/ Amends(q, drifted)
    <2>1. rounds # <<>> /\ Resumable(Board[n])
      BY <1>2 DEF Dedupes, Amends, Retries
    <2>2. n \in 1 .. Len(Board) /\ n \in 1 .. Len(rounds)
      BY <1>1, <2>1, EmptySeq DEF BoardStep
    <2>3. Sound(Board[n], now) /\ RoundStep(rounds[n], Board[n])
      BY <1>1, <2>2 DEF BoardStep
    <2>4. RoundStep(Board[n], again)
      BY <1>1, <2>3, RestartIsStep
    <2>5. BoardStep(moved) /\ Len(moved) = n /\ moved[n] = again
      BY <1>1, <2>2, <2>4, ExceptIsStep
    <2>6. /\ last' = {q}
          /\ \/ rounds' = moved
             \/ rounds' = rounds /\ moved = Board
      BY <1>2 DEF Apply
    <2>7. ASSUME q \in Question \cup Page PROVE Live(Board[n], now)
      <3>1. CASE Dedupes(q, drifted)
        <4>1. rounds[n].deadline # 0
          BY <2>1, <2>7, <3>1 DEF Dedupes, Retries, RoundsInv, LastWasAwaited
        <4> QED BY <1>1, <2>1, <2>3, <4>1, ResumableIsLive DEF RoundStep
      <3>2. CASE Amends(q, drifted)
        <4>1. Board[n].deadline # 0
          BY <2>3, <3>2 DEF Amends, Sound
        <4> QED BY <1>1, <2>1, <2>3, <4>1, ResumableIsLive
      <3> QED BY <1>2, <3>1, <3>2
    <2>8. ASSUME q \in Question \cup Page PROVE Live(rounds[n], now) /\ Live(again, now)
      BY <1>1, <2>3, <2>7, <2>8, RestartKeepsLive DEF RoundStep
    <2>9. CASE rounds' = moved
      BY <1>1, <2>2, <2>5, <2>6, <2>8, <2>9
    <2>10. CASE rounds' = rounds
      BY <1>1, <2>2, <2>6, <2>8, <2>10
    <2> QED BY <2>6, <2>9, <2>10
  <1>3. CASE ~(Dedupes(q, drifted) \/ Amends(q, drifted))
    <2>1. n < MaxRound /\ rounds' = Append(Board, Mint(q)) /\ last' = {q}
      BY <1>3 DEF Apply
    <2>2. Sound(Mint(q), now) /\ (q \in Question \cup Page => Live(Mint(q), now))
      BY <1>1, MintIsSound
    <2>3. BoardStep(rounds') /\ Len(rounds') = n + 1 /\ rounds'[n + 1] = Mint(q)
      BY <1>1, <2>1, <2>2, AppendIsStep
    <2> QED BY <1>1, <2>1, <2>2, <2>3
  <1> QED BY <1>2, <1>3

LEMMA EndedIsStep ==
  ASSUME NEW r, now \in 0 .. Horizon, now > 0, Sound(r, now), Live(r, now), r.moving
  PROVE  RoundStep(r, [r EXCEPT !.deadline = now])
  <1> DEFINE s == [r EXCEPT !.deadline = now]
  <1>1. r \in RoundRecord /\ r.awaited /\ now \in Time
    BY Numbers DEF Sound, Live, AwaitedOpen, Time
  <1>2. s \in RoundRecord /\ s.deadline = now
    BY <1>1 DEF RoundRecord
  <1>3. s.awaited /\ s.moving
    BY <1>1 DEF RoundRecord
  <1> HIDE DEF s
  <1>4. Sound(s, now)
    BY <1>2, <1>3, Numbers DEF Sound
  <1>5. s.moving = r.moving
    BY <1>1, <1>2, <1>3 DEF RoundRecord
  <1>6. RoundStep(r, s)
    BY <1>2, <1>4, <1>5, Numbers DEF RoundStep
  <1> QED BY <1>6 DEF s

(* Where a poll ends on an open round, the round is no longer live.        *)
LEMMA EndWaitIsStep ==
  ASSUME RoundsInv, NEW c \in AskCalls, PollEnds(c), RoundOf(c).status = "open"
  PROVE  LET n == calling[c].round
         IN  /\ BoardStep(EndWait(n)) /\ Len(EndWait(n)) = Len(rounds)
             /\ n \in 1 .. Len(rounds)
             /\ ~Live(EndWait(n)[n], now)
  <1> DEFINE n == calling[c].round
             k == calling[c]
             r == Board[n]
             e == IF r.moving /\ AwaitedOpen(r) /\ ~Lapsed(r, now)
                  THEN [r EXCEPT !.deadline = now] ELSE r
             ended == [Board EXCEPT ![n] = e]
  <1>1. /\ now \in 0 .. Horizon /\ Len(rounds) \in Nat
        /\ BoardStep(rounds) /\ BoardStep(Board) /\ Len(Board) = Len(rounds)
    BY BoardIsStep
  <1>2. k \in CallRecord /\ CallSound(k, rounds, now) /\ k.at = "attached"
    BY DEF RoundsInv, RoundsTypeOK, CallsSound, PollEnds
  <1>3. n \in 1 .. Len(rounds)
    BY <1>2 DEF CallSound
  <1>4. Sound(rounds[n], now) /\ Sound(r, now) /\ RoundStep(rounds[n], r)
    BY <1>1, <1>3 DEF BoardStep
  <1>5. TimesOut(c)
    BY DEF PollEnds
  <1>6. k.entered \in Nat /\ rounds[n].deadline \in Nat /\ r.deadline \in Nat
    BY <1>2, <1>4, Numbers DEF CallRecord, Sound, RoundRecord, Time
  <1>7. now > 0 \/ ~rounds[n].moving
    BY <1>1, <1>5, <1>6, Numbers DEF TimesOut, HeldUntil, RoundOf, Lapsed
  <1>8. ~rounds[n].moving => rounds[n].deadline <= now
    BY <1>1, <1>2, <1>5, <1>6, Numbers DEF TimesOut, HeldUntil, RoundOf, CallSound
  <1>9. RoundStep(r, e)
    <2>1. CASE r.moving /\ AwaitedOpen(r) /\ ~Lapsed(r, now)
      <3>1. now > 0
        BY <1>4, <1>7, <2>1 DEF RoundStep
      <3>2. Live(r, now)
        BY <1>1, <1>4, <1>6, <2>1 DEF Live, Lapsed, Sound, AwaitedOpen
      <3>3. e = [r EXCEPT !.deadline = now]
        BY <2>1
      <3> HIDE DEF e, r
      <3> QED BY <1>1, <1>4, <2>1, <3>1, <3>2, <3>3, EndedIsStep
    <2>2. CASE ~(r.moving /\ AwaitedOpen(r) /\ ~Lapsed(r, now))
      <3>1. e = r
        BY <2>2
      <3> HIDE DEF e
      <3> QED BY <1>4, <3>1, StepStays
    <2> QED BY <2>1, <2>2
  <1>10. BoardStep(ended) /\ Len(ended) = Len(rounds) /\ ended[n] = e
    <2> HIDE DEF e, n
    <2> QED BY <1>1, <1>3, <1>9, ExceptIsStep
  <1>11. EndWait(n) = CloseLapsed(ended, now)
    BY DEF EndWait
  <1>12. /\ BoardStep(EndWait(n)) /\ Len(EndWait(n)) = Len(rounds)
         /\ EndWait(n)[n] = IF AwaitedOpen(e) /\ Lapsed(e, now)
                            THEN [e EXCEPT !.awaited = FALSE] ELSE e
    <2> HIDE DEF e, n, ended
    <2> QED BY <1>1, <1>3, <1>10, <1>11, CloseLapsedIsStep
  <1>13. ~Live(EndWait(n)[n], now)
    <2>1. CASE AwaitedOpen(e) /\ Lapsed(e, now)
      <3>1. e \in RoundRecord
        BY <1>9 DEF RoundStep, Sound
      <3> HIDE DEF e
      <3> QED BY <1>12, <2>1, <3>1 DEF Live, AwaitedOpen, RoundRecord
    <2>2. CASE ~(AwaitedOpen(e) /\ Lapsed(e, now))
      <3>1. CASE r.moving /\ AwaitedOpen(r) /\ ~Lapsed(r, now)
        BY <1>1, <1>4, <1>12, <2>2, <3>1 DEF Live, AwaitedOpen, Sound, RoundRecord
      <3>2. CASE ~r.moving
        <4>1. r.deadline <= now
          BY <1>4, <1>8, <3>2 DEF RoundStep
        <4> QED BY <1>1, <1>6, <1>12, <2>2, <3>2, <4>1 DEF Live
      <3>3. CASE ~AwaitedOpen(r)
        BY <1>12, <2>2, <3>3 DEF Live
      <3>4. CASE AwaitedOpen(r) /\ Lapsed(r, now)
        BY <2>2, <3>4
      <3> QED BY <3>1, <3>2, <3>3, <3>4
    <2> QED BY <2>1, <2>2
  <1> QED BY <1>3, <1>12, <1>13

-----------------------------------------------------------------------------
(* The invariant through a step that leaves the clock alone.               *)

LEMMA CallStays ==
  ASSUME NEW bd, BoardStep(bd), now \in 0 .. Horizon, rounds \in Seq(RoundRecord),
         NEW k \in CallRecord, CallSound(k, rounds, now)
  PROVE  CallSound(k, bd, now)
  <1> SUFFICES ASSUME k.at # "idle" PROVE CallSound(k, bd, now)
    BY DEF CallSound
  <1> DEFINE n == k.round
  <1>1. n \in 1 .. Len(rounds) /\ n \in 1 .. Len(bd)
    BY LenProperties DEF CallSound, BoardStep
  <1>2. RoundStep(rounds[n], bd[n])
    BY <1>1 DEF BoardStep
  <1> QED BY <1>1, <1>2 DEF CallSound, RoundStep

(* What was so stays so while the board takes a step.                      *)
LEMMA Kept ==
  ASSUME RoundsInv, BoardStep(rounds')
  PROVE  /\ told \subseteq 1 .. Len(rounds') /\ alone \subseteq 1 .. Len(rounds')
         /\ \A c \in AskCalls : CallSound(calling[c], rounds', now)
         /\ \A n \in told : ~Live(rounds'[n], now)
         /\ \A n \in alone : ~rounds'[n].moving
         /\ last' = last /\ Len(rounds') = Len(rounds) => LastWasAwaited'
  <1>1. /\ now \in 0 .. Horizon /\ Len(rounds) \in Nat /\ rounds \in Seq(RoundRecord)
        /\ Len(rounds) <= Len(rounds') /\ Len(rounds') \in Nat
        /\ rounds' \in Seq(RoundRecord)
    BY BoardIsStep, LenProperties DEF BoardStep, RoundsInv, RoundsTypeOK
  <1>2. told \subseteq 1 .. Len(rounds') /\ alone \subseteq 1 .. Len(rounds')
    BY <1>1 DEF RoundsInv, ToldAndAlone
  <1>3. ASSUME NEW c \in AskCalls PROVE CallSound(calling[c], rounds', now)
    BY <1>1, CallStays DEF RoundsInv, RoundsTypeOK, CallsSound
  <1>4. ASSUME NEW n \in told PROVE ~Live(rounds'[n], now)
    <2>1. RoundStep(rounds[n], rounds'[n]) /\ ~Live(rounds[n], now)
      BY DEF RoundsInv, ToldAndAlone, TimedOutIsOver, BoardStep
    <2> QED BY <2>1 DEF RoundStep
  <1>5. ASSUME NEW n \in alone PROVE ~rounds'[n].moving
    <2>1. RoundStep(rounds[n], rounds'[n]) /\ ~rounds[n].moving
      BY DEF RoundsInv, ToldAndAlone, ShimOutlastsDaemon, BoardStep
    <2> QED BY <2>1 DEF RoundStep
  <1>6. ASSUME last' = last, Len(rounds') = Len(rounds), rounds' # <<>>,
               NEW q \in last \cap (Question \cup Page)
        PROVE  rounds'[Len(rounds')].deadline # 0
    <2>1. Len(rounds) \in 1 .. Len(rounds) /\ rounds # <<>>
      BY <1>1, <1>6, EmptySeq
    <2>2. rounds[Len(rounds)].deadline # 0
      BY <2>1 DEF RoundsInv, LastWasAwaited
    <2>3. RoundStep(rounds[Len(rounds)], rounds'[Len(rounds)])
      BY <2>1 DEF BoardStep
    <2> QED BY <1>6, <2>2, <2>3 DEF RoundStep
  <1> QED BY <1>2, <1>3, <1>4, <1>5, <1>6 DEF LastWasAwaited

LEMMA Preserved ==
  ASSUME RoundsInv, BoardStep(rounds'), now' = now,
         last' \subseteq Request, LastWasAwaited',
         calling' \in [AskCalls -> CallRecord],
         \A c \in AskCalls : CallSound(calling'[c], rounds', now),
         told' \subseteq 1 .. Len(rounds'), alone' \subseteq 1 .. Len(rounds'),
         \A n \in told' : ~Live(rounds'[n], now),
         \A n \in alone' : ~rounds'[n].moving
  PROVE  RoundsInv' /\ BoardMoves
  <1>1. RoundsTypeOK'
    <2>1. /\ rounds' \in Seq(RoundRecord) /\ Len(rounds') <= MaxRound
          /\ Len(rounds') \in Nat /\ MaxRound \in Nat
      BY LenProperties, Numbers DEF BoardStep
    <2>2. 1 .. Len(rounds') \subseteq 1 .. MaxRound
      BY <2>1
    <2> QED BY <2>1, <2>2 DEF RoundsInv, RoundsTypeOK
  <1>2. RoundsSound'
    BY DEF BoardStep, RoundsSound
  <1>3. CallsSound' /\ ToldAndAlone' /\ TimedOutIsOver' /\ ShimOutlastsDaemon'
    BY DEF CallsSound, ToldAndAlone, TimedOutIsOver, ShimOutlastsDaemon
  <1> QED BY <1>1, <1>2, <1>3 DEF RoundsInv, BoardMoves

-----------------------------------------------------------------------------
(* One lemma per action. *)

LEMMA IdleIsSound ==
  /\ NoAsk \in CallRecord /\ NoAsk.at = "idle"
  /\ \A bd : CallSound(NoAsk, bd, now)
  BY Numbers DEF NoAsk, CallRecord, Time, CallSound

LEMMA CallTypes ==
  ASSUME RoundsInv, NEW c \in AskCalls
  PROVE  /\ calling[c] \in CallRecord
         /\ CallSound(calling[c], rounds, now)
         /\ calling[c].at # "idle" => calling[c].round \in 1 .. Len(rounds)
  BY DEF RoundsInv, RoundsTypeOK, CallsSound, CallSound

(* A call whose socket died is on its round still, or gone.                *)
LEMMA DroppedIsSound ==
  ASSUME RoundsInv, NEW c \in AskCalls, calling[c].at # "idle",
         NEW bd, Len(bd) = Len(rounds)
  PROVE  Dropped(c) \in CallRecord /\ CallSound(Dropped(c), bd, now)
  <1>1. CASE calling[c].follows = 0
    BY <1>1, IdleIsSound DEF Dropped
  <1>2. CASE calling[c].follows # 0
    <2> DEFINE d == [calling[c] EXCEPT !.at = "detached", !.cut = TRUE, !.entered = 0]
    <2>1. 0 \in Time
      BY Numbers DEF Time
    <2>2. ASSUME NEW k \in CallRecord
          PROVE  [k EXCEPT !.at = "detached", !.cut = TRUE, !.entered = 0] \in CallRecord
      BY <2>1 DEF CallRecord
    <2>3. d.round = calling[c].round /\ d.at = "detached" /\ d.cut
      BY CallTypes DEF CallRecord
    <2>4. Dropped(c) = d /\ d \in CallRecord
      BY <1>2, <2>2, CallTypes DEF Dropped
    <2> HIDE DEF d
    <2> QED BY <2>3, <2>4, CallTypes DEF CallSound
  <1> QED BY <1>1, <1>2

(* Steps that leave the board, the history and the last request alone.     *)
LEMMA OnlyCallsMove ==
  ASSUME RoundsInv, UNCHANGED <<now, rounds, last, told, alone>>,
         calling' \in [AskCalls -> CallRecord],
         \A c \in AskCalls : CallSound(calling'[c], rounds, now)
  PROVE  RoundsInv' /\ BoardMoves
  <1>1. BoardStep(rounds') /\ Len(rounds') = Len(rounds)
    BY BoardIsStep DEF BoardStep
  <1>2. last' \subseteq Request
    BY DEF RoundsInv, RoundsTypeOK
  <1> QED BY <1>1, <1>2, Kept, Preserved

LEMMA PostKeeps ==
  ASSUME RoundsInv, NEW c \in AskCalls, NEW q \in Request, NEW drifted \in BOOLEAN,
         Post(c, q, drifted)
  PROVE  /\ RoundsInv' /\ BoardMoves
         /\ q \in Question \cup Page =>
              /\ calling'[c].at = "detached"
              /\ Live(rounds'[calling'[c].round], now)
  <1> DEFINE len == Len(rounds')
             r == rounds'[len]
             waits == q \in Question \cup Page
             follows == IF q \in Plain THEN 0 ELSE r.deadline
             k == [NoAsk EXCEPT !.at = "detached", !.round = len,
                                !.follows = follows, !.since = now]
  <1>1. /\ BoardStep(rounds') /\ last' = {q} /\ len \in 1 .. MaxRound
        /\ waits => Live(r, now)
    BY ApplyIsStep DEF Post
  <1>2. /\ now' = now /\ told' = told /\ alone' = alone
        /\ calling' = [calling EXCEPT ![c] = IF waits /\ r.awaited THEN k ELSE NoAsk]
    BY DEF Post
  <1>3. now \in 0 .. Horizon /\ calling \in [AskCalls -> CallRecord]
    BY DEF RoundsInv, RoundsTypeOK
  <1>4. len \in 1 .. len /\ r \in RoundRecord /\ Sound(r, now)
    BY <1>1 DEF BoardStep, Sound
  <1>5. waits => r.awaited
    BY <1>1 DEF Live, AwaitedOpen
  <1>6. /\ k.at = "detached" /\ k.round = len /\ k.since = now /\ k.cut = FALSE
        /\ k \in CallRecord
    <2>1. follows \in Time /\ now \in Time /\ len \in 0 .. MaxRound /\ 0 \in Time
      BY <1>1, <1>3, <1>4, Numbers DEF RoundRecord, Time
    <2> HIDE DEF follows, len
    <2> QED BY <2>1 DEF NoAsk, CallRecord
  <1>7. waits => CallSound(k, rounds', now)
    <2>1. waits => r.deadline # 0 /\ now <= r.deadline
      BY <1>1, <1>3, <1>4, <1>5, Numbers DEF Live, Sound, RoundRecord, Time
    <2> HIDE DEF k
    <2> QED BY <1>4, <1>6, <2>1 DEF CallSound
  <1>8. LastWasAwaited'
    <2>1. waits => r.deadline # 0
      BY <1>4, <1>5 DEF Sound
    <2> QED BY <1>1, <2>1 DEF LastWasAwaited
  <1> HIDE DEF k, r, len, waits
  <1>9. calling' \in [AskCalls -> CallRecord]
    BY <1>2, <1>3, <1>6, IdleIsSound
  <1>10. ASSUME NEW d \in AskCalls PROVE CallSound(calling'[d], rounds', now)
    <2>1. CASE d # c
      BY <1>1, <1>2, <1>3, <2>1, Kept
    <2>2. CASE d = c /\ waits
      BY <1>2, <1>3, <1>5, <1>7, <2>2
    <2>3. CASE d = c /\ ~waits
      BY <1>2, <1>3, <2>3, IdleIsSound
    <2> QED BY <2>1, <2>2, <2>3
  <1>11. RoundsInv' /\ BoardMoves
    BY <1>1, <1>2, <1>8, <1>9, <1>10, Kept, Preserved
  <1>12. waits => calling'[c].at = "detached" /\ Live(rounds'[calling'[c].round], now)
    BY <1>1, <1>2, <1>3, <1>5, <1>6 DEF r
  <1> QED BY <1>11, <1>12 DEF waits

LEMMA PostLostKeeps ==
  ASSUME RoundsInv, NEW q \in Request, NEW drifted \in BOOLEAN, PostLost(q, drifted)
  PROVE  RoundsInv' /\ BoardMoves
  <1>1. /\ BoardStep(rounds') /\ last' = {q} /\ Len(rounds') \in 1 .. MaxRound
        /\ q \in Question \cup Page => Live(rounds'[Len(rounds')], now)
    BY ApplyIsStep DEF PostLost
  <1>2. UNCHANGED <<now, calling, told, alone>>
    BY DEF PostLost
  <1>3. q \in Question \cup Page => rounds'[Len(rounds')].deadline # 0
    <2>1. Sound(rounds'[Len(rounds')], now)
      BY <1>1 DEF BoardStep
    <2> QED BY <1>1, <2>1 DEF Sound, Live, AwaitedOpen
  <1>4. LastWasAwaited'
    BY <1>1, <1>3 DEF LastWasAwaited
  <1>5. calling' \in [AskCalls -> CallRecord]
    BY <1>2 DEF RoundsInv, RoundsTypeOK
  <1> QED BY <1>1, <1>2, <1>4, <1>5, Kept, Preserved

LEMMA AttachKeeps ==
  ASSUME RoundsInv, NEW c \in AskCalls, Attach(c)
  PROVE  RoundsInv' /\ BoardMoves
  <1> DEFINE k == [calling[c] EXCEPT !.at = "attached", !.entered = now]
             n == calling[c].round
  <1>1. /\ now \in 0 .. Horizon /\ calling \in [AskCalls -> CallRecord]
        /\ calling[c] \in CallRecord /\ calling[c].at = "detached"
        /\ CallSound(calling[c], rounds, now)
    BY DEF RoundsInv, RoundsTypeOK, CallsSound, Attach
  <1>2. /\ k \in CallRecord /\ k.at = "attached" /\ k.entered = now
        /\ k.round = n /\ k.since = calling[c].since
        /\ k.cut = calling[c].cut
    <2>1. now \in Time
      BY <1>1, Numbers DEF Time
    <2> QED BY <1>1, <2>1 DEF CallRecord
  <1>3. n \in 1 .. Len(rounds) /\ Sound(rounds[n], now)
    BY <1>1 DEF CallSound, RoundsInv, RoundsSound
  <1>4. CallSound(k, rounds, now)
    <2> HIDE DEF k
    <2>1. rounds[n].deadline <= now + Timeout
      BY <1>3 DEF Sound
    <2>2. k.since \in Nat
      BY <1>2, Numbers DEF CallRecord, Time
    <2> QED BY <1>1, <1>2, <1>3, <2>1, <2>2, Numbers DEF CallSound
  <1>5. calling' = [calling EXCEPT ![c] = k] /\ UNCHANGED <<now, rounds, last, told, alone>>
    BY DEF Attach
  <1> HIDE DEF k
  <1>6. calling' \in [AskCalls -> CallRecord]
    BY <1>1, <1>2, <1>5
  <1>7. \A d \in AskCalls : CallSound(calling'[d], rounds, now)
    BY <1>1, <1>4, <1>5, CallTypes
  <1> QED BY <1>5, <1>6, <1>7, OnlyCallsMove

LEMMA PollKeeps ==
  ASSUME RoundsInv, NEW c \in AskCalls, NEW lost \in BOOLEAN, Poll(c, lost)
  PROVE  RoundsInv' /\ BoardMoves
  <1> DEFINE n == calling[c].round
             k == IF lost THEN Dropped(c) ELSE NoAsk
  <1>1. /\ PollEnds(c) /\ UNCHANGED <<now, last, alone>>
        /\ calling' = [calling EXCEPT ![c] = k]
        /\ calling \in [AskCalls -> CallRecord] /\ calling[c].at # "idle"
    BY DEF Poll, PollEnds, RoundsInv, RoundsTypeOK
  <1>2. /\ BoardStep(rounds') /\ Len(rounds') = Len(rounds)
        /\ told' \subseteq told \cup {n} /\ n \in 1 .. Len(rounds)
        /\ n \in told' \ told => ~Live(rounds'[n], now)
    <2>1. CASE rounds[n].status = "open"
      BY <1>1, <2>1, EndWaitIsStep DEF Poll, RoundOf
    <2>2. CASE rounds[n].status # "open"
      BY <1>1, <2>2, BoardIsStep, CallTypes DEF Poll, BoardStep
    <2> QED BY <2>1, <2>2
  <1>3. k \in CallRecord /\ CallSound(k, rounds', now)
    <2>1. CASE lost
      BY <1>1, <1>2, <2>1, DroppedIsSound
    <2>2. CASE ~lost
      BY <2>2, IdleIsSound
    <2> QED BY <2>1, <2>2
  <1> HIDE DEF k, n
  <1>4. calling' \in [AskCalls -> CallRecord]
    BY <1>1, <1>3
  <1>5. \A d \in AskCalls : CallSound(calling'[d], rounds', now)
    BY <1>1, <1>2, <1>3, Kept
  <1>6. told' \subseteq 1 .. Len(rounds') /\ \A m \in told' : ~Live(rounds'[m], now)
    BY <1>2, Kept
  <1>7. last' \subseteq Request
    BY <1>1 DEF RoundsInv, RoundsTypeOK
  <1> QED BY <1>1, <1>2, <1>4, <1>5, <1>6, <1>7, Kept, Preserved

LEMMA CutKeeps ==
  ASSUME RoundsInv, NEW c \in AskCalls, Cut(c)
  PROVE  RoundsInv' /\ BoardMoves
  <1>1. /\ calling' = [calling EXCEPT ![c] = Dropped(c)] /\ calling[c].at # "idle"
        /\ calling \in [AskCalls -> CallRecord]
        /\ UNCHANGED <<now, rounds, last, told, alone>>
    BY DEF Cut, RoundsInv, RoundsTypeOK
  <1>2. Dropped(c) \in CallRecord /\ CallSound(Dropped(c), rounds, now)
    BY <1>1, DroppedIsSound
  <1>3. calling' \in [AskCalls -> CallRecord]
    BY <1>1, <1>2
  <1>4. \A d \in AskCalls : CallSound(calling'[d], rounds, now)
    BY <1>1, <1>2, CallTypes
  <1> QED BY <1>1, <1>3, <1>4, OnlyCallsMove

LEMMA DaemonRestartsKeeps ==
  ASSUME RoundsInv, DaemonRestarts
  PROVE  RoundsInv' /\ BoardMoves
  <1>1. /\ calling' = [c \in AskCalls |->
                         IF calling[c].at = "attached" THEN Dropped(c) ELSE calling[c]]
        /\ UNCHANGED <<now, rounds, last, told, alone>>
    BY DEF DaemonRestarts
  <1>2. ASSUME NEW c \in AskCalls
        PROVE  calling'[c] \in CallRecord /\ CallSound(calling'[c], rounds, now)
    <2>1. CASE calling[c].at = "attached"
      BY <1>1, <2>1, DroppedIsSound
    <2>2. CASE calling[c].at # "attached"
      BY <1>1, <2>2, CallTypes
    <2> QED BY <2>1, <2>2
  <1>3. calling' \in [AskCalls -> CallRecord]
    BY <1>1, <1>2
  <1> QED BY <1>1, <1>2, <1>3, OnlyCallsMove

LEMMA CancelKeeps ==
  ASSUME RoundsInv, NEW c \in AskCalls, Cancel(c)
  PROVE  RoundsInv' /\ BoardMoves
  <1>1. /\ calling' = [calling EXCEPT ![c] = NoAsk]
        /\ calling \in [AskCalls -> CallRecord]
        /\ UNCHANGED <<now, rounds, last, told, alone>>
    BY DEF Cancel, RoundsInv, RoundsTypeOK
  <1>2. NoAsk \in CallRecord /\ CallSound(NoAsk, rounds, now)
    BY IdleIsSound
  <1>3. calling' \in [AskCalls -> CallRecord]
    BY <1>1, <1>2
  <1>4. \A d \in AskCalls : CallSound(calling'[d], rounds, now)
    BY <1>1, <1>2, CallTypes
  <1> QED BY <1>1, <1>3, <1>4, OnlyCallsMove

(* A shim that was never cut off and is due follows a round that moves.    *)
LEMMA UncutIsNotGivenUp ==
  ASSUME RoundsInv, NEW c \in AskCalls, calling[c].at # "idle", ~calling[c].cut,
         RoundOf(c).moving
  PROVE  RoundOf(c).deadline # 0 /\ GivesUpAt(c, RoundOf(c).deadline) > now
  <1> DEFINE k == calling[c]
             d == RoundOf(c).deadline
  <1>1. /\ now \in Nat /\ k \in CallRecord /\ CallSound(k, rounds, now)
        /\ k.round \in 1 .. Len(rounds) /\ Sound(rounds[k.round], now)
    BY CallTypes, Numbers DEF RoundsInv, RoundsTypeOK, RoundsSound
  <1>2. d \in Nat /\ k.since \in Nat
    BY <1>1, Numbers DEF CallRecord, Sound, RoundRecord, Time, RoundOf
  <1>3. d # 0 /\ now <= d
    BY <1>1 DEF CallSound, RoundOf
  <1>4. now <= k.since + Ceiling
    <2>1. CASE k.at = "detached"
      BY <1>1, <1>2, <2>1, Numbers DEF CallSound, RoundOf
    <2>2. CASE k.at = "attached"
      BY <1>1, <2>2 DEF CallSound, RoundOf
    <2> QED BY <1>1, <2>1, <2>2 DEF CallRecord
  <1> QED BY <1>1, <1>2, <1>3, <1>4, Numbers DEF GivesUpAt, AskCeiling, Lesser

LEMMA ExtendKeeps ==
  ASSUME RoundsInv, NEW c \in AskCalls, NEW answered \in BOOLEAN, Extend(c, answered)
  PROVE  RoundsInv' /\ BoardMoves
  <1> DEFINE stored == RoundOf(c).deadline
             n == calling[c].round
             k == [calling[c] EXCEPT !.follows = stored]
  <1>1. /\ calling[c].at # "idle" /\ UNCHANGED <<now, rounds, last, told>>
        /\ calling \in [AskCalls -> CallRecord] /\ calling[c] \in CallRecord
        /\ CallSound(calling[c], rounds, now) /\ n \in 1 .. Len(rounds)
    <2>1. calling[c].at # "idle" /\ UNCHANGED <<now, rounds, last, told>>
      BY DEF Extend, Due
    <2>2. calling \in [AskCalls -> CallRecord]
      BY DEF RoundsInv, RoundsTypeOK
    <2> QED BY <2>1, <2>2, CallTypes
  <1>2. BoardStep(rounds') /\ Len(rounds') = Len(rounds) /\ last' \subseteq Request
    BY <1>1, BoardIsStep DEF BoardStep, RoundsInv, RoundsTypeOK
  <1>3. CASE answered /\ stored # 0 /\ GivesUpAt(c, stored) > now
    <2>1. calling' = [calling EXCEPT ![c] = k] /\ UNCHANGED alone
      BY <1>3 DEF Extend
    <2>2. stored \in Time
      BY <1>1 DEF RoundOf, RoundsInv, RoundsSound, Sound, RoundRecord
    <2>3. /\ k \in CallRecord /\ k.at = calling[c].at /\ k.round = n
          /\ k.since = calling[c].since /\ k.entered = calling[c].entered
          /\ k.cut = calling[c].cut
      BY <1>1, <2>2 DEF CallRecord
    <2> HIDE DEF k
    <2>4. CallSound(k, rounds, now)
      BY <1>1, <2>3 DEF CallSound
    <2>5. calling' \in [AskCalls -> CallRecord]
      BY <1>1, <2>1, <2>3
    <2>6. \A d \in AskCalls : CallSound(calling'[d], rounds, now)
      BY <1>1, <2>1, <2>4, CallTypes
    <2> QED BY <1>1, <2>1, <2>5, <2>6, OnlyCallsMove
  <1>4. CASE ~(answered /\ stored # 0 /\ GivesUpAt(c, stored) > now)
    <2>1. calling' = [calling EXCEPT ![c] = NoAsk]
      BY <1>4 DEF Extend
    <2>2. /\ alone' \subseteq alone \cup {n}
          /\ n \in alone' \ alone => answered /\ ~calling[c].cut
      BY <1>4 DEF Extend
    <2>3. n \in alone' \ alone => ~rounds'[n].moving
      BY <1>1, <1>4, <2>2, UncutIsNotGivenUp DEF RoundOf
    <2>4. alone' \subseteq 1 .. Len(rounds') /\ \A m \in alone' : ~rounds'[m].moving
      BY <1>1, <1>2, <2>2, <2>3, Kept
    <2>5. calling' \in [AskCalls -> CallRecord]
      BY <1>1, <2>1, IdleIsSound
    <2>6. \A d \in AskCalls : CallSound(calling'[d], rounds', now)
      BY <1>1, <2>1, CallTypes, IdleIsSound
    <2> QED BY <1>1, <1>2, <2>4, <2>5, <2>6, Kept, Preserved
  <1> QED BY <1>3, <1>4

(* The reviewer's steps move no call.                                      *)
LEMMA OnlyBoardMoves ==
  ASSUME RoundsInv, UNCHANGED <<now, last, calling, told, alone>>,
         BoardStep(rounds'), Len(rounds') = Len(rounds)
  PROVE  RoundsInv' /\ BoardMoves
  <1>1. last' \subseteq Request /\ calling' \in [AskCalls -> CallRecord]
    BY DEF RoundsInv, RoundsTypeOK
  <1> QED BY <1>1, Kept, Preserved

LEMMA SubmitRoundKeeps ==
  ASSUME RoundsInv, NEW n \in DOMAIN rounds, SubmitRound(n)
  PROVE  RoundsInv' /\ BoardMoves
  <1> DEFINE s == [Board[n] EXCEPT !.status = "sent"]
  <1>1. /\ BoardStep(Board) /\ Len(Board) = Len(rounds) /\ n \in 1 .. Len(Board)
        /\ now \in 0 .. Horizon
    BY BoardIsStep
  <1>2. Sound(Board[n], now)
    BY <1>1 DEF BoardStep
  <1>3. RoundStep(Board[n], s)
    <2>1. ASSUME NEW r, Sound(r, now) PROVE RoundStep(r, [r EXCEPT !.status = "sent"])
      BY <2>1 DEF RoundStep, Sound, RoundRecord, Live, AwaitedOpen
    <2> QED BY <1>2, <2>1
  <1>4. rounds' = [Board EXCEPT ![n] = s] /\ UNCHANGED <<now, last, calling, told, alone>>
    BY DEF SubmitRound
  <1> HIDE DEF s
  <1>5. BoardStep(rounds') /\ Len(rounds') = Len(rounds)
    BY <1>1, <1>3, <1>4, ExceptIsStep
  <1> QED BY <1>4, <1>5, OnlyBoardMoves

LEMMA ActivityKeeps ==
  ASSUME RoundsInv, NEW n \in DOMAIN rounds, Activity(n)
  PROVE  RoundsInv' /\ BoardMoves
  <1> DEFINE s == RestartMoving(Board[n], now)
  <1>1. /\ BoardStep(Board) /\ Len(Board) = Len(rounds) /\ n \in 1 .. Len(Board)
        /\ now \in 0 .. Horizon
    BY BoardIsStep
  <1>2. RoundStep(Board[n], s)
    BY <1>1, RestartIsStep DEF BoardStep
  <1>3. rounds' = [Board EXCEPT ![n] = s] /\ UNCHANGED <<now, last, calling, told, alone>>
    BY DEF Activity
  <1> HIDE DEF s
  <1>4. BoardStep(rounds') /\ Len(rounds') = Len(rounds)
    BY <1>1, <1>2, <1>3, ExceptIsStep
  <1> QED BY <1>3, <1>4, OnlyBoardMoves

LEMMA AbandonRoundsKeeps ==
  ASSUME RoundsInv, AbandonRounds
  PROVE  RoundsInv' /\ BoardMoves
  <1> DEFINE len == Len(rounds)
             e(n) == IF rounds[n].status = "open"
                     THEN [rounds[n] EXCEPT !.status = "abandoned", !.awaited = FALSE]
                     ELSE rounds[n]
  <1>1. /\ len \in Nat /\ DOMAIN rounds = 1 .. len /\ len <= MaxRound
        /\ \A n \in 1 .. len : Sound(rounds[n], now)
    BY BoardIsStep DEF BoardStep
  <1>2. rounds' = [n \in 1 .. len |-> e(n)] /\ UNCHANGED <<now, last, calling, told, alone>>
    BY <1>1 DEF AbandonRounds
  <1>3. ASSUME NEW r, Sound(r, now)
        PROVE  /\ RoundStep(r, r)
               /\ RoundStep(r, [r EXCEPT !.status = "abandoned", !.awaited = FALSE])
    BY <1>3 DEF RoundStep, Sound, RoundRecord, Live, AwaitedOpen
  <1>4. \A n \in 1 .. len : RoundStep(rounds[n], e(n))
    BY <1>1, <1>3
  <1>5. \A n \in 1 .. len : Sound(e(n), now) /\ e(n) \in RoundRecord
    BY <1>4 DEF RoundStep, Sound
  <1>6. rounds' \in Seq(RoundRecord) /\ Len(rounds') = len
    <2>1. rounds' \in [1 .. len -> RoundRecord]
      BY <1>2, <1>5
    <2> QED BY <1>1, <2>1, SeqDef
  <1>7. \A n \in 1 .. len : rounds'[n] = e(n)
    BY <1>2
  <1> HIDE DEF e
  <1>8. BoardStep(rounds')
    BY <1>1, <1>4, <1>5, <1>6, <1>7 DEF BoardStep
  <1> QED BY <1>2, <1>6, <1>8, OnlyBoardMoves

(* The clock stands still for a poll that has ended and a GET on its way.  *)
LEMMA TickKeeps ==
  ASSUME RoundsInv, Tick
  PROVE  RoundsInv'
  <1>1. /\ now \in 0 .. Horizon /\ now < Horizon /\ now' = now + 1 /\ now' \in 0 .. Horizon
        /\ UNCHANGED <<rounds, last, calling, told, alone>>
    BY Numbers DEF Tick, RoundsInv, RoundsTypeOK
  <1>2. RoundsTypeOK' /\ LastWasAwaited' /\ ToldAndAlone' /\ ShimOutlastsDaemon'
    BY <1>1 DEF RoundsInv, RoundsTypeOK, LastWasAwaited, ToldAndAlone, ShimOutlastsDaemon
  <1>3. \A n \in 1 .. Len(rounds) : Sound(rounds[n], now) /\ rounds[n].deadline \in Nat
    BY Numbers DEF RoundsInv, RoundsSound, Sound, RoundRecord, Time
  <1>4. RoundsSound'
    BY <1>1, <1>3, Numbers DEF RoundsSound, Sound
  <1>5. TimedOutIsOver'
    BY <1>1, <1>3 DEF RoundsInv, ToldAndAlone, TimedOutIsOver, Live
  <1>6. ASSUME NEW c \in AskCalls PROVE CallSound(calling[c], rounds, now + 1)
    <2> DEFINE k == calling[c]
               r == rounds[k.round]
    <2> SUFFICES ASSUME k.at # "idle" PROVE CallSound(k, rounds, now + 1)
      BY DEF CallSound
    <2>1. k \in CallRecord /\ CallSound(k, rounds, now) /\ k.round \in 1 .. Len(rounds)
      BY CallTypes
    <2>2. CASE k.at = "detached"
      BY <2>1, <2>2 DEF CallSound, Tick
    <2>3. CASE k.at = "attached"
      <3>1. ~TimesOut(c)
        BY <2>3 DEF Tick, PollEnds
      <3>2. r.deadline \in Nat /\ k.entered \in Nat /\ k.since \in Nat
        BY <1>3, <2>1, Numbers DEF CallRecord, Time
      <3>3. r.moving => now < k.entered + Ceiling
        BY <1>1, <3>1, <3>2, Numbers DEF TimesOut, HeldUntil, RoundOf
      <3>4. r.moving /\ r.deadline # 0 => now < r.deadline
        BY <1>1, <3>1, <3>2 DEF TimesOut, RoundOf, Lapsed
      <3> QED BY <1>1, <2>1, <2>3, <3>2, <3>3, <3>4, Numbers DEF CallSound
    <2> QED BY <2>1, <2>2, <2>3 DEF CallRecord
  <1>7. CallsSound'
    BY <1>1, <1>6 DEF CallsSound
  <1> QED BY <1>2, <1>4, <1>5, <1>7 DEF RoundsInv

LEMMA StutterKeeps ==
  ASSUME RoundsInv, UNCHANGED roundsVars
  PROVE  RoundsInv' /\ BoardMoves
  <1>1. /\ BoardStep(rounds') /\ Len(rounds') = Len(rounds)
        /\ UNCHANGED <<now, last, calling, told, alone>>
    BY BoardIsStep DEF roundsVars, BoardStep
  <1> QED BY <1>1, OnlyBoardMoves

LEMMA InitRoundsInv == RoundsInit => RoundsInv
  <1> SUFFICES ASSUME RoundsInit PROVE RoundsInv
    OBVIOUS
  <1>1. rounds \in Seq(RoundRecord) /\ Len(rounds) = 0
    BY EmptySeq DEF RoundsInit
  <1>2. RoundsTypeOK
    BY <1>1, IdleIsSound, Numbers DEF RoundsInit, RoundsTypeOK
  <1>3. RoundsSound /\ LastWasAwaited
    BY <1>1 DEF RoundsInit, RoundsSound, LastWasAwaited
  <1>4. CallsSound
    BY IdleIsSound DEF RoundsInit, CallsSound
  <1>5. ToldAndAlone /\ TimedOutIsOver /\ ShimOutlastsDaemon
    BY DEF RoundsInit, ToldAndAlone, TimedOutIsOver, ShimOutlastsDaemon
  <1> QED BY <1>2, <1>3, <1>4, <1>5 DEF RoundsInv

LEMMA NextKeeps == RoundsInv /\ [RoundsNext]_roundsVars => RoundsInv' /\ (BoardMoves \/ Tick)
  <1> SUFFICES ASSUME RoundsInv, [RoundsNext]_roundsVars
               PROVE  RoundsInv' /\ (BoardMoves \/ Tick)
    OBVIOUS
  <1>1. ASSUME NEW c \in AskCalls, NEW q \in Request, NEW drifted \in BOOLEAN,
               Post(c, q, drifted)
        PROVE  RoundsInv' /\ BoardMoves
    BY <1>1, PostKeeps
  <1>2. ASSUME NEW c \in AskCalls, Attach(c) PROVE RoundsInv' /\ BoardMoves
    BY <1>2, AttachKeeps
  <1>3. ASSUME NEW c \in AskCalls, NEW lost \in BOOLEAN, Poll(c, lost)
        PROVE  RoundsInv' /\ BoardMoves
    BY <1>3, PollKeeps
  <1>4. ASSUME NEW c \in AskCalls, Cut(c) PROVE RoundsInv' /\ BoardMoves
    BY <1>4, CutKeeps
  <1>5. ASSUME NEW c \in AskCalls, NEW answered \in BOOLEAN, Extend(c, answered)
        PROVE  RoundsInv' /\ BoardMoves
    BY <1>5, ExtendKeeps
  <1>6. ASSUME NEW c \in AskCalls, Cancel(c) PROVE RoundsInv' /\ BoardMoves
    BY <1>6, CancelKeeps
  <1>7. ASSUME NEW q \in Request, NEW drifted \in BOOLEAN, PostLost(q, drifted)
        PROVE  RoundsInv' /\ BoardMoves
    BY <1>7, PostLostKeeps
  <1>8. ASSUME NEW n \in DOMAIN rounds, SubmitRound(n) \/ Activity(n)
        PROVE  RoundsInv' /\ BoardMoves
    BY <1>8, SubmitRoundKeeps, ActivityKeeps
  <1>9. CASE AbandonRounds \/ DaemonRestarts
    BY <1>9, AbandonRoundsKeeps, DaemonRestartsKeeps
  <1>10. CASE Tick
    BY <1>10, TickKeeps
  <1>11. CASE UNCHANGED roundsVars
    BY <1>11, StutterKeeps
  <1> QED
    BY <1>1, <1>2, <1>3, <1>4, <1>5, <1>6, <1>7, <1>8, <1>9, <1>10, <1>11
    DEF RoundsNext

-----------------------------------------------------------------------------
(* The inductive invariant holds in every behaviour of a round's wait.     *)
THEOREM RoundsInvariance == RoundsSpec => []RoundsInv
  <1>1. RoundsInv /\ [RoundsNext]_roundsVars => RoundsInv'
    BY NextKeeps
  <1> QED BY <1>1, InitRoundsInv, PTL DEF RoundsSpec

(* Every variable keeps its type.                                          *)
THEOREM RoundsTypeCorrect == RoundsSpec => []RoundsTypeOK
  <1>1. RoundsInv => RoundsTypeOK
    BY DEF RoundsInv
  <1> QED BY <1>1, RoundsInvariance, PTL

(* A round some call was told timed out is never live again: handleWait    *)
(* ends the round with the wait, and nothing restarts it.                  *)
THEOREM ToldIsOver == RoundsSpec => []TimedOutIsOver
  <1>1. RoundsInv => TimedOutIsOver
    BY DEF RoundsInv
  <1> QED BY <1>1, RoundsInvariance, PTL

(* The shim's own timer ends no wait on a round that follows the reviewer, *)
(* as WAIT_GRACE_MS and ASK_CEILING_MS promise.                            *)
THEOREM ShimIsPatient == RoundsSpec => []ShimOutlastsDaemon
  <1>1. RoundsInv => ShimOutlastsDaemon
    BY DEF RoundsInv
  <1> QED BY <1>1, RoundsInvariance, PTL

(* A wait that died stays dead, with the deadline it died with, under any  *)
(* posts, retries, reports and polls.                                      *)
THEOREM WaitsDieOnce == RoundsSpec => WaitDiesOnce
  <1> DEFINE Dies == \A n \in DOMAIN rounds :
                       ~Live(rounds[n], now) =>
                          /\ ~Live(rounds'[n], now')
                          /\ rounds'[n].deadline = rounds[n].deadline
  <1>1. RoundsInv /\ [RoundsNext]_roundsVars => Dies
    <2> SUFFICES ASSUME RoundsInv, [RoundsNext]_roundsVars, NEW n \in DOMAIN rounds,
                        ~Live(rounds[n], now)
                 PROVE  ~Live(rounds'[n], now') /\ rounds'[n].deadline = rounds[n].deadline
      OBVIOUS
    <2>1. n \in 1 .. Len(rounds) /\ Sound(rounds[n], now) /\ now \in Nat
      BY BoardIsStep DEF BoardStep
    <2>2. CASE BoardMoves
      BY <2>1, <2>2 DEF BoardMoves, BoardStep, RoundStep
    <2>3. CASE Tick
      <3>1. rounds[n].deadline \in Nat
        BY <2>1, Numbers DEF Sound, RoundRecord, Time
      <3> QED BY <2>1, <2>3, <3>1 DEF Tick, Live
    <2> QED BY <2>2, <2>3, NextKeeps
  <1> QED BY <1>1, RoundsInvariance, PTL DEF RoundsSpec, WaitDiesOnce

(* Every post of a question, or of a page to wait on, hands its call a     *)
(* round that is live: handlePostBoard never amends or repeats into a      *)
(* round whose wait is over.                                               *)
THEOREM AsksAreAwaited == RoundsSpec => AskIsAwaited
  <1> DEFINE Awaited == \A c \in AskCalls, q \in Question \cup Page, drifted \in BOOLEAN :
                          Post(c, q, drifted) =>
                             /\ calling'[c].at = "detached"
                             /\ Live(rounds'[calling'[c].round], now)
  <1>1. RoundsInv => Awaited
    BY PostKeeps DEF Request
  <1> QED BY <1>1, RoundsInvariance, PTL DEF AskIsAwaited

-----------------------------------------------------------------------------
(* Rounds implements AwaitedRounds.                                        *)

(* A sweep changes neither whether a round is live nor its deadline.       *)
SameWait(r, s) == s.deadline = r.deadline /\ (Live(s, now) <=> Live(r, now))

LEMMA SweepIsSame ==
  ASSUME NEW r, now \in 0 .. Horizon, Sound(r, now)
  PROVE  /\ SameWait(r, r)
         /\ AwaitedOpen(r) /\ Lapsed(r, now) => SameWait(r, [r EXCEPT !.awaited = FALSE])
  BY Numbers DEF SameWait, Sound, RoundRecord, Time, AwaitedOpen, Lapsed, Live

LEMMA CloseLapsedIsSame ==
  ASSUME NEW bd, now \in 0 .. Horizon, BoardStep(bd)
  PROVE  \A n \in 1 .. Len(bd) : SameWait(bd[n], CloseLapsed(bd, now)[n])
  BY CloseLapsedIsStep, SweepIsSame DEF BoardStep

LEMMA BoardIsSame ==
  ASSUME RoundsInv
  PROVE  /\ Len(Board) = Len(rounds)
         /\ \A n \in 1 .. Len(rounds) : SameWait(rounds[n], Board[n])
  BY BoardIsStep, CloseLapsedIsSame DEF Board

(* What the promised variables are, round by round and call by call.       *)
WaitView ==
    /\ DOMAIN rounds = 1 .. Len(rounds) /\ Len(rounds) \in Nat /\ Len(rounds) <= MaxRound
    /\ \A n : n \in LiveRounds <=> n \in 1 .. Len(rounds) /\ Live(rounds[n], now)
    /\ \A n : n \in DeadRounds <=> n \in 1 .. Len(rounds) /\ ~Live(rounds[n], now)
    /\ Deadlines \in [1 .. MaxRound -> Nat]
    /\ \A n \in 1 .. MaxRound :
         Deadlines[n] = IF n \in 1 .. Len(rounds) THEN rounds[n].deadline ELSE 0
    /\ WaitsOn \in [AskCalls -> 1 .. MaxRound \cup {0}]
    /\ \A c \in AskCalls : WaitsOn[c] = calling[c].round

LEMMA WaitFacts == RoundsInv => WaitView
  <1> SUFFICES ASSUME RoundsInv PROVE WaitView
    OBVIOUS
  <1>1. DOMAIN rounds = 1 .. Len(rounds) /\ Len(rounds) \in Nat /\ Len(rounds) <= MaxRound
    BY BoardIsStep DEF BoardStep
  <1>2. \A n \in 1 .. Len(rounds) : rounds[n].deadline \in Nat
    BY Numbers DEF RoundsInv, RoundsSound, Sound, RoundRecord, Time
  <1>3. \A c \in AskCalls : calling[c].round \in 1 .. MaxRound \cup {0}
    BY Numbers DEF RoundsInv, RoundsTypeOK, CallRecord
  <1>4. Deadlines \in [1 .. MaxRound -> Nat]
    BY <1>1, <1>2 DEF Deadlines
  <1> QED BY <1>1, <1>3, <1>4 DEF LiveRounds, DeadRounds, Deadlines, WaitsOn, WaitView

LEMMA WaitFactsNext == RoundsInv' => WaitView'
  BY WaitFacts, PTL

(* Where one round moves, the others keep their waits.                     *)
LEMMA OneRoundMoves ==
  ASSUME NEW n, RoundsInv, RoundsInv', BoardMoves, Len(rounds') = Len(rounds),
         n \in 1 .. Len(rounds),
         \A m \in 1 .. Len(rounds) : m # n => SameWait(rounds[m], rounds'[m])
  PROVE  /\ Waiting!Moves(n)
         /\ \A m : m # n => /\ m \in LiveRounds' <=> m \in LiveRounds
                            /\ m \in DeadRounds' <=> m \in DeadRounds
         /\ n \in DeadRounds => n \in DeadRounds'
  <1>1. now' = now /\ \A m \in 1 .. Len(rounds) : RoundStep(rounds[m], rounds'[m])
    BY DEF BoardMoves, BoardStep
  <1>2. \A m : m # n => /\ m \in LiveRounds' <=> m \in LiveRounds
                        /\ m \in DeadRounds' <=> m \in DeadRounds
    BY <1>1, WaitFacts, WaitFactsNext DEF WaitView, SameWait
  <1>3. n \in DeadRounds => n \in DeadRounds' /\ rounds'[n].deadline = rounds[n].deadline
    BY <1>1, WaitFacts, WaitFactsNext DEF WaitView, RoundStep
  <1>4. ASSUME NEW m \in 1 .. MaxRound, m # n \/ m \in DeadRounds
        PROVE  Deadlines'[m] = Deadlines[m]
    <2>1. CASE m # n
      BY <2>1, WaitFacts, WaitFactsNext DEF WaitView, SameWait
    <2>2. CASE m = n
      BY <1>3, <1>4, <2>2, WaitFacts, WaitFactsNext DEF WaitView
    <2> QED BY <2>1, <2>2
  <1>5. Deadlines' \in [1 .. MaxRound -> Nat]
    BY WaitFactsNext DEF WaitView
  <1>6. Waiting!Moves(n)
    BY <1>4, <1>5 DEF Waiting!Moves
  <1> QED BY <1>2, <1>3, <1>6
(* Rounds die with the deadlines they have. *)
LEMMA RoundsEnd ==
  ASSUME RoundsInv, RoundsInv', Len(rounds') = Len(rounds),
         \A n \in 1 .. Len(rounds) :
            /\ rounds'[n].deadline = rounds[n].deadline
            /\ Live(rounds'[n], now') => Live(rounds[n], now),
         UNCHANGED <<calling, told>>
  PROVE  Waiting!End
  <1>1. /\ LiveRounds' \subseteq LiveRounds
        /\ DeadRounds' = DeadRounds \cup (LiveRounds \ LiveRounds')
    BY WaitFacts, WaitFactsNext DEF WaitView
  <1>2. DOMAIN rounds' = DOMAIN rounds /\ DOMAIN rounds = 1 .. Len(rounds)
    BY WaitFacts, WaitFactsNext DEF WaitView
  <1>3. \A n \in 1 .. MaxRound : (IF n \in DOMAIN rounds' THEN rounds'[n].deadline ELSE 0)
                                = (IF n \in DOMAIN rounds THEN rounds[n].deadline ELSE 0)
    BY <1>2
  <1>4. Deadlines' = Deadlines
    BY <1>3 DEF Deadlines
  <1>5. WaitsOn' = WaitsOn
    BY DEF WaitsOn
  <1> QED BY <1>1, <1>4, <1>5 DEF Waiting!End

LEMMA SubmitRoundPromised ==
  ASSUME RoundsInv, RoundsInv', NEW n \in DOMAIN rounds, SubmitRound(n)
  PROVE  Waiting!End
  <1> DEFINE s == [Board[n] EXCEPT !.status = "sent"]
  <1>1. /\ n \in 1 .. Len(rounds) /\ Board \in Seq(RoundRecord) /\ Len(Board) = Len(rounds)
        /\ Board[n] \in RoundRecord /\ Board[n].deadline = rounds[n].deadline
    BY BoardIsStep, BoardIsSame DEF BoardStep, Sound, SameWait
  <1>2. s \in RoundRecord /\ s.deadline = rounds[n].deadline /\ ~Live(s, now)
    BY <1>1 DEF RoundRecord, Live, AwaitedOpen
  <1>3. rounds' = [Board EXCEPT ![n] = s] /\ UNCHANGED <<calling, told>>
    BY DEF SubmitRound
  <1> HIDE DEF s
  <1>4. \A m \in 1 .. Len(rounds) : rounds'[m] = IF m = n THEN s ELSE Board[m]
    BY <1>1, <1>2, <1>3, ExceptSeq
  <1>5. BoardMoves /\ Len(rounds') = Len(rounds)
    BY <1>1, <1>2, <1>3, SubmitRoundKeeps, ExceptSeq
  <1>6. \A m \in 1 .. Len(rounds) : m # n => SameWait(rounds[m], rounds'[m])
    BY <1>4, BoardIsSame
  <1>7. now' = now
    BY <1>5 DEF BoardMoves
  <1> QED BY <1>1, <1>2, <1>3, <1>4, <1>5, <1>6, <1>7, RoundsEnd DEF SameWait

LEMMA ActivityPromised ==
  ASSUME RoundsInv, RoundsInv', NEW n \in DOMAIN rounds, Activity(n)
  PROVE  Waiting!Activity(n)
  <1> DEFINE s == RestartMoving(Board[n], now)
  <1>1. /\ n \in 1 .. Len(rounds) /\ Board \in Seq(RoundRecord) /\ Len(Board) = Len(rounds)
        /\ now \in 0 .. Horizon /\ Sound(Board[n], now)
    BY BoardIsStep DEF BoardStep
  <1>2. s # Board[n] /\ rounds' = [Board EXCEPT ![n] = s] /\ UNCHANGED <<now, calling, told>>
    BY DEF Activity
  <1>3. Live(Board[n], now)
    BY <1>2 DEF RestartMoving, DeadlineMoves
  <1>4. Live(s, now) /\ s \in RoundRecord
    BY <1>1, <1>3, RestartKeepsLive, RestartIsStep DEF RoundStep, Sound
  <1> HIDE DEF s
  <1>5. \A m \in 1 .. Len(rounds) : rounds'[m] = IF m = n THEN s ELSE Board[m]
    BY <1>1, <1>2, <1>4, ExceptSeq
  <1>6. BoardMoves /\ Len(rounds') = Len(rounds)
    BY <1>1, <1>2, <1>4, ActivityKeeps, ExceptSeq
  <1>7. \A m \in 1 .. Len(rounds) : m # n => SameWait(rounds[m], rounds'[m])
    BY <1>5, BoardIsSame
  <1>8. n \in LiveRounds /\ n \in LiveRounds' /\ n \notin DeadRounds /\ n \notin DeadRounds'
    BY <1>1, <1>2, <1>3, <1>4, <1>5, <1>6, BoardIsSame, WaitFacts, WaitFactsNext
    DEF SameWait, WaitView
  <1>9. /\ Waiting!Moves(n)
        /\ \A m : /\ m \in LiveRounds' <=> m \in LiveRounds
                  /\ m \in DeadRounds' <=> m \in DeadRounds
    BY <1>1, <1>6, <1>7, <1>8, OneRoundMoves
  <1>10. LiveRounds' = LiveRounds /\ DeadRounds' = DeadRounds
    BY <1>9
  <1>11. WaitsOn' = WaitsOn
    BY <1>2 DEF WaitsOn
  <1> QED BY <1>2, <1>8, <1>9, <1>10, <1>11 DEF Waiting!Activity

LEMMA AbandonRoundsPromised ==
  ASSUME RoundsInv, RoundsInv', AbandonRounds
  PROVE  Waiting!End
  <1> DEFINE e(n) == IF rounds[n].status = "open"
                     THEN [rounds[n] EXCEPT !.status = "abandoned", !.awaited = FALSE]
                     ELSE rounds[n]
  <1>1. /\ DOMAIN rounds = 1 .. Len(rounds) /\ Len(rounds) \in Nat
        /\ \A n \in 1 .. Len(rounds) : rounds[n] \in RoundRecord
    BY BoardIsStep DEF BoardStep, Sound
  <1>2. rounds' = [n \in 1 .. Len(rounds) |-> e(n)] /\ UNCHANGED <<now, calling, told>>
    BY <1>1 DEF AbandonRounds
  <1>3. ASSUME NEW r \in RoundRecord
        PROVE  [r EXCEPT !.status = "abandoned", !.awaited = FALSE].deadline = r.deadline
               /\ ~Live([r EXCEPT !.status = "abandoned", !.awaited = FALSE], now)
    BY DEF RoundRecord, Live, AwaitedOpen
  <1>4. \A n \in 1 .. Len(rounds) :
           rounds'[n].deadline = rounds[n].deadline /\ ~Live(rounds'[n], now)
    BY <1>1, <1>2, <1>3 DEF Live, AwaitedOpen
  <1>5. Len(rounds') = Len(rounds)
    <2>1. DOMAIN rounds' = 1 .. Len(rounds) /\ DOMAIN rounds' = 1 .. Len(rounds')
          /\ Len(rounds') \in Nat
      BY <1>2, WaitFactsNext DEF WaitView
    <2> QED BY <1>1, <2>1
  <1> QED BY <1>2, <1>4, <1>5, RoundsEnd

LEMMA TickPromised ==
  ASSUME RoundsInv, RoundsInv', Tick
  PROVE  Waiting!End
  <1>1. now' = now + 1 /\ UNCHANGED <<rounds, calling, told>>
    BY DEF Tick
  <1>2. now \in Nat /\ \A n \in 1 .. Len(rounds) : rounds[n].deadline \in Nat
    BY Numbers DEF RoundsInv, RoundsTypeOK, RoundsSound, Sound, RoundRecord, Time
  <1>3. \A n \in 1 .. Len(rounds) : Live(rounds[n], now + 1) => Live(rounds[n], now)
    BY <1>2 DEF Live
  <1> QED BY <1>1, <1>3, RoundsEnd

(* Calls that leave, or stay where they are. *)
LEMMA OnlyCallsLeave ==
  ASSUME RoundsInv, RoundsInv', UNCHANGED <<now, rounds, told>>,
         \A c \in AskCalls : calling'[c].round \in {calling[c].round, 0}
  PROVE  Waiting!Leave
  <1>1. LiveRounds' = LiveRounds /\ DeadRounds' = DeadRounds /\ Deadlines' = Deadlines
    BY DEF LiveRounds, DeadRounds, Deadlines
  <1>2. /\ WaitsOn' \in [AskCalls -> 1 .. MaxRound \cup {0}]
        /\ \A c \in AskCalls : WaitsOn'[c] \in {WaitsOn[c], 0}
    BY WaitFacts, WaitFactsNext DEF WaitView
  <1> QED BY <1>1, <1>2 DEF Waiting!Leave

LEMMA DroppedStaysOrLeaves ==
  ASSUME RoundsInv, NEW c \in AskCalls
  PROVE  Dropped(c).round \in {calling[c].round, 0}
  <1>1. calling[c] \in CallRecord
    BY CallTypes
  <1>2. CASE calling[c].follows = 0
    BY <1>2 DEF Dropped, NoAsk
  <1>3. CASE calling[c].follows # 0
    BY <1>1, <1>3 DEF Dropped, CallRecord
  <1> QED BY <1>2, <1>3

LEMMA CallsPromised ==
  ASSUME RoundsInv, RoundsInv', NEW c \in AskCalls,
         Attach(c) \/ Cut(c) \/ (\E answered \in BOOLEAN : Extend(c, answered)) \/ Cancel(c)
  PROVE  Waiting!Leave
  <1>1. calling \in [AskCalls -> CallRecord] /\ calling[c] \in CallRecord
    BY CallTypes DEF RoundsInv, RoundsTypeOK
  <1>2. UNCHANGED <<now, rounds, told>>
    BY DEF Attach, Cut, Extend, Cancel
  <1>3. CASE Attach(c)
    <2>1. calling' = [calling EXCEPT ![c] =
                        [calling[c] EXCEPT !.at = "attached", !.entered = now]]
      BY <1>3 DEF Attach
    <2> QED BY <1>1, <1>2, <2>1, OnlyCallsLeave DEF CallRecord
  <1>4. CASE Cut(c)
    BY <1>1, <1>2, <1>4, DroppedStaysOrLeaves, OnlyCallsLeave DEF Cut
  <1>5. ASSUME NEW answered \in BOOLEAN, Extend(c, answered) PROVE Waiting!Leave
    <2>1. \/ calling' = [calling EXCEPT ![c] =
                           [calling[c] EXCEPT !.follows = RoundOf(c).deadline]]
          \/ calling' = [calling EXCEPT ![c] = NoAsk]
      BY <1>5 DEF Extend
    <2>2. NoAsk.round = 0 /\ \A d : [calling[c] EXCEPT !.follows = d].round = calling[c].round
      BY <1>1 DEF NoAsk, CallRecord
    <2>3. \A d \in AskCalls : calling'[d].round \in {calling[d].round, 0}
      BY <1>1, <2>1, <2>2
    <2> QED BY <1>2, <2>3, OnlyCallsLeave
  <1>6. CASE Cancel(c)
    BY <1>1, <1>2, <1>6, OnlyCallsLeave DEF Cancel, NoAsk
  <1> QED BY <1>3, <1>4, <1>5, <1>6

LEMMA DaemonRestartsPromised ==
  ASSUME RoundsInv, RoundsInv', DaemonRestarts
  PROVE  Waiting!Leave
  <1>1. UNCHANGED <<now, rounds, told>>
    BY DEF DaemonRestarts
  <1>2. \A c \in AskCalls : calling'[c].round \in {calling[c].round, 0}
    BY DroppedStaysOrLeaves DEF DaemonRestarts
  <1> QED BY <1>1, <1>2, OnlyCallsLeave

(* The end of a wait moves no other round. *)
LEMMA EndWaitIsSame ==
  ASSUME RoundsInv, NEW c \in AskCalls, PollEnds(c), RoundOf(c).status = "open"
  PROVE  \A m \in 1 .. Len(rounds) :
            m # calling[c].round => SameWait(rounds[m], EndWait(calling[c].round)[m])
  <1> DEFINE n == calling[c].round
             r == Board[n]
             e == IF r.moving /\ AwaitedOpen(r) /\ ~Lapsed(r, now)
                  THEN [r EXCEPT !.deadline = now] ELSE r
             ended == [Board EXCEPT ![n] = e]
  <1>1. EndWait(n) = CloseLapsed(ended, now)
    BY DEF EndWait
  <1>2. /\ DOMAIN ended = 1 .. Len(rounds)
        /\ \A m \in 1 .. Len(rounds) : m # n => ended[m] = Board[m]
    <2>1. DOMAIN Board = 1 .. Len(rounds)
      BY BoardIsStep DEF BoardStep
    <2> QED BY <2>1
  <1>3. \A m \in 1 .. Len(rounds) :
           EndWait(n)[m] = IF AwaitedOpen(ended[m]) /\ Lapsed(ended[m], now)
                           THEN [ended[m] EXCEPT !.awaited = FALSE] ELSE ended[m]
    <2> HIDE DEF ended
    <2> QED BY <1>1, <1>2 DEF CloseLapsed
  <1>4. ASSUME NEW m \in 1 .. Len(rounds), m # n PROVE SameWait(rounds[m], EndWait(n)[m])
    <2>1. Sound(Board[m], now) /\ now \in 0 .. Horizon /\ SameWait(rounds[m], Board[m])
      BY BoardIsStep, BoardIsSame DEF BoardStep
    <2>2. SameWait(Board[m], EndWait(n)[m])
      BY <1>2, <1>3, <1>4, <2>1, SweepIsSame
    <2> QED BY <2>1, <2>2 DEF SameWait
  <1> QED BY <1>4

LEMMA PollPromised ==
  ASSUME RoundsInv, RoundsInv', NEW c \in AskCalls, NEW lost \in BOOLEAN, Poll(c, lost)
  PROVE  Waiting!TimeOut(c) \/ Waiting!Leave
  <1> DEFINE n == calling[c].round
             k == IF lost THEN Dropped(c) ELSE NoAsk
  <1>1. /\ PollEnds(c) /\ now' = now /\ calling' = [calling EXCEPT ![c] = k]
        /\ calling \in [AskCalls -> CallRecord] /\ n \in 1 .. Len(rounds) /\ BoardMoves
    BY CallTypes, PollKeeps DEF Poll, PollEnds, RoundsInv, RoundsTypeOK
  <1>2. k.round \in {n, 0}
    BY DroppedStaysOrLeaves DEF NoAsk
  <1> HIDE DEF k
  <1>3. CASE rounds[n].status = "open"
    <2>1. rounds' = EndWait(n) /\ told' = told \cup {n}
      BY <1>3 DEF Poll
    <2>2. /\ Len(rounds') = Len(rounds) /\ ~Live(rounds'[n], now)
          /\ \A m \in 1 .. Len(rounds) : m # n => SameWait(rounds[m], rounds'[m])
      BY <1>1, <1>3, <2>1, EndWaitIsStep, EndWaitIsSame DEF RoundOf
    <2>3. /\ Waiting!Moves(n)
          /\ \A m : m # n => /\ m \in LiveRounds' <=> m \in LiveRounds
                             /\ m \in DeadRounds' <=> m \in DeadRounds
          /\ n \in DeadRounds' /\ n \notin LiveRounds'
      BY <1>1, <2>2, OneRoundMoves, WaitFactsNext DEF WaitView
    <2>4. LiveRounds' = LiveRounds \ {n} /\ DeadRounds' = DeadRounds \cup {n}
      BY <2>3
    <2>5. WaitsOn[c] = n /\ n # 0
      BY <1>1, WaitFacts DEF WaitView
    <2>6. WaitsOn' \in {WaitsOn, [WaitsOn EXCEPT ![c] = 0]}
      <3>1. WaitsOn' = [WaitsOn EXCEPT ![c] = k.round]
        BY <1>1 DEF WaitsOn
      <3>2. [WaitsOn EXCEPT ![c] = n] = WaitsOn
        BY <2>5 DEF WaitsOn
      <3> QED BY <1>2, <3>1, <3>2
    <2> HIDE DEF n
    <2>7. Waiting!TimeOut(c)
      BY <2>1, <2>3, <2>4, <2>5, <2>6 DEF Waiting!TimeOut
    <2> QED BY <2>7
  <1>4. CASE rounds[n].status # "open"
    <2>1. UNCHANGED <<now, rounds, told>>
      BY <1>1, <1>4 DEF Poll
    <2>2. \A d \in AskCalls : calling'[d].round \in {calling[d].round, 0}
      BY <1>1, <1>2
    <2> QED BY <2>1, <2>2, OnlyCallsLeave
  <1> QED BY <1>3, <1>4

(* A post moves the latest round, which was awaited or is new, or only     *)
(* repeats one that nothing waits on.                                      *)
PostMoves(n) ==
    \/ /\ n \notin DeadRounds
       /\ LiveRounds' = LiveRounds \cup {n} /\ DeadRounds' = DeadRounds
       /\ Waiting!Moves(n)
    \/ /\ n \notin LiveRounds
       /\ LiveRounds' = LiveRounds /\ DeadRounds' = DeadRounds \cup {n}
       /\ Deadlines' = Deadlines

LEMMA NewMember ==
  ASSUME NEW S, NEW T, NEW n, \A m : m # n => (m \in T <=> m \in S), n \notin S
  PROVE  /\ n \in T => T = S \cup {n}
         /\ n \notin T => T = S
  OBVIOUS

(* A round that is new is awaited if its request is, and otherwise has no  *)
(* deadline.                                                               *)
LEMMA NewRoundMoves ==
  ASSUME RoundsInv, RoundsInv', NEW q \in Request, now' = now, Len(rounds) < MaxRound,
         rounds' = Append(Board, Mint(q))
  PROVE  PostMoves(Len(rounds'))
  <1> DEFINE n == Len(rounds) + 1
  <1>1. /\ Board \in Seq(RoundRecord) /\ Len(Board) = Len(rounds) /\ Len(rounds) \in Nat
        /\ now \in 0 .. Horizon
    BY BoardIsStep DEF BoardStep
  <1>2. Mint(q) \in RoundRecord /\ (q \in Question \cup Page => Live(Mint(q), now))
    BY <1>1, MintIsSound DEF Sound
  <1>3. q \notin Question \cup Page => ~Live(Mint(q), now) /\ Mint(q).deadline = 0
    BY <1>1 DEF Mint, Live, AwaitedOpen
  <1>4. /\ Len(rounds') = n /\ rounds'[n] = Mint(q)
        /\ \A m \in 1 .. Len(rounds) : rounds'[m] = Board[m]
    BY <1>1, <1>2, AppendProperties
  <1>5. \A m \in 1 .. Len(rounds) : SameWait(rounds[m], rounds'[m])
    BY <1>4, BoardIsSame
  <1>6. n \in 1 .. MaxRound /\ n \notin 1 .. Len(rounds) /\ 1 .. n = 1 .. Len(rounds) \cup {n}
    BY <1>1, Numbers
  <1>7. n \notin LiveRounds /\ n \notin DeadRounds
    BY <1>6, WaitFacts DEF WaitView
  <1>8. \A m : m # n => /\ m \in LiveRounds' <=> m \in LiveRounds
                        /\ m \in DeadRounds' <=> m \in DeadRounds
    BY <1>4, <1>5, <1>6, WaitFacts, WaitFactsNext DEF WaitView, SameWait
  <1>9. \A m \in 1 .. MaxRound : m # n => Deadlines'[m] = Deadlines[m]
    BY <1>4, <1>5, <1>6, WaitFacts, WaitFactsNext DEF WaitView, SameWait
  <1>10. Deadlines[n] = 0 /\ Deadlines'[n] = Mint(q).deadline
    BY <1>4, <1>6, WaitFacts, WaitFactsNext DEF WaitView
  <1>11. n \in LiveRounds' <=> Live(Mint(q), now)
    BY <1>4, <1>6, WaitFactsNext DEF WaitView
  <1>12. n \in DeadRounds' <=> ~Live(Mint(q), now)
    BY <1>4, <1>6, WaitFactsNext DEF WaitView
  <1> HIDE DEF n
  <1>13. CASE q \in Question \cup Page
    <2>1. LiveRounds' = LiveRounds \cup {n} /\ DeadRounds' = DeadRounds
      <3>1. n \in LiveRounds' /\ n \notin DeadRounds'
        BY <1>2, <1>11, <1>12, <1>13
      <3> QED BY <1>7, <1>8, <3>1, NewMember
    <2>2. Waiting!Moves(n)
      <3>1. Deadlines' \in [1 .. MaxRound -> Nat]
        BY WaitFactsNext DEF WaitView
      <3> QED BY <1>7, <1>9, <3>1 DEF Waiting!Moves
    <2> QED BY <1>4, <1>7, <2>1, <2>2 DEF PostMoves
  <1>14. CASE q \notin Question \cup Page
    <2>1. LiveRounds' = LiveRounds /\ DeadRounds' = DeadRounds \cup {n}
      <3>1. n \notin LiveRounds' /\ n \in DeadRounds'
        BY <1>3, <1>11, <1>12, <1>14
      <3> QED BY <1>7, <1>8, <3>1, NewMember
    <2>2. \A m \in 1 .. MaxRound : Deadlines'[m] = Deadlines[m]
      BY <1>3, <1>9, <1>10, <1>14
    <2>3. \A m \in 1 .. MaxRound : (IF m \in DOMAIN rounds' THEN rounds'[m].deadline ELSE 0)
                                 = (IF m \in DOMAIN rounds THEN rounds[m].deadline ELSE 0)
      BY <2>2 DEF Deadlines
    <2>4. Deadlines' = Deadlines
      BY <2>3 DEF Deadlines
    <2> QED BY <1>4, <1>7, <2>1, <2>4 DEF PostMoves
  <1> QED BY <1>13, <1>14

(* An amend or a repeat moves the latest round, if it is live, or nothing. *)
LEMMA OldRoundMoves ==
  ASSUME RoundsInv, RoundsInv', BoardMoves, NEW n, n = Len(rounds), n \in 1 .. Len(rounds),
         rounds' = [Board EXCEPT ![n] = RestartMoving(Board[n], now)] \/ rounds' = rounds
  PROVE  Len(rounds') = n /\ PostMoves(n)
  <1> DEFINE s == RestartMoving(Board[n], now)
  <1>1. /\ Board \in Seq(RoundRecord) /\ Len(Board) = Len(rounds) /\ now \in 0 .. Horizon
        /\ Sound(Board[n], now) /\ now' = now
    BY BoardIsStep DEF BoardStep, BoardMoves
  <1>2. s \in RoundRecord /\ (Live(Board[n], now) => Live(s, now))
        /\ (~Live(Board[n], now) => s = Board[n])
    BY <1>1, RestartIsStep, RestartKeepsLive DEF RoundStep, Sound, RestartMoving, DeadlineMoves
  <1> HIDE DEF s
  <1>3. CASE rounds' = [Board EXCEPT ![n] = s]
    <2>1. /\ Len(rounds') = Len(rounds)
          /\ \A m \in 1 .. Len(rounds) : rounds'[m] = IF m = n THEN s ELSE Board[m]
      BY <1>1, <1>2, <1>3, ExceptSeq
    <2>2. \A m \in 1 .. Len(rounds) : m # n => SameWait(rounds[m], rounds'[m])
      BY <2>1, BoardIsSame
    <2>3. /\ Waiting!Moves(n)
          /\ \A m : m # n => /\ m \in LiveRounds' <=> m \in LiveRounds
                             /\ m \in DeadRounds' <=> m \in DeadRounds
      BY <2>1, <2>2, OneRoundMoves
    <2>4. Live(rounds'[n], now) <=> Live(rounds[n], now)
      BY <1>2, <2>1, BoardIsSame DEF SameWait
    <2>5. /\ n \in LiveRounds' <=> n \in LiveRounds
          /\ n \in DeadRounds' <=> n \in DeadRounds
          /\ n \in DeadRounds <=> n \notin LiveRounds
      BY <1>1, <2>1, <2>4, WaitFacts, WaitFactsNext DEF WaitView
    <2>6. LiveRounds' = LiveRounds /\ DeadRounds' = DeadRounds
      BY <2>3, <2>5
    <2>7. CASE n \in LiveRounds
      BY <2>1, <2>3, <2>5, <2>6, <2>7 DEF PostMoves
    <2>8. CASE n \in DeadRounds
      <3>1. \A m \in 1 .. MaxRound : Deadlines'[m] = Deadlines[m]
        BY <2>3, <2>8 DEF Waiting!Moves
      <3>2. \A m \in 1 .. MaxRound : (IF m \in DOMAIN rounds' THEN rounds'[m].deadline ELSE 0)
                                   = (IF m \in DOMAIN rounds THEN rounds[m].deadline ELSE 0)
        BY <3>1 DEF Deadlines
      <3>3. Deadlines' = Deadlines
        BY <3>2 DEF Deadlines
      <3> QED BY <2>1, <2>5, <2>6, <2>8, <3>3 DEF PostMoves
    <2> QED BY <2>5, <2>7, <2>8
  <1>4. CASE rounds' = rounds
    <2>1. LiveRounds' = LiveRounds /\ DeadRounds' = DeadRounds /\ Deadlines' = Deadlines
      BY <1>1, <1>4 DEF LiveRounds, DeadRounds, Deadlines
    <2>2. /\ Deadlines \in [1 .. MaxRound -> Nat]
          /\ n \in DeadRounds <=> n \notin LiveRounds
      BY WaitFacts DEF WaitView
    <2>3. Waiting!Moves(n)
      BY <2>1, <2>2 DEF Waiting!Moves
    <2> QED BY <1>4, <2>1, <2>2, <2>3 DEF PostMoves
  <1> QED BY <1>3, <1>4 DEF s

LEMMA ApplyMoves ==
  ASSUME RoundsInv, RoundsInv', BoardMoves,
         NEW q \in Request, NEW drifted \in BOOLEAN, Apply(q, drifted)
  PROVE  PostMoves(Len(rounds'))
  <1>1. Len(rounds) \in Nat /\ now' = now
    BY BoardIsStep DEF BoardMoves
  <1>2. CASE Dedupes(q, drifted) \/ Amends(q, drifted)
    <2>1. rounds # <<>>
      BY <1>2 DEF Dedupes, Amends, Retries
    <2>2. Len(rounds) \in 1 .. Len(rounds)
      BY <1>1, <2>1, EmptySeq, BoardIsStep DEF BoardStep
    <2>3. \/ rounds' = [Board EXCEPT ![Len(rounds)] = RestartMoving(Board[Len(rounds)], now)]
          \/ rounds' = rounds
      BY <1>2 DEF Apply
    <2> QED BY <2>2, <2>3, OldRoundMoves
  <1>3. CASE ~(Dedupes(q, drifted) \/ Amends(q, drifted))
    BY <1>1, <1>3, NewRoundMoves DEF Apply
  <1> QED BY <1>2, <1>3

(* An idle call is on no round. *)
IdleIsFree == \A c \in AskCalls : calling[c].at = "idle" => calling[c].round = 0

LEMMA IdleStaysFree == RoundsInv /\ IdleIsFree /\ [RoundsNext]_roundsVars => IdleIsFree'
  <1> SUFFICES ASSUME RoundsInv, IdleIsFree, [RoundsNext]_roundsVars PROVE IdleIsFree'
    OBVIOUS
  <1>1. calling \in [AskCalls -> CallRecord] /\ NoAsk.round = 0
    BY DEF RoundsInv, RoundsTypeOK, NoAsk
  <1>2. ASSUME NEW c \in AskCalls, NEW k, calling' = [calling EXCEPT ![c] = k],
               k.at = "idle" => k.round = 0
        PROVE  IdleIsFree'
    BY <1>1, <1>2 DEF IdleIsFree
  <1>3. \A c \in AskCalls : Dropped(c).at = "idle" => Dropped(c).round = 0
    BY <1>1 DEF Dropped, CallRecord
  <1>4. ASSUME NEW c \in AskCalls, NEW q \in Request, NEW drifted \in BOOLEAN,
               Post(c, q, drifted)
        PROVE  IdleIsFree'
    <2>1. \A n, t, u : [NoAsk EXCEPT !.at = "detached", !.round = n, !.follows = t,
                                     !.since = u].at = "detached"
      BY DEF NoAsk
    <2>2. ASSUME NEW r, calling' = [calling EXCEPT ![c] =
                   IF q \in Question \cup Page /\ r.awaited
                   THEN [NoAsk EXCEPT !.at = "detached", !.round = Len(rounds'),
                                      !.follows = IF q \in Plain THEN 0 ELSE r.deadline,
                                      !.since = now]
                   ELSE NoAsk]
          PROVE  IdleIsFree'
      BY <1>1, <1>2, <2>1, <2>2
    <2> QED BY <1>4, <2>2 DEF Post
  <1>5. ASSUME NEW c \in AskCalls, Attach(c) \/ Cut(c) \/ Cancel(c) PROVE IdleIsFree'
    <2>1. calling[c] \in CallRecord
      BY <1>1
    <2>2. CASE Attach(c)
      <3>1. [calling[c] EXCEPT !.at = "attached", !.entered = now].at = "attached"
        BY <2>1 DEF CallRecord
      <3>2. calling' = [calling EXCEPT ![c] =
                          [calling[c] EXCEPT !.at = "attached", !.entered = now]]
        BY <2>2 DEF Attach
      <3> QED BY <1>2, <3>1, <3>2
    <2>3. CASE Cut(c)
      BY <1>2, <1>3, <2>3 DEF Cut
    <2>4. CASE Cancel(c)
      BY <1>1, <1>2, <2>4 DEF Cancel
    <2> QED BY <1>5, <2>2, <2>3, <2>4
  <1>6. ASSUME NEW c \in AskCalls, NEW answered \in BOOLEAN, Extend(c, answered)
        PROVE  IdleIsFree'
    <2>1. calling[c] \in CallRecord /\ calling[c].at # "idle"
      BY <1>1, <1>6 DEF Extend, Due
    <2>2. \A d : [calling[c] EXCEPT !.follows = d].at = calling[c].at
      BY <2>1 DEF CallRecord
    <2>3. \/ calling' = [calling EXCEPT ![c] =
                           [calling[c] EXCEPT !.follows = RoundOf(c).deadline]]
          \/ calling' = [calling EXCEPT ![c] = NoAsk]
      BY <1>6 DEF Extend
    <2> QED BY <1>1, <1>2, <2>1, <2>2, <2>3
  <1>7. ASSUME NEW c \in AskCalls, NEW lost \in BOOLEAN, Poll(c, lost) PROVE IdleIsFree'
    BY <1>1, <1>2, <1>3, <1>7 DEF Poll
  <1>8. CASE DaemonRestarts
    BY <1>1, <1>3, <1>8 DEF DaemonRestarts, IdleIsFree
  <1>9. CASE UNCHANGED calling
    BY <1>9 DEF IdleIsFree
  <1>10. ASSUME NEW q \in Request, NEW drifted \in BOOLEAN, PostLost(q, drifted)
         PROVE  UNCHANGED calling
    BY <1>10 DEF PostLost
  <1>11. ASSUME NEW n \in DOMAIN rounds, SubmitRound(n) \/ Activity(n)
         PROVE  UNCHANGED calling
    BY <1>11 DEF SubmitRound, Activity
  <1>12. AbandonRounds \/ Tick \/ UNCHANGED roundsVars => UNCHANGED calling
    BY DEF AbandonRounds, Tick, roundsVars
  <1> QED
    BY <1>4, <1>5, <1>6, <1>7, <1>8, <1>9, <1>10, <1>11, <1>12 DEF RoundsNext

LEMMA PostsPromised ==
  ASSUME RoundsInv, RoundsInv', IdleIsFree, NEW q \in Request, NEW drifted \in BOOLEAN,
         PostLost(q, drifted) \/ (\E c \in AskCalls : Post(c, q, drifted))
  PROVE  [Waiting!Next]_(Waiting!vars)
  <1> DEFINE n == Len(rounds')
  <1>1. BoardMoves /\ Apply(q, drifted) /\ told' = told
    BY PostKeeps, PostLostKeeps DEF Post, PostLost
  <1>2. n \in 1 .. MaxRound /\ (q \in Question \cup Page => Live(rounds'[n], now))
    BY <1>1, ApplyIsStep
  <1>3. PostMoves(n)
    BY <1>1, ApplyMoves
  <1>4. ASSUME WaitsOn' = WaitsOn PROVE [Waiting!Next]_(Waiting!vars)
    <2>1. CASE /\ n \notin DeadRounds
               /\ LiveRounds' = LiveRounds \cup {n} /\ DeadRounds' = DeadRounds
               /\ Waiting!Moves(n)
      <3> HIDE DEF n
      <3>1. Waiting!Post(n)
        BY <1>1, <1>4, <2>1 DEF Waiting!Post, Waiting!Awaits
      <3> QED BY <1>2, <3>1 DEF Waiting!Next
    <2>2. CASE /\ n \notin LiveRounds
               /\ LiveRounds' = LiveRounds /\ DeadRounds' = DeadRounds \cup {n}
               /\ Deadlines' = Deadlines
      <3> HIDE DEF n
      <3>1. Waiting!Post(n)
        BY <1>1, <1>4, <2>2 DEF Waiting!Post
      <3> QED BY <1>2, <3>1 DEF Waiting!Next
    <2> QED BY <1>3, <2>1, <2>2 DEF PostMoves
  <1>5. CASE PostLost(q, drifted)
    BY <1>4, <1>5 DEF PostLost, WaitsOn
  <1>6. ASSUME NEW c \in AskCalls, Post(c, q, drifted) PROVE [Waiting!Next]_(Waiting!vars)
    <2> DEFINE k == [NoAsk EXCEPT !.at = "detached", !.round = n,
                                  !.follows = IF q \in Plain THEN 0 ELSE rounds'[n].deadline,
                                  !.since = now]
    <2>1. /\ calling[c].at = "idle" /\ calling \in [AskCalls -> CallRecord]
          /\ calling' = [calling EXCEPT ![c] =
               IF q \in Question \cup Page /\ rounds'[n].awaited THEN k ELSE NoAsk]
      BY <1>6 DEF Post, RoundsInv, RoundsTypeOK
    <2>2. k.round = n /\ NoAsk.round = 0
      BY DEF NoAsk
    <2>3. calling[c].round = 0 /\ WaitsOn[c] = 0
      BY <2>1, WaitFacts DEF IdleIsFree, WaitView
    <2> HIDE DEF k
    <2>4. CASE q \in Question \cup Page /\ rounds'[n].awaited
      <3>1. WaitsOn' = [WaitsOn EXCEPT ![c] = n]
        BY <2>1, <2>2, <2>4 DEF WaitsOn
      <3>2. n \in LiveRounds'
        BY <1>1, <1>2, <2>4, WaitFactsNext DEF WaitView, BoardMoves
      <3>3. /\ n \notin DeadRounds
            /\ LiveRounds' = LiveRounds \cup {n} /\ DeadRounds' = DeadRounds
            /\ Waiting!Moves(n)
        BY <1>3, <3>2 DEF PostMoves
      <3> HIDE DEF n
      <3>4. Waiting!Ask(c, n)
        BY <1>1, <2>3, <3>1, <3>3 DEF Waiting!Ask, Waiting!Awaits
      <3> QED BY <1>2, <3>4 DEF Waiting!Next
    <2>5. CASE ~(q \in Question \cup Page /\ rounds'[n].awaited)
      <3>1. \A d \in AskCalls : calling'[d].round = calling[d].round
        BY <2>1, <2>2, <2>3, <2>5
      <3>2. WaitsOn' = WaitsOn
        BY <3>1 DEF WaitsOn
      <3> QED BY <1>4, <3>2
    <2> QED BY <2>4, <2>5
  <1> QED BY <1>5, <1>6

LEMMA StepPromised ==
  RoundsInv /\ RoundsInv' /\ IdleIsFree /\ [RoundsNext]_roundsVars
  => [Waiting!Next]_(Waiting!vars)
  <1> SUFFICES ASSUME RoundsInv, RoundsInv', IdleIsFree, [RoundsNext]_roundsVars
               PROVE  [Waiting!Next]_(Waiting!vars)
    OBVIOUS
  <1>1. ASSUME NEW q \in Request, NEW drifted \in BOOLEAN,
               PostLost(q, drifted) \/ (\E c \in AskCalls : Post(c, q, drifted))
        PROVE  [Waiting!Next]_(Waiting!vars)
    BY <1>1, PostsPromised
  <1>2. ASSUME NEW c \in AskCalls,
               Attach(c) \/ Cut(c) \/ (\E answered \in BOOLEAN : Extend(c, answered)) \/ Cancel(c)
        PROVE  [Waiting!Next]_(Waiting!vars)
    BY <1>2, CallsPromised DEF Waiting!Next
  <1>3. ASSUME NEW c \in AskCalls, NEW lost \in BOOLEAN, Poll(c, lost)
        PROVE  [Waiting!Next]_(Waiting!vars)
    BY <1>3, PollPromised DEF Waiting!Next
  <1>4. ASSUME NEW n \in DOMAIN rounds, SubmitRound(n) \/ Activity(n)
        PROVE  [Waiting!Next]_(Waiting!vars)
    <2>1. n \in 1 .. MaxRound
      BY WaitFacts, Numbers DEF WaitView
    <2> QED BY <1>4, <2>1, SubmitRoundPromised, ActivityPromised DEF Waiting!Next
  <1>5. CASE AbandonRounds \/ Tick
    BY <1>5, AbandonRoundsPromised, TickPromised DEF Waiting!Next
  <1>6. CASE DaemonRestarts
    BY <1>6, DaemonRestartsPromised DEF Waiting!Next
  <1>7. CASE UNCHANGED roundsVars
    BY <1>7 DEF roundsVars, Waiting!vars, LiveRounds, DeadRounds, Deadlines, WaitsOn, Live
  <1> QED BY <1>1, <1>2, <1>3, <1>4, <1>5, <1>6, <1>7 DEF RoundsNext

LEMMA InitPromised == RoundsInit => Waiting!Init /\ IdleIsFree
  <1> SUFFICES ASSUME RoundsInit PROVE Waiting!Init /\ IdleIsFree
    OBVIOUS
  <1>1. DOMAIN rounds = {}
    BY DEF RoundsInit
  <1>2. LiveRounds = {} /\ DeadRounds = {} /\ Deadlines = [n \in 1 .. MaxRound |-> 0]
    BY <1>1 DEF LiveRounds, DeadRounds, Deadlines
  <1>3. WaitsOn = [c \in AskCalls |-> 0] /\ IdleIsFree /\ told = {}
    BY DEF RoundsInit, WaitsOn, IdleIsFree, NoAsk
  <1> QED BY <1>2, <1>3 DEF Waiting!Init

(* Whatever is posted, repeated, swept, polled, cut off or given up on, a  *)
(* wait begins with a post and dies once, with the deadline it has; an ask *)
(* is put on an awaited round only, and told timed out only of one that is *)
(* past from then on: Rounds implements AwaitedRounds.                     *)
THEOREM WaitsAreKept == RoundsSpec => KeepsWaits
  <1>1. RoundsInit => Waiting!Init /\ IdleIsFree
    BY InitPromised
  <1>2. RoundsInv /\ IdleIsFree /\ [RoundsNext]_roundsVars => IdleIsFree'
    BY IdleStaysFree
  <1>3. RoundsInv /\ RoundsInv' /\ IdleIsFree /\ [RoundsNext]_roundsVars
        => [Waiting!Next]_(Waiting!vars)
    BY StepPromised
  <1> QED BY <1>1, <1>2, <1>3, RoundsInvariance, PTL DEF RoundsSpec, KeepsWaits, Waiting!Spec

=============================================================================
