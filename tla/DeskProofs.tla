------------------------------ MODULE DeskProofs ------------------------------
(***************************************************************************)
(* Proofs about the two clocks of the reviewer's desk: the pomodoro (an    *)
(* interval that runs is armed, and rings when its own time is over) and   *)
(* the mission watch (the batch speaks true); and, at the end, the five    *)
(* parts of the desk side by side.                                         *)
(***************************************************************************)
EXTENDS MCDesk, TabProofs, WaitingCacheProofs, TLAPS

-----------------------------------------------------------------------------
(* The pomodoro: the inductive invariant. *)

Docs == [enabled : BOOLEAN, cycle : 0 .. LongEvery - 1, today : BOOLEAN,
         timer : [is : {"none", "running", "paused"}, phase : Phases, time : Times]]

Armeds == [is : {"none", "wait", "retry"}, in : -Late .. Larger(MaxArm, Retry),
           skew : Jumps \cup {0}]

(* A short break is never the one that ends a set.                         *)
Fits(d) == d.timer.phase = "break" => d.cycle < LongEvery - 1

(* Only a wait measures a step of the clock.                               *)
SkewIsOfWait == armed.skew # 0 => armed.is = "wait"

(* Nothing is armed while the daemon is down.                              *)
IdleIsUnarmed == ~serving => armed = Unarmed

(* A paused interval has no timeout.                                       *)
PausedIsUnarmed == doc.today /\ doc.timer.is = "paused" => armed = Unarmed

(* What the clock will take back of the step it has measured.              *)
TakenBack == IF armed.skew <= MaxForward THEN armed.skew ELSE 0

(* The document and the clock that runs beside it agree, but for the step  *)
(* a wait will take back, until both are past the grace.                   *)
Agrees(time, left, step) ==
    \/ time = left - step
    \/ time < -ExpiryGrace - step /\ left < -ExpiryGrace

OwedIsKept ==
    doc.today /\ doc.timer.is # "none" =>
        IF armed.is = "wait" THEN Agrees(doc.timer.time, owed, TakenBack)
        ELSE doc.timer.time = owed

PomoInv ==
    /\ PomoTypeOK /\ Fits(doc)
    /\ SkewIsOfWait /\ IdleIsUnarmed /\ PausedIsUnarmed
    /\ OwedIsKept /\ RunningIsArmed

-----------------------------------------------------------------------------
(* Time. *)

(* The bounds, as the provers read them.                                   *)
LEMMA PomoNumbers ==
    /\ LongEvery \in Nat /\ LongEvery > 0
    /\ MaxArm \in Nat /\ MaxArm > 0
    /\ Retry \in Nat /\ Retry > 0
    /\ Late \in Nat /\ ExpiryGrace \in Nat /\ MaxForward \in Nat /\ MaxHitches \in Nat
    /\ \A phase \in Phases : Length[phase] \in Nat /\ Length[phase] > 0
    /\ \A by \in Jumps : by \in Int /\ by # 0
    /\ LongOver \in Int /\ LongOver < -ExpiryGrace /\ 0 \in Times
    /\ \A t \in Nat : t \in Times
<1>1. LongEvery \in Nat \ {0} /\ MaxArm \in Nat \ {0} /\ Retry \in Nat \ {0}
  BY PomoBounds
<1>2. Late \in Nat /\ ExpiryGrace \in Nat /\ MaxForward \in Nat /\ MaxHitches \in Nat
  BY PomoBounds
<1>3. \A phase \in Phases : Length[phase] \in Nat /\ Length[phase] > 0
  BY PomoBounds DEF Phases
<1>4. \A by \in Jumps : by \in Int /\ by # 0
  BY PomoBounds
<1> QED
  BY <1>1, <1>2, <1>3, <1>4 DEF LongOver, Times

(* Time that passes, or is given back, stays a time.                       *)
LEMMA AgedType ==
    ASSUME NEW t \in Times, NEW by \in Int
    PROVE  /\ Aged(t, by) \in Times
           /\ \/ Aged(t, by) = t - by
              \/ Aged(t, by) = LongOver /\ t - by < LongOver
  BY PomoNumbers DEF Aged, Larger, Times

LEMMA AgreesAtOnce == ASSUME NEW time \in Times PROVE Agrees(time, time, 0)
  BY DEF Agrees, Times

(* A unit that passes on both clocks keeps them together.                  *)
LEMMA AgeTogether ==
    ASSUME NEW time \in Times, NEW left \in Times, NEW step \in Int,
           NEW by \in Nat, step <= MaxForward, Agrees(time, left, step)
    PROVE  Agrees(Aged(time, by), Aged(left, by), step)
  BY PomoNumbers DEF Agrees, Aged, Larger, Times, LongOver

(* So does a jump that is not to be taken back.                            *)
LEMMA JumpTogether ==
    ASSUME NEW time \in Times, NEW left \in Times,
           NEW by \in Int, Agrees(time, left, 0), by > MaxForward
    PROVE  Agrees(Aged(time, by), Aged(left, by), 0)
  BY PomoNumbers DEF Agrees, Aged, Larger, Times, LongOver

(* A jump the clock has measured is what they differ by.                   *)
LEMMA JumpApart ==
    ASSUME NEW time \in Times, NEW left \in Times,
           NEW by \in Int, by <= MaxForward, Agrees(time, left, 0)
    PROVE  Agrees(Aged(time, by), left, by)
  BY PomoNumbers DEF Agrees, Aged, Larger, Times, LongOver

(* Taking it back brings them together.                                    *)
LEMMA TakingBack ==
    ASSUME NEW time \in Times, NEW left \in Times,
           NEW step \in Int, step <= MaxForward, Agrees(time, left, step)
    PROVE  \/ Aged(time, -step) = left
           \/ Aged(time, -step) < -ExpiryGrace /\ left < -ExpiryGrace
  BY PomoNumbers DEF Agrees, Aged, Larger, Times, LongOver

-----------------------------------------------------------------------------
(* The document. *)

LEMMA NoTimerType == NoTimer \in [is : {"none", "running", "paused"}, phase : Phases, time : Times]
  BY PomoNumbers DEF NoTimer, Timer, Phases

(* What a reading of the document gives.                                   *)
LEMMA ReadFacts ==
    ASSUME doc \in Docs, Fits(doc)
    PROVE  /\ Read \in Docs /\ Fits(Read) /\ Read.today
           /\ doc.today => Read = doc
           /\ ~doc.today => Read.timer.is = "none"
<1>1. CASE doc.today
  BY <1>1 DEF Read, Docs
<1>2. CASE ~doc.today
  <2>1. Read = [doc EXCEPT !.cycle = 0, !.timer = NoTimer, !.today = TRUE]
    BY <1>2 DEF Read
  <2>2. 0 \in 0 .. LongEvery - 1
    BY PomoNumbers
  <2>3. Read \in Docs /\ Read.timer = NoTimer /\ Read.today
    BY <2>1, <2>2, NoTimerType DEF Docs
  <2> QED
    BY <2>3, <1>2 DEF Fits, NoTimer, Timer
<1> QED
  BY <1>1, <1>2

(* The next phase, which the cycle has room for.                           *)
LEMMA AdvancedFacts ==
    ASSUME NEW d \in Docs, Fits(d)
    PROVE  /\ Advanced(d) \in Docs /\ Fits(Advanced(d))
           /\ Advanced(d).today = d.today
           /\ Advanced(d).timer.is = d.timer.is
<1> DEFINE phase == d.timer.phase
           next == NextPhase(phase, d.cycle)
           cycle == NextCycle(phase, d.cycle)
<1>1. phase \in Phases /\ d.cycle \in 0 .. LongEvery - 1
      /\ d.timer.is \in {"none", "running", "paused"}
  BY DEF Docs
<1>2. next \in Phases
  BY DEF NextPhase, Phases
<1>3. cycle \in 0 .. LongEvery - 1
  BY <1>1, PomoNumbers DEF NextCycle, Phases, Fits
<1>4. next = "break" => cycle < LongEvery - 1
  <2>1. SUFFICES ASSUME next = "break" PROVE cycle < LongEvery - 1
    OBVIOUS
  <2>2. phase = "work" /\ (d.cycle + 1) % LongEvery # 0
    BY <2>1 DEF NextPhase
  <2>3. d.cycle + 1 # LongEvery
    BY <2>2, PomoNumbers
  <2> QED
    BY <2>2, <2>3, <1>1, PomoNumbers DEF NextCycle
<1> DEFINE time == Length[next]
           timer == Timer(d.timer.is, next, time)
           e == [d EXCEPT !.cycle = cycle, !.timer = timer]
<1>5. time \in Times
  BY <1>2, PomoNumbers
<1>6. Advanced(d) = e
  BY DEF Advanced, Docs
<1> HIDE DEF next, cycle, time
<1>7. timer \in [is : {"none", "running", "paused"}, phase : Phases, time : Times]
      /\ timer.is = d.timer.is /\ timer.phase = next
  BY <1>1, <1>2, <1>5 DEF Timer
<1> HIDE DEF timer
<1>8. e \in Docs /\ e.today = d.today /\ e.cycle = cycle /\ e.timer = timer
  BY <1>3, <1>7 DEF Docs
<1> QED
  BY <1>4, <1>6, <1>7, <1>8 DEF Fits

(* A step taken back changes the time left, and nothing else.              *)
LEMMA SteppedFacts ==
    ASSUME NEW d \in Docs, Fits(d), NEW step \in Int
    PROVE  /\ ClockStepped(d, step) \in Docs /\ Fits(ClockStepped(d, step))
           /\ ClockStepped(d, step).today = d.today
           /\ ClockStepped(d, step).timer.is = d.timer.is
           /\ ClockStepped(d, step).timer.time =
                 IF d.timer.is = "running" /\ step <= MaxForward
                 THEN Aged(d.timer.time, -step) ELSE d.timer.time
<1>1. CASE d.timer.is = "running" /\ step <= MaxForward
  <2> DEFINE time == Aged(d.timer.time, -step)
  <2>1. d.timer.time \in Times /\ -step \in Int
    BY DEF Docs
  <2>2. time \in Times
    BY <2>1, AgedType
  <2>3. ClockStepped(d, step) = [d EXCEPT !.timer.time = time]
    BY <1>1 DEF ClockStepped, Docs
  <2> HIDE DEF time
  <2>4. /\ [d EXCEPT !.timer.time = time] \in Docs
        /\ [d EXCEPT !.timer.time = time].timer.time = time
        /\ [d EXCEPT !.timer.time = time].timer.is = d.timer.is
        /\ [d EXCEPT !.timer.time = time].timer.phase = d.timer.phase
        /\ [d EXCEPT !.timer.time = time].cycle = d.cycle
        /\ [d EXCEPT !.timer.time = time].today = d.today
    BY <2>2 DEF Docs
  <2>5. Fits([d EXCEPT !.timer.time = time])
    BY <2>4 DEF Fits
  <2> QED
    BY <1>1, <2>3, <2>4, <2>5 DEF time
<1>2. CASE ~(d.timer.is = "running" /\ step <= MaxForward)
  BY <1>2 DEF ClockStepped
<1> QED
  BY <1>1, <1>2

(* What settling a reading leaves.                                         *)
LEMMA SettlingFacts ==
    ASSUME NEW d \in Docs, Fits(d)
    PROVE  /\ SettledDoc(d) \in Docs /\ Fits(SettledDoc(d))
           /\ SettledDoc(d).today = d.today
           /\ ~Rings(d) /\ ~IsExpired(d.timer) => SettledDoc(d) = d
           /\ ~Rings(d) /\ IsExpired(d.timer) => SettledDoc(d).timer.is = "none"
<1>1. CASE Rings(d)
  <2>1. SettledDoc(d) = Advanced(d)
    BY <1>1 DEF SettledDoc, Rings
  <2> QED
    BY <1>1, <2>1, AdvancedFacts
<1>2. CASE ~Rings(d) /\ IsExpired(d.timer)
  <2>1. SettledDoc(d) = [d EXCEPT !.timer = NoTimer]
    BY <1>2 DEF SettledDoc
  <2>2. [d EXCEPT !.timer = NoTimer] \in Docs /\ [d EXCEPT !.timer = NoTimer].timer = NoTimer
        /\ [d EXCEPT !.timer = NoTimer].today = d.today
    BY NoTimerType DEF Docs
  <2> QED
    BY <1>2, <2>1, <2>2 DEF Fits, NoTimer, Timer
<1>3. CASE ~Rings(d) /\ ~IsExpired(d.timer)
  BY <1>3 DEF SettledDoc
<1> QED
  BY <1>1, <1>2, <1>3

-----------------------------------------------------------------------------
(* The timeout. *)

LEMMA PomoTypes ==
    PomoTypeOK <=> /\ doc \in Docs /\ armed \in Armeds /\ serving \in BOOLEAN
                   /\ owed \in Times /\ said \in {"", "rang", "dropped"}
                   /\ hitches \in 0 .. MaxHitches
  BY DEF PomoTypeOK, Docs, Armeds

LEMMA UnarmedType == Unarmed \in Armeds /\ Unarmed.is = "none" /\ Unarmed.skew = 0
<1>1. 0 \in -Late .. Larger(MaxArm, Retry)
  BY PomoNumbers DEF Larger
<1> QED
  BY <1>1 DEF Unarmed, Armeds

(* A document written arms what it runs.                                   *)
LEMMA ArmFacts ==
    ASSUME NEW d \in Docs
    PROVE  /\ Arm(d) \in Armeds /\ Arm(d).skew = 0
           /\ d.timer.is = "running" => Arm(d).is = "wait"
           /\ d.timer.is # "running" => Arm(d) = Unarmed
<1>1. CASE d.timer.is = "running"
  <2> DEFINE in == Sooner(Larger(0, d.timer.time), MaxArm)
  <2>1. d.timer.time \in Int
    BY DEF Docs, Times
  <2>2. in \in -Late .. Larger(MaxArm, Retry)
    BY <2>1, PomoNumbers DEF Sooner, Larger
  <2>3. Arm(d) = [is |-> "wait", in |-> in, skew |-> 0]
    BY <1>1 DEF Arm
  <2> HIDE DEF in
  <2> QED
    BY <1>1, <2>2, <2>3 DEF Armeds
<1>2. CASE d.timer.is # "running"
  BY <1>2, UnarmedType DEF Arm
<1> QED
  BY <1>1, <1>2

LEMMA RetryFacts == RetryLater \in Armeds /\ RetryLater.skew = 0 /\ RetryLater.is = "retry"
<1>1. Retry \in -Late .. Larger(MaxArm, Retry)
  BY PomoNumbers DEF Larger
<1> QED
  BY <1>1 DEF RetryLater, Armeds

(* A reading of today's document, written and armed, or found unchanged    *)
(* and armed, is all the invariant asks for.                               *)
LEMMA Rearmed ==
    ASSUME PomoInv, NEW d \in Docs, Fits(d), d.today,
           doc' = d \/ (doc' = doc /\ Read = d),
           armed' = Arm(d), serving' = TRUE,
           owed' \in Times, d.timer.is # "none" => owed' = d.timer.time,
           said' \in {"", "rang", "dropped"}, hitches' \in 0 .. MaxHitches
    PROVE  PomoInv'
<1>1. doc \in Docs /\ Fits(doc)
  BY PomoTypes DEF PomoInv
<1>2. doc' \in Docs /\ Fits(doc')
  BY <1>1
<1>3. Read' = d
  BY DEF Read
<1>4. doc'.today => doc' = d
  BY <1>1, ReadFacts
<1>5. armed' \in Armeds /\ armed'.skew = 0
      /\ (d.timer.is = "running" => armed'.is = "wait")
      /\ (d.timer.is # "running" => armed' = Unarmed)
  BY ArmFacts
<1>6. PomoTypeOK'
  BY <1>2, <1>5, PomoTypes DEF PomoTypeOK, Docs, Armeds
<1>7. SkewIsOfWait' /\ IdleIsUnarmed'
  BY <1>5 DEF SkewIsOfWait, IdleIsUnarmed
<1>8. PausedIsUnarmed'
  BY <1>4, <1>5 DEF PausedIsUnarmed
<1>9. OwedIsKept'
  <2>1. TakenBack' = 0
    BY <1>5, PomoNumbers DEF TakenBack
  <2>2. doc'.today /\ doc'.timer.is # "none" => doc'.timer.time = owed'
    BY <1>4
  <2>4. Agrees(owed', owed', 0)
    BY AgreesAtOnce
  <2> QED
    BY <2>1, <2>2, <2>4 DEF OwedIsKept
<1>10. RunningIsArmed'
  BY <1>3, <1>5 DEF RunningIsArmed
<1> QED
  BY <1>2, <1>6, <1>7, <1>8, <1>9, <1>10 DEF PomoInv, Fits

-----------------------------------------------------------------------------
(* The boundary. *)

LEMMA HitchCounts ==
    ASSUME NEW n \in 0 .. MaxHitches, n < MaxHitches
    PROVE  n + 1 \in 0 .. MaxHitches
  BY PomoNumbers

LEMMA StepIsInt ==
    ASSUME PomoInv
    PROVE  /\ ClockStepSince \in Int /\ armed.skew \in Int
           /\ armed.is # "wait" => armed.skew = 0
<1>1. armed \in Armeds
  BY PomoTypes DEF PomoInv
<1>2. armed.skew \in Int
  BY <1>1, PomoNumbers DEF Armeds
<1> QED
  BY <1>2 DEF ClockStepSince, PomoInv, SkewIsOfWait

(* What a reconcile reads, its step taken back, is what is owed.           *)
LEMMA SteppedIsOwed ==
    ASSUME PomoInv
    PROVE  LET stepped == ClockStepped(Read, ClockStepSince)
           IN  stepped.timer.is # "none" =>
                 \/ stepped.timer.time = owed
                 \/ /\ stepped.timer.is = "running"
                    /\ stepped.timer.time < -ExpiryGrace /\ owed < -ExpiryGrace
<1> DEFINE step == ClockStepSince
           stepped == ClockStepped(Read, step)
           time == doc.timer.time
<1>1. doc \in Docs /\ Fits(doc) /\ owed \in Times /\ time \in Times
  BY PomoTypes DEF PomoInv, Docs
<1>2. step \in Int /\ armed.skew \in Int
  BY StepIsInt
<1>3. Read \in Docs /\ Fits(Read)
      /\ (doc.today => Read = doc) /\ (~doc.today => Read.timer.is = "none")
  BY <1>1, ReadFacts
<1>4. stepped.timer.is = Read.timer.is
      /\ stepped.timer.time = IF Read.timer.is = "running" /\ step <= MaxForward
                              THEN Aged(Read.timer.time, -step) ELSE Read.timer.time
  BY <1>2, <1>3, SteppedFacts
<1> HIDE DEF step, stepped
<1>5. CASE Read.timer.is = "none"
  BY <1>4, <1>5 DEF stepped, step
<1>6. CASE Read.timer.is = "paused"
  <2>1. doc.today /\ doc.timer.is = "paused" /\ Read = doc
    BY <1>3, <1>6
  <2>2. armed.is # "wait"
    BY <2>1, UnarmedType DEF PomoInv, PausedIsUnarmed
  <2>3. time = owed
    BY <2>1, <2>2 DEF PomoInv, OwedIsKept
  <2> QED
    BY <1>4, <1>6, <2>1, <2>3 DEF stepped, step
<1>7. CASE Read.timer.is = "running"
  <2>1. doc.today /\ doc.timer.is = "running" /\ Read = doc
    BY <1>3, <1>7
  <2>2. CASE armed.is = "wait"
    <3>1. step = armed.skew /\ Agrees(time, owed, TakenBack)
      BY <2>1, <2>2 DEF PomoInv, OwedIsKept, ClockStepSince, step
    <3>2. CASE step <= MaxForward
      <4>1. Agrees(time, owed, step)
        BY <3>1, <3>2 DEF TakenBack
      <4>2. \/ Aged(time, -step) = owed
            \/ Aged(time, -step) < -ExpiryGrace /\ owed < -ExpiryGrace
        BY <4>1, <3>2, <1>1, <1>2, TakingBack
      <4> QED
        BY <4>2, <3>2, <1>4, <2>1 DEF stepped, step
    <3>3. CASE ~(step <= MaxForward)
      <4>1. Agrees(time, owed, 0)
        BY <3>1, <3>3 DEF TakenBack
      <4>2. \/ time = owed
            \/ time < -ExpiryGrace /\ owed < -ExpiryGrace
        BY <4>1, <1>1, PomoNumbers DEF Agrees, Times
      <4> QED
        BY <4>2, <3>3, <1>4, <2>1 DEF stepped, step
    <3> QED
      BY <3>2, <3>3
  <2>3. CASE armed.is # "wait"
    <3>1. step = 0 /\ time = owed
      BY <2>1, <2>3 DEF PomoInv, OwedIsKept, ClockStepSince, step
    <3>2. Aged(time, -step) = time
      BY <3>1, <1>1, PomoNumbers DEF Aged, Larger, Times
    <3> QED
      BY <3>1, <3>2, <1>4, <2>1 DEF stepped, step
  <2> QED
    BY <2>2, <2>3
<1>8. Read.timer.is \in {"none", "running", "paused"}
  BY <1>3 DEF Docs
<1> QED
  BY <1>5, <1>6, <1>7, <1>8

(* A reconcile that writes: the invariant, and what it tells the reader.   *)
LEMMA ReconcileKeeps ==
    ASSUME PomoInv, Reconcile(ClockStepSince), serving' = TRUE, UNCHANGED hitches
    PROVE  /\ PomoInv'
           /\ said' = "rang" => owed \in -ExpiryGrace .. 0
           /\ said' = "dropped" => owed < -ExpiryGrace
<1> DEFINE stepped == ClockStepped(Read, ClockStepSince)
           next == SettledDoc(stepped)
<1>1. doc \in Docs /\ Fits(doc) /\ owed \in Times /\ hitches \in 0 .. MaxHitches
  BY PomoTypes DEF PomoInv
<1>2. Read \in Docs /\ Fits(Read) /\ Read.today
  BY <1>1, ReadFacts
<1>3. stepped \in Docs /\ Fits(stepped) /\ stepped.today
  <2>1. ClockStepSince \in Int
    BY StepIsInt
  <2> QED
    BY <1>2, <2>1, SteppedFacts
<1>4. /\ next \in Docs /\ Fits(next) /\ next.today
      /\ (~Rings(stepped) /\ ~IsExpired(stepped.timer) => next = stepped)
      /\ (~Rings(stepped) /\ IsExpired(stepped.timer) => next.timer.is = "none")
  BY <1>3, SettlingFacts
<1>5. stepped.timer.is # "none" =>
        \/ stepped.timer.time = owed
        \/ /\ stepped.timer.is = "running"
           /\ stepped.timer.time < -ExpiryGrace /\ owed < -ExpiryGrace
  BY SteppedIsOwed
<1>6. /\ doc' = IF next = Read THEN doc ELSE next
      /\ armed' = Arm(next)
      /\ IF Rings(stepped) THEN Observe(next.timer.time, "rang")
         ELSE IF IsExpired(stepped.timer) THEN Observe(0, "dropped")
         ELSE Observe(IF next.timer.is = "none" THEN 0 ELSE owed, "")
  BY DEF Reconcile
<1>7. doc' = next \/ (doc' = doc /\ Read = next)
  BY <1>6
<1> HIDE DEF stepped, next
<1>8. next.timer.time \in Times
  BY <1>4 DEF Docs
<1>9. CASE Rings(stepped)
  <2>1. owed' = next.timer.time /\ said' = "rang"
    BY <1>6, <1>9 DEF Observe
  <2>2. PomoInv'
    BY <2>1, <1>1, <1>4, <1>6, <1>7, <1>8, Rearmed
  <2>3. stepped.timer.is = "running" /\ stepped.timer.time <= 0
        /\ ~(stepped.timer.time < -ExpiryGrace)
    BY <1>9 DEF Rings, IsDue, IsExpired
  <2>4. owed \in -ExpiryGrace .. 0
    BY <2>3, <1>1, <1>5, PomoNumbers DEF Times
  <2> QED
    BY <2>1, <2>2, <2>4
<1>10. CASE ~Rings(stepped) /\ IsExpired(stepped.timer)
  <2>1. owed' = 0 /\ said' = "dropped" /\ next.timer.is = "none"
    BY <1>4, <1>6, <1>10 DEF Observe
  <2>2. PomoInv'
    BY <2>1, <1>1, <1>4, <1>6, <1>7, Rearmed, PomoNumbers
  <2>3. stepped.timer.is = "running" /\ stepped.timer.time < -ExpiryGrace
    BY <1>10 DEF IsExpired
  <2>4. owed < -ExpiryGrace
    BY <2>3, <1>5
  <2> QED
    BY <2>1, <2>2, <2>4
<1>11. CASE ~Rings(stepped) /\ ~IsExpired(stepped.timer)
  <2>1. said' = "" /\ next = stepped
        /\ owed' = IF next.timer.is = "none" THEN 0 ELSE owed
    BY <1>4, <1>6, <1>11 DEF Observe
  <2>2. owed' \in Times
    BY <2>1, <1>1, PomoNumbers
  <2>3. next.timer.is # "none" => owed' = next.timer.time
    BY <2>1, <1>5, <1>11 DEF IsExpired
  <2>4. PomoInv'
    BY <2>1, <2>2, <2>3, <1>1, <1>4, <1>6, <1>7, Rearmed
  <2> QED
    BY <2>1, <2>4
<1> QED
  BY <1>9, <1>10, <1>11

(* One that cannot write leaves a retry behind.                            *)
LEMMA ReconcileFailsKeeps ==
    ASSUME PomoInv, ReconcileFails(ClockStepSince), serving' = TRUE
    PROVE  PomoInv' /\ said' = ""
<1>1. doc \in Docs /\ Fits(doc) /\ hitches \in 0 .. MaxHitches
  BY PomoTypes DEF PomoInv
<1>2. Read \in Docs /\ Fits(Read) /\ Read.today
      /\ (doc.today => Read = doc) /\ (~doc.today => Read.timer.is = "none")
  BY <1>1, ReadFacts
<1>3. /\ hitches < MaxHitches /\ hitches' = hitches + 1
      /\ SettledDoc(ClockStepped(Read, ClockStepSince)) # Read
      /\ armed' = RetryLater /\ owed' = Read.timer.time /\ said' = "" /\ doc' = doc
  BY DEF ReconcileFails, Observe
<1>4. Read.timer.is = "running"
  <2>1. SUFFICES ASSUME Read.timer.is # "running" PROVE FALSE
    OBVIOUS
  <2>2. ClockStepped(Read, ClockStepSince) = Read
    BY <2>1 DEF ClockStepped
  <2>3. ~Rings(Read) /\ ~IsExpired(Read.timer)
    BY <2>1 DEF Rings, IsDue, IsExpired
  <2>4. SettledDoc(Read) = Read
    BY <2>3, <1>2, SettlingFacts
  <2> QED
    BY <2>2, <2>4, <1>3
<1>5. doc.today /\ Read = doc
  BY <1>2, <1>4
<1>6. owed' \in Times /\ hitches' \in 0 .. MaxHitches
  <2>1. owed' \in Times
    BY <1>2, <1>3 DEF Docs
  <2>2. hitches' \in 0 .. MaxHitches
    BY <1>1, <1>3, HitchCounts
  <2> QED
    BY <2>1, <2>2
<1>7. PomoTypeOK'
  BY <1>1, <1>3, <1>6, RetryFacts DEF PomoTypeOK, Docs, Armeds
<1>8. Fits(doc')
  BY <1>1, <1>3
<1>9. SkewIsOfWait' /\ IdleIsUnarmed' /\ PausedIsUnarmed'
  BY <1>3, <1>4, <1>5, RetryFacts DEF SkewIsOfWait, IdleIsUnarmed, PausedIsUnarmed
<1>10. OwedIsKept' /\ RunningIsArmed'
  BY <1>3, <1>5, RetryFacts DEF OwedIsKept, RunningIsArmed
<1> QED
  BY <1>3, <1>7, <1>8, <1>9, <1>10 DEF PomoInv, Fits

-----------------------------------------------------------------------------
(* The steps. *)

LEMMA PomoInitInv == PomoInit => PomoInv
<1> SUFFICES ASSUME PomoInit PROVE PomoInv
  OBVIOUS
<1>1. /\ doc = [enabled |-> FALSE, cycle |-> 0, timer |-> NoTimer, today |-> FALSE]
      /\ armed = Unarmed /\ serving = FALSE /\ owed = 0 /\ said = "" /\ hitches = 0
  BY DEF PomoInit
<1>2. 0 \in 0 .. LongEvery - 1 /\ 0 \in 0 .. MaxHitches
  BY PomoNumbers
<1>3. doc \in Docs
  BY <1>1, <1>2, NoTimerType DEF Docs
<1>4. PomoTypeOK
  BY <1>1, <1>2, <1>3, UnarmedType, PomoNumbers, PomoTypes
<1> QED
  BY <1>1, <1>4, UnarmedType
     DEF PomoInv, Fits, SkewIsOfWait, IdleIsUnarmed, PausedIsUnarmed, OwedIsKept,
         RunningIsArmed, NoTimer, Timer

LEMMA BootKeeps ==
    ASSUME PomoInv, Boot
    PROVE  /\ PomoInv'
           /\ said' = "rang" => owed \in -ExpiryGrace .. 0
           /\ said' = "dropped" => owed < -ExpiryGrace
<1>1. ~serving /\ serving' = TRUE
  BY DEF Boot
<1>2. ClockStepSince = 0
  BY <1>1, UnarmedType DEF PomoInv, IdleIsUnarmed, ClockStepSince
<1>3. CASE Reconcile(0) /\ UNCHANGED hitches
  BY <1>1, <1>2, <1>3, ReconcileKeeps
<1>4. CASE ReconcileFails(0)
  BY <1>1, <1>2, <1>4, ReconcileFailsKeeps
<1> QED
  BY <1>3, <1>4 DEF Boot

LEMMA TimerFiresKeeps ==
    ASSUME PomoInv, TimerFires
    PROVE  /\ PomoInv'
           /\ said' = "rang" => owed \in -ExpiryGrace .. 0
           /\ said' = "dropped" => owed < -ExpiryGrace
<1>1. serving' = TRUE
  BY PomoTypes DEF TimerFires, PomoInv
<1>2. CASE Reconcile(ClockStepSince) /\ UNCHANGED hitches
  BY <1>1, <1>2, ReconcileKeeps
<1>3. CASE ReconcileFails(ClockStepSince)
  BY <1>1, <1>3, ReconcileFailsKeeps
<1> QED
  BY <1>2, <1>3 DEF TimerFires

LEMMA StopKeeps ==
    ASSUME PomoInv, Stop
    PROVE  PomoInv' /\ said' = ""
<1>1. doc \in Docs /\ Fits(doc) /\ hitches \in 0 .. MaxHitches
  BY PomoTypes DEF PomoInv
<1>2. /\ hitches < MaxHitches /\ hitches' = hitches + 1 /\ serving' = FALSE
      /\ armed' = Unarmed /\ owed' = doc.timer.time /\ said' = "" /\ doc' = doc
  BY DEF Stop, Observe
<1>3. hitches' \in 0 .. MaxHitches
  BY <1>1, <1>2, HitchCounts
<1>4. owed' \in Times
  BY <1>1, <1>2 DEF Docs
<1>5. PomoTypeOK'
  BY <1>1, <1>2, <1>3, <1>4, UnarmedType DEF PomoTypeOK, Docs, Armeds
<1> QED
  BY <1>1, <1>2, <1>5, UnarmedType
     DEF PomoInv, Fits, SkewIsOfWait, IdleIsUnarmed, PausedIsUnarmed, OwedIsKept,
         RunningIsArmed

(* A control that writes today's document and owes what it holds.          *)
LEMMA ControlKeeps ==
    ASSUME PomoInv, NEW d \in Docs, Fits(d), d.today,
           NEW left \in Times, d.timer.is # "none" => left = d.timer.time,
           Control(d, left)
    PROVE  PomoInv' /\ said' = ""
<1>1. hitches \in 0 .. MaxHitches /\ serving \in BOOLEAN
  BY PomoTypes DEF PomoInv
<1>2. /\ doc' = d /\ armed' = Arm(d) /\ owed' = left /\ said' = ""
      /\ serving' = TRUE /\ hitches' = hitches
  BY <1>1 DEF Control, Observe
<1> QED
  BY <1>1, <1>2, Rearmed

LEMMA ReadingFacts ==
    ASSUME PomoInv
    PROVE  /\ Read \in Docs /\ Fits(Read) /\ Read.today
           /\ doc.today => Read = doc
           /\ ~doc.today => Read.timer.is = "none"
<1>1. doc \in Docs /\ Fits(doc)
  BY PomoTypes DEF PomoInv
<1> QED
  BY <1>1, ReadFacts

LEMMA EnsureKeeps ==
    ASSUME PomoInv, Ensure
    PROVE  PomoInv' /\ said' = ""
<1> DEFINE time == Length["work"]
           timer == Timer("running", "work", time)
           d == [Read EXCEPT !.timer = timer]
<1>1. time \in Times
  BY PomoNumbers DEF Phases
<1> HIDE DEF time
<1>2. timer \in [is : {"none", "running", "paused"}, phase : Phases, time : Times]
      /\ timer.is = "running" /\ timer.phase = "work" /\ timer.time = time
  BY <1>1 DEF Timer, Phases
<1>3. Control(d, time)
  BY DEF Ensure, time
<1> HIDE DEF timer
<1>4. d \in Docs /\ d.today /\ d.timer = timer
  BY <1>2, ReadingFacts DEF Docs
<1> HIDE DEF d
<1>5. Fits(d)
  BY <1>2, <1>4 DEF Fits
<1> QED
  BY <1>1, <1>2, <1>3, <1>4, <1>5, ControlKeeps

LEMMA PauseKeeps ==
    ASSUME PomoInv, Pause
    PROVE  PomoInv' /\ said' = ""
<1> DEFINE time == Read.timer.time
           kept == Larger(0, time)
           left == IF time < -ExpiryGrace THEN time ELSE kept
           timer == IF IsExpired(Read.timer) THEN NoTimer
                    ELSE Timer("paused", Read.timer.phase, kept)
           d == [Read EXCEPT !.timer = timer]
<1>1. Read \in Docs /\ Read.today /\ Fits(Read)
  BY ReadingFacts
<1>2. time \in Times /\ Read.timer.phase \in Phases
  BY <1>1 DEF Docs
<1>3. kept \in Times
  BY <1>2, PomoNumbers DEF Larger
<1>4. Read.timer.is = "running" /\ Control(PausedDoc(Read), left)
  BY DEF Pause
<1>5. PausedDoc(Read) = d
  BY <1>1 DEF PausedDoc, Docs
<1>6. /\ timer \in [is : {"none", "running", "paused"}, phase : Phases, time : Times]
      /\ timer.is # "none" => timer.time = left
      /\ timer.phase = "break" => Read.timer.phase = "break"
  <2>1. CASE IsExpired(Read.timer)
    BY <2>1, NoTimerType DEF NoTimer, Timer
  <2>2. CASE ~IsExpired(Read.timer)
    <3>1. timer = Timer("paused", Read.timer.phase, kept)
      BY <2>2
    <3>2. left = kept
      BY <2>2, <1>4 DEF IsExpired
    <3> HIDE DEF kept, left, timer
    <3> QED
      BY <3>1, <3>2, <1>2, <1>3 DEF Timer
  <2> QED
    BY <2>1, <2>2
<1>7. left \in Times
  BY <1>2, <1>3
<1> HIDE DEF timer, left
<1>8. d \in Docs /\ d.today /\ d.timer = timer /\ d.cycle = Read.cycle
  BY <1>1, <1>6 DEF Docs
<1> HIDE DEF d
<1>9. Fits(d)
  BY <1>1, <1>6, <1>8 DEF Fits
<1> QED
  BY <1>4, <1>5, <1>6, <1>7, <1>8, <1>9, ControlKeeps

LEMMA ResumeKeeps ==
    ASSUME PomoInv, Resume
    PROVE  PomoInv' /\ said' = ""
<1> DEFINE d == [Read EXCEPT !.timer.is = "running"]
<1>1. Read \in Docs /\ Read.today /\ Fits(Read) /\ Read.timer.is = "paused"
      /\ Control(d, owed)
  BY ReadingFacts DEF Resume
<1>2. doc.today /\ Read = doc
  BY <1>1, ReadingFacts
<1>3. owed \in Times
  BY PomoTypes DEF PomoInv
<1>4. armed.is # "wait"
  BY <1>1, <1>2, UnarmedType DEF PomoInv, PausedIsUnarmed
<1>5. Read.timer.time = owed
  BY <1>1, <1>2, <1>4 DEF PomoInv, OwedIsKept
<1>6. d \in Docs /\ d.today /\ d.timer.time = Read.timer.time
      /\ d.timer.phase = Read.timer.phase /\ d.cycle = Read.cycle
  BY <1>1 DEF Docs
<1> HIDE DEF d
<1>7. Fits(d)
  BY <1>1, <1>6 DEF Fits
<1> QED
  BY <1>1, <1>3, <1>5, <1>6, <1>7, ControlKeeps

LEMMA ForwardKeeps ==
    ASSUME PomoInv, Forward
    PROVE  PomoInv' /\ said' = ""
<1>1. Read \in Docs /\ Fits(Read) /\ Read.today
  BY ReadingFacts
<1>2. Control(Advanced(Read), Advanced(Read).timer.time)
  BY DEF Forward
<1>3. Advanced(Read) \in Docs /\ Fits(Advanced(Read)) /\ Advanced(Read).today
  BY <1>1, AdvancedFacts
<1>4. Advanced(Read).timer.time \in Times
  BY <1>3 DEF Docs
<1> QED
  BY <1>2, <1>3, <1>4, ControlKeeps

LEMMA RestartPhaseKeeps ==
    ASSUME PomoInv, RestartPhase
    PROVE  PomoInv' /\ said' = ""
<1> DEFINE time == Length[Read.timer.phase]
           d == [Read EXCEPT !.timer.time = time]
<1>1. Read \in Docs /\ Fits(Read) /\ Read.today
  BY ReadingFacts
<1>2. Control(d, time)
  BY DEF RestartPhase, Restarted
<1>3. time \in Times
  BY <1>1, PomoNumbers DEF Docs
<1> HIDE DEF time
<1>4. d \in Docs /\ d.today /\ d.timer.time = time
      /\ d.timer.phase = Read.timer.phase /\ d.cycle = Read.cycle
  BY <1>1, <1>3 DEF Docs
<1> HIDE DEF d
<1>5. Fits(d)
  BY <1>1, <1>4 DEF Fits
<1> QED
  BY <1>2, <1>3, <1>4, <1>5, ControlKeeps

LEMMA ResetKeeps ==
    ASSUME PomoInv, Reset
    PROVE  PomoInv' /\ said' = ""
<1> DEFINE d == [Read EXCEPT !.timer = NoTimer, !.cycle = 0]
<1>1. Read \in Docs /\ Fits(Read) /\ Read.today
  BY ReadingFacts
<1>2. Control(d, 0)
  BY DEF Reset
<1>3. 0 \in 0 .. LongEvery - 1 /\ 0 \in Times
  BY PomoNumbers
<1>4. d \in Docs /\ d.today /\ d.timer = NoTimer
  BY <1>1, <1>3, NoTimerType DEF Docs
<1> HIDE DEF d
<1>5. d.timer.is = "none" /\ Fits(d)
  BY <1>4 DEF Fits, NoTimer, Timer
<1> QED
  BY <1>2, <1>3, <1>4, <1>5, ControlKeeps

(* The settings touch the timeout only with the timer.                     *)
LEMMA SaveSettingsKeeps ==
    ASSUME PomoInv, SaveSettings
    PROVE  PomoInv' /\ said' = ""
<1>1. PICK enabled \in BOOLEAN :
        /\ doc' = Merged(Read, enabled)
        /\ armed' = IF Merged(Read, enabled).timer # Read.timer
                     THEN Arm(Merged(Read, enabled)) ELSE armed
        /\ Observe(IF Merged(Read, enabled).timer.is = "none" THEN 0 ELSE owed, "")
  BY DEF SaveSettings
<1> DEFINE next == Merged(Read, enabled)
<1>2. Read \in Docs /\ Fits(Read) /\ Read.today
  BY ReadingFacts
<1>3. armed \in Armeds /\ owed \in Times /\ hitches \in 0 .. MaxHitches
      /\ serving \in BOOLEAN
  BY PomoTypes DEF PomoInv
<1>4. serving' = TRUE /\ serving = TRUE /\ hitches' = hitches
  BY <1>3 DEF SaveSettings
<1>5. /\ next \in Docs /\ next.today
      /\ \/ next.timer = Read.timer /\ next.cycle = Read.cycle
         \/ next.timer = NoTimer
  <2>1. CASE Read.enabled /\ ~enabled
    <3>1. next = [Read EXCEPT !.enabled = FALSE, !.timer = NoTimer, !.cycle = 0]
      BY <2>1 DEF Merged
    <3>2. 0 \in 0 .. LongEvery - 1
      BY PomoNumbers
    <3> HIDE DEF next
    <3> QED
      BY <3>1, <3>2, <1>2, NoTimerType DEF Docs
  <2>2. CASE ~(Read.enabled /\ ~enabled)
    <3>1. next = [Read EXCEPT !.enabled = enabled]
      BY <2>2 DEF Merged
    <3> HIDE DEF next
    <3> QED
      BY <3>1, <1>2 DEF Docs
  <2> QED
    BY <2>1, <2>2
<1>6. /\ doc' = next
      /\ armed' = IF next.timer # Read.timer THEN Arm(next) ELSE armed
      /\ owed' = IF next.timer.is = "none" THEN 0 ELSE owed
      /\ said' = ""
  BY <1>1 DEF Observe
<1> HIDE DEF next
<1>7. Fits(next)
  BY <1>2, <1>5 DEF Fits, NoTimer, Timer
<1>8. owed' \in Times
  BY <1>3, <1>6, PomoNumbers
<1>9. CASE next.timer # Read.timer
  <2>1. next.timer = NoTimer
    BY <1>5, <1>9
  <2>2. next.timer.is = "none"
    BY <2>1 DEF NoTimer, Timer
  <2>3. armed' = Arm(next)
    BY <1>6, <1>9
  <2> QED
    BY <2>2, <2>3, <1>3, <1>4, <1>5, <1>6, <1>7, <1>8, Rearmed
<1>10. CASE next.timer = Read.timer
  <2>1. armed' = armed
    BY <1>6, <1>10
  <2>2. PomoTypeOK'
    BY <2>1, <1>3, <1>4, <1>5, <1>6, <1>8 DEF PomoTypeOK, Docs, Armeds
  <2>3. next.timer.is # "none" => doc.today /\ Read = doc
    BY <1>10, ReadingFacts
  <2>4. SkewIsOfWait' /\ IdleIsUnarmed'
    BY <2>1, <1>4 DEF PomoInv, SkewIsOfWait, IdleIsUnarmed
  <2>5. PausedIsUnarmed'
    BY <2>1, <2>3, <1>6, <1>10 DEF PomoInv, PausedIsUnarmed
  <2>6. OwedIsKept'
    BY <2>1, <2>3, <1>6, <1>10 DEF PomoInv, OwedIsKept, TakenBack
  <2>7. Read' = next
    BY <1>5, <1>6 DEF Read
  <2>8. RunningIsArmed'
    BY <2>1, <2>7, <1>4, <1>10 DEF PomoInv, RunningIsArmed
  <2> QED
    BY <2>2, <2>4, <2>5, <2>6, <2>8, <1>6, <1>7 DEF PomoInv, Fits
<1> QED
  BY <1>6, <1>9, <1>10

-----------------------------------------------------------------------------
(* The world. *)

(* The document as time passes by: a running timer has less of it left.    *)
LEMMA PassesFacts ==
    ASSUME PomoInv, NEW by \in Int
    PROVE  /\ Passes(by) \in Docs /\ Fits(Passes(by)) /\ Passes(by).today = doc.today
           /\ Passes(by).timer.is = doc.timer.is
           /\ Passes(by).timer.time =
                 IF doc.timer.is = "running" THEN Aged(doc.timer.time, by)
                 ELSE doc.timer.time
<1> DEFINE time == Aged(doc.timer.time, by)
           d == [doc EXCEPT !.timer.time = time]
<1>1. doc \in Docs /\ Fits(doc)
  BY PomoTypes DEF PomoInv
<1>2. time \in Times
  BY <1>1, AgedType DEF Docs
<1>3. Passes(by) = IF doc.timer.is = "running" THEN d ELSE doc
  BY <1>1 DEF Passes, Docs
<1> HIDE DEF time
<1>5. d \in Docs /\ d.today = doc.today /\ d.timer.is = doc.timer.is
      /\ d.timer.time = time /\ d.timer.phase = doc.timer.phase /\ d.cycle = doc.cycle
  BY <1>1, <1>2 DEF Docs
<1> HIDE DEF d
<1>7. Fits(d)
  BY <1>1, <1>5 DEF Fits
<1> QED
  BY <1>1, <1>3, <1>5, <1>7 DEF time

(* A document aged reads as it read, but for the time left.                *)
LEMMA PassesRead ==
    ASSUME PomoInv, NEW by \in Int, doc' = Passes(by)
    PROVE  Read'.timer.is = Read.timer.is
  BY PassesFacts DEF Read, NoTimer, Timer, Docs

LEMMA TimePassesKeeps ==
    ASSUME PomoInv, TimePasses
    PROVE  PomoInv' /\ said' = ""
<1>1. /\ doc \in Docs /\ armed \in Armeds /\ serving \in BOOLEAN
      /\ owed \in Times /\ hitches \in 0 .. MaxHitches
  BY PomoTypes DEF PomoInv
<1>a. PICK by \in Int : by = 1
  OBVIOUS
<1>2. /\ armed.is # "none" => armed.in > -Late
      /\ doc' = Passes(by)
      /\ armed' = IF armed.is = "none" THEN armed ELSE [armed EXCEPT !.in = @ - 1]
      /\ owed' = IF doc.timer.is = "running" THEN Aged(owed, by) ELSE owed
      /\ said' = "" /\ serving' = serving /\ hitches' = hitches
  BY <1>a DEF TimePasses, Observe
<1>3. /\ doc' \in Docs /\ Fits(doc') /\ doc'.today = doc.today
      /\ doc'.timer.is = doc.timer.is
      /\ doc'.timer.time = IF doc.timer.is = "running" THEN Aged(doc.timer.time, by)
                           ELSE doc.timer.time
  BY <1>2, PassesFacts
<1>4. Read'.timer.is = Read.timer.is
  BY <1>2, PassesRead
<1>5. owed' \in Times
  BY <1>1, <1>2, AgedType
<1>6. armed' \in Armeds /\ armed'.is = armed.is /\ armed'.skew = armed.skew
  <2>1. CASE armed.is = "none"
    BY <2>1, <1>1, <1>2
  <2>2. CASE armed.is # "none"
    <3> DEFINE in == armed.in - 1
    <3>1. armed.in \in -Late .. Larger(MaxArm, Retry) /\ armed.in > -Late
      BY <2>2, <1>1, <1>2 DEF Armeds
    <3>2. in \in -Late .. Larger(MaxArm, Retry)
      BY <3>1, PomoNumbers DEF Larger
    <3>3. armed' = [armed EXCEPT !.in = in]
      BY <2>2, <1>1, <1>2 DEF Armeds
    <3> HIDE DEF in
    <3> QED
      BY <3>2, <3>3, <1>1 DEF Armeds
  <2> QED
    BY <2>1, <2>2
<1>7. armed = Unarmed => armed' = armed
  BY <1>2, UnarmedType
<1>8. PomoTypeOK'
  BY <1>1, <1>2, <1>3, <1>5, <1>6 DEF PomoTypeOK, Docs, Armeds
<1>9. SkewIsOfWait' /\ IdleIsUnarmed' /\ PausedIsUnarmed' /\ RunningIsArmed'
  BY <1>2, <1>3, <1>4, <1>6, <1>7
     DEF PomoInv, SkewIsOfWait, IdleIsUnarmed, PausedIsUnarmed, RunningIsArmed
<1>10. OwedIsKept'
  <2>1. SUFFICES ASSUME doc'.today, doc'.timer.is # "none"
                 PROVE  IF armed'.is = "wait" THEN Agrees(doc'.timer.time, owed', TakenBack')
                        ELSE doc'.timer.time = owed'
    BY DEF OwedIsKept
  <2>2. TakenBack' = TakenBack /\ TakenBack \in Int /\ TakenBack <= MaxForward
    BY <1>6, StepIsInt, PomoNumbers DEF TakenBack
  <2>3. IF armed.is = "wait" THEN Agrees(doc.timer.time, owed, TakenBack)
        ELSE doc.timer.time = owed
    BY <2>1, <1>3 DEF PomoInv, OwedIsKept
  <2>4. doc.timer.time \in Times
    BY <1>1 DEF Docs
  <2>5. CASE doc.timer.is = "running"
    <3>1. doc'.timer.time = Aged(doc.timer.time, by) /\ owed' = Aged(owed, by)
      BY <2>5, <1>2, <1>3
    <3>2. CASE armed.is = "wait"
      <4>1. Agrees(Aged(doc.timer.time, by), Aged(owed, by), TakenBack)
        BY <3>2, <2>2, <2>3, <2>4, <1>a, <1>1, AgeTogether
      <4> QED
        BY <4>1, <3>1, <3>2, <2>2, <1>6
    <3>3. CASE armed.is # "wait"
      BY <3>1, <3>3, <2>3, <1>6
    <3> QED
      BY <3>2, <3>3
  <2>6. CASE doc.timer.is # "running"
    BY <2>2, <2>3, <2>6, <1>2, <1>3, <1>6
  <2> QED
    BY <2>5, <2>6
<1> QED
  BY <1>2, <1>3, <1>8, <1>9, <1>10 DEF PomoInv, Fits

LEMMA JumpKeeps ==
    ASSUME PomoInv, Jump
    PROVE  PomoInv' /\ said' = ""
<1>1. /\ doc \in Docs /\ armed \in Armeds /\ serving \in BOOLEAN
      /\ owed \in Times /\ hitches \in 0 .. MaxHitches
  BY PomoTypes DEF PomoInv
<1>2. PICK by \in Jumps :
        /\ doc' = Passes(by)
        /\ armed' = IF armed.is = "wait" THEN [armed EXCEPT !.skew = by] ELSE armed
        /\ Observe(IF armed.is = "wait" /\ by <= MaxForward THEN owed ELSE Aged(owed, by), "")
  BY DEF Jump
<1>3. hitches < MaxHitches /\ armed.skew = 0 /\ doc.timer.is = "running"
      /\ hitches' = hitches + 1 /\ serving' = serving
  BY DEF Jump
<1>4. /\ owed' = IF armed.is = "wait" /\ by <= MaxForward THEN owed ELSE Aged(owed, by)
      /\ said' = ""
  BY <1>2 DEF Observe
<1>5. by \in Int /\ by # 0
  BY PomoNumbers
<1>6. /\ doc' \in Docs /\ Fits(doc') /\ doc'.today = doc.today
      /\ doc'.timer.is = "running" /\ doc'.timer.time = Aged(doc.timer.time, by)
  BY <1>2, <1>3, <1>5, PassesFacts
<1>7. Read'.timer.is = Read.timer.is
  BY <1>2, <1>5, PassesRead
<1>8. owed' \in Times
  BY <1>1, <1>4, <1>5, AgedType
<1>9. hitches' \in 0 .. MaxHitches
  BY <1>1, <1>3, HitchCounts
<1>10. /\ armed' \in Armeds /\ armed'.is = armed.is
       /\ armed.is = "wait" => armed'.skew = by
       /\ armed.is # "wait" => armed' = armed
  BY <1>1, <1>2 DEF Armeds
<1>11. PomoTypeOK'
  BY <1>1, <1>3, <1>4, <1>6, <1>8, <1>9, <1>10 DEF PomoTypeOK, Docs, Armeds
<1>12. SkewIsOfWait' /\ IdleIsUnarmed' /\ PausedIsUnarmed' /\ RunningIsArmed'
  BY <1>3, <1>6, <1>7, <1>10, UnarmedType
     DEF PomoInv, SkewIsOfWait, IdleIsUnarmed, PausedIsUnarmed, RunningIsArmed
<1>13. OwedIsKept'
  <2>1. SUFFICES ASSUME doc'.today
                 PROVE  IF armed'.is = "wait" THEN Agrees(doc'.timer.time, owed', TakenBack')
                        ELSE doc'.timer.time = owed'
    BY DEF OwedIsKept
  <2>2. TakenBack = 0
    BY <1>3, PomoNumbers DEF TakenBack
  <2>3. IF armed.is = "wait" THEN Agrees(doc.timer.time, owed, 0)
        ELSE doc.timer.time = owed
    BY <2>1, <2>2, <1>3, <1>6 DEF PomoInv, OwedIsKept
  <2>4. doc.timer.time \in Times
    BY <1>1 DEF Docs
  <2>5. CASE armed.is = "wait" /\ by <= MaxForward
    <3>1. TakenBack' = by /\ owed' = owed
      BY <2>5, <1>4, <1>10 DEF TakenBack
    <3>2. Agrees(Aged(doc.timer.time, by), owed, by)
      BY <2>3, <2>4, <2>5, <1>1, <1>5, JumpApart
    <3> QED
      BY <3>1, <3>2, <2>5, <1>6, <1>10
  <2>6. CASE armed.is = "wait" /\ ~(by <= MaxForward)
    <3>1. TakenBack' = 0
      BY <2>6, <1>10 DEF TakenBack
    <3>2. owed' = Aged(owed, by)
      BY <2>6, <1>4
    <3>3. by > MaxForward
      BY <2>6, <1>5, PomoNumbers
    <3>4. Agrees(Aged(doc.timer.time, by), Aged(owed, by), 0)
      BY <3>3, <2>3, <2>4, <2>6, <1>1, <1>5, JumpTogether
    <3> QED
      BY <3>1, <3>2, <3>4, <2>6, <1>6, <1>10
  <2>7. CASE armed.is # "wait"
    BY <2>3, <2>7, <1>4, <1>6, <1>10
  <2> QED
    BY <2>5, <2>6, <2>7
<1> QED
  BY <1>4, <1>6, <1>11, <1>12, <1>13 DEF PomoInv, Fits

(* From five in the morning the document reads as one without a timer.     *)
LEMMA NewDayKeeps ==
    ASSUME PomoInv, NewDay
    PROVE  PomoInv' /\ said' = ""
<1>1. /\ doc \in Docs /\ Fits(doc) /\ armed \in Armeds /\ serving \in BOOLEAN
      /\ owed \in Times /\ hitches \in 0 .. MaxHitches
  BY PomoTypes DEF PomoInv
<1>2. doc' = [doc EXCEPT !.today = FALSE] /\ said' = "" /\ armed' = armed
      /\ serving' = serving /\ owed' = owed /\ hitches' = hitches
  BY DEF NewDay
<1>3. doc' \in Docs /\ ~doc'.today /\ doc'.timer = doc.timer /\ doc'.cycle = doc.cycle
  BY <1>1, <1>2 DEF Docs
<1>4. Fits(doc')
  BY <1>1, <1>3 DEF Fits
<1>5. Read'.timer.is = "none"
  <2>1. Read' = [doc' EXCEPT !.cycle = 0, !.timer = NoTimer, !.today = TRUE]
    BY <1>3 DEF Read
  <2> QED
    BY <2>1, <1>3 DEF Docs, NoTimer, Timer
<1>6. PomoTypeOK'
  BY <1>1, <1>2, <1>3 DEF PomoTypeOK, Docs, Armeds
<1>7. SkewIsOfWait' /\ IdleIsUnarmed' /\ PausedIsUnarmed' /\ OwedIsKept' /\ RunningIsArmed'
  BY <1>2, <1>3, <1>5
     DEF PomoInv, SkewIsOfWait, IdleIsUnarmed, PausedIsUnarmed, OwedIsKept, RunningIsArmed
<1> QED
  BY <1>2, <1>4, <1>6, <1>7 DEF PomoInv, Fits

-----------------------------------------------------------------------------
(* The pomodoro's theorems. *)

(* Every step of the clock keeps the invariant, and what it tells the      *)
(* reader is true of the interval it ends.                                 *)
LEMMA PomoStep ==
    ASSUME PomoInv, [PomoNext]_pomoVars
    PROVE  /\ PomoInv'
           /\ said' = "rang" => owed \in -ExpiryGrace .. 0 \/ UNCHANGED pomoVars
           /\ said' = "dropped" => owed < -ExpiryGrace \/ UNCHANGED pomoVars
<1>1. CASE Boot
  BY <1>1, BootKeeps
<1>2. CASE Stop
  BY <1>2, StopKeeps
<1>3. CASE TimerFires
  BY <1>3, TimerFiresKeeps
<1>4. CASE Ensure
  BY <1>4, EnsureKeeps
<1>5. CASE Pause
  BY <1>5, PauseKeeps
<1>6. CASE Resume
  BY <1>6, ResumeKeeps
<1>7. CASE Forward
  BY <1>7, ForwardKeeps
<1>8. CASE RestartPhase
  BY <1>8, RestartPhaseKeeps
<1>9. CASE Reset
  BY <1>9, ResetKeeps
<1>10. CASE SaveSettings
  BY <1>10, SaveSettingsKeeps
<1>11. CASE TimePasses
  BY <1>11, TimePassesKeeps
<1>12. CASE Jump
  BY <1>12, JumpKeeps
<1>13. CASE NewDay
  BY <1>13, NewDayKeeps
<1>14. CASE UNCHANGED pomoVars
  BY <1>14
     DEF pomoVars, PomoInv, PomoTypeOK, Fits, SkewIsOfWait, IdleIsUnarmed, PausedIsUnarmed,
         OwedIsKept, TakenBack, RunningIsArmed, Read
<1> QED
  BY <1>1, <1>2, <1>3, <1>4, <1>5, <1>6, <1>7, <1>8, <1>9, <1>10, <1>11, <1>12, <1>13, <1>14
     DEF PomoNext

(* The pomodoro's inductive invariant holds of every behaviour.            *)
THEOREM PomoInvariance == PomoSpec => []PomoInv
<1>1. PomoInv /\ [PomoNext]_pomoVars => PomoInv'
  BY PomoStep
<1> QED
  BY PomoInitInv, <1>1, PTL DEF PomoSpec

(* The document, the timeout and the clocks keep their types; the cycle    *)
(* never runs past its set.                                                *)
THEOREM PomoTypeCorrect == PomoSpec => []PomoTypeOK
<1>1. PomoInv => PomoTypeOK
  BY DEF PomoInv
<1> QED
  BY PomoInvariance, <1>1, PTL

(* An interval that runs while the daemon does has a timeout that will     *)
(* look at it, whatever control, boundary or refused write came last.      *)
THEOREM RunningAlwaysArmed == PomoSpec => []RunningIsArmed
<1>1. PomoInv => RunningIsArmed
  BY DEF PomoInv
<1> QED
  BY PomoInvariance, <1>1, PTL

(* A phase rings when the time owed to the one before is over, and within  *)
(* the grace; it is dropped unannounced only later: no step of the wall    *)
(* clock that is taken back, and no pause, moves either.                   *)
THEOREM IntervalsRun == PomoSpec => IntervalsRunTheirTime
<1>1. PomoInv /\ [PomoNext]_pomoVars =>
        [/\ said' = "rang" => owed \in -ExpiryGrace .. 0
         /\ said' = "dropped" => owed < -ExpiryGrace]_pomoVars
  BY PomoStep
<1> QED
  BY PomoInvariance, <1>1, PTL DEF PomoSpec, IntervalsRunTheirTime

-----------------------------------------------------------------------------
(* The mission watch: the inductive invariant. *)

WatchEntry == [view : {"working", "retired"} \cup Spoken, gone : BOOLEAN, stamp : 0 .. MaxMoves]

(* What a read finds, with no stamp that no write has moved.               *)
RecordSound ==
    /\ record \in [Watched -> WatchEntry]
    /\ \A m \in Watched : ViewOf(record[m]) \in Views /\ record[m].stamp <= moves

(* The last read, of missions that were listed.                            *)
SeenFound == seen \in [Watched -> Found \cup {Unread}]

WatchRest ==
    /\ shown \in [Watched -> Views]
    /\ batch \in [Watched -> {"none"} \cup Spoken]
    /\ window \in {"shut", "open", "due"}
    /\ moves \in 0 .. MaxMoves

WatchInv == RecordSound /\ SeenFound /\ WatchRest /\ BatchSpeaksTrue

LEMMA WatchInvType == WatchInv => WatchTypeOK
<1> SUFFICES ASSUME WatchInv PROVE WatchTypeOK
  OBVIOUS
<1>1. \A m \in Watched : ViewOf(record[m]) \in Views /\ record[m].stamp \in 0 .. MaxMoves
  BY DEF WatchInv, RecordSound, WatchEntry
<1>2. \A m \in Watched : seen[m] = Unread \/ seen[m] \in Found
  BY DEF WatchInv, SeenFound
<1> QED
  BY <1>1, <1>2 DEF WatchTypeOK, WatchInv, WatchRest

-----------------------------------------------------------------------------
(* One read. *)

(* What is listed is found, and is known to the read after it.             *)
LEMMA ListingFacts ==
    ASSUME RecordSound
    PROVE  /\ Listing(record) \in [Watched -> Found \cup {Unread}]
           /\ \A m \in Watched : Listed(m) =>
                Listing(record)[m] = record[m] /\ record[m] # Unread
<1>1. ASSUME NEW m \in Watched
      PROVE  IF record[m].view = "retired" THEN Unread \in Found \cup {Unread}
             ELSE record[m] \in Found /\ record[m] # Unread
  <2>1. record[m] \in WatchEntry
    BY DEF RecordSound
  <2>2. record[m].view # "retired" => record[m] \in Found
    BY <2>1 DEF WatchEntry, Found
  <2>3. record[m].stamp \in Nat
    BY <2>1, WatchBounds DEF WatchEntry
  <2>4. record[m].view # "retired" =>
          record[m] \in [view : {"working"} \cup Spoken, gone : BOOLEAN, stamp : Nat]
    BY <2>1, <2>3 DEF WatchEntry
  <2> QED
    BY <2>2, <2>4, WatchBounds
<1> QED
  BY <1>1 DEF Listing, Listed

LEMMA PublishType ==
    ASSUME RecordSound
    PROVE  [m \in Watched |-> ViewOf(record[m])] \in [Watched -> Views]
  BY DEF RecordSound

(* Whatever the batch gathers joins it by this read, or was in it and has  *)
(* not left.                                                               *)
LEMMA GatheredFacts ==
    ASSUME NEW m \in Watched, Gathered[m] # "none"
    PROVE  \/ Joins(m) # "none" /\ Gathered[m] = Joins(m)
           \/ /\ Joins(m) = "none" /\ ~LeavesBatch(m)
              /\ batch[m] # "none" /\ Gathered[m] = batch[m]
<1>1. m \in Joining <=> Joins(m) # "none"
  BY DEF Joining
<1>2. CASE Joins(m) # "none"
  BY <1>1, <1>2 DEF Gathered
<1>3. CASE Joins(m) = "none"
  <2> DEFINE base == IF Joining # {} /\ window = "due" THEN Empty ELSE Kept
  <2>1. Gathered[m] = base[m]
    BY <1>1, <1>3 DEF Gathered
  <2>2. base[m] = "none" \/ base[m] = Kept[m]
    BY DEF Empty
  <2>3. Kept[m] = IF LeavesBatch(m) THEN "none" ELSE batch[m]
    BY DEF Kept
  <2> HIDE DEF base
  <2> QED
    BY <1>3, <2>1, <2>2, <2>3
<1> QED
  BY <1>2, <1>3

LEMMA JoinsType == \A m : Joins(m) \in {"none"} \cup Spoken
  BY DEF Joins, Spoken

LEMMA GatheredType ==
    ASSUME WatchInv
    PROVE  Gathered \in [Watched -> {"none"} \cup Spoken]
<1>1. ASSUME NEW m \in Watched PROVE Gathered[m] \in {"none"} \cup Spoken
  BY GatheredFacts, JoinsType DEF WatchInv, WatchRest
<1>2. Gathered = [m \in Watched |-> Gathered[m]]
  BY DEF Gathered
<1> QED
  BY <1>1, <1>2

(* What joins the batch is what the read finds.                            *)
LEMMA JoinsTrue ==
    ASSUME NEW m, Joins(m) # "none"
    PROVE  /\ Listed(m)
           /\ \/ Joins(m) = record[m].view
              \/ Joins(m) = "stalled" /\ record[m].view = "needs-you" /\ record[m].gone
  BY DEF Joins, Turned, Moved

(* What stays in it is still true: a change of view would have joined, or  *)
(* left, and so would a session heard of again.                            *)
LEMMA StaysTrue ==
    ASSUME RecordSound, SeenFound, NEW m \in Watched,
           Joins(m) = "none", ~LeavesBatch(m), Known(m),
           \/ batch[m] = seen[m].view
           \/ batch[m] = "stalled" /\ seen[m].view = "needs-you" /\ seen[m].gone
    PROVE  /\ Listed(m)
           /\ \/ batch[m] = record[m].view
              \/ batch[m] = "stalled" /\ record[m].view = "needs-you" /\ record[m].gone
<1>1. Listed(m)
  BY DEF LeavesBatch
<1>2. CASE ~Moved(m)
  <2>1. ViewOf(seen[m]) = ViewOf(record[m])
    BY <1>1, <1>2 DEF Moved
  <2>2. seen[m].view = record[m].view /\ seen[m].gone = record[m].gone
    BY <2>1 DEF ViewOf
  <2> QED
    BY <1>1, <2>2
<1>3. CASE Turned(m)
  BY <1>3 DEF LeavesBatch, Joins, Spoken
<1>4. CASE Moved(m) /\ ~Turned(m)
  <2>1. seen[m].view = record[m].view /\ ViewOf(seen[m]) # ViewOf(record[m])
    BY <1>4 DEF Turned, Moved
  <2>2. seen[m].gone # record[m].gone
    BY <2>1 DEF ViewOf
  <2>3. seen[m] \in Found /\ record[m] \in WatchEntry
    BY DEF RecordSound, SeenFound, Known
  <2>4. seen[m].gone \in BOOLEAN /\ record[m].gone \in BOOLEAN
    BY <2>3 DEF Found, WatchEntry
  <2>5. CASE batch[m] = seen[m].view
    BY <2>1, <2>5, <1>1
  <2>6. CASE batch[m] = "stalled" /\ seen[m].view = "needs-you" /\ seen[m].gone
    <3>1. ~record[m].gone
      BY <2>2, <2>4, <2>6
    <3> QED
      BY <3>1, <2>1, <2>6, <1>4 DEF LeavesBatch
  <2> QED
    BY <2>5, <2>6
<1> QED
  BY <1>2, <1>3, <1>4

-----------------------------------------------------------------------------
(* The watch's steps. *)

LEMMA WatchInitInv == WatchInit => WatchInv
<1> SUFFICES ASSUME WatchInit PROVE WatchInv
  OBVIOUS
<1>1. PICK v \in [Watched -> Views] :
        record = [m \in Watched |-> [view |-> v[m].view, gone |-> v[m].gone, stamp |-> 0]]
  BY DEF WatchInit
<1>2. 0 \in 0 .. MaxMoves /\ moves = 0
  BY WatchBounds DEF WatchInit
<1>3. ASSUME NEW m \in Watched
      PROVE  record[m] \in WatchEntry /\ ViewOf(record[m]) \in Views /\ record[m].stamp <= moves
  <2>1. v[m] \in Views
    OBVIOUS
  <2>2. record[m] = [view |-> v[m].view, gone |-> v[m].gone, stamp |-> 0]
    BY <1>1
  <2>3. record[m] \in WatchEntry
    BY <2>1, <2>2, <1>2 DEF Views, WatchEntry
  <2>4. ViewOf(record[m]) = v[m]
    BY <2>1, <2>2 DEF ViewOf, Views
  <2> QED
    BY <2>1, <2>2, <2>3, <2>4, <1>2
<1>4. RecordSound
  <2>1. record = [m \in Watched |-> record[m]]
    BY <1>1
  <2> QED
    BY <2>1, <1>3 DEF RecordSound
<1>5. SeenFound
  BY <1>4, ListingFacts DEF WatchInit, SeenFound
<1>6. WatchRest
  BY <1>2, <1>4, PublishType DEF WatchInit, WatchRest
<1>7. BatchSpeaksTrue
  BY DEF WatchInit, BatchSpeaksTrue
<1> QED
  BY <1>4, <1>5, <1>6, <1>7 DEF WatchInv

(* The batch stands as long as the reads and the window do.                *)
LEMMA BatchStands ==
    ASSUME BatchSpeaksTrue, UNCHANGED <<seen, batch, window>>
    PROVE  BatchSpeaksTrue'
  BY DEF BatchSpeaksTrue, Known

LEMMA WriteMissionKeeps ==
    ASSUME WatchInv, NEW m \in Watched, WriteMission(m)
    PROVE  WatchInv'
<1>1. PICK v \in Views :
        record' = [record EXCEPT ![m] = [view |-> v.view, gone |-> v.gone, stamp |-> @.stamp + 1]]
  BY DEF WriteMission
<1>2. moves < MaxMoves /\ moves' = moves + 1 /\ UNCHANGED <<seen, batch, window>>
      /\ shown' = [n \in Watched |-> ViewOf(record'[n])]
  BY DEF WriteMission, Publish
<1>3. RecordSound /\ moves \in 0 .. MaxMoves
  BY DEF WatchInv, WatchRest
<1>4. moves' \in 0 .. MaxMoves
  BY <1>2, <1>3, WatchBounds
<1> DEFINE stamp == record[m].stamp + 1
           entry == [view |-> v.view, gone |-> v.gone, stamp |-> stamp]
<1>5. record' = [record EXCEPT ![m] = entry]
  BY <1>1, <1>3 DEF RecordSound
<1>6. stamp \in 0 .. MaxMoves /\ stamp <= moves'
  <2>1. record[m].stamp \in 0 .. MaxMoves /\ record[m].stamp <= moves
    BY <1>3 DEF RecordSound, WatchEntry
  <2> QED
    BY <2>1, <1>2, <1>3, WatchBounds
<1> HIDE DEF stamp
<1>7. entry \in WatchEntry /\ ViewOf(entry) \in Views /\ entry.stamp = stamp
  <2>1. ViewOf(entry) = v
    BY DEF ViewOf, Views
  <2> QED
    BY <2>1, <1>6 DEF WatchEntry, Views
<1> HIDE DEF entry
<1>8. record' \in [Watched -> WatchEntry]
  BY <1>3, <1>5, <1>7 DEF RecordSound
<1>9. ASSUME NEW n \in Watched
      PROVE  ViewOf(record'[n]) \in Views /\ record'[n].stamp <= moves'
  <2>1. CASE n = m
    <3>1. record'[n] = entry
      BY <2>1, <1>3, <1>5 DEF RecordSound
    <3> QED
      BY <3>1, <1>6, <1>7
  <2>2. CASE n # m
    <3>1. record'[n] = record[n]
      BY <2>2, <1>3, <1>5 DEF RecordSound
    <3>2. ViewOf(record[n]) \in Views /\ record[n].stamp <= moves /\ record[n].stamp \in Nat
      BY <1>3, WatchBounds DEF RecordSound, WatchEntry
    <3>3. record[n].stamp <= moves'
      BY <3>2, <1>2, <1>3, WatchBounds
    <3> QED
      BY <3>1, <3>2, <3>3
  <2> QED
    BY <2>1, <2>2
<1>10. RecordSound'
  BY <1>8, <1>9 DEF RecordSound, ViewOf
<1>11. WatchRest' /\ SeenFound'
  <2>1. shown' \in [Watched -> Views]
    BY <1>2, <1>9
  <2> QED
    BY <2>1, <1>2, <1>4 DEF WatchInv, WatchRest, SeenFound
<1> QED
  BY <1>2, <1>10, <1>11, BatchStands DEF WatchInv

LEMMA DriftKeeps ==
    ASSUME WatchInv, NEW m \in Watched, Drift(m)
    PROVE  WatchInv'
<1>1. PICK v \in Views :
        record' = [record EXCEPT ![m].view = v.view, ![m].gone = v.gone]
  BY DEF Drift
<1>2. moves < MaxMoves /\ moves' = moves + 1 /\ UNCHANGED <<shown, seen, batch, window>>
  BY DEF Drift
<1>3. RecordSound /\ moves \in 0 .. MaxMoves
  BY DEF WatchInv, WatchRest
<1>4. moves' \in 0 .. MaxMoves
  BY <1>2, <1>3, WatchBounds
<1> DEFINE entry == [record[m] EXCEPT !.view = v.view, !.gone = v.gone]
<1>5. record[m] \in WatchEntry
  BY <1>3 DEF RecordSound
<1>6. record' = [record EXCEPT ![m] = entry]
  BY <1>1, <1>3, <1>5 DEF RecordSound, WatchEntry
<1>7. entry \in WatchEntry /\ ViewOf(entry) \in Views /\ entry.stamp = record[m].stamp
  <2>1. entry.view = v.view /\ entry.gone = v.gone /\ entry.stamp = record[m].stamp
    BY <1>5 DEF WatchEntry
  <2>2. ViewOf(entry) = v
    BY <2>1 DEF ViewOf, Views
  <2>3. entry \in WatchEntry
    BY <1>5 DEF WatchEntry, Views
  <2> QED
    BY <2>1, <2>2, <2>3
<1> HIDE DEF entry
<1>8. record' \in [Watched -> WatchEntry]
  BY <1>3, <1>6, <1>7 DEF RecordSound
<1>9. ASSUME NEW n \in Watched
      PROVE  ViewOf(record'[n]) \in Views /\ record'[n].stamp <= moves'
  <2>1. record'[n] = IF n = m THEN entry ELSE record[n]
    BY <1>3, <1>6 DEF RecordSound
  <2>2. ViewOf(record[n]) \in Views /\ record[n].stamp <= moves /\ record[n].stamp \in Nat
    BY <1>3, WatchBounds DEF RecordSound, WatchEntry
  <2>3. record[n].stamp <= moves'
    BY <2>2, <1>2, <1>3, WatchBounds
  <2> QED
    BY <2>1, <2>2, <2>3, <1>7
<1>10. RecordSound'
  BY <1>8, <1>9 DEF RecordSound, ViewOf
<1> QED
  BY <1>2, <1>4, <1>10, BatchStands DEF WatchInv, WatchRest, SeenFound

LEMMA ListChangedKeeps ==
    ASSUME WatchInv, ListChanged
    PROVE  WatchInv'
<1>1. /\ shown' = [m \in Watched |-> ViewOf(record[m])]
      /\ UNCHANGED <<record, seen, batch, window, moves>>
  BY DEF ListChanged, Publish
<1>2. shown' \in [Watched -> Views]
  BY <1>1, PublishType DEF WatchInv
<1> QED
  BY <1>1, <1>2, BatchStands DEF WatchInv, WatchRest, RecordSound, SeenFound

LEMMA LookKeeps ==
    ASSUME WatchInv, NEW closing, Look(closing)
    PROVE  WatchInv'
<1>1. /\ seen' = Listing(record) /\ UNCHANGED <<record, moves>>
      /\ shown' = shown \/ shown' = [m \in Watched |-> ViewOf(record[m])]
      /\ \/ batch' = Empty /\ window' = "shut"
         \/ batch' = Gathered /\ window' = Opened
  BY DEF Look, Publish
<1>2. RecordSound /\ SeenFound /\ WatchRest /\ BatchSpeaksTrue
  BY DEF WatchInv
<1>3. RecordSound'
  BY <1>1, <1>2 DEF RecordSound, ViewOf
<1>4. SeenFound'
  BY <1>1, <1>2, ListingFacts DEF SeenFound
<1>5. WatchRest'
  <2>1. shown' \in [Watched -> Views]
    BY <1>1, <1>2, PublishType DEF WatchRest
  <2>2. Empty \in [Watched -> {"none"} \cup Spoken]
    BY DEF Empty
  <2>3. Opened \in {"shut", "open", "due"}
    BY <1>2 DEF Opened, WatchRest
  <2> QED
    BY <1>1, <1>2, <2>1, <2>2, <2>3, GatheredType DEF WatchRest
<1>6. BatchSpeaksTrue'
  <2>1. SUFFICES ASSUME NEW m \in Watched, batch'[m] # "none"
                 PROVE  /\ window' # "shut"
                        /\ seen'[m] # Unread
                        /\ \/ batch'[m] = seen'[m].view
                           \/ batch'[m] = "stalled" /\ seen'[m].view = "needs-you" /\ seen'[m].gone
    BY DEF BatchSpeaksTrue, Known
  <2>2. batch' = Gathered /\ window' = Opened
    BY <1>1, <2>1 DEF Empty
  <2>3. Gathered[m] # "none"
    BY <2>1, <2>2
  <2>4. CASE Joins(m) # "none" /\ Gathered[m] = Joins(m)
    <3>1. Joining # {}
      BY <2>4 DEF Joining
    <3>2. window' # "shut"
      BY <3>1, <2>2 DEF Opened
    <3>3. /\ Listed(m)
          /\ \/ Joins(m) = record[m].view
             \/ Joins(m) = "stalled" /\ record[m].view = "needs-you" /\ record[m].gone
      BY <2>4, JoinsTrue
    <3>4. seen'[m] = record[m] /\ seen'[m] # Unread
      BY <3>3, <1>1, <1>2, ListingFacts
    <3> QED
      BY <2>2, <2>4, <3>2, <3>3, <3>4
  <2>5. CASE /\ Joins(m) = "none" /\ ~LeavesBatch(m)
             /\ batch[m] # "none" /\ Gathered[m] = batch[m]
    <3>1. /\ window # "shut" /\ Known(m)
          /\ \/ batch[m] = seen[m].view
             \/ batch[m] = "stalled" /\ seen[m].view = "needs-you" /\ seen[m].gone
      BY <2>5, <1>2 DEF BatchSpeaksTrue
    <3>2. window' # "shut"
      BY <3>1, <2>2 DEF Opened
    <3>3. /\ Listed(m)
          /\ \/ batch[m] = record[m].view
             \/ batch[m] = "stalled" /\ record[m].view = "needs-you" /\ record[m].gone
      BY <2>5, <3>1, <1>2, StaysTrue
    <3>4. seen'[m] = record[m] /\ seen'[m] # Unread
      BY <3>3, <1>1, <1>2, ListingFacts
    <3> QED
      BY <2>2, <2>5, <3>2, <3>3, <3>4
  <2> QED
    BY <2>3, <2>4, <2>5, GatheredFacts
<1> QED
  BY <1>3, <1>4, <1>5, <1>6 DEF WatchInv

LEMMA WindowClosesBlindKeeps ==
    ASSUME WatchInv, WindowClosesBlind
    PROVE  WatchInv'
<1>1. batch' = Empty /\ window' = "shut" /\ UNCHANGED <<record, shown, seen, moves>>
  BY DEF WindowClosesBlind
<1>2. Empty \in [Watched -> {"none"} \cup Spoken]
  BY DEF Empty
<1>3. BatchSpeaksTrue'
  BY <1>1 DEF BatchSpeaksTrue, Empty
<1> QED
  BY <1>1, <1>2, <1>3 DEF WatchInv, WatchRest, RecordSound, SeenFound

LEMMA WindowPassesKeeps ==
    ASSUME WatchInv, WindowPasses
    PROVE  WatchInv'
<1>1. window = "open" /\ window' = "due" /\ UNCHANGED <<record, shown, seen, batch, moves>>
  BY DEF WindowPasses
<1>2. BatchSpeaksTrue'
  BY <1>1 DEF WatchInv, BatchSpeaksTrue, Known
<1> QED
  BY <1>1, <1>2 DEF WatchInv, WatchRest, RecordSound, SeenFound

-----------------------------------------------------------------------------
(* The watch's theorems. *)

(* The watch's inductive invariant holds of every behaviour.               *)
THEOREM WatchInvariance == WatchSpec => []WatchInv
<1>1. WatchInv /\ [WatchNext]_watchVars => WatchInv'
  <2> SUFFICES ASSUME WatchInv, [WatchNext]_watchVars PROVE WatchInv'
    OBVIOUS
  <2>1. CASE \E m \in Watched : WriteMission(m) \/ Drift(m)
    BY <2>1, WriteMissionKeeps, DriftKeeps
  <2>2. CASE ListChanged
    BY <2>2, ListChangedKeeps
  <2>3. CASE IntervalLook
    BY <2>3, LookKeeps DEF IntervalLook
  <2>4. CASE WindowCloses
    BY <2>4, LookKeeps DEF WindowCloses
  <2>5. CASE WindowClosesBlind
    BY <2>5, WindowClosesBlindKeeps
  <2>6. CASE WindowPasses
    BY <2>6, WindowPassesKeeps
  <2>7. CASE UNCHANGED watchVars
    BY <2>7 DEF watchVars, WatchInv, WatchRest, RecordSound, SeenFound, BatchSpeaksTrue, Known
  <2> QED
    BY <2>1, <2>2, <2>3, <2>4, <2>5, <2>6, <2>7 DEF WatchNext
<1> QED
  BY WatchInitInv, <1>1, PTL DEF WatchSpec

(* The record, the reads, the batch and its window keep their types.       *)
THEOREM WatchTypeCorrect == WatchSpec => []WatchTypeOK
  BY WatchInvariance, WatchInvType, PTL

(* Whatever waits to be spoken of a mission is what the last read found of *)
(* it, and a window is open that will speak it: for any number of          *)
(* missions, under any order of writes, reads, failures and timers.        *)
THEOREM BatchAlwaysSpeaksTrue == WatchSpec => []BatchSpeaksTrue
<1>1. WatchInv => BatchSpeaksTrue
  BY DEF WatchInv
<1> QED
  BY WatchInvariance, <1>1, PTL

-----------------------------------------------------------------------------
(* The five side by side: every behaviour of the desk is one of each part. *)
(* Nothing one part does changes a variable of another, as each owns its   *)
(* state in the code.                                                      *)
LEMMA DeskParts ==
    /\ Spec => PageSpec
    /\ Spec => StreamSpec
    /\ Spec => PomoSpec
    /\ Spec => WatchSpec
    /\ Spec => CacheSpec
<1>1. Init => PageInit /\ StreamInit /\ PomoInit /\ WatchInit /\ CacheInit
  BY DEF Init
<1>2. [Next]_vars => /\ [PageNext]_pageVars
                     /\ [StreamNext]_streamVars
                     /\ [PomoNext]_pomoVars
                     /\ [WatchNext]_watchVars
                     /\ [CacheNext]_cacheVars
  BY DEF Next, vars
<1> QED BY <1>1, <1>2, PTL DEF Spec, PageSpec, StreamSpec, PomoSpec, WatchSpec, CacheSpec

(* Every variable of the page, the stream, the pomodoro, the watch and the *)
(* waiting cache keeps its type when the five stand side by side (ui.mjs,  *)
(* browser-stream.mjs, pomodoro.mjs, mission-watch.mjs, server.mjs).       *)
THEOREM DeskTypeCorrect == Spec => []TypesOK
  BY DeskParts, PageTypeCorrect, StreamTypeCorrect, PomoTypeCorrect, WatchTypeCorrect,
     CacheTypeCorrect, PTL DEF TypesOK

=============================================================================
