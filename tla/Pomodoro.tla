------------------------------ MODULE Pomodoro ------------------------------
(***************************************************************************)
(* The pomodoro clock (src/pomodoro.mjs): one document on disk, one armed  *)
(* timeout that settles it, and the controls of POST /api/pomodoro.        *)
(*                                                                         *)
(* The document holds a deadline in wall time, the timeout counts on a     *)
(* clock that is not set and stops in sleep; the difference of the two     *)
(* over one wait is all the clock sees of a step.  Wall time is relative   *)
(* here: a running timer's `time` is its deadline minus now.  A unit of    *)
(* time is the longest wait (MAX_ARM_MS); time so far past the grace that  *)
(* no step the clock takes back undoes it is one value.                    *)
(***************************************************************************)
EXTENDS Integers

CONSTANTS
    Length,         \* each phase's length, in units
    LongEvery,      \* every so many breaks is a long one
    MaxArm,         \* MAX_ARM_MS
    Late,           \* how late a timeout may fire
    ExpiryGrace,    \* EXPIRY_GRACE_MS
    Retry,          \* RECONCILE_RETRY_MS
    MaxForward,     \* MAX_FORWARD_STEP_MS
    Jumps,          \* how far the wall clock may jump, set or slept
    MaxHitches      \* bounds the jumps, refused writes and restarts

ASSUME PomoBounds ==
    /\ {LongEvery, MaxArm, Retry} \subseteq Nat \ {0}
    /\ {Late, ExpiryGrace, MaxForward, MaxHitches} \subseteq Nat
    /\ Length \in [{"work", "break", "longBreak"} -> Nat \ {0}]
    /\ Jumps \subseteq Int \ {0}

VARIABLES
    doc,        \* pomodoro.json
    armed,      \* the daemon's timeout
    serving,    \* whether the daemon runs
    owed,       \* observed: the time the interval has left, see Jump
    said,       \* observed: what the last step told the reader
    hitches

pomoVars == <<doc, armed, serving, owed, said, hitches>>

Timer(is, phase, time) == [is |-> is, phase |-> phase, time |-> time]
NoTimer == Timer("none", "work", 0)
Unarmed == [is |-> "none", in |-> 0, skew |-> 0]

Larger(a, b) == IF a < b THEN b ELSE a
Sooner(a, b) == IF a < b THEN a ELSE b

(* The time left after t, down to where nothing is told apart.             *)
LongOver == -ExpiryGrace - MaxForward - 1
Aged(time, t) == Larger(time - t, LongOver)

PomoInit ==
    /\ doc = [enabled |-> FALSE, cycle |-> 0, timer |-> NoTimer, today |-> FALSE]
    /\ armed = Unarmed
    /\ serving = FALSE
    /\ owed = 0
    /\ said = ""
    /\ hitches = 0

-----------------------------------------------------------------------------
(* The document and its transforms, as a reading of it gives it. *)

(* readDoc: the rolled document, which writes nothing.                     *)
Read == IF doc.today THEN doc
        ELSE [doc EXCEPT !.cycle = 0, !.timer = NoTimer, !.today = TRUE]

IsExpired(t) == t.is = "running" /\ t.time < -ExpiryGrace

(* advancePhase                                                            *)
NextPhase(phase, cycle) ==
    IF phase # "work" THEN "work"
    ELSE IF (cycle + 1) % LongEvery = 0 THEN "longBreak" ELSE "break"

(* As it would be if the long break did not begin a new set.               *)
CycleKeepsOn(phase, cycle) == IF phase = "work" THEN cycle ELSE cycle + 1

NextCycle(phase, cycle) ==
    CASE phase = "work"      -> cycle
      [] phase = "break"     -> cycle + 1
      [] phase = "longBreak" -> 0

(* The next phase at its full length, running or paused as the last was.   *)
Advanced(d) ==
    LET next == NextPhase(d.timer.phase, d.cycle)
    IN  [d EXCEPT !.cycle = NextCycle(d.timer.phase, d.cycle),
                  !.timer = Timer(@.is, next, Length[next])]

(* As it would be if a step of either size were taken for sleep.           *)
StepMissed(d, step) == d

(* applyClockStep                                                          *)
ClockStepped(d, step) ==
    IF d.timer.is = "running" /\ step <= MaxForward
    THEN [d EXCEPT !.timer.time = Aged(@, -step)]
    ELSE d

IsDue(d) == d.timer.is = "running" /\ d.timer.time <= 0
Rings(d) == IsDue(d) /\ ~IsExpired(d.timer)

(* settleBoundary, without the rollover a reading has made.                *)
SettledDoc(d) ==
    CASE Rings(d)              -> Advanced(d)
      [] IsExpired(d.timer)    -> [d EXCEPT !.timer = NoTimer]
      [] OTHER                 -> d

(* pauseTimer: an interval that is over is not frozen but dropped.         *)
PausedDoc(d) ==
    [d EXCEPT !.timer = IF IsExpired(@) THEN NoTimer
                        ELSE Timer("paused", @.phase, Larger(0, @.time))]

Restarted(d) == [d EXCEPT !.timer.time = Length[d.timer.phase]]

(* mergeSettings: switching the clock off ends the loop.                   *)
Merged(d, enabled) ==
    IF d.enabled /\ ~enabled
    THEN [d EXCEPT !.enabled = FALSE, !.timer = NoTimer, !.cycle = 0]
    ELSE [d EXCEPT !.enabled = enabled]

-----------------------------------------------------------------------------
(* The timeout. *)

Arm(d) ==
    IF d.timer.is = "running"
    THEN [is |-> "wait", in |-> Sooner(Larger(0, d.timer.time), MaxArm), skew |-> 0]
    ELSE Unarmed

(* As it would be if a refused write ended the clock.                      *)
NoRetry == Unarmed

(* armRetry: counts on nothing but the clock, measures no step.            *)
RetryLater == [is |-> "retry", in |-> Retry, skew |-> 0]

(* What lies between the two clocks since the wait was armed.              *)
ClockStepSince == IF armed.is = "wait" THEN armed.skew ELSE 0

Observe(o, s) == owed' = o /\ said' = s

(* A reconcile that could write what it settled.                           *)
Reconcile(step) ==
    LET stepped == ClockStepped(Read, step)
        next == SettledDoc(stepped)
    IN  /\ doc' = IF next = Read THEN doc ELSE next
        /\ armed' = Arm(next)
        /\ IF Rings(stepped) THEN Observe(next.timer.time, "rang")
           ELSE IF IsExpired(stepped.timer) THEN Observe(0, "dropped")
           ELSE Observe(IF next.timer.is = "none" THEN 0 ELSE owed, "")

(* One that could not: the document stays, its step is forgotten, and the  *)
(* interval has left what the document says.                               *)
ReconcileFails(step) ==
    /\ hitches < MaxHitches
    /\ SettledDoc(ClockStepped(Read, step)) # Read
    /\ armed' = RetryLater
    /\ Observe(Read.timer.time, "")
    /\ hitches' = hitches + 1
    /\ UNCHANGED doc

-----------------------------------------------------------------------------
(* The daemon. *)

Boot ==
    /\ ~serving
    /\ serving' = TRUE
    /\ \/ Reconcile(0) /\ UNCHANGED hitches
       \/ ReconcileFails(0)

Stop ==
    /\ serving /\ hitches < MaxHitches
    /\ serving' = FALSE
    /\ armed' = Unarmed
    /\ Observe(doc.timer.time, "")
    /\ hitches' = hitches + 1
    /\ UNCHANGED doc

TimerFires ==
    /\ serving /\ armed.is # "none" /\ armed.in <= 0
    /\ \/ Reconcile(ClockStepSince) /\ UNCHANGED hitches
       \/ ReconcileFails(ClockStepSince)
    /\ UNCHANGED serving

(* What the controls share: a document changed is written and armed.  One  *)
(* that changes nothing writes nothing, and is left out.                   *)
Control(next, left) ==
    /\ serving
    /\ doc' = next
    /\ armed' = Arm(next)
    /\ Observe(left, "")
    /\ UNCHANGED <<serving, hitches>>

(* startWork                                                               *)
Ensure ==
    /\ Read.timer.is = "none" /\ Read.enabled
    /\ Control([Read EXCEPT !.timer = Timer("running", "work", Length["work"])], Length["work"])

(* One within the grace is paused as over, and owed nothing.               *)
Pause ==
    /\ Read.timer.is = "running"
    /\ LET time == Read.timer.time
       IN  Control(PausedDoc(Read), IF time < -ExpiryGrace THEN time ELSE Larger(0, time))

Resume ==
    /\ Read.timer.is = "paused"
    /\ Control([Read EXCEPT !.timer.is = "running"], owed)

(* forwardTimer: a paused timer lands paused, and nobody is told.          *)
Forward ==
    /\ Read.timer.is # "none"
    /\ Control(Advanced(Read), Advanced(Read).timer.time)

RestartPhase ==
    /\ Read.timer.is # "none"
    /\ Control(Restarted(Read), Length[Read.timer.phase])

Reset == Control([Read EXCEPT !.timer = NoTimer, !.cycle = 0], 0)

SaveSettings ==
    /\ serving
    /\ \E enabled \in BOOLEAN :
         LET next == Merged(Read, enabled)
         IN  /\ doc' = next
             /\ armed' = IF next.timer # Read.timer THEN Arm(next) ELSE armed
             /\ Observe(IF next.timer.is = "none" THEN 0 ELSE owed, "")
    /\ UNCHANGED <<serving, hitches>>

-----------------------------------------------------------------------------
(* The world. *)

Passes(by) ==
    IF doc.timer.is = "running" THEN [doc EXCEPT !.timer.time = Aged(@, by)] ELSE doc

(* A unit passes on both clocks; a timeout is not more than Late late.     *)
TimePasses ==
    /\ armed.is # "none" => armed.in > -Late
    /\ doc' = Passes(1)
    /\ armed' = IF armed.is = "none" THEN armed ELSE [armed EXCEPT !.in = @ - 1]
    /\ Observe(IF doc.timer.is = "running" THEN Aged(owed, 1) ELSE owed, "")
    /\ UNCHANGED <<serving, hitches>>

(* The wall clock jumps: it is set, or the machine slept, which node       *)
(* cannot tell apart.  A jump the clock means to correct takes nothing     *)
(* from the interval; one past MaxForward, or with no wait to measure it,  *)
(* does.  One jump a wait.                                                 *)
Jump ==
    /\ hitches < MaxHitches /\ armed.skew = 0
    /\ doc.timer.is = "running"
    /\ \E by \in Jumps :
         /\ doc' = Passes(by)
         /\ armed' = IF armed.is = "wait" THEN [armed EXCEPT !.skew = by] ELSE armed
         /\ Observe(IF armed.is = "wait" /\ by <= MaxForward THEN owed ELSE Aged(owed, by), "")
    /\ hitches' = hitches + 1
    /\ UNCHANGED serving

(* Five in the morning: nothing is scheduled for it.                       *)
NewDay ==
    /\ doc.today
    /\ doc' = [doc EXCEPT !.today = FALSE]
    /\ said' = ""
    /\ UNCHANGED <<armed, serving, owed, hitches>>

PomoNext ==
    \/ Boot \/ Stop \/ TimerFires
    \/ Ensure \/ Pause \/ Resume \/ Forward \/ RestartPhase \/ Reset \/ SaveSettings
    \/ TimePasses \/ Jump \/ NewDay

PomoSpec == PomoInit /\ [][PomoNext]_pomoVars

-----------------------------------------------------------------------------
Phases == {"work", "break", "longBreak"}
Times == {t \in Int : t >= LongOver}

PomoTypeOK ==
    /\ doc \in [enabled : BOOLEAN, cycle : 0 .. LongEvery - 1, today : BOOLEAN,
                timer : [is : {"none", "running", "paused"}, phase : Phases, time : Times]]
    /\ armed \in [is : {"none", "wait", "retry"}, in : -Late .. Larger(MaxArm, Retry),
                  skew : Jumps \cup {0}]
    /\ serving \in BOOLEAN
    /\ owed \in Times
    /\ said \in {"", "rang", "dropped"}
    /\ hitches \in 0 .. MaxHitches

(* An interval that runs is counted down by something: whatever control,   *)
(* boundary or refused write came last left a timeout behind, so that no   *)
(* interval stands at 00:00 until somebody touches it (arm, armRetry and   *)
(* createPomodoro's `resume`, "LOAD-BEARING").                             *)
RunningIsArmed ==
    serving /\ Read.timer.is = "running" => armed.is # "none"

(* The clock announces a phase only when the time of the one before it is  *)
(* over, and by no more than the grace; it drops an interval unannounced   *)
(* only later than that.  A step of the clock, and a pause, move neither   *)
(* (applyClockStep, EXPIRY_GRACE_MS, pauseTimer), except that a step not   *)
(* repaired when a write is refused or the daemon stops never is, and      *)
(* counts as time run (armRetry).                                          *)
IntervalsRunTheirTime ==
    [][/\ said' = "rang" => owed \in -ExpiryGrace .. 0
       /\ said' = "dropped" => owed < -ExpiryGrace]_pomoVars

=============================================================================
