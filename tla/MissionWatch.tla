---------------------------- MODULE MissionWatch ----------------------------
(***************************************************************************)
(* The missions watch (createMissionWatch in src/mission-watch.mjs): a     *)
(* read of every mission each 30 seconds, which publishes on the stream    *)
(* the changes no write made and speaks, a minute after the first of a     *)
(* batch, of the missions that turned needs-you, stalled or released.      *)
(*                                                                         *)
(* `record` is what a read finds: a mission's derived view, whether its    *)
(* session is gone, and the stamp (updatedAt) a write moves.  Every write  *)
(* publishes `missions`, at which a subscriber reads the missions again;   *)
(* `shown` is what one that only listens to the stream has read last.      *)
(* "working" stands for waiting and queued too, which are not spoken of.   *)
(***************************************************************************)
EXTENDS Naturals

CONSTANTS
    Watched,        \* the missions
    Unread,         \* a mission the last read did not list
    MaxMoves        \* bounds the writes and the changes no write makes

Spoken == {"needs-you", "stalled", "released"}

ASSUME WatchBounds ==
    /\ MaxMoves \in Nat
    /\ Unread \notin [view : {"working"} \cup Spoken, gone : BOOLEAN, stamp : Nat]

VARIABLES
    record,     \* the missions as a read finds them
    shown,      \* what the stream's subscriber has read
    seen,       \* the last read
    batch,      \* what the next notification says of each mission
    window,     \* the batch's window: its timer and dueAt
    moves

watchVars == <<record, shown, seen, batch, window, moves>>

(* A retired mission is not listed; a session reads gone only where its    *)
(* going says something.                                                   *)
Views == {r \in [view : {"working", "retired"} \cup Spoken, gone : BOOLEAN] :
            r.gone => r.view \in {"needs-you", "stalled"}}

ViewOf(r) == [view |-> r.view, gone |-> r.gone]

Listing(r) == [m \in Watched |-> IF r[m].view = "retired" THEN Unread ELSE r[m]]

(* The daemon starts with a read that says nothing, whatever it finds, and *)
(* a subscriber reads the missions as it connects.                         *)
WatchInit ==
    /\ \E v \in [Watched -> Views] :
         record = [m \in Watched |-> [view |-> v[m].view, gone |-> v[m].gone, stamp |-> 0]]
    /\ shown = [m \in Watched |-> ViewOf(record[m])]
    /\ seen = Listing(record)
    /\ batch = [m \in Watched |-> "none"]
    /\ window = "shut"
    /\ moves = 0

-----------------------------------------------------------------------------
(* The missions. *)

Publish(r) == shown' = [m \in Watched |-> ViewOf(r[m])]

(* A write under /api/mission/:key, a heartbeat among them: it moves the   *)
(* stamp whatever it changes, and publishes.                               *)
WriteMission(m) ==
    /\ moves < MaxMoves
    /\ moves' = moves + 1
    /\ \E v \in Views :
         record' = [record EXCEPT ![m] =
                      [view |-> v.view, gone |-> v.gone, stamp |-> @.stamp + 1]]
    /\ Publish(record')
    /\ UNCHANGED <<seen, batch, window>>

(* A session dies, falls silent, or is heard of again, or a board of the   *)
(* mission is posted or answered: the view moves with no write of its own. *)
Drift(m) ==
    /\ moves < MaxMoves
    /\ moves' = moves + 1
    /\ \E v \in Views :
         /\ v # ViewOf(record[m])
         /\ {v.view, record[m].view} \subseteq {"working", "needs-you", "stalled"}
         /\ record' = [record EXCEPT ![m].view = v.view, ![m].gone = v.gone]
    /\ UNCHANGED <<shown, seen, batch, window>>

(* The session list changed (src/sessions.mjs onChange).                   *)
ListChanged ==
    /\ Publish(record)
    /\ UNCHANGED <<record, seen, batch, window, moves>>

-----------------------------------------------------------------------------
(* One read. *)

Listed(m) == record[m].view # "retired"
Known(m) == seen[m] # Unread
Moved(m) == Listed(m) /\ (Known(m) => ViewOf(seen[m]) # ViewOf(record[m]))
Turned(m) == Moved(m) /\ (Known(m) => seen[m].view # record[m].view)

(* The changes no write published, as the watch tells them.                *)
Unpublished == {m \in Watched : Known(m) /\ Moved(m) /\ seen[m].stamp = record[m].stamp}

(* What a change adds to the batch: a mission whose session goes under its *)
(* open round is spoken of as stalled.                                     *)
Joins(m) ==
    IF Turned(m) /\ record[m].view \in Spoken THEN record[m].view
    ELSE IF Moved(m) /\ ~Turned(m) /\ record[m].view = "needs-you" /\ record[m].gone
    THEN "stalled"
    ELSE "none"

(* As it would be if only a mission retired took itself off the batch.     *)
LeavesRetired(m) == ~Listed(m)

(* Moved on, heard of again, or retired.                                   *)
LeavesBatch(m) ==
    \/ ~Listed(m)
    \/ Turned(m) /\ record[m].view \notin Spoken
    \/ Moved(m) /\ ~Turned(m) /\ batch[m] = "stalled"
         /\ record[m].view = "needs-you" /\ ~record[m].gone

Joining == {m \in Watched : Joins(m) # "none"}
Empty == [m \in Watched |-> "none"]

(* As it would be if a window due closed on the entries that join it.      *)
OpenedLate == IF window = "due" THEN "shut" ELSE window

(* join: a batch whose window is over is spoken before another begins.     *)
Opened == IF Joining = {} THEN window ELSE "open"

Kept == [m \in Watched |-> IF LeavesBatch(m) THEN "none" ELSE batch[m]]

Gathered ==
    LET base == IF Joining # {} /\ window = "due" THEN Empty ELSE Kept
    IN  [m \in Watched |-> IF m \in Joining THEN Joins(m) ELSE base[m]]

Look(closing) ==
    /\ seen' = Listing(record)
    /\ IF Unpublished # {} THEN Publish(record) ELSE UNCHANGED shown
    /\ IF Opened # "shut" /\ (closing \/ Opened = "due")
       THEN batch' = Empty /\ window' = "shut"
       ELSE batch' = Gathered /\ window' = Opened
    /\ UNCHANGED <<record, moves>>

(* The interval's read.                                                    *)
IntervalLook == Look(FALSE)

(* The window's timer, which may fire a hair before the window is over.    *)
WindowCloses == window # "shut" /\ Look(TRUE)

(* Its read failed: the batch is spoken all the same.                      *)
WindowClosesBlind ==
    /\ window # "shut"
    /\ batch' = Empty /\ window' = "shut"
    /\ UNCHANGED <<record, shown, seen, moves>>

WindowPasses ==
    /\ window = "open"
    /\ window' = "due"
    /\ UNCHANGED <<record, shown, seen, batch, moves>>

WatchNext ==
    \/ \E m \in Watched : WriteMission(m) \/ Drift(m)
    \/ ListChanged
    \/ IntervalLook \/ WindowCloses \/ WindowClosesBlind
    \/ WindowPasses

WatchSpec == WatchInit /\ [][WatchNext]_watchVars

-----------------------------------------------------------------------------
Found == [view : {"working"} \cup Spoken, gone : BOOLEAN, stamp : 0 .. MaxMoves]

WatchTypeOK ==
    /\ \A m \in Watched : ViewOf(record[m]) \in Views /\ record[m].stamp \in 0 .. MaxMoves
    /\ shown \in [Watched -> Views]
    /\ \A m \in Watched : seen[m] = Unread \/ seen[m] \in Found
    /\ batch \in [Watched -> {"none"} \cup Spoken]
    /\ window \in {"shut", "open", "due"}
    /\ moves \in 0 .. MaxMoves

(* The batch says of a mission what the last read found, and will be       *)
(* spoken: one that moved on before its batch speaks (answered, retired,   *)
(* heard of again) has left it, and no order of reads, failures and timers *)
(* leaves one that turned unsaid, without a window (the header of          *)
(* src/mission-watch.mjs, test/check-mission-notify.mjs).                  *)
BatchSpeaksTrue ==
    \A m \in Watched : batch[m] # "none" =>
        /\ window # "shut"
        /\ Known(m)
        /\ \/ batch[m] = seen[m].view
           \/ batch[m] = "stalled" /\ seen[m].view = "needs-you" /\ seen[m].gone

=============================================================================
