------------------------------ MODULE Missions ------------------------------
(***************************************************************************)
(* The missions ledger (src/missions.mjs): which agent session works which *)
(* mission.  A mission is launched, bound, joined, taken over and left; an *)
(* agent session is named by its id, which a /clear changes and a resume   *)
(* carries into a new process, and by its process, a pid and a start.      *)
(*                                                                         *)
(* A process here is a pid with its start, so two processes may share a    *)
(* pid, one after the other.  A call may name its session in full, by its  *)
(* id or its process alone, or, if it binds, not at all.  What a handler   *)
(* reads besides the records is not kept in a variable: `now` holds        *)
(* `quiet`, the missions whose session's time is up (for a reservation     *)
(* UNBOUND_GRACE_MS without a bind, for a bound session STALL_SILENCE_MS   *)
(* without a beat), which any session's may be at any moment, and          *)
(* `listed`, whether the session watcher reads up; `asking` are the        *)
(* missions whose board waits on the reviewer.  An action that such a      *)
(* reading decides is one step for each way it may turn out.               *)
(***************************************************************************)
EXTENDS Naturals, FiniteSets

CONSTANTS
    Mission, Proc, Id,
    Pid,            \* the pid of each process
    NoId, NoProc,   \* nulls
    Unborn, Dead,   \* a process that runs no session
    MaxWorking, MaxAlive,
    MaxVague,       \* bounds the missions with names of a call by half
    MaxSurprises    \* bounds the writes, clears and takeovers nobody planned

ASSUME MissionNulls == /\ NoId \notin Id /\ NoProc \notin Proc
                       /\ {Unborn, Dead} \cap Id = {} /\ Unborn # Dead
ASSUME MissionCaps == {MaxWorking, MaxAlive, MaxVague, MaxSurprises} \subseteq Nat

VARIABLES
    running,    \* the session id each process runs
    sessionOf,  \* each mission's session record
    state,      \* each mission's stored state
    fired,      \* the missions in a grill that recorded `fire`
    takeover,   \* who asked to take the mission over
    joined,     \* observed: the missions whose session bound itself by a join
                \* that named it in full
    vague,      \* observed: the missions with names of a call that named no
                \* session in full, ever
    surprises   \* how many surprises there were

missionVars == <<running, sessionOf, state, fired, takeover, joined, vague,
                 surprises>>

(* needs-you and waiting differ for no rule here: "waiting" is both.       *)
States == {"working", "waiting", "queued", "released"}

Ref == [id : Id \cup {NoId}, proc : Proc \cup {NoProc}]
NoRef == [id |-> NoId, proc |-> NoProc]

SessionRecord ==
    [kind : {"none", "reserved", "bound"}, id : Id \cup {NoId},
     proc : Proc \cup {NoProc}, ended : Ref, left : BOOLEAN]

NoSession ==
    [kind |-> "none", id |-> NoId, proc |-> NoProc, ended |-> NoRef, left |-> FALSE]

RefOf(s) == [id |-> s.id, proc |-> s.proc]

-----------------------------------------------------------------------------
(* The world: processes and the sessions they run. *)

RunsSession(p) == running[p] \in Id

(* pidAlive without a start: some process has this one's pid.              *)
PidTaken(p) == \E q \in Proc : RunsSession(q) /\ Pid[q] = Pid[p]

(* The session of process p by both its names, and the names a call may    *)
(* give: any of them (bindSession), its id at least (a join).              *)
Self(p) == [id |-> running[p], proc |-> p]
Namings(p) == [id : {running[p], NoId}, proc : {p, NoProc}]
ById(p) == {r \in Namings(p) : r.id # NoId}

Half(r) == r.id = NoId \/ r.proc = NoProc

(* No process runs this id and no record names it.                         *)
Unused(i) ==
    /\ \A p \in Proc : running[p] # i
    /\ \A m \in Mission :
         i \notin {sessionOf[m].id, sessionOf[m].ended.id, takeover[m].id}

-----------------------------------------------------------------------------
(* Readings of a record. *)

Matches(s, r) ==
    \/ s.id # NoId /\ s.id = r.id
    \/ s.proc # NoProc /\ s.proc = r.proc

BoundTo(m, r) == sessionOf[m].kind = "bound" /\ Matches(sessionOf[m], r)

(* What a snapshot of the session watcher would list the session under.    *)
ListedAt(s) == {p \in Proc : RunsSession(p) /\ Matches(s, Self(p))}

(* What a handler may read of time and of the session watcher.             *)
Nows == [quiet : SUBSET Mission, listed : BOOLEAN]

(* sessionGone: the bound pid runs no longer, and the snapshot, when there *)
(* is one, lists its id in no other process; or nobody bound in time.      *)
Gone(m, now) ==
    LET s == sessionOf[m]
    IN  IF s.kind = "bound"
        THEN /\ s.proc # NoProc
             /\ ~PidTaken(s.proc)
             /\ now.listed => ListedAt(s) = {}
        ELSE m \in now.quiet

Silent(m, now) ==
    /\ state[m] = "working"
    /\ m \in now.quiet
    /\ now.listed => ListedAt(sessionOf[m]) = {}

Finished(m) == state[m] = "released" \/ m \in fired

(* Mutant: silence frees a session whose process lives as well.            *)
HoldsUnlessSilent(m, now) == ~Gone(m, now) /\ ~Silent(m, now)

(* sessionHolds: not gone, and bound by a pid or heard from.               *)
Holds(m, now) ==
    /\ ~Gone(m, now)
    /\ sessionOf[m].proc # NoProc \/ ~Silent(m, now)

(* hasLiveSession *)
HasLive(m, now) ==
    sessionOf[m].kind # "none" /\ ~Finished(m) /\ Holds(m, now)

(* resumedFrom: the ended session's id in a new process, its old one gone. *)
ResumedFrom(e, r) ==
    /\ e.id # NoId /\ r.id = e.id
    /\ e.proc # NoProc /\ r.proc # NoProc /\ r.proc # e.proc
    /\ ~RunsSession(e.proc)

(* endedOf: whoever was bound, else whoever that record said was replaced, *)
(* unless that one left.                                                   *)
EndedOf(s) ==
    IF s.kind = "bound" THEN RefOf(s)
    ELSE IF s.left THEN NoRef ELSE s.ended

(* A record that names nobody is a reservation (isReservation).            *)
BoundFrom(r, previous) ==
    [kind |-> IF r = NoRef THEN "reserved" ELSE "bound", id |-> r.id, proc |-> r.proc,
     ended |-> EndedOf(previous), left |-> FALSE]

HeardFrom(s, r) ==
    [s EXCEPT !.kind = IF r = NoRef THEN @ ELSE "bound",
              !.id = IF r.id = NoId THEN @ ELSE r.id,
              !.proc = IF r.proc = NoProc THEN @ ELSE r.proc]

DropResumed(s, r) ==
    IF ResumedFrom(s.ended, r) THEN [s EXCEPT !.ended = NoRef] ELSE s

-----------------------------------------------------------------------------
MissionInit ==
    /\ running = [p \in Proc |-> Unborn]
    /\ sessionOf = [m \in Mission |-> NoSession]
    /\ state = [m \in Mission |-> "waiting"]
    /\ fired = {}
    /\ takeover = [m \in Mission |-> NoRef]
    /\ joined = {}
    /\ vague = {}
    /\ surprises = 0

Surprise == surprises < MaxSurprises /\ surprises' = surprises + 1

(* A call that names its session by half is a surprise.                    *)
Named(r) == IF Half(r) THEN Surprise ELSE UNCHANGED surprises

(* Mission m has its names from r.                                         *)
NamedBy(m, r) ==
    /\ vague' = IF Half(r) THEN vague \cup {m} ELSE vague
    /\ Cardinality(vague') <= MaxVague

(* The caps count the other missions, an asking one without its working    *)
(* slot.                                                                   *)
Full(m, now, asking) ==
    LET alive == {o \in Mission \ {m} : HasLive(o, now)}
        working == {o \in alive \ asking : state[o] = "working"}
    IN  Cardinality(working) >= MaxWorking \/ Cardinality(alive) >= MaxAlive

(* Those a board can ask the reviewer for.                                 *)
Working == {m \in Mission : sessionOf[m].kind # "none" /\ state[m] = "working"}

(* What a launch may find of the caps, by every reading that finds no      *)
(* session to hold the mission.                                            *)
Fullness(m) ==
    {Full(m, now, asking) : now \in {n \in Nows : ~HasLive(m, n)}, asking \in SUBSET Working}

(* launchMission, refused while a session holds the mission.  A launch     *)
(* into another grill keeps a recorded fire.                               *)
Launch(m, grill) ==
    \E full \in Fullness(m) :
        /\ sessionOf' = [sessionOf EXCEPT ![m] =
               [NoSession EXCEPT !.kind = IF full THEN "none" ELSE "reserved",
                                 !.ended = EndedOf(sessionOf[m])]]
        /\ state' = [state EXCEPT ![m] = IF full THEN "queued" ELSE "working"]
        /\ fired' = IF grill THEN fired ELSE fired \ {m}
        /\ joined' = joined \ {m}
        /\ UNCHANGED <<running, takeover, vague, surprises>>

(* Mutant: whoever ended may bind again.                                   *)
NeverRefused(e, r) == FALSE

(* The session a record names as ended, by its pid alone or by its id, may *)
(* not bind, unless it is that session resumed in a new process.           *)
Refused(e, r) ==
    /\ ~ResumedFrom(e, r)
    /\ \/ e.proc # NoProc /\ r.proc # NoProc /\ Pid[e.proc] = Pid[r.proc]
       \/ e.id # NoId /\ e.id = r.id

(* bindSession: a bind or a heartbeat; with `beat` the bound session alone *)
(* may call, which takes no step away from these.  The bound pid is told   *)
(* apart from another pid, and a session bound without one by its id.      *)
Bind(m, p, r) ==
    LET s == sessionOf[m]
        newPid == s.proc # NoProc /\ r.proc # NoProc /\ Pid[r.proc] # Pid[s.proc]
        resumed == newPid /\ s.id # NoId /\ r.id = s.id /\ ~RunsSession(s.proc)
        otherId == s.kind = "bound" /\ s.proc = NoProc /\ r.id \notin {NoId, s.id}
        other == (newPid /\ ~resumed) \/ otherId
        next == IF s.kind = "none" \/ other THEN BoundFrom(r, s) ELSE HeardFrom(s, r)
    IN  /\ RunsSession(p)
        /\ Named(r)
        /\ ~Refused(s.ended, r)
        /\ other => FALSE \in {Holds(m, now) : now \in Nows}
        /\ sessionOf' = [sessionOf EXCEPT ![m] = DropResumed(next, r)]
        /\ joined' = IF sessionOf' = sessionOf \/ (BoundTo(m, r) /\ ~Half(r))
                     THEN joined ELSE joined \ {m}
        /\ IF sessionOf' = sessionOf THEN UNCHANGED vague ELSE NamedBy(m, r)
        /\ UNCHANGED <<running, state, fired, takeover>>

(* A join is refused to the session a launch replaced, and to one another  *)
(* mission has bound, its own released mission's rejoin included.          *)
EndedHere(m, r) ==
    LET e == sessionOf[m].ended
    IN  ~sessionOf[m].left /\ Matches(e, r) /\ ~ResumedFrom(e, r)

(* Mutant: a rejoin does not look at the other missions.                   *)
ElsewhereUnlessRejoin(m, r) ==
    /\ ~BoundTo(m, r)
    /\ \E o \in Mission \ {m} : state[o] # "released" /\ BoundTo(o, r)

BoundElsewhere(m, r) ==
    \E o \in Mission \ {m} : state[o] # "released" /\ BoundTo(o, r)

JoinGuard(m, p, r) ==
    /\ RunsSession(p)
    /\ ~BoundElsewhere(m, r)

(* joinMission, the bound session again: its released mission is revived.  *)
Rejoin(m, p, r, grill) ==
    /\ JoinGuard(m, p, r)
    /\ BoundTo(m, r)
    /\ sessionOf' = [sessionOf EXCEPT ![m] = HeardFrom(@, r)]
    /\ state' = [state EXCEPT ![m] = IF @ = "released" THEN "working" ELSE @]
    /\ fired' = IF grill THEN fired ELSE fired \ {m}
    /\ joined' = IF state[m] # "released" THEN joined
                 ELSE IF Half(r) THEN joined \ {m} ELSE joined \cup {m}
    /\ Named(r)
    /\ UNCHANGED <<running, takeover, vague>>

(* joinMission, a launch's reservation or a mission nobody holds.          *)
Join(m, p, r, grill) ==
    LET s == sessionOf[m]
        next(live) == IF live THEN HeardFrom(s, r) ELSE BoundFrom(r, s)
    IN  /\ JoinGuard(m, p, r)
        /\ ~BoundTo(m, r)
        /\ ~EndedHere(m, r)
        /\ Named(r) /\ NamedBy(m, r)
        /\ \E live \in {HasLive(m, now) : now \in Nows} :
             /\ live => s.kind = "reserved"
             /\ sessionOf' = [sessionOf EXCEPT ![m] = DropResumed(next(live), r)]
        /\ takeover' = [takeover EXCEPT ![m] = NoRef]
        /\ state' = [state EXCEPT ![m] = "working"]
        /\ fired' = IF grill THEN fired ELSE fired \ {m}
        /\ joined' = IF Half(r) THEN joined \ {m} ELSE joined \cup {m}
        /\ UNCHANGED running

(* joinMission with takeover, another session bound: the latest asker      *)
(* waits for its leave.                                                    *)
AskTakeover(m, p, r) ==
    /\ JoinGuard(m, p, r)
    /\ sessionOf[m].kind = "bound"
    /\ ~BoundTo(m, r)
    /\ ~EndedHere(m, r)
    /\ Surprise /\ NamedBy(m, r)
    /\ TRUE \in {HasLive(m, now) : now \in Nows}
    /\ takeover' = [takeover EXCEPT ![m] = r]
    /\ UNCHANGED <<running, sessionOf, state, fired, joined>>

(* leaveMission: whoever asked is bound in its place, else nobody.  By its *)
(* id alone a session leaves no mission that it does not leave so.         *)
Leave(m, p) ==
    LET s == sessionOf[m]
        asked == takeover[m] # NoRef
    IN  /\ RunsSession(p)
        /\ BoundTo(m, Self(p))
        /\ sessionOf' = [sessionOf EXCEPT ![m] =
               IF asked THEN BoundFrom(takeover[m], s)
               ELSE [NoSession EXCEPT !.ended = RefOf(s), !.left = TRUE]]
        /\ takeover' = [takeover EXCEPT ![m] = NoRef]
        /\ state' = [state EXCEPT ![m] = IF asked THEN "working"
                                         ELSE IF @ = "working" THEN "waiting" ELSE @]
        /\ joined' = joined \ {m}
        /\ UNCHANGED <<running, fired, vague, surprises>>

(* upsertMission writing a state: a mission released, or brought back.     *)
Upsert(m, st) ==
    /\ st # state[m]
    /\ state' = [state EXCEPT ![m] = st]
    /\ joined' = IF state[m] = "released" THEN joined \ {m} ELSE joined
    /\ Surprise
    /\ UNCHANGED <<running, sessionOf, fired, takeover, vague>>

(* recordFire, or an upsert that writes or withdraws the field.            *)
Fire(m) ==
    /\ fired' = IF m \in fired THEN fired \ {m} ELSE fired \cup {m}
    /\ Surprise
    /\ UNCHANGED <<running, sessionOf, state, takeover, joined, vague>>

(* The world: a session starts in a new process, with a new id or an old   *)
(* one (a resume) no process runs, changes its id (a /clear) and dies.     *)
Start(p, i) ==
    /\ running[p] = Unborn
    /\ ~PidTaken(p)
    /\ \A q \in Proc : running[q] # i
    /\ running' = [running EXCEPT ![p] = i]
    /\ UNCHANGED <<sessionOf, state, fired, takeover, joined, vague, surprises>>

Clear(p, i) ==
    /\ RunsSession(p)
    /\ Unused(i)
    /\ running' = [running EXCEPT ![p] = i]
    /\ Surprise
    /\ UNCHANGED <<sessionOf, state, fired, takeover, joined, vague>>

Die(p) ==
    /\ RunsSession(p)
    /\ running' = [running EXCEPT ![p] = Dead]
    /\ UNCHANGED <<sessionOf, state, fired, takeover, joined, vague, surprises>>

(* A launch or a join may ask for another grill where a fire was recorded. *)
Grills(m) == IF m \in fired THEN BOOLEAN ELSE {FALSE}

MissionNext ==
    \/ \E m \in Mission : \E grill \in Grills(m) : Launch(m, grill)
    \/ \E p \in {q \in Proc : RunsSession(q)}, m \in Mission :
         \/ \E r \in Namings(p) : Bind(m, p, r)
         \/ \E r \in ById(p), grill \in Grills(m) : Join(m, p, r, grill)
         \/ \E r \in ById(p) : AskTakeover(m, p, r)
         \/ \E r \in ById(p), grill \in Grills(m) : Rejoin(m, p, r, grill)
         \/ Leave(m, p)
    \/ \E m \in Mission :
         \/ \E st \in States \ {"queued"} : Upsert(m, st)
         \/ Fire(m)
    \/ \E p \in Proc :
         \/ \E i \in Id : Start(p, i) \/ Clear(p, i)
         \/ Die(p)

MissionSpec == MissionInit /\ [][MissionNext]_missionVars

-----------------------------------------------------------------------------
MissionTypeOK ==
    /\ running \in [Proc -> Id \cup {Unborn, Dead}]
    /\ sessionOf \in [Mission -> SessionRecord]
    /\ state \in [Mission -> States]
    /\ fired \in SUBSET Mission
    /\ takeover \in [Mission -> Ref]
    /\ joined \in SUBSET Mission
    /\ vague \in SUBSET Mission
    /\ surprises \in 0 .. MaxSurprises

(* While its process lives and its mission has not recorded its end, a     *)
(* bound session loses its mission only by its own leave: no launch, bind  *)
(* or join starts another beside it, however long it is silent             *)
(* (hasLiveSession).                                                       *)
NeverDisplaced ==
    [][\A m \in Mission :
         LET s == sessionOf[m]
         IN  (/\ s.kind = "bound" /\ s.proc # NoProc /\ RunsSession(s.proc)
              /\ ~Finished(m)) =>
             \/ Matches(sessionOf'[m], RefOf(s))
             \/ \E p \in Proc : Leave(m, p)]_missionVars

(* The missions a process's session has bound.                             *)
HeldBy(p) ==
    {m \in Mission : state[m] # "released" /\ BoundTo(m, Self(p))}

(* One session is never two missions', as far as the joins keep it so: it  *)
(* never joins into two missions, through every /clear, resume, takeover   *)
(* it lost and mission released under it (joinMission), whatever binds     *)
(* that name a session by half do in between.  A join that leaves the      *)
(* process out does not see the mission its session joined under an        *)
(* earlier id, so the joins meant are those that name it in full.          *)
JoinsKeepOneMission ==
    \A p \in Proc : RunsSession(p) => Cardinality(HeldBy(p) \cap joined) <= 1

(* A session that was replaced, or that left, is bound again only as a new *)
(* process's resume, which the record then forgets as ended; so no bound   *)
(* session is one whose every beat would be refused (dropResumed).  The    *)
(* exceptions are a takeover left pending while its asker was bound, and a *)
(* mission that has a name of a session that named itself by half: the     *)
(* session that ended, its id cleared, may bind by the new one alone.      *)
EndedStaysOut ==
    [][\A m \in Mission \ vague :
         LET Both == sessionOf[m].kind = "bound"
                     /\ Matches(sessionOf[m].ended, RefOf(sessionOf[m]))
         IN  Both' => Both \/ Matches(takeover[m], RefOf(sessionOf[m]))]_missionVars

=============================================================================
