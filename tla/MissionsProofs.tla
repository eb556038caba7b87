---------------------------- MODULE MissionsProofs ----------------------------
(***************************************************************************)
(* Proofs about the missions ledger: a bound session is never displaced    *)
(* while its process lives; a session joins into one mission only, by the  *)
(* joins that name it in full; and one that ended stays out, where no call *)
(* named a session by half.  At the end, the ledger and the shim side by   *)
(* side.                                                                   *)
(***************************************************************************)
EXTENDS MCSessions, ShimProofs, FiniteSetTheorems, TLAPS

-----------------------------------------------------------------------------
(* The types, the processes and the records. *)

(* Two running processes have two pids, and two ids.                       *)
OnePerPid ==
    \A p, q \in Proc : RunsSession(p) /\ RunsSession(q) /\ Pid[p] = Pid[q] => p = q

OnePerId ==
    \A p, q \in Proc : RunsSession(p) /\ running[p] = running[q] => p = q

(* Only a bound record names anyone, and only one of nobody says it left.  *)
Plain(s) ==
    /\ s.kind # "bound" => s.id = NoId /\ s.proc = NoProc
    /\ s.kind # "none" => s.left = FALSE

MissionInv ==
    /\ MissionTypeOK /\ OnePerPid /\ OnePerId
    /\ \A m \in Mission : Plain(sessionOf[m])

-----------------------------------------------------------------------------
(* The records. *)

LEMMA NoRefType == NoRef \in Ref /\ NoRef.id = NoId /\ NoRef.proc = NoProc
  BY DEF NoRef, Ref

LEMMA NoSessionType ==
    /\ NoSession \in SessionRecord /\ NoSession.kind = "none"
    /\ NoSession.id = NoId /\ NoSession.proc = NoProc
    /\ NoSession.ended = NoRef /\ NoSession.left = FALSE
  BY NoRefType DEF NoSession, SessionRecord

(* A record of a mission.                                                  *)
LEMMA RecordType ==
    ASSUME MissionInv, NEW m \in Mission
    PROVE  /\ sessionOf[m] \in SessionRecord /\ Plain(sessionOf[m])
           /\ takeover[m] \in Ref /\ state[m] \in States
           /\ RefOf(sessionOf[m]) \in Ref /\ sessionOf[m].ended \in Ref
<1>1. sessionOf[m] \in SessionRecord
  BY DEF MissionInv, MissionTypeOK
<1>2. RefOf(sessionOf[m]) \in Ref /\ sessionOf[m].ended \in Ref
  BY <1>1 DEF SessionRecord, RefOf, Ref
<1> QED
  BY <1>1, <1>2 DEF MissionInv, MissionTypeOK

LEMMA RefOfFacts ==
    ASSUME NEW s \in SessionRecord
    PROVE  RefOf(s) \in Ref /\ RefOf(s).id = s.id /\ RefOf(s).proc = s.proc
  BY DEF RefOf, SessionRecord, Ref

(* A session that runs is named in full by its id and its process.         *)
LEMMA SelfFacts ==
    ASSUME NEW p \in Proc, RunsSession(p)
    PROVE  /\ Self(p) \in Ref /\ Self(p).id = running[p] /\ Self(p).id # NoId
           /\ Self(p).proc = p /\ p # NoProc
  BY MissionNulls DEF Self, Ref, RunsSession

(* A call names its session by these, or by some of them.                  *)
LEMMA NamingFacts ==
    ASSUME NEW p \in Proc, RunsSession(p), NEW r \in Namings(p)
    PROVE  /\ r \in Ref /\ r.proc \in {p, NoProc}
           /\ ~Half(r) => r = Self(p)
<1>1. running[p] \in Id
  BY DEF RunsSession
<1> QED
  BY <1>1 DEF Namings, Ref, Half, Self

LEMMA EndedOfFacts ==
    ASSUME NEW s \in SessionRecord
    PROVE  /\ EndedOf(s) \in Ref
           /\ EndedOf(s) \in {RefOf(s), s.ended, NoRef}
           /\ s.kind = "bound" => EndedOf(s) = RefOf(s)
           /\ s.kind # "bound" => EndedOf(s) = NoRef \/ (~s.left /\ EndedOf(s) = s.ended)
<1>1. s.ended \in Ref
  BY DEF SessionRecord
<1> QED
  BY <1>1, NoRefType, RefOfFacts DEF EndedOf

LEMMA BoundFromFacts ==
    ASSUME NEW r \in Ref, NEW s \in SessionRecord
    PROVE  /\ BoundFrom(r, s) \in SessionRecord
           /\ BoundFrom(r, s).kind = IF r = NoRef THEN "reserved" ELSE "bound"
           /\ BoundFrom(r, s).id = r.id /\ BoundFrom(r, s).proc = r.proc
           /\ BoundFrom(r, s).ended = EndedOf(s) /\ BoundFrom(r, s).left = FALSE
           /\ Plain(BoundFrom(r, s))
<1>1. EndedOf(s) \in Ref
  BY EndedOfFacts
<1> QED
  BY <1>1, NoRefType DEF BoundFrom, SessionRecord, Ref, Plain

LEMMA HeardFromFacts ==
    ASSUME NEW r \in Ref, NEW s \in SessionRecord, Plain(s), s.kind # "none"
    PROVE  /\ HeardFrom(s, r) \in SessionRecord
           /\ HeardFrom(s, r).kind = IF r = NoRef THEN s.kind ELSE "bound"
           /\ HeardFrom(s, r).id = IF r.id = NoId THEN s.id ELSE r.id
           /\ HeardFrom(s, r).proc = IF r.proc = NoProc THEN s.proc ELSE r.proc
           /\ HeardFrom(s, r).ended = s.ended /\ HeardFrom(s, r).left = FALSE
           /\ Plain(HeardFrom(s, r))
<1> DEFINE kind == IF r = NoRef THEN s.kind ELSE "bound"
           id == IF r.id = NoId THEN s.id ELSE r.id
           proc == IF r.proc = NoProc THEN s.proc ELSE r.proc
           next == [s EXCEPT !.kind = kind, !.id = id, !.proc = proc]
<1>1. /\ kind \in {"reserved", "bound"} /\ id \in Id \cup {NoId}
      /\ proc \in Proc \cup {NoProc}
  BY DEF Ref, SessionRecord
<1>2. HeardFrom(s, r) = next
  BY DEF HeardFrom, SessionRecord
<1>3. s.left = FALSE /\ (s.kind # "bound" => s.id = NoId /\ s.proc = NoProc)
  BY DEF Plain
<1>4. kind # "bound" => id = NoId /\ proc = NoProc
  BY <1>3, NoRefType
<1> HIDE DEF kind, id, proc
<1>5. next \in SessionRecord /\ next.kind = kind /\ next.id = id
      /\ next.proc = proc /\ next.ended = s.ended /\ next.left = FALSE
  BY <1>1, <1>3 DEF SessionRecord
<1> HIDE DEF next
<1>6. Plain(next)
  BY <1>1, <1>4, <1>5 DEF Plain
<1> QED
  BY <1>2, <1>5, <1>6 DEF kind, id, proc

LEMMA DropResumedFacts ==
    ASSUME NEW s \in SessionRecord, NEW r \in Ref, Plain(s)
    PROVE  /\ DropResumed(s, r) \in SessionRecord
           /\ DropResumed(s, r).kind = s.kind /\ DropResumed(s, r).id = s.id
           /\ DropResumed(s, r).proc = s.proc
           /\ DropResumed(s, r).ended = IF ResumedFrom(s.ended, r) THEN NoRef ELSE s.ended
           /\ Plain(DropResumed(s, r))
<1>1. CASE ResumedFrom(s.ended, r)
  <2> DEFINE next == [s EXCEPT !.ended = NoRef]
  <2>1. DropResumed(s, r) = next
    BY <1>1 DEF DropResumed
  <2>2. next \in SessionRecord /\ next.kind = s.kind /\ next.id = s.id
        /\ next.proc = s.proc /\ next.ended = NoRef /\ next.left = s.left
    BY NoRefType DEF SessionRecord
  <2> HIDE DEF next
  <2> QED
    BY <1>1, <2>1, <2>2 DEF Plain
<1>2. CASE ~ResumedFrom(s.ended, r)
  BY <1>2 DEF DropResumed
<1> QED
  BY <1>1, <1>2

-----------------------------------------------------------------------------
(* What the handlers write. *)

(* The record of m becomes next, every other one stays.                    *)
Rewrites(m, next) ==
    /\ next \in SessionRecord /\ Plain(next)
    /\ sessionOf' = [sessionOf EXCEPT ![m] = next]

LEMMA RewriteFacts ==
    ASSUME MissionInv, NEW m \in Mission, NEW next, Rewrites(m, next)
    PROVE  /\ sessionOf' \in [Mission -> SessionRecord]
           /\ sessionOf'[m] = next
           /\ \A n \in Mission : n # m => sessionOf'[n] = sessionOf[n]
           /\ \A n \in Mission : Plain(sessionOf'[n])
<1>1. sessionOf \in [Mission -> SessionRecord]
  BY DEF MissionInv, MissionTypeOK
<1>2. \A n \in Mission : sessionOf'[n] = IF n = m THEN next ELSE sessionOf[n]
  BY <1>1 DEF Rewrites
<1>3. \A n \in Mission : Plain(sessionOf[n])
  BY DEF MissionInv
<1>4. sessionOf' \in [Mission -> SessionRecord]
  BY <1>1 DEF Rewrites
<1>5. \A n \in Mission : Plain(sessionOf'[n])
  BY <1>2, <1>3 DEF Rewrites
<1> QED
  BY <1>2, <1>4, <1>5

(* A session whose process lives holds its mission.                        *)
LEMMA AliveHolds ==
    ASSUME MissionInv, NEW m \in Mission, NEW now,
           sessionOf[m].kind = "bound", sessionOf[m].proc # NoProc,
           RunsSession(sessionOf[m].proc)
    PROVE  Holds(m, now)
<1>1. sessionOf[m].proc \in Proc
  BY RecordType DEF SessionRecord
<1>2. PidTaken(sessionOf[m].proc)
  BY <1>1 DEF PidTaken
<1> QED
  BY <1>2 DEF Holds, Gone

LEMMA LaunchWrites ==
    ASSUME MissionInv, NEW m \in Mission, NEW grill, Launch(m, grill)
    PROVE  \E next :
             /\ Rewrites(m, next) /\ next.kind # "bound"
             /\ next.ended \in {NoRef, sessionOf[m].ended, RefOf(sessionOf[m])}
<1>0. PICK full \in Fullness(m) :
        sessionOf' = [sessionOf EXCEPT ![m] =
            [NoSession EXCEPT !.kind = IF full THEN "none" ELSE "reserved",
                              !.ended = EndedOf(sessionOf[m])]]
  BY DEF Launch
<1> DEFINE kind == IF full THEN "none" ELSE "reserved"
           ended == EndedOf(sessionOf[m])
           next == [NoSession EXCEPT !.kind = kind, !.ended = ended]
<1>1. sessionOf' = [sessionOf EXCEPT ![m] = next]
  BY <1>0
<1>2. ended \in Ref /\ ended \in {RefOf(sessionOf[m]), sessionOf[m].ended, NoRef}
  BY RecordType, EndedOfFacts
<1>3. kind \in {"none", "reserved"}
  OBVIOUS
<1> HIDE DEF kind, ended
<1>4. /\ next \in SessionRecord /\ next.kind = kind /\ next.ended = ended
      /\ next.id = NoId /\ next.proc = NoProc /\ next.left = FALSE
  BY <1>2, <1>3, NoSessionType DEF SessionRecord
<1> HIDE DEF next
<1>5. Plain(next) /\ next.kind # "bound"
  BY <1>3, <1>4 DEF Plain
<1> QED
  BY <1>1, <1>2, <1>4, <1>5 DEF Rewrites

(* One that is not refused is not the one that ended, or is forgotten as   *)
(* such.                                                                   *)
LEMMA NotRefused ==
    ASSUME NEW e \in Ref, NEW r \in Ref, ~Refused(e, r), ~ResumedFrom(e, r)
    PROVE  ~Matches(e, r)
  BY DEF Refused, Matches

LEMMA NoRefMatches == \A r : ~Matches(NoRef, r)
  BY NoRefType DEF Matches

LEMMA MatchesFlips == \A x, y : Matches(x, y) <=> Matches(y, x)
  BY DEF Matches

(* A record is matched by what it is known by.                             *)
LEMMA MatchesByNames ==
    ASSUME NEW s, NEW x
    PROVE  Matches(RefOf(s), x) <=> Matches(s, x)
  BY DEF Matches, RefOf

(* Bound, and the one its own record calls ended.                          *)
Both(m) ==
    sessionOf[m].kind = "bound" /\ Matches(sessionOf[m].ended, RefOf(sessionOf[m]))

(* A bind writes the caller's names over what was there, and binds nobody  *)
(* whom the record calls ended, unless it was so bound.                    *)
LEMMA BindWrites ==
    ASSUME MissionInv, NEW m \in Mission, NEW p \in Proc, NEW r \in Namings(p),
           Bind(m, p, r)
    PROVE  \E next :
             /\ Rewrites(m, next)
             /\ ~Half(r) => RefOf(next) = Self(p)
             /\ next.ended \in {NoRef, sessionOf[m].ended, RefOf(sessionOf[m])}
             /\ Matches(next.ended, RefOf(next)) => Both(m)
             /\ (/\ sessionOf[m].kind = "bound" /\ sessionOf[m].proc # NoProc
                 /\ RunsSession(sessionOf[m].proc)) =>
                Matches(next, RefOf(sessionOf[m]))
<1> DEFINE s == sessionOf[m]
           newPid == s.proc # NoProc /\ r.proc # NoProc /\ Pid[r.proc] # Pid[s.proc]
           resumed == newPid /\ s.id # NoId /\ r.id = s.id /\ ~RunsSession(s.proc)
           otherId == s.kind = "bound" /\ s.proc = NoProc /\ r.id \notin {NoId, s.id}
           other == (newPid /\ ~resumed) \/ otherId
           fresh == s.kind = "none" \/ other
           base == IF fresh THEN BoundFrom(r, s) ELSE HeardFrom(s, r)
           next == DropResumed(base, r)
<1>1. /\ RunsSession(p) /\ ~Refused(s.ended, r)
      /\ other => FALSE \in {Holds(m, now) : now \in Nows}
      /\ sessionOf' = [sessionOf EXCEPT ![m] = next]
  BY DEF Bind
<1>2. s \in SessionRecord /\ Plain(s) /\ RefOf(s) \in Ref /\ s.ended \in Ref
      /\ RefOf(s).id = s.id /\ RefOf(s).proc = s.proc
  BY RecordType, RefOfFacts
<1>3. r \in Ref /\ r.proc \in {p, NoProc} /\ (~Half(r) => r = Self(p))
  BY <1>1, NamingFacts
<1>4. s.proc # NoProc => s.kind = "bound" /\ s.proc \in Proc
  BY <1>2 DEF Plain, SessionRecord
<1>5. (s.kind = "bound" /\ s.proc # NoProc /\ RunsSession(s.proc)) => ~other
  BY <1>1, AliveHolds
<1>6. Both(m) <=> s.kind = "bound" /\ Matches(s.ended, RefOf(s))
  BY DEF Both
<1> HIDE DEF s
<1>7. /\ base \in SessionRecord /\ Plain(base)
      /\ base.id = IF fresh \/ r.id # NoId THEN r.id ELSE s.id
      /\ base.proc = IF fresh \/ r.proc # NoProc THEN r.proc ELSE s.proc
      /\ base.ended = IF fresh THEN EndedOf(s) ELSE s.ended
  <2>1. CASE fresh
    <3>1. base = BoundFrom(r, s)
      BY <2>1
    <3> QED
      BY <2>1, <3>1, <1>2, <1>3, BoundFromFacts
  <2>2. CASE ~fresh
    <3>1. base = HeardFrom(s, r) /\ s.kind # "none"
      BY <2>2
    <3> QED
      BY <2>2, <3>1, <1>2, <1>3, HeardFromFacts
  <2> QED
    BY <2>1, <2>2
<1>8. base.ended \in {NoRef, s.ended, RefOf(s)}
  BY <1>2, <1>7, EndedOfFacts
<1>9. ~ResumedFrom(base.ended, r) => ~Matches(base.ended, r)
  <2>1. CASE base.ended = s.ended
    BY <2>1, <1>1, <1>2, <1>3, NotRefused
  <2>2. CASE base.ended = NoRef
    BY <2>2, NoRefMatches
  <2>3. CASE base.ended # s.ended /\ base.ended # NoRef
    <3>1. other /\ s.kind = "bound" /\ base.ended = RefOf(s)
      <4>1. fresh /\ base.ended = EndedOf(s)
        BY <2>3, <1>7
      <4>2. s.kind = "bound"
        BY <4>1, <2>3, <1>2, EndedOfFacts
      <4> QED
        BY <4>1, <4>2, <1>2, EndedOfFacts
    <3>2. ~(s.proc # NoProc /\ s.proc = r.proc)
      BY <3>1
    <3>3. ~(s.id # NoId /\ s.id = r.id)
      <4>1. CASE newPid /\ ~resumed
        <5>1. ~RunsSession(s.proc)
          BY <4>1, <3>1, <1>5
        <5> QED
          BY <4>1, <5>1
      <4>2. CASE otherId
        BY <4>2
      <4> QED
        BY <3>1, <4>1, <4>2
    <3> QED
      BY <3>1, <3>2, <3>3, <1>2 DEF Matches
  <2> QED
    BY <2>1, <2>2, <2>3
<1>10. /\ next \in SessionRecord /\ Plain(next) /\ next.id = base.id
       /\ next.proc = base.proc
       /\ next.ended = IF ResumedFrom(base.ended, r) THEN NoRef ELSE base.ended
  BY <1>3, <1>7, DropResumedFacts
<1>11. Rewrites(m, next)
  BY <1>1, <1>10 DEF Rewrites, s
<1>12. ASSUME s.kind = "bound", s.proc # NoProc, RunsSession(s.proc)
       PROVE  Matches(next, RefOf(s))
  <2>1. ~fresh /\ ~newPid
    BY <1>5, <1>12
  <2>2. r.proc \in {NoProc, s.proc}
    BY <2>1, <1>1, <1>3, <1>4, <1>12 DEF MissionInv, OnePerPid
  <2>3. next.proc = s.proc
    BY <2>1, <2>2, <1>7, <1>10
  <2> QED
    BY <2>3, <1>2, <1>12 DEF Matches
<1>13. ~Half(r) => next.id = Self(p).id /\ next.proc = Self(p).proc
  BY <1>3, <1>7, <1>10 DEF Half
<1>14. ~fresh => s.kind # "none" /\ (s.id # NoId \/ s.proc # NoProc => s.kind = "bound")
  BY <1>2 DEF Plain
<1> HIDE DEF next, base, fresh, other, otherId, resumed, newPid
<1>15. next.ended \in {NoRef, s.ended, RefOf(s)} /\ ~Matches(next.ended, r)
  BY <1>8, <1>9, <1>10, NoRefMatches
<1>16. ~Half(r) => RefOf(next) = Self(p)
  BY <1>13 DEF RefOf, Self
<1>17. ASSUME Matches(next.ended, RefOf(next)) PROVE Both(m)
  <2>1. RefOf(next).id = next.id /\ RefOf(next).proc = next.proc
    BY <1>10, RefOfFacts
  <2>2. CASE fresh
    BY <2>1, <2>2, <1>7, <1>10, <1>15, <1>17 DEF Matches
  <2>3. CASE ~fresh
    <3>1. next.ended = s.ended
      BY <2>3, <1>7, <1>10, <1>17, NoRefMatches
    <3>2. \/ s.ended.id # NoId /\ s.ended.id = s.id
          \/ s.ended.proc # NoProc /\ s.ended.proc = s.proc
      BY <2>1, <2>3, <3>1, <1>7, <1>10, <1>15, <1>17 DEF Matches
    <3> QED
      BY <2>3, <3>2, <1>2, <1>6, <1>14 DEF Matches
  <2> QED
    BY <2>2, <2>3
<1> QED
  BY <1>11, <1>12, <1>15, <1>16, <1>17 DEF s

(* A rejoin writes the caller's names over the ones it matched, and by its *)
(* id alone changes none.                                                  *)
LEMMA RejoinWrites ==
    ASSUME MissionInv, NEW m \in Mission, NEW p \in Proc, NEW r \in ById(p), NEW grill,
           Rejoin(m, p, r, grill)
    PROVE  \E next :
             /\ Rewrites(m, next) /\ next.kind = "bound"
             /\ RefOf(next) = IF Half(r) THEN RefOf(sessionOf[m]) ELSE Self(p)
             /\ next.ended = sessionOf[m].ended
             /\ Matches(next, RefOf(sessionOf[m]))
<1> DEFINE s == sessionOf[m]
           next == HeardFrom(s, r)
<1>1. /\ RunsSession(p) /\ s.kind = "bound" /\ Matches(s, r)
      /\ sessionOf' = [sessionOf EXCEPT ![m] = next]
  <2>1. m \in DOMAIN sessionOf
    BY DEF MissionInv, MissionTypeOK
  <2> QED
    BY <2>1 DEF Rejoin, JoinGuard, BoundTo
<1>2. s \in SessionRecord /\ Plain(s) /\ RefOf(s).id = s.id /\ RefOf(s).proc = s.proc
  BY RecordType, RefOfFacts
<1>3. r \in Ref /\ r.id # NoId /\ (~Half(r) => r = Self(p))
  BY <1>1, NamingFacts DEF ById
<1> HIDE DEF s
<1>4. /\ next \in SessionRecord /\ next.kind = "bound" /\ next.id = r.id
      /\ next.proc = IF r.proc = NoProc THEN s.proc ELSE r.proc
      /\ next.ended = s.ended /\ Plain(next)
  BY <1>1, <1>2, <1>3, HeardFromFacts
<1> HIDE DEF next
<1>5. Matches(next, RefOf(s))
  BY <1>1, <1>2, <1>3, <1>4 DEF Matches
<1>6. RefOf(next) = IF Half(r) THEN RefOf(s) ELSE Self(p)
  <2>1. CASE Half(r)
    <3>1. r.proc = NoProc /\ next.id = s.id /\ next.proc = s.proc
      BY <2>1, <1>1, <1>3, <1>4 DEF Half, Matches
    <3> QED
      BY <2>1, <3>1 DEF RefOf
  <2>2. CASE ~Half(r)
    <3>1. next.id = Self(p).id /\ next.proc = Self(p).proc
      BY <2>2, <1>3, <1>4 DEF Half
    <3> QED
      BY <2>2, <3>1 DEF RefOf, Self
  <2> QED
    BY <2>1, <2>2
<1>7. Rewrites(m, next)
  BY <1>1, <1>4 DEF Rewrites, s
<1> QED
  BY <1>4, <1>5, <1>6, <1>7 DEF s

(* A join takes a mission nobody holds, or a reservation, by the caller's  *)
(* names alone, and calls nobody ended that is the caller.                 *)
LEMMA JoinWrites ==
    ASSUME MissionInv, NEW m \in Mission, NEW p \in Proc, NEW r \in ById(p), NEW grill,
           Join(m, p, r, grill)
    PROVE  \E next :
             /\ Rewrites(m, next)
             /\ ~Half(r) => RefOf(next) = Self(p)
             /\ next.ended \in {NoRef, sessionOf[m].ended, RefOf(sessionOf[m])}
             /\ ~Matches(next.ended, RefOf(next))
             /\ ~(/\ sessionOf[m].kind = "bound" /\ sessionOf[m].proc # NoProc
                  /\ RunsSession(sessionOf[m].proc) /\ ~Finished(m))
<1> DEFINE s == sessionOf[m]
           Base(l) == IF l THEN HeardFrom(s, r) ELSE BoundFrom(r, s)
<1>0. /\ RunsSession(p) /\ ~BoundTo(m, r) /\ ~EndedHere(m, r)
      /\ \E now \in Nows :
           /\ HasLive(m, now) => s.kind = "reserved"
           /\ sessionOf' = [sessionOf EXCEPT ![m] = DropResumed(Base(HasLive(m, now)), r)]
  BY DEF Join, JoinGuard
<1> PICK now \in Nows :
      /\ HasLive(m, now) => s.kind = "reserved"
      /\ sessionOf' = [sessionOf EXCEPT ![m] = DropResumed(Base(HasLive(m, now)), r)]
  BY <1>0
<1> DEFINE live == HasLive(m, now)
           base == Base(live)
           next == DropResumed(base, r)
<1>1. /\ RunsSession(p) /\ ~BoundTo(m, r) /\ ~EndedHere(m, r)
      /\ (live => s.kind = "reserved")
      /\ sessionOf' = [sessionOf EXCEPT ![m] = next]
  BY <1>0
<1>2. s \in SessionRecord /\ Plain(s) /\ RefOf(s) \in Ref /\ s.ended \in Ref
      /\ RefOf(s).id = s.id /\ RefOf(s).proc = s.proc
  BY RecordType, RefOfFacts
<1>3. r \in Ref /\ (~Half(r) => r = Self(p))
  BY <1>1, NamingFacts DEF ById
<1>4. ~(/\ s.kind = "bound" /\ s.proc # NoProc /\ RunsSession(s.proc) /\ ~Finished(m))
  BY <1>1, AliveHolds DEF HasLive
<1>5. (s.kind = "bound" => ~Matches(s, r))
      /\ (s.left \/ ~Matches(s.ended, r) \/ ResumedFrom(s.ended, r))
  BY <1>1 DEF BoundTo, EndedHere
<1> HIDE DEF s, live
<1>6. /\ base \in SessionRecord /\ Plain(base) /\ base.id = r.id /\ base.proc = r.proc
      /\ base.ended = IF live THEN s.ended ELSE EndedOf(s)
  <2>1. CASE live
    <3>1. base = HeardFrom(s, r) /\ s.kind = "reserved" /\ s.id = NoId /\ s.proc = NoProc
      BY <2>1, <1>1, <1>2 DEF Plain
    <3> HIDE DEF base
    <3>2. /\ base.id = IF r.id = NoId THEN s.id ELSE r.id
          /\ base.proc = IF r.proc = NoProc THEN s.proc ELSE r.proc
      BY <3>1, <1>2, <1>3, HeardFromFacts
    <3> QED
      BY <2>1, <3>1, <3>2, <1>2, <1>3, HeardFromFacts
  <2>2. CASE ~live
    <3>1. base = BoundFrom(r, s)
      BY <2>2
    <3> QED
      BY <2>2, <3>1, <1>2, <1>3, BoundFromFacts
  <2> QED
    BY <2>1, <2>2
<1>7. base.ended \in {NoRef, s.ended, RefOf(s)}
  BY <1>2, <1>6, EndedOfFacts
<1>8. ~ResumedFrom(base.ended, r) => ~Matches(base.ended, r)
  <2>1. CASE live
    <3>1. s.left = FALSE /\ base.ended = s.ended
      BY <2>1, <1>1, <1>2, <1>6 DEF Plain
    <3> QED
      BY <3>1, <1>5
  <2>2. CASE ~live /\ s.kind = "bound"
    <3>1. base.ended = RefOf(s)
      BY <2>2, <1>2, <1>6, EndedOfFacts
    <3> QED
      BY <3>1, <2>2, <1>2, <1>5 DEF Matches
  <2>3. CASE ~live /\ s.kind # "bound"
    <3>1. base.ended = NoRef \/ (~s.left /\ base.ended = s.ended)
      BY <2>3, <1>2, <1>6, EndedOfFacts
    <3> QED
      BY <3>1, <1>5, NoRefMatches
  <2> QED
    BY <2>1, <2>2, <2>3
<1>9. /\ next \in SessionRecord /\ Plain(next) /\ next.id = r.id /\ next.proc = r.proc
      /\ next.ended = IF ResumedFrom(base.ended, r) THEN NoRef ELSE base.ended
  BY <1>3, <1>6, DropResumedFacts
<1>10. Rewrites(m, next)
  BY <1>1, <1>9 DEF Rewrites, s
<1> HIDE DEF next, base
<1>11. RefOf(next) = r
  BY <1>3, <1>9 DEF RefOf, Ref
<1>12. next.ended \in {NoRef, s.ended, RefOf(s)} /\ ~Matches(next.ended, r)
  BY <1>7, <1>8, <1>9, NoRefMatches
<1> QED
  BY <1>3, <1>4, <1>10, <1>11, <1>12 DEF s

(* A leave hands the mission to whoever asked for it, or to nobody.        *)
LEMMA LeaveWrites ==
    ASSUME MissionInv, NEW m \in Mission, NEW p \in Proc, Leave(m, p)
    PROVE  \E next :
             /\ Rewrites(m, next)
             /\ next.ended = RefOf(sessionOf[m])
             /\ \/ next.kind = "none"
                \/ /\ next.kind = "bound" /\ next.id = takeover[m].id
                   /\ next.proc = takeover[m].proc
<1> DEFINE s == sessionOf[m]
           t == takeover[m]
           ended == RefOf(s)
           nobody == [NoSession EXCEPT !.ended = ended, !.left = TRUE]
<1>1. s.kind = "bound"
      /\ sessionOf' = [sessionOf EXCEPT ![m] = IF t # NoRef THEN BoundFrom(t, s) ELSE nobody]
  BY DEF Leave, BoundTo
<1>2. s \in SessionRecord /\ t \in Ref /\ ended \in Ref
  BY RecordType
<1>3. EndedOf(s) = ended
  BY <1>1 DEF EndedOf
<1> HIDE DEF s, t, ended
<1>4. CASE t # NoRef
  <2> DEFINE next == BoundFrom(t, s)
  <2>1. /\ next \in SessionRecord /\ next.kind = "bound" /\ next.id = t.id
        /\ next.proc = t.proc /\ next.ended = ended /\ Plain(next)
    BY <1>2, <1>3, <1>4, BoundFromFacts
  <2>2. Rewrites(m, next)
    BY <1>1, <1>4, <2>1 DEF Rewrites
  <2> HIDE DEF next
  <2> QED
    BY <2>1, <2>2 DEF s, t, ended
<1>5. CASE t = NoRef
  <2>1. /\ nobody \in SessionRecord /\ nobody.kind = "none" /\ nobody.ended = ended
        /\ nobody.id = NoId /\ nobody.proc = NoProc
    BY <1>2, NoSessionType DEF SessionRecord
  <2>2. sessionOf' = [sessionOf EXCEPT ![m] = nobody]
    BY <1>1, <1>5
  <2> HIDE DEF nobody
  <2>3. Rewrites(m, nobody)
    BY <2>1, <2>2 DEF Rewrites, Plain
  <2> QED
    BY <2>1, <2>3 DEF s, ended
<1> QED
  BY <1>4, <1>5

-----------------------------------------------------------------------------
(* Every step keeps them. *)

LEMMA MissionInitInv == MissionInit => MissionInv
<1> SUFFICES ASSUME MissionInit PROVE MissionInv
  OBVIOUS
<1>1. /\ running = [p \in Proc |-> Unborn]
      /\ sessionOf = [m \in Mission |-> NoSession]
      /\ state = [m \in Mission |-> "waiting"]
      /\ fired = {} /\ takeover = [m \in Mission |-> NoRef]
      /\ joined = {} /\ vague = {} /\ surprises = 0
  BY DEF MissionInit
<1>2. MissionTypeOK
  BY <1>1, NoSessionType, NoRefType, MissionCaps DEF MissionTypeOK, States
<1>3. \A p \in Proc : ~RunsSession(p)
  BY <1>1, MissionNulls DEF RunsSession
<1>4. \A m \in Mission : Plain(sessionOf[m])
  BY <1>1, NoSessionType DEF Plain
<1> QED
  BY <1>2, <1>3, <1>4 DEF MissionInv, OnePerPid, OnePerId

LEMMA RunningStays ==
    ASSUME MissionInv, UNCHANGED running
    PROVE  OnePerPid' /\ OnePerId' /\ \A p \in Proc : RunsSession(p)' <=> RunsSession(p)
  BY DEF MissionInv, OnePerPid, OnePerId, RunsSession

LEMMA Surprised ==
    ASSUME MissionInv, Surprise
    PROVE  surprises' \in 0 .. MaxSurprises
<1>1. surprises \in 0 .. MaxSurprises /\ MaxSurprises \in Nat
  BY MissionCaps DEF MissionInv, MissionTypeOK
<1> QED
  BY <1>1 DEF Surprise

(* What a call's names do to the bounds.                                   *)
LEMMA NamedKeeps ==
    ASSUME MissionInv, NEW m \in Mission, NEW r
    PROVE  /\ NamedBy(m, r) \/ UNCHANGED vague => vague' \in SUBSET Mission
           /\ Named(r) \/ UNCHANGED surprises => surprises' \in 0 .. MaxSurprises
<1>1. NamedBy(m, r) \/ UNCHANGED vague => vague' \in SUBSET Mission
  BY DEF NamedBy, MissionInv, MissionTypeOK
<1>2. Named(r) \/ UNCHANGED surprises => surprises' \in 0 .. MaxSurprises
  BY Surprised DEF Named, MissionInv, MissionTypeOK
<1> QED
  BY <1>1, <1>2

(* A record written by a handler that knows the state it leaves.           *)
LEMMA WrittenKeeps ==
    ASSUME MissionInv, NEW m \in Mission, \E next : Rewrites(m, next),
           UNCHANGED running, surprises' \in 0 .. MaxSurprises, vague' \in SUBSET Mission,
           state' \in [Mission -> States], takeover' \in [Mission -> Ref],
           fired' \in SUBSET Mission, joined' \in SUBSET Mission
    PROVE  MissionInv'
<1>1. sessionOf' \in [Mission -> SessionRecord] /\ \A n \in Mission : Plain(sessionOf'[n])
  BY RewriteFacts
<1>2. running' \in [Proc -> Id \cup {Unborn, Dead}]
  BY DEF MissionInv, MissionTypeOK
<1>3. MissionTypeOK'
  BY <1>1, <1>2 DEF MissionTypeOK, SessionRecord, Ref, States
<1>4. (\A n \in Mission : Plain(sessionOf[n]))'
  BY <1>1 DEF Plain
<1> QED
  BY <1>3, <1>4, RunningStays DEF MissionInv

(* A step that writes no record.                                           *)
LEMMA UnwrittenKeeps ==
    ASSUME MissionInv, UNCHANGED sessionOf, OnePerPid', OnePerId',
           running' \in [Proc -> Id \cup {Unborn, Dead}],
           surprises' \in 0 .. MaxSurprises, vague' \in SUBSET Mission,
           state' \in [Mission -> States], takeover' \in [Mission -> Ref],
           fired' \in SUBSET Mission, joined' \in SUBSET Mission
    PROVE  MissionInv'
<1>1. sessionOf' \in [Mission -> SessionRecord]
  BY DEF MissionInv, MissionTypeOK
<1>2. MissionTypeOK'
  BY <1>1 DEF MissionTypeOK, SessionRecord, Ref, States
<1>3. (\A n \in Mission : Plain(sessionOf[n]))'
  BY DEF MissionInv, Plain
<1> QED
  BY <1>2, <1>3 DEF MissionInv

LEMMA LaunchKeeps ==
    ASSUME MissionInv, NEW m \in Mission, NEW grill, Launch(m, grill)
    PROVE  MissionInv'
<1>1. state' \in [Mission -> States] /\ takeover' \in [Mission -> Ref]
      /\ fired' \in SUBSET Mission /\ joined' \in SUBSET Mission
      /\ UNCHANGED running
  BY DEF Launch, MissionInv, MissionTypeOK, States
<1>2. vague' \in SUBSET Mission /\ surprises' \in 0 .. MaxSurprises
  BY NamedKeeps DEF Launch
<1>3. \E next : Rewrites(m, next)
  BY LaunchWrites
<1> QED
  BY <1>1, <1>2, <1>3, WrittenKeeps

LEMMA BindKeeps ==
    ASSUME MissionInv, NEW m \in Mission, NEW p \in Proc, NEW r \in Namings(p),
           Bind(m, p, r)
    PROVE  MissionInv'
<1>1. state' \in [Mission -> States] /\ takeover' \in [Mission -> Ref]
      /\ fired' \in SUBSET Mission /\ joined' \in SUBSET Mission
      /\ UNCHANGED running
  BY DEF Bind, MissionInv, MissionTypeOK
<1>2. vague' \in SUBSET Mission /\ surprises' \in 0 .. MaxSurprises
  BY NamedKeeps DEF Bind
<1>3. \E next : Rewrites(m, next)
  BY BindWrites
<1> QED
  BY <1>1, <1>2, <1>3, WrittenKeeps

LEMMA RejoinKeeps ==
    ASSUME MissionInv, NEW m \in Mission, NEW p \in Proc, NEW r \in ById(p), NEW grill,
           Rejoin(m, p, r, grill)
    PROVE  MissionInv'
<1>1. state' \in [Mission -> States] /\ takeover' \in [Mission -> Ref]
      /\ fired' \in SUBSET Mission /\ joined' \in SUBSET Mission
      /\ UNCHANGED running
  BY DEF Rejoin, MissionInv, MissionTypeOK, States
<1>2. vague' \in SUBSET Mission /\ surprises' \in 0 .. MaxSurprises
  BY NamedKeeps DEF Rejoin
<1>3. \E next : Rewrites(m, next)
  BY RejoinWrites
<1> QED
  BY <1>1, <1>2, <1>3, WrittenKeeps

LEMMA JoinKeeps ==
    ASSUME MissionInv, NEW m \in Mission, NEW p \in Proc, NEW r \in ById(p), NEW grill,
           Join(m, p, r, grill)
    PROVE  MissionInv'
<1>1. state' \in [Mission -> States] /\ takeover' \in [Mission -> Ref]
      /\ fired' \in SUBSET Mission /\ joined' \in SUBSET Mission
      /\ UNCHANGED running
  BY NoRefType DEF Join, MissionInv, MissionTypeOK, States
<1>2. vague' \in SUBSET Mission /\ surprises' \in 0 .. MaxSurprises
  BY NamedKeeps DEF Join
<1>3. \E next : Rewrites(m, next)
  BY JoinWrites
<1> QED
  BY <1>1, <1>2, <1>3, WrittenKeeps

LEMMA LeaveKeeps ==
    ASSUME MissionInv, NEW m \in Mission, NEW p \in Proc, Leave(m, p)
    PROVE  MissionInv'
<1>1. state' \in [Mission -> States] /\ takeover' \in [Mission -> Ref]
      /\ fired' \in SUBSET Mission /\ joined' \in SUBSET Mission
      /\ UNCHANGED running
  BY NoRefType DEF Leave, MissionInv, MissionTypeOK, States
<1>2. vague' \in SUBSET Mission /\ surprises' \in 0 .. MaxSurprises
  BY NamedKeeps DEF Leave
<1>3. \E next : Rewrites(m, next)
  BY LeaveWrites
<1> QED
  BY <1>1, <1>2, <1>3, WrittenKeeps

LEMMA AskTakeoverKeeps ==
    ASSUME MissionInv, NEW m \in Mission, NEW p \in Proc, NEW r \in ById(p),
           AskTakeover(m, p, r)
    PROVE  MissionInv'
<1>1. r \in Ref
  BY NamingFacts DEF AskTakeover, JoinGuard, ById
<1>2. surprises' \in 0 .. MaxSurprises /\ vague' \in SUBSET Mission
  BY Surprised, NamedKeeps DEF AskTakeover
<1>3. takeover' \in [Mission -> Ref] /\ UNCHANGED <<running, sessionOf, state, fired, joined>>
  BY <1>1 DEF AskTakeover, MissionInv, MissionTypeOK
<1> QED
  BY <1>2, <1>3, RunningStays, UnwrittenKeeps DEF MissionInv, MissionTypeOK

LEMMA UpsertKeeps ==
    ASSUME MissionInv, NEW m \in Mission, NEW st \in States, Upsert(m, st)
    PROVE  MissionInv'
<1>1. surprises' \in 0 .. MaxSurprises
  BY Surprised DEF Upsert
<1>2. state' \in [Mission -> States] /\ joined' \in SUBSET Mission
      /\ UNCHANGED <<running, sessionOf, fired, takeover, vague>>
  BY DEF Upsert, MissionInv, MissionTypeOK
<1> QED
  BY <1>1, <1>2, RunningStays, UnwrittenKeeps DEF MissionInv, MissionTypeOK

LEMMA FireKeeps ==
    ASSUME MissionInv, NEW m \in Mission, Fire(m)
    PROVE  MissionInv'
<1>1. surprises' \in 0 .. MaxSurprises
  BY Surprised DEF Fire
<1>2. fired' \in SUBSET Mission /\ UNCHANGED <<running, sessionOf, state, takeover, joined, vague>>
  BY DEF Fire, MissionInv, MissionTypeOK
<1> QED
  BY <1>1, <1>2, RunningStays, UnwrittenKeeps DEF MissionInv, MissionTypeOK

(* A session starts under a pid and an id no other process has.            *)
LEMMA StartKeeps ==
    ASSUME MissionInv, NEW p \in Proc, NEW i \in Id, Start(p, i)
    PROVE  MissionInv'
<1>1. /\ running[p] = Unborn /\ ~PidTaken(p) /\ \A q \in Proc : running[q] # i
      /\ running' = [running EXCEPT ![p] = i]
      /\ UNCHANGED <<sessionOf, state, fired, takeover, joined, vague, surprises>>
  BY DEF Start
<1>2. running \in [Proc -> Id \cup {Unborn, Dead}]
  BY DEF MissionInv, MissionTypeOK
<1>3. running' \in [Proc -> Id \cup {Unborn, Dead}]
      /\ \A q \in Proc : running'[q] = IF q = p THEN i ELSE running[q]
  BY <1>1, <1>2
<1>4. OnePerPid'
  BY <1>1, <1>3 DEF MissionInv, OnePerPid, RunsSession, PidTaken
<1>5. OnePerId'
  BY <1>1, <1>3 DEF MissionInv, OnePerId, RunsSession
<1> QED
  BY <1>1, <1>3, <1>4, <1>5, UnwrittenKeeps DEF MissionInv, MissionTypeOK

LEMMA ClearKeeps ==
    ASSUME MissionInv, NEW p \in Proc, NEW i \in Id, Clear(p, i)
    PROVE  MissionInv'
<1>1. /\ RunsSession(p) /\ \A q \in Proc : running[q] # i
      /\ running' = [running EXCEPT ![p] = i]
      /\ UNCHANGED <<sessionOf, state, fired, takeover, joined, vague>>
  BY DEF Clear, Unused
<1>2. running \in [Proc -> Id \cup {Unborn, Dead}]
  BY DEF MissionInv, MissionTypeOK
<1>3. running' \in [Proc -> Id \cup {Unborn, Dead}]
      /\ \A q \in Proc : running'[q] = IF q = p THEN i ELSE running[q]
  BY <1>1, <1>2
<1>4. OnePerPid'
  BY <1>1, <1>3 DEF MissionInv, OnePerPid, RunsSession
<1>5. OnePerId'
  BY <1>1, <1>3 DEF MissionInv, OnePerId, RunsSession
<1>6. surprises' \in 0 .. MaxSurprises
  BY Surprised DEF Clear
<1> QED
  BY <1>1, <1>3, <1>4, <1>5, <1>6, UnwrittenKeeps DEF MissionInv, MissionTypeOK

LEMMA DieKeeps ==
    ASSUME MissionInv, NEW p \in Proc, Die(p)
    PROVE  MissionInv'
<1>1. /\ RunsSession(p) /\ running' = [running EXCEPT ![p] = Dead]
      /\ UNCHANGED <<sessionOf, state, fired, takeover, joined, vague, surprises>>
  BY DEF Die
<1>2. running \in [Proc -> Id \cup {Unborn, Dead}]
  BY DEF MissionInv, MissionTypeOK
<1>3. running' \in [Proc -> Id \cup {Unborn, Dead}]
      /\ \A q \in Proc : running'[q] = IF q = p THEN Dead ELSE running[q]
  BY <1>1, <1>2
<1>4. \A q \in Proc : running'[q] \in Id => q # p /\ running'[q] = running[q]
  BY <1>3, MissionNulls
<1>5. OnePerPid' /\ OnePerId'
  BY <1>3, <1>4 DEF MissionInv, OnePerPid, OnePerId, RunsSession
<1> QED
  BY <1>1, <1>3, <1>5, UnwrittenKeeps DEF MissionInv, MissionTypeOK

(* The steps, each with what it is asked of.                               *)
LEMMA MissionSteps ==
    ASSUME MissionNext
    PROVE  \/ \E m \in Mission : \E grill : Launch(m, grill)
           \/ \E m \in Mission, p \in Proc : \E r \in Namings(p) : Bind(m, p, r)
           \/ \E m \in Mission, p \in Proc : \E r \in ById(p) : \E grill :
                Join(m, p, r, grill)
           \/ \E m \in Mission, p \in Proc : \E r \in ById(p) : AskTakeover(m, p, r)
           \/ \E m \in Mission, p \in Proc : \E r \in ById(p) : \E grill :
                Rejoin(m, p, r, grill)
           \/ \E m \in Mission, p \in Proc : Leave(m, p)
           \/ \E m \in Mission, st \in States : Upsert(m, st)
           \/ \E m \in Mission : Fire(m)
           \/ \E p \in Proc, i \in Id : Start(p, i)
           \/ \E p \in Proc, i \in Id : Clear(p, i)
           \/ \E p \in Proc : Die(p)
<1>1. CASE \E m \in Mission : \E grill \in Grills(m) : Launch(m, grill)
  BY <1>1
<1>2. CASE \E p \in {q \in Proc : RunsSession(q)}, m \in Mission :
             \/ \E r \in Namings(p) : Bind(m, p, r)
             \/ \E r \in ById(p), grill \in Grills(m) : Join(m, p, r, grill)
             \/ \E r \in ById(p) : AskTakeover(m, p, r)
             \/ \E r \in ById(p), grill \in Grills(m) : Rejoin(m, p, r, grill)
             \/ Leave(m, p)
  BY <1>2
<1>3. CASE \E m \in Mission :
             \/ \E st \in States \ {"queued"} : Upsert(m, st)
             \/ Fire(m)
  BY <1>3
<1>4. CASE \E p \in Proc :
             \/ \E i \in Id : Start(p, i) \/ Clear(p, i)
             \/ Die(p)
  BY <1>4
<1> QED
  BY <1>1, <1>2, <1>3, <1>4 DEF MissionNext

LEMMA MissionStep ==
    ASSUME MissionInv, [MissionNext]_missionVars
    PROVE  MissionInv'
<1>1. CASE MissionNext
  BY <1>1, MissionSteps, LaunchKeeps, BindKeeps, JoinKeeps, AskTakeoverKeeps, RejoinKeeps,
     LeaveKeeps, UpsertKeeps, FireKeeps, StartKeeps, ClearKeeps, DieKeeps
<1>2. CASE UNCHANGED missionVars
  BY <1>2, RunningStays, UnwrittenKeeps DEF missionVars, MissionInv, MissionTypeOK
<1> QED
  BY <1>1, <1>2

(* The ledger's types, its processes and its records' names hold in every  *)
(* behaviour, whatever names the calls give.                               *)
THEOREM MissionInvariance == MissionSpec => []MissionInv
<1>1. MissionInv /\ [MissionNext]_missionVars => MissionInv'
  BY MissionStep
<1> QED
  BY MissionInitInv, <1>1, PTL DEF MissionSpec

(* Every variable of the ledger keeps its type.                            *)
THEOREM MissionTypeCorrect == MissionSpec => []MissionTypeOK
<1>1. MissionInv => MissionTypeOK
  BY DEF MissionInv
<1> QED
  BY MissionInvariance, <1>1, PTL

-----------------------------------------------------------------------------
(* Never displaced. *)

(* A session's names match themselves, its process being known.            *)
LEMMA MatchesItself ==
    ASSUME MissionInv, NEW m \in Mission, sessionOf[m].proc # NoProc
    PROVE  Matches(sessionOf[m], RefOf(sessionOf[m]))
  BY RecordType, RefOfFacts DEF Matches

LEMMA DisplacedOnlyByLeave ==
    ASSUME MissionInv, MissionNext, NEW m \in Mission,
           sessionOf[m].kind = "bound", sessionOf[m].proc # NoProc,
           RunsSession(sessionOf[m].proc), ~Finished(m)
    PROVE  \/ Matches(sessionOf'[m], RefOf(sessionOf[m]))
           \/ \E p \in Proc : Leave(m, p)
<1>1. Matches(sessionOf[m], RefOf(sessionOf[m]))
  BY MatchesItself
<1>2. ASSUME NEW n \in Mission, NEW next, Rewrites(n, next), n # m
      PROVE  Matches(sessionOf'[m], RefOf(sessionOf[m]))
  <2>1. sessionOf'[m] = sessionOf[m]
    BY <1>2, RewriteFacts
  <2> QED
    BY <1>1, <2>1
<1>3. ASSUME NEW n \in Mission, NEW grill, Launch(n, grill)
      PROVE  Matches(sessionOf'[m], RefOf(sessionOf[m]))
  <2>1. n # m
    <3>1. \A now \in Nows : HasLive(m, now)
      BY AliveHolds DEF HasLive
    <3>2. PICK full : full \in Fullness(n)
      BY <1>3 DEF Launch
    <3>3. \E now \in {x \in Nows : ~HasLive(n, x)}, asking \in SUBSET Working :
            full = Full(n, now, asking)
      BY <3>2 DEF Fullness
    <3> QED
      BY <3>1, <3>3
  <2> QED
    BY <1>2, <1>3, <2>1, LaunchWrites
<1>4. ASSUME NEW n \in Mission, NEW p \in Proc, NEW r \in Namings(p),
             Bind(n, p, r)
      PROVE  Matches(sessionOf'[m], RefOf(sessionOf[m]))
  <2>1. PICK next :
          /\ Rewrites(n, next)
          /\ (/\ sessionOf[n].kind = "bound" /\ sessionOf[n].proc # NoProc
              /\ RunsSession(sessionOf[n].proc)) =>
             Matches(next, RefOf(sessionOf[n]))
    BY <1>4, BindWrites
  <2>2. CASE n = m
    BY <2>1, <2>2, RewriteFacts
  <2> QED
    BY <1>2, <2>1, <2>2
<1>5. ASSUME NEW n \in Mission, NEW p \in Proc, NEW r \in ById(p), NEW grill,
             Join(n, p, r, grill)
      PROVE  Matches(sessionOf'[m], RefOf(sessionOf[m]))
  <2>1. PICK next :
          /\ Rewrites(n, next)
          /\ ~(/\ sessionOf[n].kind = "bound" /\ sessionOf[n].proc # NoProc
               /\ RunsSession(sessionOf[n].proc) /\ ~Finished(n))
    BY <1>5, JoinWrites
  <2> QED
    BY <1>2, <2>1
<1>6. ASSUME NEW n \in Mission, NEW p \in Proc, NEW r \in ById(p), NEW grill,
             Rejoin(n, p, r, grill)
      PROVE  Matches(sessionOf'[m], RefOf(sessionOf[m]))
  <2>1. PICK next : Rewrites(n, next) /\ Matches(next, RefOf(sessionOf[n]))
    BY <1>6, RejoinWrites
  <2>2. CASE n = m
    BY <2>1, <2>2, RewriteFacts
  <2> QED
    BY <1>2, <2>1, <2>2
<1>7. ASSUME NEW n \in Mission, NEW p \in Proc, Leave(n, p)
      PROVE  \/ Matches(sessionOf'[m], RefOf(sessionOf[m]))
             \/ \E q \in Proc : Leave(m, q)
  <2>1. PICK next : Rewrites(n, next)
    BY <1>7, LeaveWrites
  <2>2. CASE n = m
    BY <1>7, <2>2
  <2> QED
    BY <1>2, <2>1, <2>2
<1>8. CASE UNCHANGED sessionOf
  BY <1>1, <1>8
<1>9. /\ \A n \in Mission, p \in Proc : \A r : AskTakeover(n, p, r) => UNCHANGED sessionOf
      /\ \A n \in Mission, st \in States : Upsert(n, st) => UNCHANGED sessionOf
      /\ \A n \in Mission : Fire(n) => UNCHANGED sessionOf
      /\ \A p \in Proc, i \in Id : Start(p, i) \/ Clear(p, i) => UNCHANGED sessionOf
      /\ \A p \in Proc : Die(p) => UNCHANGED sessionOf
  BY DEF AskTakeover, Upsert, Fire, Start, Clear, Die
<1> QED
  BY <1>3, <1>4, <1>5, <1>6, <1>7, <1>8, <1>9, MissionSteps

(* No launch, bind or join displaces a bound session while its process     *)
(* lives and its mission is not finished: for any missions, processes and  *)
(* ids, and whatever names the calls give.                                 *)
THEOREM NeverEverDisplaced == MissionSpec => NeverDisplaced
<1>1. MissionInv /\ [MissionNext]_missionVars =>
        [\A m \in Mission :
           LET s == sessionOf[m]
           IN  (/\ s.kind = "bound" /\ s.proc # NoProc /\ RunsSession(s.proc)
                /\ ~Finished(m)) =>
               \/ Matches(sessionOf'[m], RefOf(s))
               \/ \E p \in Proc : Leave(m, p)]_missionVars
  BY DisplacedOnlyByLeave
<1> QED
  BY MissionInvariance, <1>1, PTL DEF MissionSpec, NeverDisplaced

-----------------------------------------------------------------------------
(* What a session is known by, in the ledger. *)

(* The names the ledger holds of calls in full: of whoever joined, and in  *)
(* a mission no call named by half, of whoever is bound, of whoever was    *)
(* before, and of whoever asked to be.                                     *)
Refs ==
    {RefOf(sessionOf[m]) : m \in joined} \cup
    UNION {{RefOf(sessionOf[m]), sessionOf[m].ended, takeover[m]} : m \in Mission \ vague}

(* Two names of one running session are names of each other.               *)
Agree ==
    \A x, y \in Refs, q \in Proc :
       (RunsSession(q) /\ Matches(x, Self(q)) /\ Matches(y, Self(q))) => Matches(x, y)

(* No process is named before it started.                                  *)
Born == \A x \in Refs : x.proc # NoProc => running[x.proc] # Unborn

(* Joined to m, and not done with it.                                      *)
Takes(m) == m \in joined /\ state[m] # "released" /\ sessionOf[m].kind = "bound"

(* No two missions are joined by one session.                              *)
Disjoint ==
    \A m, o \in Mission :
       (m # o /\ Takes(m) /\ Takes(o)) => ~Matches(sessionOf[m], sessionOf[o])

NamesInv == MissionInv /\ Agree /\ Born /\ Disjoint

(* A name the ledger holds, or comes by in one step.                       *)
Accounted(x) ==
    \/ x \in Refs \/ x = NoRef
    \/ \E p \in Proc : RunsSession(p) /\ x = Self(p)

LEMMA NamesOf ==
    ASSUME NEW m \in Mission
    PROVE  /\ m \in joined => RefOf(sessionOf[m]) \in Refs
           /\ m \notin vague => {RefOf(sessionOf[m]), sessionOf[m].ended, takeover[m]} \subseteq Refs
  BY DEF Refs

LEMMA NamesAreRefs ==
    ASSUME MissionInv, NEW x \in Refs
    PROVE  x \in Ref
<1>1. joined \subseteq Mission
  BY DEF MissionInv, MissionTypeOK
<1> QED
  BY <1>1, RecordType DEF Refs

(* A session is told from every other.                                     *)
LEMMA SelfIsOne ==
    ASSUME MissionInv, NEW p \in Proc, NEW q \in Proc,
           RunsSession(p), RunsSession(q), Matches(Self(p), Self(q))
    PROVE  p = q
<1>1. Self(p).id = running[p] /\ Self(q).id = running[q]
      /\ Self(p).proc = p /\ Self(q).proc = q
  BY SelfFacts
<1> QED
  BY <1>1 DEF Matches, MissionInv, OnePerId

(* What matches a name of its own, and whom a session matches, agree.      *)
LEMMA SelfAgrees ==
    ASSUME MissionInv, NEW p \in Proc, NEW q \in Proc, NEW y,
           RunsSession(p), RunsSession(q), Matches(Self(p), Self(q)), Matches(y, Self(q))
    PROVE  Matches(Self(p), y)
  BY SelfIsOne, MatchesFlips

(* The names a handler writes are the caller's or were there.              *)
LEMMA NamesKept ==
    ASSUME NamesInv, UNCHANGED running, \A x \in Refs' : Accounted(x)
    PROVE  Agree' /\ Born'
<1>1. \A q \in Proc : Self(q)' = Self(q) /\ (RunsSession(q)' <=> RunsSession(q))
  BY DEF Self, RunsSession
<1>2. ASSUME NEW x \in Refs', NEW y \in Refs', NEW q \in Proc, RunsSession(q),
             Matches(x, Self(q)), Matches(y, Self(q))
      PROVE  Matches(x, y)
  <2>1. x # NoRef /\ y # NoRef
    BY <1>2, NoRefMatches
  <2>2. CASE x \in Refs /\ y \in Refs
    BY <1>2, <2>2 DEF NamesInv, Agree
  <2>3. CASE \E p \in Proc : RunsSession(p) /\ x = Self(p)
    BY <1>2, <2>3, SelfAgrees DEF NamesInv
  <2>4. CASE \E p \in Proc : RunsSession(p) /\ y = Self(p)
    BY <1>2, <2>4, SelfAgrees, MatchesFlips DEF NamesInv
  <2> QED
    BY <2>1, <2>2, <2>3, <2>4 DEF Accounted
<1>3. Agree'
  BY <1>1, <1>2 DEF Agree, Matches
<1>4. ASSUME NEW x \in Refs', x.proc # NoProc
      PROVE  running[x.proc] # Unborn
  <2>1. CASE x \in Refs
    BY <1>4, <2>1 DEF NamesInv, Born
  <2>2. CASE x = NoRef
    BY <1>4, <2>2, NoRefType
  <2>3. CASE \E p \in Proc : RunsSession(p) /\ x = Self(p)
    <3>1. PICK p \in Proc : RunsSession(p) /\ x = Self(p)
      BY <2>3
    <3>2. x.proc = p
      BY <3>1, SelfFacts
    <3> QED
      BY <3>1, <3>2, MissionNulls DEF RunsSession
  <2> QED
    BY <2>1, <2>2, <2>3 DEF Accounted
<1> QED
  BY <1>3, <1>4 DEF Born

(* What there is to account for after a step.                              *)
LEMMA AllAccounted ==
    ASSUME \A n \in joined' : Accounted(RefOf(sessionOf'[n])),
           \A n \in Mission \ vague' :
              /\ Accounted(RefOf(sessionOf'[n])) /\ Accounted(sessionOf'[n].ended)
              /\ Accounted(takeover'[n])
    PROVE  \A x \in Refs' : Accounted(x)
  BY DEF Refs, RefOf

(* A handler's record and its takeover: of known names, where no call by   *)
(* half has named the mission; and a mission joined, by a known name.      *)
LEMMA RewriteNames ==
    ASSUME MissionInv, NEW m \in Mission, NEW next, Rewrites(m, next),
           \A n \in Mission : n # m => takeover'[n] = takeover[n],
           vague \subseteq vague', joined' \subseteq joined \cup {m},
           m \in joined' => Accounted(RefOf(next)),
           m \notin vague' =>
              Accounted(RefOf(next)) /\ Accounted(next.ended) /\ Accounted(takeover'[m])
    PROVE  \A x \in Refs' : Accounted(x)
<1>1. joined \subseteq Mission
  BY DEF MissionInv, MissionTypeOK
<1>2. sessionOf'[m] = next /\ \A n \in Mission : n # m => sessionOf'[n] = sessionOf[n]
  BY RewriteFacts
<1>3. ASSUME NEW n \in joined' PROVE Accounted(RefOf(sessionOf'[n]))
  <2>1. CASE n = m
    BY <1>2, <1>3, <2>1
  <2>2. CASE n # m
    BY <1>1, <1>2, <1>3, <2>2, NamesOf DEF Accounted
  <2> QED
    BY <2>1, <2>2
<1>4. ASSUME NEW n \in Mission, n \notin vague'
      PROVE  /\ Accounted(RefOf(sessionOf'[n])) /\ Accounted(sessionOf'[n].ended)
             /\ Accounted(takeover'[n])
  <2>1. CASE n = m
    BY <1>2, <1>4, <2>1
  <2>2. CASE n # m
    <3>1. /\ n \notin vague /\ sessionOf'[n] = sessionOf[n]
          /\ takeover'[n] = takeover[n]
      BY <1>2, <1>4, <2>2
    <3> QED
      BY <3>1, NamesOf DEF Accounted
  <2> QED
    BY <2>1, <2>2
<1> QED
  BY <1>3, <1>4, AllAccounted

LEMMA DisjointKept ==
    ASSUME Disjoint,
           \A n \in Mission :
              Takes(n)' => Takes(n) /\ RefOf(sessionOf'[n]) = RefOf(sessionOf[n])
    PROVE  Disjoint'
<1>1. ASSUME NEW m \in Mission, NEW o \in Mission, m # o, Takes(m)', Takes(o)',
             Matches(sessionOf'[m], sessionOf'[o])
      PROVE  FALSE
  <2>1. Matches(RefOf(sessionOf'[m]), RefOf(sessionOf'[o]))
    BY <1>1, MatchesByNames, MatchesFlips
  <2>2. Matches(RefOf(sessionOf[m]), RefOf(sessionOf[o])) /\ Takes(m) /\ Takes(o)
    BY <1>1, <2>1
  <2>3. Matches(sessionOf[m], sessionOf[o])
    BY <2>2, MatchesByNames, MatchesFlips
  <2> QED
    BY <1>1, <2>2, <2>3 DEF Disjoint
<1> QED
  BY <1>1 DEF Disjoint, Matches

(* A step that writes no name and joins nobody.                            *)
LEMMA NamesStay ==
    ASSUME NamesInv, UNCHANGED <<running, sessionOf, takeover>>,
           vague \subseteq vague', joined' \subseteq joined,
           \A n \in Mission : Takes(n)' => Takes(n)
    PROVE  Agree' /\ Born' /\ Disjoint'
<1>1. \A x \in Refs' : Accounted(x)
  BY DEF Refs, RefOf, Accounted
<1>2. Disjoint'
  BY DisjointKept DEF NamesInv
<1> QED
  BY <1>1, <1>2, NamesKept

(* A mission taken by one whom no other mission taken matches.             *)
LEMMA DisjointGrows ==
    ASSUME NamesInv, NEW m \in Mission, NEW p \in Proc, NEW next, Rewrites(m, next),
           RefOf(next) = Self(p),
           \A n \in Mission : (n # m /\ Takes(n)') => Takes(n),
           \A n \in Mission :
              (n # m /\ Takes(m)' /\ Takes(n)) => ~Matches(sessionOf[n], Self(p))
    PROVE  Disjoint'
<1>1. sessionOf'[m] = next /\ \A n \in Mission : n # m => sessionOf'[n] = sessionOf[n]
  BY RewriteFacts DEF NamesInv
<1>2. ASSUME NEW n \in Mission, n # m, Takes(m)', Takes(n)'
      PROVE  ~Matches(sessionOf'[m], sessionOf'[n]) /\ ~Matches(sessionOf'[n], sessionOf'[m])
  <2>1. ~Matches(sessionOf[n], RefOf(next))
    BY <1>2
  <2>2. ~Matches(next, sessionOf[n])
    BY <2>1, MatchesFlips, MatchesByNames
  <2> QED
    BY <1>1, <1>2, <2>2, MatchesFlips
<1>3. ASSUME NEW n \in Mission, NEW o \in Mission, n # m, o # m, n # o, Takes(n)', Takes(o)'
      PROVE  ~Matches(sessionOf'[n], sessionOf'[o])
  BY <1>1, <1>3 DEF NamesInv, Disjoint
<1> QED
  BY <1>2, <1>3 DEF Disjoint, Matches
-----------------------------------------------------------------------------
(* Every step keeps the names. *)

LEMMA LaunchNames ==
    ASSUME NamesInv, NEW m \in Mission, NEW grill, Launch(m, grill)
    PROVE  NamesInv'
<1>1. PICK next :
        /\ Rewrites(m, next) /\ next.kind # "bound"
        /\ next.ended \in {NoRef, sessionOf[m].ended, RefOf(sessionOf[m])}
  BY LaunchWrites DEF NamesInv
<1>2. UNCHANGED <<running, takeover, vague>> /\ joined' = joined \ {m}
      /\ \A n \in Mission : n # m => state'[n] = state[n]
  BY DEF Launch, NamesInv, MissionInv, MissionTypeOK
<1>3. RefOf(next) = NoRef
  BY <1>1 DEF Rewrites, Plain, RefOf, NoRef
<1>4. m \notin vague' => Accounted(next.ended) /\ Accounted(takeover'[m])
  BY <1>1, <1>2, NamesOf DEF Accounted
<1>5. \A x \in Refs' : Accounted(x)
  BY <1>1, <1>2, <1>3, <1>4, RewriteNames DEF NamesInv, Accounted
<1>6. Disjoint'
  BY <1>1, <1>2, RewriteFacts, DisjointKept DEF NamesInv, Takes
<1> QED
  BY <1>2, <1>5, <1>6, NamesKept, LaunchKeeps DEF NamesInv

LEMMA LeaveNames ==
    ASSUME NamesInv, NEW m \in Mission, NEW p \in Proc, Leave(m, p)
    PROVE  NamesInv'
<1>1. PICK next :
        /\ Rewrites(m, next)
        /\ next.ended = RefOf(sessionOf[m])
        /\ \/ next.kind = "none"
           \/ /\ next.kind = "bound" /\ next.id = takeover[m].id
              /\ next.proc = takeover[m].proc
  BY LeaveWrites DEF NamesInv
<1>2. UNCHANGED <<running, vague>> /\ joined' = joined \ {m}
      /\ takeover'[m] = NoRef
      /\ \A n \in Mission : n # m => state'[n] = state[n] /\ takeover'[n] = takeover[n]
  BY DEF Leave, NamesInv, MissionInv, MissionTypeOK
<1>3. takeover[m] \in Ref
  BY RecordType DEF NamesInv
<1>4. RefOf(next) = NoRef \/ RefOf(next) = takeover[m]
  <2>1. CASE next.kind = "none"
    BY <1>1, <2>1 DEF Rewrites, Plain, RefOf, NoRef
  <2>2. CASE next.id = takeover[m].id /\ next.proc = takeover[m].proc
    BY <1>3, <2>2 DEF RefOf, Ref
  <2> QED
    BY <1>1, <2>1, <2>2
<1>5. m \notin vague' =>
        Accounted(RefOf(next)) /\ Accounted(next.ended) /\ Accounted(takeover'[m])
  BY <1>1, <1>2, <1>4, NamesOf DEF Accounted
<1>6. \A x \in Refs' : Accounted(x)
  BY <1>1, <1>2, <1>5, RewriteNames DEF NamesInv
<1>7. Disjoint'
  BY <1>1, <1>2, RewriteFacts, DisjointKept DEF NamesInv, Takes
<1> QED
  BY <1>2, <1>6, <1>7, NamesKept, LeaveKeeps DEF NamesInv

(* A join and a rejoin look at every other mission, and by half take none. *)
LEMMA JoinNames ==
    ASSUME NamesInv, NEW m \in Mission, NEW p \in Proc, NEW r \in ById(p), NEW grill,
           Join(m, p, r, grill)
    PROVE  NamesInv'
<1>1. PICK next :
        /\ Rewrites(m, next)
        /\ ~Half(r) => RefOf(next) = Self(p)
        /\ next.ended \in {NoRef, sessionOf[m].ended, RefOf(sessionOf[m])}
  BY JoinWrites DEF NamesInv
<1>2. RunsSession(p) /\ ~BoundElsewhere(m, r) /\ UNCHANGED running
      /\ joined' = (IF Half(r) THEN joined \ {m} ELSE joined \cup {m})
      /\ vague' = (IF Half(r) THEN vague \cup {m} ELSE vague)
      /\ takeover'[m] = NoRef
      /\ \A n \in Mission : n # m => state'[n] = state[n] /\ takeover'[n] = takeover[n]
  BY DEF Join, JoinGuard, NamedBy, NamesInv, MissionInv, MissionTypeOK
<1>3. m \notin vague' => ~Half(r) /\ Accounted(next.ended) /\ Accounted(takeover'[m])
  BY <1>1, <1>2, NamesOf DEF Accounted
<1>4. ~Half(r) => Accounted(RefOf(next))
  BY <1>1, <1>2 DEF Accounted
<1>5. \A x \in Refs' : Accounted(x)
  BY <1>1, <1>2, <1>3, <1>4, RewriteNames DEF NamesInv
<1>6. \A n \in Mission : (n # m /\ Takes(n)') => Takes(n)
  BY <1>1, <1>2, RewriteFacts DEF NamesInv, Takes
<1>7. Disjoint'
  <2>1. CASE Half(r)
    BY <1>1, <1>2, <1>6, <2>1, RewriteFacts, DisjointKept DEF NamesInv, Takes
  <2>2. CASE ~Half(r)
    <3>1. r = Self(p)
      BY <1>2, <2>2, NamingFacts DEF ById
    <3>2. \A n \in Mission : (n # m /\ Takes(n)) => ~Matches(sessionOf[n], Self(p))
      BY <1>2, <3>1 DEF BoundElsewhere, BoundTo, Takes
    <3> QED
      BY <1>1, <1>6, <2>2, <3>2, DisjointGrows
  <2> QED
    BY <2>1, <2>2
<1> QED
  BY <1>2, <1>5, <1>7, NamesKept, JoinKeeps DEF NamesInv

LEMMA RejoinNames ==
    ASSUME NamesInv, NEW m \in Mission, NEW p \in Proc, NEW r \in ById(p), NEW grill,
           Rejoin(m, p, r, grill)
    PROVE  NamesInv'
<1>1. PICK next :
        /\ Rewrites(m, next) /\ next.kind = "bound"
        /\ RefOf(next) = IF Half(r) THEN RefOf(sessionOf[m]) ELSE Self(p)
        /\ next.ended = sessionOf[m].ended
  BY RejoinWrites DEF NamesInv
<1>2. RunsSession(p) /\ ~BoundElsewhere(m, r) /\ BoundTo(m, r)
      /\ UNCHANGED <<running, takeover, vague>>
      /\ joined' = (IF state[m] # "released" THEN joined
                    ELSE IF Half(r) THEN joined \ {m} ELSE joined \cup {m})
      /\ \A n \in Mission : n # m => state'[n] = state[n]
  BY DEF Rejoin, JoinGuard, NamesInv, MissionInv, MissionTypeOK
<1>3. /\ m \in joined' => Accounted(RefOf(next))
      /\ m \notin vague' =>
           Accounted(RefOf(next)) /\ Accounted(next.ended) /\ Accounted(takeover'[m])
  BY <1>1, <1>2, NamesOf DEF Accounted
<1>4. \A x \in Refs' : Accounted(x)
  BY <1>1, <1>2, <1>3, RewriteNames DEF NamesInv
<1>5. \A n \in Mission : (n # m /\ Takes(n)') => Takes(n)
  BY <1>1, <1>2, RewriteFacts DEF NamesInv, Takes
<1>6. Disjoint'
  <2>1. CASE Half(r)
    <3>1. Takes(m)' => Takes(m)
      BY <1>2, <2>1 DEF Takes, BoundTo
    <3> QED
      BY <1>1, <1>5, <2>1, <3>1, RewriteFacts, DisjointKept DEF NamesInv
  <2>2. CASE ~Half(r)
    <3>1. r = Self(p)
      BY <1>2, <2>2, NamingFacts DEF ById
    <3>2. \A n \in Mission : (n # m /\ Takes(n)) => ~Matches(sessionOf[n], Self(p))
      BY <1>2, <3>1 DEF BoundElsewhere, BoundTo, Takes
    <3> QED
      BY <1>1, <1>5, <2>2, <3>2, DisjointGrows
  <2> QED
    BY <2>1, <2>2
<1> QED
  BY <1>2, <1>4, <1>6, NamesKept, RejoinKeeps DEF NamesInv

(* A bind keeps a mission joined only to the session it was joined to, and *)
(* by half only where it changes nothing.                                  *)
LEMMA BindNames ==
    ASSUME NamesInv, NEW m \in Mission, NEW p \in Proc, NEW r \in Namings(p),
           Bind(m, p, r)
    PROVE  NamesInv'
<1>1. PICK next :
        /\ Rewrites(m, next)
        /\ ~Half(r) => RefOf(next) = Self(p)
        /\ next.ended \in {NoRef, sessionOf[m].ended, RefOf(sessionOf[m])}
  BY BindWrites DEF NamesInv
<1>2. RunsSession(p) /\ UNCHANGED <<running, takeover, state>>
  BY DEF Bind
<1>3. CASE UNCHANGED sessionOf
  <2>1. UNCHANGED <<joined, vague>>
    BY <1>3 DEF Bind
  <2>2. Agree' /\ Born' /\ Disjoint'
    BY <1>2, <1>3, <2>1, NamesStay DEF Takes
  <2> QED
    BY <2>2, BindKeeps DEF NamesInv
<1>4. CASE sessionOf' # sessionOf
  <2>1. joined' = (IF BoundTo(m, r) /\ ~Half(r) THEN joined ELSE joined \ {m})
        /\ vague' = (IF Half(r) THEN vague \cup {m} ELSE vague)
    BY <1>4 DEF Bind, NamedBy
  <2>2. /\ m \in joined' => ~Half(r)
        /\ m \notin vague' => ~Half(r) /\ Accounted(next.ended) /\ Accounted(takeover'[m])
    BY <1>1, <1>2, <2>1, NamesOf DEF Accounted
  <2>3. ~Half(r) => Accounted(RefOf(next))
    BY <1>1, <1>2 DEF Accounted
  <2>4. \A x \in Refs' : Accounted(x)
    BY <1>1, <1>2, <2>1, <2>2, <2>3, RewriteNames DEF NamesInv
  <2>5. \A n \in Mission : (n # m /\ Takes(n)') => Takes(n)
    BY <1>1, <1>2, <2>1, RewriteFacts DEF NamesInv, Takes
  <2>6. CASE Half(r)
    <3>1. Disjoint'
      BY <1>1, <2>1, <2>5, <2>6, RewriteFacts, DisjointKept DEF NamesInv, Takes
    <3> QED
      BY <1>2, <2>4, <3>1, NamesKept, BindKeeps DEF NamesInv
  <2>7. CASE ~Half(r)
    <3>1. r = Self(p)
      BY <1>2, <2>7, NamingFacts
    <3>2. ASSUME NEW n \in Mission, n # m, Takes(m)', Takes(n), Matches(sessionOf[n], Self(p))
          PROVE  FALSE
      <4>1. BoundTo(m, Self(p)) /\ Takes(m)
        BY <1>2, <2>1, <3>1, <3>2 DEF Takes, BoundTo
      <4>2. Matches(RefOf(sessionOf[m]), Self(p)) /\ Matches(RefOf(sessionOf[n]), Self(p))
        BY <3>2, <4>1, MatchesByNames DEF BoundTo
      <4>3. Matches(RefOf(sessionOf[m]), RefOf(sessionOf[n]))
        BY <1>2, <3>2, <4>1, <4>2, NamesOf DEF NamesInv, Agree, Takes
      <4>4. Matches(sessionOf[m], sessionOf[n])
        BY <4>3, MatchesByNames, MatchesFlips
      <4> QED
        BY <3>2, <4>1, <4>4 DEF NamesInv, Disjoint
    <3>3. Disjoint'
      BY <1>1, <2>5, <2>7, <3>2, DisjointGrows
    <3> QED
      BY <1>2, <2>4, <3>3, NamesKept, BindKeeps DEF NamesInv
  <2> QED
    BY <2>6, <2>7
<1> QED
  BY <1>3, <1>4

LEMMA AskTakeoverNames ==
    ASSUME NamesInv, NEW m \in Mission, NEW p \in Proc, NEW r \in ById(p),
           AskTakeover(m, p, r)
    PROVE  NamesInv'
<1>1. RunsSession(p) /\ UNCHANGED <<running, sessionOf, state, fired, joined>>
      /\ vague' = (IF Half(r) THEN vague \cup {m} ELSE vague)
      /\ \A n \in Mission : takeover'[n] = IF n = m THEN r ELSE takeover[n]
  BY DEF AskTakeover, JoinGuard, NamedBy, NamesInv, MissionInv, MissionTypeOK
<1>2. ~Half(r) => r = Self(p)
  BY <1>1, NamingFacts DEF ById
<1>3. joined \subseteq Mission
  BY DEF NamesInv, MissionInv, MissionTypeOK
<1>4. ASSUME NEW n \in joined' PROVE Accounted(RefOf(sessionOf'[n]))
  <2>1. n \in Mission /\ n \in joined
    BY <1>1, <1>3, <1>4
  <2> QED
    BY <1>1, <2>1, NamesOf DEF Accounted
<1>5. ASSUME NEW n \in Mission, n \notin vague'
      PROVE  /\ Accounted(RefOf(sessionOf'[n])) /\ Accounted(sessionOf'[n].ended)
             /\ Accounted(takeover'[n])
  BY <1>1, <1>2, <1>5, NamesOf DEF Accounted
<1>6. \A x \in Refs' : Accounted(x)
  BY <1>4, <1>5, AllAccounted
<1>7. Disjoint'
  BY <1>1, DisjointKept DEF NamesInv, Takes
<1> QED
  BY <1>1, <1>6, <1>7, NamesKept, AskTakeoverKeeps DEF NamesInv

LEMMA UpsertNames ==
    ASSUME NamesInv, NEW m \in Mission, NEW st \in States, Upsert(m, st)
    PROVE  NamesInv'
<1>1. UNCHANGED <<running, sessionOf, fired, takeover, vague>>
      /\ joined' = (IF state[m] = "released" THEN joined \ {m} ELSE joined)
      /\ \A n \in Mission : n # m => state'[n] = state[n]
  BY DEF Upsert, NamesInv, MissionInv, MissionTypeOK
<1>2. \A n \in Mission : Takes(n)' => Takes(n)
  BY <1>1 DEF Takes
<1> QED
  BY <1>1, <1>2, NamesStay, UpsertKeeps DEF NamesInv

LEMMA FireNames ==
    ASSUME NamesInv, NEW m \in Mission, Fire(m)
    PROVE  NamesInv'
<1>1. UNCHANGED <<running, sessionOf, state, takeover, joined, vague>>
  BY DEF Fire
<1> QED
  BY <1>1, NamesStay, FireKeeps DEF NamesInv, Takes

(* A process that starts is named nowhere; its id may be, by a resume.     *)
LEMMA StartNames ==
    ASSUME NamesInv, NEW p \in Proc, NEW i \in Id, Start(p, i)
    PROVE  NamesInv'
<1>1. running[p] = Unborn /\ UNCHANGED <<sessionOf, state, takeover, joined, vague>>
      /\ \A q \in Proc : running'[q] = IF q = p THEN i ELSE running[q]
  BY DEF Start, NamesInv, MissionInv, MissionTypeOK
<1>2. Refs' = Refs
  BY <1>1 DEF Refs, RefOf
<1>3. \A q \in Proc : q # p => Self(q)' = Self(q) /\ (RunsSession(q)' <=> RunsSession(q))
  BY <1>1 DEF Self, RunsSession
<1>4. Self(p)' = [id |-> i, proc |-> p]
  BY <1>1 DEF Self
<1>5. \A x \in Refs : x.proc # p
  BY <1>1, MissionNulls DEF NamesInv, Born
<1>6. ASSUME NEW x \in Refs, NEW y \in Refs, NEW q \in Proc, RunsSession(q)',
             Matches(x, Self(q)'), Matches(y, Self(q)')
      PROVE  Matches(x, y)
  <2>1. CASE q = p
    BY <1>4, <1>5, <1>6, <2>1 DEF Matches
  <2>2. CASE q # p
    BY <1>3, <1>6, <2>2 DEF NamesInv, Agree
  <2> QED
    BY <2>1, <2>2
<1>7. Agree'
  BY <1>2, <1>6 DEF Agree, Matches
<1>8. Born'
  <2>1. ASSUME NEW x \in Refs, x.proc # NoProc
        PROVE  running'[x.proc] # Unborn
    <3>1. x.proc \in Proc
      BY <2>1, NamesAreRefs DEF NamesInv, Ref
    <3> QED
      BY <1>1, <2>1, <3>1, MissionNulls DEF NamesInv, Born
  <2> QED
    BY <1>2, <2>1 DEF Born
<1>9. Disjoint'
  BY <1>1, DisjointKept DEF NamesInv, Takes
<1> QED
  BY <1>7, <1>8, <1>9, StartKeeps DEF NamesInv

(* A new id is in no name, so a cleared session is known by its process.   *)
LEMMA ClearNames ==
    ASSUME NamesInv, NEW p \in Proc, NEW i \in Id, Clear(p, i)
    PROVE  NamesInv'
<1>1. RunsSession(p) /\ Unused(i) /\ UNCHANGED <<sessionOf, state, takeover, joined, vague>>
      /\ \A q \in Proc : running'[q] = IF q = p THEN i ELSE running[q]
  BY DEF Clear, NamesInv, MissionInv, MissionTypeOK
<1>2. Refs' = Refs
  BY <1>1 DEF Refs, RefOf
<1>3. \A q \in Proc : q # p => Self(q)' = Self(q) /\ (RunsSession(q)' <=> RunsSession(q))
  BY <1>1 DEF Self, RunsSession
<1>4. Self(p)' = [id |-> i, proc |-> p]
  BY <1>1 DEF Self
<1>5. \A x \in Refs : x.id # i
  <2>1. joined \subseteq Mission
    BY DEF NamesInv, MissionInv, MissionTypeOK
  <2> QED
    BY <1>1, <2>1 DEF Unused, Refs, RefOf
<1>6. ASSUME NEW x \in Refs, NEW y \in Refs, NEW q \in Proc, RunsSession(q)',
             Matches(x, Self(q)'), Matches(y, Self(q)')
      PROVE  Matches(x, y)
  <2>1. CASE q = p
    BY <1>4, <1>5, <1>6, <2>1 DEF Matches
  <2>2. CASE q # p
    BY <1>3, <1>6, <2>2 DEF NamesInv, Agree
  <2> QED
    BY <2>1, <2>2
<1>7. Agree'
  BY <1>2, <1>6 DEF Agree, Matches
<1>8. Born'
  <2>1. ASSUME NEW x \in Refs, x.proc # NoProc
        PROVE  running'[x.proc] # Unborn
    <3>1. x.proc \in Proc
      BY <2>1, NamesAreRefs DEF NamesInv, Ref
    <3> QED
      BY <1>1, <2>1, <3>1, MissionNulls DEF NamesInv, Born
  <2> QED
    BY <1>2, <2>1 DEF Born
<1>9. Disjoint'
  BY <1>1, DisjointKept DEF NamesInv, Takes
<1> QED
  BY <1>7, <1>8, <1>9, ClearKeeps DEF NamesInv

LEMMA DieNames ==
    ASSUME NamesInv, NEW p \in Proc, Die(p)
    PROVE  NamesInv'
<1>1. UNCHANGED <<sessionOf, state, takeover, joined, vague>>
      /\ \A q \in Proc : running'[q] = IF q = p THEN Dead ELSE running[q]
  BY DEF Die, NamesInv, MissionInv, MissionTypeOK
<1>2. Refs' = Refs
  BY <1>1 DEF Refs, RefOf
<1>3. \A q \in Proc : RunsSession(q)' => q # p /\ RunsSession(q) /\ Self(q)' = Self(q)
  BY <1>1, MissionNulls DEF Self, RunsSession
<1>4. ASSUME NEW x \in Refs, NEW y \in Refs, NEW q \in Proc, RunsSession(q)',
             Matches(x, Self(q)'), Matches(y, Self(q)')
      PROVE  Matches(x, y)
  BY <1>3, <1>4 DEF NamesInv, Agree
<1>5. Agree'
  BY <1>2, <1>4 DEF Agree, Matches
<1>6. ASSUME NEW x \in Refs, x.proc # NoProc
      PROVE  running'[x.proc] # Unborn
  <2>1. x.proc \in Proc
    BY <1>6, NamesAreRefs DEF NamesInv, Ref
  <2> QED
    BY <1>1, <1>6, <2>1, MissionNulls DEF NamesInv, Born
<1>7. Born'
  BY <1>2, <1>6 DEF Born
<1>8. Disjoint'
  BY <1>1, DisjointKept DEF NamesInv, Takes
<1> QED
  BY <1>5, <1>7, <1>8, DieKeeps DEF NamesInv

(* At first nobody is named.                                               *)
LEMMA InitNames == MissionInit => NamesInv
<1> SUFFICES ASSUME MissionInit PROVE NamesInv
  OBVIOUS
<1>1. /\ sessionOf = [m \in Mission |-> NoSession]
      /\ takeover = [m \in Mission |-> NoRef] /\ joined = {}
  BY DEF MissionInit
<1>2. RefOf(NoSession) = NoRef
  BY NoSessionType DEF RefOf, NoRef
<1>3. \A x \in Refs : x = NoRef
  BY <1>1, <1>2, NoSessionType DEF Refs
<1>4. Agree /\ Born
  BY <1>3, NoRefMatches, NoRefType DEF Agree, Born
<1>5. Disjoint
  BY <1>1 DEF Disjoint, Takes
<1> QED
  BY <1>4, <1>5, MissionInitInv DEF NamesInv

LEMMA NamesStep ==
    ASSUME NamesInv, [MissionNext]_missionVars
    PROVE  NamesInv'
<1>1. CASE MissionNext
  BY <1>1, MissionSteps, LaunchNames, BindNames, JoinNames, AskTakeoverNames, RejoinNames,
     LeaveNames, UpsertNames, FireNames, StartNames, ClearNames, DieNames
<1>2. CASE UNCHANGED missionVars
  <2>1. UNCHANGED <<running, sessionOf, state, takeover, joined, vague>>
    BY <1>2 DEF missionVars
  <2>2. MissionInv'
    BY <1>2, MissionStep DEF NamesInv
  <2> QED
    BY <2>1, <2>2, NamesStay DEF NamesInv, Takes
<1> QED
  BY <1>1, <1>2

(* The ledger's names tell every running session from every other, and no  *)
(* two missions are joined by one: those of joins in full, and those of    *)
(* missions no call named by half, whatever other calls were by half.      *)
THEOREM NamesInvariance == MissionSpec => []NamesInv
<1>1. NamesInv /\ [MissionNext]_missionVars => NamesInv'
  BY NamesStep
<1> QED
  BY InitNames, <1>1, PTL DEF MissionSpec

-----------------------------------------------------------------------------
(* One mission each, and out when ended. *)

LEMMA NamesKeepOneMission == NamesInv => JoinsKeepOneMission
<1> SUFFICES ASSUME NamesInv, NEW p \in Proc, RunsSession(p)
             PROVE  Cardinality(HeldBy(p) \cap joined) <= 1
  BY DEF JoinsKeepOneMission
<1> DEFINE held == HeldBy(p) \cap joined
<1>1. \A m, o \in held : m = o
  <2> SUFFICES ASSUME NEW m \in held, NEW o \in held, m # o PROVE FALSE
    OBVIOUS
  <2>1. /\ m \in Mission /\ o \in Mission /\ Takes(m) /\ Takes(o)
        /\ Matches(sessionOf[m], Self(p)) /\ Matches(sessionOf[o], Self(p))
    BY DEF HeldBy, BoundTo, Takes
  <2>2. Matches(RefOf(sessionOf[m]), RefOf(sessionOf[o]))
    BY <2>1, NamesOf, MatchesByNames DEF NamesInv, Agree, Takes
  <2>3. Matches(sessionOf[m], sessionOf[o])
    BY <2>2, MatchesByNames, MatchesFlips
  <2> QED
    BY <2>1, <2>3 DEF NamesInv, Disjoint
<1> HIDE DEF held
<1>2. CASE held = {}
  BY <1>2, FS_EmptySet DEF held
<1>3. CASE held # {}
  <2>1. PICK m \in held : held = {m}
    BY <1>1, <1>3
  <2>2. Cardinality(held) = 1
    BY <2>1, FS_Singleton
  <2> QED
    BY <2>2 DEF held
<1> QED
  BY <1>2, <1>3

(* A session never joins into two missions, through every /clear, resume,  *)
(* takeover and release: for any missions, processes and ids, whatever     *)
(* binds, joins and takeovers by half there are beside.                    *)
THEOREM JoinsAlwaysKeepOneMission == MissionSpec => []JoinsKeepOneMission
<1>1. NamesInv => JoinsKeepOneMission
  BY NamesKeepOneMission
<1> QED
  BY NamesInvariance, <1>1, PTL

LEMMA EndedStep ==
    ASSUME NamesInv, MissionNext, NEW m \in Mission, m \notin vague, Both(m)'
    PROVE  Both(m) \/ Matches(takeover[m], RefOf(sessionOf[m]))
<1>1. sessionOf'[m].kind = "bound" /\ Matches(sessionOf'[m].ended, RefOf(sessionOf'[m]))
  BY DEF Both, Matches, RefOf
<1>2. ASSUME sessionOf'[m] = sessionOf[m] PROVE Both(m)
  BY <1>1, <1>2 DEF Both
<1>3. ASSUME NEW n \in Mission, NEW next, Rewrites(n, next)
      PROVE  \/ n # m /\ sessionOf'[m] = sessionOf[m]
             \/ n = m /\ sessionOf'[m] = next
  BY <1>3, RewriteFacts DEF NamesInv
<1>4. ASSUME NEW n \in Mission, NEW grill, Launch(n, grill)
      PROVE  Both(m)
  <2>1. PICK next : Rewrites(n, next) /\ next.kind # "bound"
    BY <1>4, LaunchWrites DEF NamesInv
  <2> QED
    BY <1>1, <1>2, <1>3, <2>1
<1>5. ASSUME NEW n \in Mission, NEW next, Rewrites(n, next),
             Matches(next.ended, RefOf(next)) => Both(n)
      PROVE  Both(m)
  BY <1>1, <1>2, <1>3, <1>5
<1>6. ASSUME NEW n \in Mission, NEW p \in Proc, NEW r \in Namings(p),
             Bind(n, p, r)
      PROVE  Both(m)
  BY <1>5, <1>6, BindWrites DEF NamesInv
<1>7. ASSUME NEW n \in Mission, NEW p \in Proc, NEW r \in ById(p), NEW grill,
             Join(n, p, r, grill)
      PROVE  Both(m)
  BY <1>5, <1>7, JoinWrites DEF NamesInv
<1>8. ASSUME NEW n \in Mission, NEW p \in Proc, NEW r \in ById(p), NEW grill,
             Rejoin(n, p, r, grill)
      PROVE  Both(m)
  <2>1. PICK next :
          /\ Rewrites(n, next)
          /\ RefOf(next) = IF Half(r) THEN RefOf(sessionOf[n]) ELSE Self(p)
          /\ next.ended = sessionOf[n].ended
    BY <1>8, RejoinWrites DEF NamesInv
  <2>2. RunsSession(p) /\ BoundTo(n, r)
    BY <1>8 DEF Rejoin, JoinGuard
  <2>3. CASE n # m
    <3>1. sessionOf'[m] = sessionOf[m]
      BY <1>3, <2>1, <2>3
    <3> QED
      BY <1>2, <3>1
  <2>4. CASE n = m /\ Half(r)
    <3>1. Matches(sessionOf[m].ended, RefOf(sessionOf[m]))
      BY <1>1, <1>3, <2>1, <2>4
    <3> QED
      BY <2>2, <2>4, <3>1 DEF Both, BoundTo
  <2>5. CASE n = m /\ ~Half(r)
    <3>1. r = Self(p)
      BY <2>2, <2>5, NamingFacts DEF ById
    <3>2. Matches(sessionOf[m].ended, Self(p)) /\ Matches(RefOf(sessionOf[m]), Self(p))
      BY <1>1, <1>3, <2>1, <2>2, <2>5, <3>1, MatchesByNames DEF BoundTo
    <3>3. Matches(sessionOf[m].ended, RefOf(sessionOf[m]))
      BY <2>2, <3>2, NamesOf DEF NamesInv, Agree
    <3> QED
      BY <2>2, <2>5, <3>3 DEF Both, BoundTo
  <2> QED
    BY <2>3, <2>4, <2>5
<1>9. ASSUME NEW n \in Mission, NEW p \in Proc, Leave(n, p)
      PROVE  Both(m) \/ Matches(takeover[m], RefOf(sessionOf[m]))
  <2>1. PICK next :
          /\ Rewrites(n, next)
          /\ next.ended = RefOf(sessionOf[n])
          /\ \/ next.kind = "none"
             \/ /\ next.kind = "bound" /\ next.id = takeover[n].id
                /\ next.proc = takeover[n].proc
    BY <1>9, LeaveWrites DEF NamesInv
  <2>2. CASE n = m
    <3>1. /\ next.id = takeover[m].id /\ next.proc = takeover[m].proc
          /\ Matches(RefOf(sessionOf[m]), RefOf(next))
      BY <1>1, <1>3, <2>1, <2>2
    <3> QED
      BY <3>1 DEF Matches, RefOf
  <2> QED
    BY <1>2, <1>3, <2>1, <2>2
<1>10. /\ \A n \in Mission, p \in Proc : \A r : AskTakeover(n, p, r) => UNCHANGED sessionOf
       /\ \A n \in Mission, st \in States : Upsert(n, st) => UNCHANGED sessionOf
       /\ \A n \in Mission : Fire(n) => UNCHANGED sessionOf
       /\ \A p \in Proc, i \in Id : Start(p, i) \/ Clear(p, i) => UNCHANGED sessionOf
       /\ \A p \in Proc : Die(p) => UNCHANGED sessionOf
  BY DEF AskTakeover, Upsert, Fire, Start, Clear, Die
<1>11. CASE UNCHANGED sessionOf
  BY <1>2, <1>11
<1> QED
  BY <1>4, <1>6, <1>7, <1>8, <1>9, <1>10, <1>11, MissionSteps

(* A session that was replaced or left is bound again only as a resume, or *)
(* by the takeover it left pending: for any missions, processes and ids,   *)
(* of every mission no call has named a session to by half so far.         *)
THEOREM TheEndedStayOut == MissionSpec => EndedStaysOut
<1>1. NamesInv /\ [MissionNext]_missionVars =>
        [\A m \in Mission \ vague :
           Both(m)' => Both(m) \/ Matches(takeover[m], RefOf(sessionOf[m]))]_missionVars
  BY EndedStep
<1>2. (\A m \in Mission \ vague :
         Both(m)' => Both(m) \/ Matches(takeover[m], RefOf(sessionOf[m]))) =>
      (\A m \in Mission \ vague :
         LET Ended == sessionOf[m].kind = "bound"
                      /\ Matches(sessionOf[m].ended, RefOf(sessionOf[m]))
         IN  Ended' => Ended \/ Matches(takeover[m], RefOf(sessionOf[m])))
  BY DEF Both
<1> QED
  BY NamesInvariance, <1>1, <1>2, PTL DEF MissionSpec, EndedStaysOut

-----------------------------------------------------------------------------
(* The two side by side: every behaviour of the agent's side is one of the *)
(* shim and one of the ledger.  The shim is a process of its own (shim.mjs)*)
(* and the ledger the daemon's (missions.mjs): neither writes the other's  *)
(* state.                                                                  *)
LEMMA SessionParts == (Spec => ShimSpec) /\ (Spec => MissionSpec)
<1>1. Init => ShimInit /\ MissionInit
  BY DEF Init
<1>2. [Next]_vars => [ShimNext]_shimVars /\ [MissionNext]_missionVars
  BY DEF Next, vars
<1> QED BY <1>1, <1>2, PTL DEF Spec, ShimSpec, MissionSpec

(* Every variable of the shim and of the missions ledger keeps its type    *)
(* when the two stand side by side (shim.mjs, missions.mjs).               *)
THEOREM SessionsTypeCorrect == Spec => []TypesOK
  BY SessionParts, ShimTypeCorrect, MissionTypeCorrect, PTL DEF TypesOK

=============================================================================
