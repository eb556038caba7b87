------------------------- MODULE WaitingCacheProofs -------------------------
(***************************************************************************)
(* Proofs about WaitingCache, for any boards, any clock and any number of  *)
(* writes.                                                                 *)
(***************************************************************************)
EXTENDS WaitingCache, WellFoundedInduction, TLAPS

-----------------------------------------------------------------------------
(* The inductive invariant.                                                *)

(* No file was written more often than there were writes.                  *)
VersionsCounted == \A b \in Stored : file[b].version <= stores

(* Of a board whose writes were heard: until the lapse the cache waits     *)
(* for, it is in the rows while its deadline lies ahead; and that lapse    *)
(* comes no later than its deadline.                                       *)
RowsKept(c, f, t, missed) ==
    c # NoCache =>
        \A b \in Stored \ missed :
            /\ t < c.lapseAt => (b \in c.rows <=> f[b].due > t)
            /\ b \in c.rows => c.lapseAt <= f[b].due

CacheInv ==
    /\ CacheTypeOK
    /\ VersionsCounted
    /\ RowsKept(cache, file, clock, unheard)

-----------------------------------------------------------------------------
LEMMA CacheNumbers == MaxClock \in Nat /\ MaxStores \in Nat /\ Never \in Nat /\ Never = MaxClock + 1
  BY CacheBounds DEF Never

(* A set of instants has a first one.                                      *)
LEMMA FirstOf ==
  ASSUME NEW S, S \subseteq Nat, S # {}
  PROVE  Min(S) \in S /\ \A x \in S : Min(S) <= x
  <1>1. \E x \in S : \A y \in S : ~(<<y, x>> \in OpToRel(<, Nat))
    BY NatLessThanWellFounded, WFMin
  <1>2. \A x, y \in Nat : <<y, x>> \in OpToRel(<, Nat) <=> y < x
    BY DEF OpToRel
  <1>3. \E x \in S : \A y \in S : x <= y
    <2>1. PICK x \in S : \A y \in S : ~(<<y, x>> \in OpToRel(<, Nat))
      BY <1>1
    <2>2. ASSUME NEW y \in S PROVE x <= y
      <3>1. ~(y < x)
        BY <1>2, <2>1
      <3> QED BY <3>1
    <2> QED BY <2>2
  <1> QED BY <1>3 DEF Min

Files == [Stored -> [version : 0 .. MaxStores, due : 0 .. MaxClock]]

Caches == [print : [Stored -> 0 .. MaxStores], lapseAt : 1 .. Never, rows : SUBSET Stored]

LEMMA NextLapseIsFirst ==
  ASSUME clock \in 0 .. MaxClock, NEW f \in Files, NEW bs
  PROVE  /\ NextLapse(f, bs) \in 1 .. Never
         /\ \A b \in bs \cap OnList(f) : NextLapse(f, bs) <= f[b].due
  <1> DEFINE S == {Never} \cup {f[b].due : b \in bs \cap OnList(f)}
  <1>1. \A b \in OnList(f) : f[b].due \in 1 .. Never
    BY CacheNumbers DEF OnList, Files
  <1>2. S \subseteq 1 .. Never /\ S \subseteq Nat /\ S # {}
    BY <1>1, CacheNumbers
  <1>3. Min(S) \in S /\ \A x \in S : Min(S) <= x
    BY <1>2, FirstOf
  <1> QED BY <1>2, <1>3 DEF NextLapse

LEMMA WalkedIsKept ==
  ASSUME clock \in 0 .. MaxClock, NEW f \in Files
  PROVE  Walked(f) \in Caches /\ RowsKept(Walked(f), f, clock, {})
  <1>1. /\ NextLapse(f, Stored) \in 1 .. Never
        /\ \A b \in Stored \cap OnList(f) : NextLapse(f, Stored) <= f[b].due
    BY NextLapseIsFirst
  <1>2. StoreFingerprint(f) \in [Stored -> 0 .. MaxStores] /\ OnList(f) \in SUBSET Stored
    BY DEF StoreFingerprint, OnList, Files
  <1>3. /\ Walked(f) \in Caches
        /\ Walked(f).lapseAt = NextLapse(f, Stored) /\ Walked(f).rows = OnList(f)
    BY <1>1, <1>2 DEF Walked, Caches
  <1> QED BY <1>1, <1>3 DEF RowsKept, OnList

(* noteWrite keeps the rows of every board but the written one, which it   *)
(* reads.                                                                  *)
LEMMA NotedIsKept ==
  ASSUME clock \in 0 .. MaxClock, file \in Files, NEW f \in Files, NEW b \in Stored,
         \A d \in Stored \ {b} : f[d] = file[d],
         cache = NoCache \/ cache \in Caches, RowsKept(cache, file, clock, unheard)
  PROVE  LET c == Noted(cache, f, b)
         IN  /\ c = NoCache \/ c \in Caches
             /\ cache # NoCache => RowsKept(c, f, clock, unheard \ {b})
             /\ cache = NoCache => c = NoCache
  <1>1. CASE cache = NoCache
    BY <1>1 DEF Noted
  <1>2. CASE cache # NoCache
    <2> DEFINE c == Noted(cache, f, b)
               lapse == NextLapse(f, {b})
    <2>1. lapse \in 1 .. Never /\ (b \in OnList(f) => lapse <= f[b].due)
      BY NextLapseIsFirst
    <2>2. {cache.lapseAt, lapse} \subseteq Nat /\ {cache.lapseAt, lapse} \subseteq 1 .. Never
      BY <1>2, <2>1, CacheNumbers DEF Caches
    <2>3. /\ Min({cache.lapseAt, lapse}) \in 1 .. Never
          /\ Min({cache.lapseAt, lapse}) <= cache.lapseAt
          /\ Min({cache.lapseAt, lapse}) <= lapse
      <3>1. {cache.lapseAt, lapse} # {}
        OBVIOUS
      <3>2. /\ Min({cache.lapseAt, lapse}) \in {cache.lapseAt, lapse}
            /\ \A x \in {cache.lapseAt, lapse} : Min({cache.lapseAt, lapse}) <= x
        BY <2>2, <3>1, FirstOf
      <3> QED BY <2>2, <3>2
    <2>4. StoreFingerprint(f) \in [Stored -> 0 .. MaxStores] /\ OnList(f) \subseteq Stored
      BY DEF StoreFingerprint, OnList, Files
    <2> DEFINE rows == (cache.rows \ {b}) \cup ({b} \cap OnList(f))
    <2>5. /\ c \in Caches /\ c.rows = rows
          /\ c.lapseAt = Min({cache.lapseAt, lapse})
      <3>1. c = [cache EXCEPT !.rows = rows, !.lapseAt = Min({cache.lapseAt, lapse}),
                              !.print = StoreFingerprint(f)]
        BY <1>2 DEF Noted
      <3>2. rows \in SUBSET Stored
        BY <1>2, <2>4 DEF Caches
      <3> HIDE DEF rows, lapse, c
      <3> QED BY <1>2, <2>3, <2>4, <3>1, <3>2 DEF Caches
    <2>6. RowsKept(c, f, clock, unheard \ {b})
      <3> HIDE DEF c, lapse
      <3>1. ASSUME NEW d \in Stored \ (unheard \ {b}), d # b
            PROVE  /\ clock < c.lapseAt => (d \in c.rows <=> f[d].due > clock)
                   /\ d \in c.rows => c.lapseAt <= f[d].due
        <4>1. d \in Stored \ unheard /\ f[d] = file[d] /\ (d \in c.rows <=> d \in cache.rows)
          BY <2>5, <3>1
        <4>2. /\ c.lapseAt \in Nat /\ cache.lapseAt \in Nat /\ f[d].due \in Nat
              /\ c.lapseAt <= cache.lapseAt
          BY <2>2, <2>3, <2>5, <4>1 DEF Files
        <4>3. /\ clock < cache.lapseAt => (d \in cache.rows <=> f[d].due > clock)
              /\ d \in cache.rows => cache.lapseAt <= f[d].due
          BY <1>2, <4>1 DEF RowsKept
        <4> QED BY <4>1, <4>2, <4>3, CacheNumbers
      <3>2. /\ clock < c.lapseAt => (b \in c.rows <=> f[b].due > clock)
            /\ b \in c.rows => c.lapseAt <= f[b].due
        <4>1. b \in c.rows <=> b \in OnList(f)
          BY <2>5
        <4>2. c.lapseAt \in Nat /\ lapse \in Nat /\ f[b].due \in Nat /\ c.lapseAt <= lapse
          BY <2>2, <2>3, <2>5 DEF Files
        <4> QED BY <2>1, <4>1, <4>2 DEF OnList
      <3> QED BY <3>1, <3>2 DEF RowsKept
    <2> HIDE DEF c
    <2> QED BY <1>2, <2>5, <2>6 DEF c
  <1> QED BY <1>1, <1>2

(* An answer from rows that are kept leaves kept rows behind.              *)
LEMMA RespondKeeps ==
  ASSUME clock \in 0 .. MaxClock, NEW c, NEW f \in Files, NEW missed \in SUBSET Stored,
         c = NoCache \/ c \in Caches, RowsKept(c, f, clock, missed),
         Respond(c, f, missed)
  PROVE  /\ cache' \in Caches
         /\ RowsKept(cache', f, clock, unheard')
         /\ served' \subseteq Stored /\ unheard' \subseteq Stored
  <1>1. CASE Usable(c, f)
    BY <1>1 DEF Respond, Usable, Caches
  <1>2. CASE ~Usable(c, f)
    BY <1>2, WalkedIsKept DEF Respond, Caches
  <1> QED BY <1>1, <1>2

-----------------------------------------------------------------------------
LEMMA InvFacts ==
  ASSUME CacheInv
  PROVE  /\ clock \in 0 .. MaxClock /\ file \in Files
         /\ cache = NoCache \/ cache \in Caches
         /\ served \subseteq Stored /\ unheard \subseteq Stored /\ stores \in 0 .. MaxStores
         /\ VersionsCounted /\ RowsKept(cache, file, clock, unheard)
  BY DEF CacheInv, CacheTypeOK, Files, Caches

LEMMA InvAfter ==
  ASSUME clock' \in 0 .. MaxClock, file' \in Files, cache' = NoCache \/ cache' \in Caches,
         served' \subseteq Stored, unheard' \subseteq Stored, stores' \in 0 .. MaxStores,
         VersionsCounted', RowsKept(cache', file', clock', unheard')
  PROVE  CacheInv'
  BY DEF CacheInv, CacheTypeOK, Files, Caches

(* A write makes one file a version newer, within the number of writes.    *)
LEMMA WriteIsCounted ==
  ASSUME CacheInv, NEW b \in Stored, NEW due \in 0 .. MaxClock, Store(b, Written(b, due))
  PROVE  /\ Written(b, due) \in Files /\ file' = Written(b, due)
         /\ file'[b].due = due /\ \A d \in Stored \ {b} : file'[d] = file[d]
         /\ clock' = clock /\ stores' \in 0 .. MaxStores /\ VersionsCounted'
  <1>1. /\ stores < MaxStores /\ stores' = stores + 1 /\ clock' = clock
        /\ file' = Written(b, due)
    BY DEF Store
  <1>2. /\ file \in Files /\ stores \in 0 .. MaxStores
        /\ \A d \in Stored : file[d].version <= stores
    BY InvFacts DEF VersionsCounted
  <1>3. file[b].version \in Nat /\ file[b].version + 1 \in 0 .. MaxStores
    BY <1>1, <1>2, CacheNumbers DEF Files
  <1>4. [version |-> file[b].version + 1, due |-> due]
            \in [version : 0 .. MaxStores, due : 0 .. MaxClock]
    BY <1>3
  <1>5. /\ Written(b, due) \in Files
        /\ Written(b, due)[b] = [version |-> file[b].version + 1, due |-> due]
        /\ \A d \in Stored \ {b} : Written(b, due)[d] = file[d]
    BY <1>2, <1>4 DEF Written, Files
  <1>6. \A d \in Stored : file'[d].version <= stores'
    <2>1. ASSUME NEW d \in Stored PROVE file'[d].version <= stores'
      <3>1. CASE d = b
        <4>1. file'[b].version = file[b].version + 1
          BY <1>1, <1>5
        <4> QED BY <1>1, <1>2, <1>3, <3>1, <4>1
      <3>2. CASE d # b
        <4>1. file'[d].version = file[d].version /\ file[d].version \in Nat
          BY <1>1, <1>2, <1>5, <3>2 DEF Files
        <4> QED BY <1>1, <1>2, <4>1
      <3> QED BY <3>1, <3>2
    <2> QED BY <2>1
  <1>7. VersionsCounted'
    BY <1>6 DEF VersionsCounted
  <1>8. stores' \in 0 .. MaxStores /\ file'[b].due = due
    BY <1>1, <1>2, <1>5, CacheNumbers
  <1> QED BY <1>1, <1>5, <1>7, <1>8

LEMMA InitKeeps == CacheInit => CacheInv
  <1> SUFFICES ASSUME CacheInit PROVE CacheInv
    OBVIOUS
  <1>1. NoFile \in [version : 0 .. MaxStores, due : 0 .. MaxClock] /\ NoFile.version = 0
    BY CacheNumbers DEF NoFile
  <1>2. CacheTypeOK
    BY <1>1, CacheNumbers DEF CacheInit, CacheTypeOK
  <1>3. VersionsCounted
    BY <1>1 DEF CacheInit, VersionsCounted
  <1> QED BY <1>2, <1>3 DEF CacheInit, CacheInv, RowsKept

LEMMA GetWaitingKeeps == CacheInv /\ GetWaiting => CacheInv'
  <1> SUFFICES ASSUME CacheInv, GetWaiting PROVE CacheInv'
    OBVIOUS
  <1>1. Respond(cache, file, unheard) /\ UNCHANGED <<clock, file, stores>>
    BY DEF GetWaiting
  <1>2. /\ cache' \in Caches /\ RowsKept(cache', file, clock, unheard')
        /\ served' \subseteq Stored /\ unheard' \subseteq Stored
    BY <1>1, InvFacts, RespondKeeps
  <1>3. VersionsCounted'
    BY <1>1, InvFacts DEF VersionsCounted
  <1> QED BY <1>1, <1>2, <1>3, InvFacts, InvAfter

(* The two writes noteWrite is told of.                                    *)
LEMMA NotedWrite ==
  ASSUME CacheInv, NEW b \in Stored, NEW due \in 0 .. MaxClock, Store(b, Written(b, due))
  PROVE  LET c == Noted(cache, file', b)
         IN  /\ c = NoCache \/ c \in Caches
             /\ RowsKept(c, file', clock, unheard \ {b})
             /\ cache = NoCache => c = NoCache
  <1>1. /\ file' \in Files /\ \A d \in Stored \ {b} : file'[d] = file[d]
    BY WriteIsCounted
  <1> DEFINE c == Noted(cache, file', b)
  <1>2. /\ c = NoCache \/ c \in Caches
        /\ cache # NoCache => RowsKept(c, file', clock, unheard \ {b})
        /\ cache = NoCache => c = NoCache
    BY <1>1, InvFacts, NotedIsKept
  <1> HIDE DEF c
  <1>3. RowsKept(c, file', clock, unheard \ {b})
    BY <1>2 DEF RowsKept
  <1> QED BY <1>2, <1>3 DEF c

LEMMA StoreBoardKeeps ==
  ASSUME NEW b \in Stored, CacheInv, StoreBoard(b)
  PROVE  CacheInv'
  <1>1. PICK due \in {0} \cup (clock + 1) .. MaxClock :
            /\ Store(b, Written(b, due))
            /\ Respond(Noted(cache, Written(b, due), b), Written(b, due), unheard \ {b})
    BY DEF StoreBoard
  <1>2. due \in 0 .. MaxClock
    BY <1>1, InvFacts, CacheNumbers
  <1>3. /\ file' \in Files /\ file' = Written(b, due)
        /\ clock' = clock /\ stores' \in 0 .. MaxStores /\ VersionsCounted'
    BY <1>1, <1>2, WriteIsCounted
  <1> DEFINE c == Noted(cache, file', b)
  <1>4. (c = NoCache \/ c \in Caches) /\ RowsKept(c, file', clock, unheard \ {b})
    BY <1>1, <1>2, NotedWrite
  <1>5. Respond(c, file', unheard \ {b})
    BY <1>1, <1>3
  <1> HIDE DEF c
  <1>6. /\ cache' \in Caches /\ RowsKept(cache', file', clock, unheard')
        /\ served' \subseteq Stored /\ unheard' \subseteq Stored
    <2>1. unheard \ {b} \in SUBSET Stored /\ clock \in 0 .. MaxClock
      BY InvFacts
    <2> QED BY <1>3, <1>4, <1>5, <2>1, RespondKeeps
  <1> QED BY <1>3, <1>6, InvFacts, InvAfter

LEMMA MoveDeadlineKeeps ==
  ASSUME NEW b \in Stored, CacheInv, MoveDeadline(b)
  PROVE  CacheInv'
  <1>1. PICK due \in (file[b].due + 1) .. MaxClock :
            /\ Store(b, Written(b, due))
            /\ cache' = Noted(cache, Written(b, due), b)
            /\ unheard' = IF cache = NoCache THEN unheard ELSE unheard \ {b}
    BY DEF MoveDeadline
  <1>2. due \in 0 .. MaxClock
    BY <1>1, InvFacts, CacheNumbers DEF Files
  <1>3. /\ file' \in Files /\ file' = Written(b, due)
        /\ clock' = clock /\ stores' \in 0 .. MaxStores /\ VersionsCounted'
    BY <1>1, <1>2, WriteIsCounted
  <1>4. /\ cache' = NoCache \/ cache' \in Caches
        /\ RowsKept(cache', file', clock, unheard \ {b})
        /\ cache = NoCache => cache' = NoCache
    BY <1>1, <1>2, <1>3, NotedWrite
  <1>5. RowsKept(cache', file', clock', unheard')
    BY <1>1, <1>3, <1>4 DEF RowsKept
  <1>6. served' \subseteq Stored /\ unheard' \subseteq Stored
    BY <1>1, InvFacts DEF MoveDeadline
  <1> QED BY <1>3, <1>4, <1>5, <1>6, InvFacts, InvAfter

LEMMA StoreMarkKeeps ==
  ASSUME NEW b \in Stored, CacheInv, StoreMark(b)
  PROVE  CacheInv'
  <1>1. /\ Store(b, Written(b, file[b].due))
        /\ UNCHANGED <<cache, served, unheard>>
    BY DEF StoreMark
  <1>2. file[b].due \in 0 .. MaxClock
    BY InvFacts DEF Files
  <1>3. /\ file' \in Files /\ \A d \in Stored : file'[d].due = file[d].due
        /\ clock' = clock /\ stores' \in 0 .. MaxStores /\ VersionsCounted'
    BY <1>1, <1>2, WriteIsCounted
  <1>4. RowsKept(cache', file', clock', unheard')
    BY <1>1, <1>3, InvFacts DEF RowsKept
  <1> QED BY <1>1, <1>3, <1>4, InvFacts, InvAfter

LEMMA StoreUnheardKeeps ==
  ASSUME NEW b \in Stored, CacheInv, StoreUnheard(b)
  PROVE  CacheInv'
  <1>1. PICK due \in {0} \cup (clock + 1) .. MaxClock :
            /\ Store(b, Written(b, due))
            /\ unheard' = unheard \cup {b}
            /\ UNCHANGED <<cache, served>>
    BY DEF StoreUnheard
  <1>2. due \in 0 .. MaxClock
    BY <1>1, InvFacts, CacheNumbers
  <1>3. /\ file' \in Files /\ \A d \in Stored \ {b} : file'[d] = file[d]
        /\ clock' = clock /\ stores' \in 0 .. MaxStores /\ VersionsCounted'
    BY <1>1, <1>2, WriteIsCounted
  <1>4. \A d \in Stored \ unheard' : d \in Stored \ unheard /\ file'[d] = file[d]
    BY <1>1, <1>3
  <1>5. RowsKept(cache', file', clock', unheard')
    BY <1>1, <1>3, <1>4, InvFacts DEF RowsKept
  <1> QED BY <1>1, <1>3, <1>5, InvFacts, InvAfter

LEMMA PruneStoreKeeps ==
  ASSUME NEW b \in Stored, CacheInv, PruneStore(b)
  PROVE  CacheInv'
  <1>1. /\ stores < MaxStores /\ stores' = stores + 1
        /\ file' = [file EXCEPT ![b] = NoFile] /\ clock' = clock
        /\ cache' = NoCache /\ unheard' = {} /\ served' = served
    BY DEF PruneStore, Store
  <1>2. NoFile \in [version : 0 .. MaxStores, due : 0 .. MaxClock] /\ NoFile.version = 0
    BY CacheNumbers DEF NoFile
  <1>3. /\ file' \in Files
        /\ \A d \in Stored : file'[d] = NoFile \/ file'[d] = file[d]
    BY <1>1, <1>2, InvFacts DEF Files
  <1>4. stores \in 0 .. MaxStores /\ stores' \in 0 .. MaxStores
    BY <1>1, InvFacts, CacheNumbers
  <1>5. \A d \in Stored : file'[d].version <= stores'
    <2>1. ASSUME NEW d \in Stored PROVE file'[d].version <= stores'
      <3>1. file[d].version \in Nat /\ file[d].version <= stores
        BY InvFacts DEF Files, VersionsCounted
      <3>2. file'[d].version = 0 \/ file'[d].version = file[d].version
        BY <1>2, <1>3
      <3> QED BY <1>1, <1>4, <3>1, <3>2, CacheNumbers
    <2> QED BY <2>1
  <1>6. VersionsCounted'
    BY <1>5 DEF VersionsCounted
  <1>7. RowsKept(cache', file', clock', unheard')
    BY <1>1 DEF RowsKept
  <1> QED BY <1>1, <1>3, <1>4, <1>6, <1>7, InvFacts, InvAfter

(* The rows in the cache all lapse at or after the lapse it waits for, so  *)
(* time alone takes none of them off the list before.                      *)
LEMMA ClockTicksKeeps == CacheInv /\ ClockTicks => CacheInv'
  <1> SUFFICES ASSUME CacheInv, ClockTicks PROVE CacheInv'
    OBVIOUS
  <1>1. /\ clock < MaxClock /\ clock' = clock + 1
        /\ UNCHANGED <<file, cache, served, unheard, stores>>
    BY DEF ClockTicks
  <1>2. clock \in Nat /\ clock' \in 0 .. MaxClock
    BY <1>1, InvFacts, CacheNumbers
  <1>3. ASSUME cache # NoCache, NEW b \in Stored \ unheard
        PROVE  /\ clock' < cache.lapseAt => (b \in cache.rows <=> file[b].due > clock')
               /\ b \in cache.rows => cache.lapseAt <= file[b].due
    <2>1. cache.lapseAt \in Nat /\ file[b].due \in Nat
      BY <1>3, InvFacts, CacheNumbers DEF Files, Caches
    <2>2. /\ clock < cache.lapseAt => (b \in cache.rows <=> file[b].due > clock)
          /\ b \in cache.rows => cache.lapseAt <= file[b].due
      BY <1>3, InvFacts DEF RowsKept
    <2> QED BY <1>1, <1>2, <2>1, <2>2
  <1>4. RowsKept(cache', file', clock', unheard')
    BY <1>1, <1>3 DEF RowsKept
  <1>5. VersionsCounted'
    BY <1>1, InvFacts DEF VersionsCounted
  <1> QED BY <1>1, <1>2, <1>4, <1>5, InvFacts, InvAfter

LEMMA NextKeeps == CacheInv /\ [CacheNext]_cacheVars => CacheInv'
  <1> SUFFICES ASSUME CacheInv, [CacheNext]_cacheVars PROVE CacheInv'
    OBVIOUS
  <1>1. CASE GetWaiting
    BY <1>1, GetWaitingKeeps
  <1>2. CASE ClockTicks
    BY <1>2, ClockTicksKeeps
  <1>3. ASSUME NEW b \in Stored,
               StoreBoard(b) \/ MoveDeadline(b) \/ StoreMark(b) \/ StoreUnheard(b) \/ PruneStore(b)
        PROVE  CacheInv'
    BY <1>3, StoreBoardKeeps, MoveDeadlineKeeps, StoreMarkKeeps, StoreUnheardKeeps,
       PruneStoreKeeps
  <1>4. CASE UNCHANGED cacheVars
    <2>1. UNCHANGED <<clock, file, cache, served, unheard, stores>>
      BY <1>4 DEF cacheVars
    <2>2. VersionsCounted' /\ RowsKept(cache', file', clock', unheard')
      BY <2>1, InvFacts DEF VersionsCounted
    <2> QED BY <2>1, <2>2, InvFacts, InvAfter
  <1> QED BY <1>1, <1>2, <1>3, <1>4 DEF CacheNext

-----------------------------------------------------------------------------
(* The cache's rows stay kept through every walk, patch, missed write,     *)
(* prune and lapse (createWaitingCache).                                   *)
THEOREM CacheInvariance == CacheSpec => []CacheInv
  <1>1. CacheInit => CacheInv
    BY InitKeeps
  <1>2. CacheInv /\ [CacheNext]_cacheVars => CacheInv'
    BY NextKeeps
  <1> QED BY <1>1, <1>2, PTL DEF CacheSpec

(* The stored boards, the cached answer, what was served and the writes    *)
(* not heard of keep their types (createWaitingCache).                     *)
THEOREM CacheTypeCorrect == CacheSpec => []CacheTypeOK
  <1>1. CacheInv => CacheTypeOK
    BY DEF CacheInv
  <1> QED BY <1>1, CacheInvariance, PTL

(* Rows that may be served tell the store as a walk would find it, for any *)
(* boards whose writes were heard (rows and noteWrite of                   *)
(* createWaitingCache, also across a prune, a moved deadline and a lapse). *)
THEOREM RowsTrue == CacheSpec => []RowsAreTrue
  <1>1. CacheInv => RowsAreTrue
    <2> SUFFICES ASSUME CacheInv, Usable(cache, file)
                 PROVE  \A b \in Stored \ unheard : b \in cache.rows <=> b \in OnList(file)
      BY DEF RowsAreTrue
    <2>1. cache # NoCache /\ clock < cache.lapseAt
      BY DEF Usable
    <2> QED BY <2>1, InvFacts DEF RowsKept, OnList
  <1>2. CacheSpec => []CacheInv
    BY CacheInvariance
  <1> QED BY <1>1, <1>2, PTL

=============================================================================
