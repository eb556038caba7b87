---------------------------- MODULE WaitingCache ----------------------------
(***************************************************************************)
(* The waiting list behind GET /api/waiting and the count every board      *)
(* write publishes (createWaitingCache in src/server.mjs): rows kept from  *)
(* one walk of the store, patched by each write of this daemon, and walked *)
(* again when the store's fingerprint moved or a kept round's wait lapsed. *)
(*                                                                         *)
(* A board is on the list while its round's deadline lies ahead; a wait    *)
(* lapses with nothing written.  The fingerprint is each file's version.   *)
(***************************************************************************)
EXTENDS Naturals, FiniteSetsExt

CONSTANTS
    Stored,           \* the boards
    NoCache,
    MaxClock,
    MaxStores       \* bounds the writes

ASSUME CacheBounds == {MaxClock, MaxStores} \subseteq Nat

VARIABLES
    clock,
    file,       \* each board's file: its version and its round's deadline
    cache,
    served,     \* the rows last answered
    unheard,    \* observed: boards written since their rows were kept, unheard
    stores

cacheVars == <<clock, file, cache, served, unheard, stores>>

Never == MaxClock + 1
NoFile == [version |-> 0, due |-> 0]

(* storeFingerprint of the files f.                                        *)
StoreFingerprint(f) == [b \in Stored |-> f[b].version]

(* waitingRounds of a board as readBoard sweeps it.                        *)
OnList(f) == {b \in Stored : f[b].due > clock}

(* nextLapseAt                                                             *)
NextLapse(f, bs) == Min({Never} \cup {f[b].due : b \in bs \cap OnList(f)})

CacheInit ==
    /\ clock = 0
    /\ file = [b \in Stored |-> NoFile]
    /\ cache = NoCache
    /\ served = {}
    /\ unheard = {}
    /\ stores = 0

-----------------------------------------------------------------------------
Walked(f) == [print |-> StoreFingerprint(f), lapseAt |-> NextLapse(f, Stored), rows |-> OnList(f)]

Usable(c, f) == c # NoCache /\ c.print = StoreFingerprint(f) /\ clock < c.lapseAt

(* rows() over the files f, from a cache that missed the writes of some.   *)
Respond(c, f, missed) ==
    /\ cache' = IF Usable(c, f) THEN c ELSE Walked(f)
    /\ unheard' = IF Usable(c, f) THEN missed ELSE {}
    /\ served' = cache'.rows

(* As it would be if a patch left the time of the next lapse alone.        *)
NotedRowsOnly(c, f, b) ==
    IF c = NoCache THEN c
    ELSE [c EXCEPT !.rows = (@ \ {b}) \cup ({b} \cap OnList(f)), !.print = StoreFingerprint(f)]

(* noteWrite: the written board's rows, and the whole store's fingerprint. *)
Noted(c, f, b) ==
    IF c = NoCache THEN c
    ELSE [c EXCEPT !.rows = (@ \ {b}) \cup ({b} \cap OnList(f)),
                   !.lapseAt = Min({@, NextLapse(f, {b})}),
                   !.print = StoreFingerprint(f)]

Written(b, due) == [file EXCEPT ![b] = [version |-> @.version + 1, due |-> due]]

Store(b, f) ==
    /\ stores < MaxStores
    /\ stores' = stores + 1
    /\ file' = f
    /\ UNCHANGED clock

-----------------------------------------------------------------------------
GetWaiting ==
    /\ Respond(cache, file, unheard)
    /\ UNCHANGED <<clock, file, stores>>

(* A post, a Send, an abandon, a wait's end: written, noted, published.    *)
StoreBoard(b) ==
    \E due \in {0} \cup (clock + 1) .. MaxClock :
        LET f == Written(b, due)
        IN  /\ Store(b, f)
            /\ Respond(Noted(cache, f, b), f, unheard \ {b})

(* publishDeadlineMove: no count moved, so none is published.              *)
MoveDeadline(b) ==
    /\ b \in OnList(file)
    /\ \E due \in (file[b].due + 1) .. MaxClock :
         LET f == Written(b, due)
         IN  /\ Store(b, f)
             /\ cache' = Noted(cache, f, b)
             /\ unheard' = IF cache = NoCache THEN unheard ELSE unheard \ {b}
    /\ UNCHANGED served

(* recordDelivery's write, which moves no row and is not noted.            *)
StoreMark(b) ==
    /\ file[b].version > 0
    /\ Store(b, Written(b, file[b].due))
    /\ UNCHANGED <<cache, served, unheard>>

(* A write nobody noted: another process's, or a route's whose page could  *)
(* not be written after the board was.                                     *)
StoreUnheard(b) ==
    \E due \in {0} \cup (clock + 1) .. MaxClock :
        /\ Store(b, Written(b, due))
        /\ unheard' = unheard \cup {b}
        /\ UNCHANGED <<cache, served>>

(* POST /api/store/prune deletes closed boards and resets the cache.       *)
PruneStore(b) ==
    /\ file[b].version > 0 /\ b \notin OnList(file)
    /\ Store(b, [file EXCEPT ![b] = NoFile])
    /\ cache' = NoCache
    /\ unheard' = {}
    /\ UNCHANGED served

ClockTicks ==
    /\ clock < MaxClock
    /\ clock' = clock + 1
    /\ UNCHANGED <<file, cache, served, unheard, stores>>

CacheNext ==
    \/ GetWaiting \/ ClockTicks
    \/ \E b \in Stored : \/ StoreBoard(b) \/ MoveDeadline(b) \/ StoreMark(b)
                        \/ StoreUnheard(b) \/ PruneStore(b)

CacheSpec == CacheInit /\ [][CacheNext]_cacheVars

-----------------------------------------------------------------------------
CacheTypeOK ==
    /\ clock \in 0 .. MaxClock
    /\ file \in [Stored -> [version : 0 .. MaxStores, due : 0 .. MaxClock]]
    /\ \/ cache = NoCache
       \/ cache \in [print : [Stored -> 0 .. MaxStores], lapseAt : 1 .. Never,
                     rows : SUBSET Stored]
    /\ served \subseteq Stored /\ unheard \subseteq Stored
    /\ stores \in 0 .. MaxStores

(* Rows that may still be served tell the store as a walk would find it,   *)
(* lapses included, but for a board whose last write was not noted before  *)
(* another board's was (createWaitingCache: noteWrite adopts the whole     *)
(* store's fingerprint).                                                   *)
RowsAreTrue ==
    Usable(cache, file) => \A b \in Stored \ unheard : b \in cache.rows <=> b \in OnList(file)

=============================================================================
