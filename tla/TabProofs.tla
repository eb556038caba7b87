------------------------------ MODULE TabProofs ------------------------------
(***************************************************************************)
(* Proofs about the reviewer's tab: its page loses no comment and no       *)
(* catch-up takes its board back, and on the shared stream the daemon      *)
(* learns whether the tab is attended and the tab hears of every push.     *)
(***************************************************************************)
EXTENDS Page, Stream, FiniteSetTheorems, FunctionTheorems, SequenceTheorems,
        WellFoundedInduction, TLAPS

-----------------------------------------------------------------------------
(* The shared stream: its invariant. *)

TabRec == [is : {"unborn", "live", "gone"}, focus : BOOLEAN, watcher : Nat,
           epoch : Nat, seen : 0 .. MaxPushes, unread : BOOLEAN]
Entry == [held : BOOLEAN, reg : Nat, watcher : Nat, pending : Nat]
Frame ==
    [type : {"stream"}] \cup [type : {"watcher"}, watcher : Nat \ {0}, tab : Tab]
    \cup [type : {"push"}, watcher : Nat, version : Nat]
Post ==
    [type : {"watch"}, tab : Tab, reg : Nat, sid : Nat, answer : Nat,
     at : {"sent", "done"}]
    \cup [type : {"beat"}, unknown : SUBSET Nat, sid : Nat]
ReportRec == [tab : Tab, watcher : Nat, attends : {"yes", "no"}, epoch : Nat]

Typed ==
    /\ StreamTypeOK
    /\ frames \in Seq(Frame)
    /\ posts \subseteq Post
    /\ reports \subseteq ReportRec
    /\ issued \in [watchers : Nat, streams : Nat]

(* What is on its way down the stream.                                     *)
OnWire == {frames[k] : k \in DOMAIN frames}

(* Minted once, of a stream minted once.                                   *)
IdsSound ==
    /\ \A w \in watchers : w.id \in 1 .. issued.watchers /\ w.stream \in 1 .. issued.streams
    /\ \A w, x \in watchers : w.id = x.id => w = x
    /\ conn \in 0 .. issued.streams
    /\ streams \subseteq 1 .. issued.streams
    /\ IsFiniteSet(watchers)

(* Somebody holds the Watcher i to be the tab's.                           *)
Mentions(t, i) ==
    \/ tab[t].watcher = i \/ worker[t].watcher = i
    \/ \E r \in reports : r.tab = t /\ r.watcher = i
    \/ \E p \in posts : p.type = "watch" /\ p.tab = t /\ p.answer = i
    \/ \E f \in OnWire : f.type = "watcher" /\ f.tab = t /\ f.watcher = i

(* A Watcher is one tab's, whoever speaks of it.                           *)
Names ==
    \A t \in Tab, i \in Nat :
       Mentions(t, i) =>
          /\ i <= issued.watchers
          /\ \A w \in watchers : w.id = i => w.tab = t

(* A tab counts its reports from its first Watcher on.                     *)
Epochs ==
    \A t \in Tab :
       /\ tab[t].watcher = 0 <=> tab[t].epoch = 0
       /\ tab[t].is = "unborn" => tab[t].watcher = 0

(* A tab's latest report says what is the case, to its Watcher.            *)
ReportsSound ==
    \A r \in reports :
       /\ r.epoch \in 1 .. tab[r.tab].epoch
       /\ r.epoch = tab[r.tab].epoch =>
             r.watcher = tab[r.tab].watcher /\ r.attends = Attends(r.tab)

(* A Watcher that has heard the latest one knows.                          *)
SeqSound ==
    \A w \in watchers :
       /\ w.seq <= tab[w.tab].epoch
       /\ (w.seq = tab[w.tab].epoch /\ w.seq # 0) =>
             tab[w.tab].watcher = w.id /\ w.attended = Attends(w.tab)

(* And the tab's Watcher has, or will: the latest is not given up.         *)
Landing ==
    \A w \in watchers :
       (tab[w.tab].is = "live" /\ tab[w.tab].watcher = w.id) =>
          \/ w.seq = tab[w.tab].epoch
          \/ \E r \in reports : r.tab = w.tab /\ r.epoch = tab[w.tab].epoch

SeenSound ==
    /\ \A t \in Tab : tab[t].seen <= version
    /\ \A f \in OnWire : f.type = "push" => f.version \in 1 .. version

(* A tab whose Watcher the worker knows has seen the board, or will, or    *)
(* failed to read it again.                                                *)
Reaches ==
    \A t \in Tab, w \in watchers :
       (tab[t].is = "live" /\ worker[t].held /\ worker[t].watcher = w.id /\ w.stream = conn) =>
          \/ tab[t].unread
          \/ tab[t].seen = version
          \/ \E f \in OnWire : f.type = "push" /\ f.watcher = w.id /\ f.version = version

Attending == Epochs /\ ReportsSound /\ SeqSound /\ Landing
Reaching == SeenSound /\ Reaches
StreamInv == Typed /\ IdsSound /\ Names /\ Attending /\ Reaching

-----------------------------------------------------------------------------
(* The operators the stream's steps are built from. *)

(* Ids in order are each of them, once.                                    *)
LEMMA AscendingFacts ==
    ASSUME NEW ids, ids \subseteq Nat, IsFiniteSet(ids)
    PROVE  /\ Ascending(ids) \in Seq(ids)
           /\ \A i \in ids : \E k \in DOMAIN Ascending(ids) : Ascending(ids)[k] = i
<1> DEFINE n == Cardinality(ids)
           Upto(i) == {j \in ids : j <= i}
           rank == [i \in ids |-> Cardinality(Upto(i))]
<1>1. n \in Nat
  BY FS_CardinalityType
<1>2. ASSUME NEW i \in ids
      PROVE  IsFiniteSet(Upto(i)) /\ Cardinality(Upto(i)) \in 1 .. n
  <2>1. IsFiniteSet(Upto(i)) /\ Cardinality(Upto(i)) <= n
    <3>1. Upto(i) \in SUBSET ids
      OBVIOUS
    <3> HIDE DEF Upto
    <3> QED
      BY <3>1, FS_Subset
  <2>2. Upto(i) # {}
    OBVIOUS
  <2> HIDE DEF Upto
  <2>3. Cardinality(Upto(i)) \in Nat /\ Cardinality(Upto(i)) # 0
    BY <2>1, <2>2, FS_CardinalityType, FS_EmptySet
  <2> QED
    BY <1>1, <2>1, <2>3
<1>3. ASSUME NEW i \in ids, NEW j \in ids, i < j
      PROVE  Cardinality(Upto(i)) # Cardinality(Upto(j))
  <2>1. Upto(i) \in SUBSET Upto(j) /\ Upto(i) # Upto(j)
    <3>1. \A x \in ids : x \in Int
      OBVIOUS
    <3>2. \A x \in ids : x <= i => x <= j
      BY <1>3, <3>1
    <3>3. j \in Upto(j) /\ j \notin Upto(i)
      BY <1>3, <3>1
    <3> QED
      BY <3>2, <3>3
  <2>2. IsFiniteSet(Upto(j))
    BY <1>2
  <2> HIDE DEF Upto
  <2> QED
    BY <2>1, <2>2, FS_Subset
<1>4. rank \in Injection(ids, 1 .. n)
  <2>1. rank \in [ids -> 1 .. n]
    BY <1>2
  <2>2. ASSUME NEW i \in ids, NEW j \in ids, rank[i] = rank[j]
        PROVE  i = j
    <3>1. ~(i < j) /\ ~(j < i)
      BY <1>3, <2>2
    <3> QED
      BY <3>1
  <2> HIDE DEF rank
  <2> QED
    BY <2>1, <2>2 DEF Injection, IsInjective
<1>5. IsFiniteSet(1 .. n) /\ Cardinality(1 .. n) = n
  <2>1. n \in Int /\ 1 \in Int
    BY <1>1
  <2>2. IsFiniteSet(1 .. n) /\ Cardinality(1 .. n) = IF 1 > n THEN 0 ELSE n - 1 + 1
    BY <2>1, FS_Interval
  <2> QED
    BY <1>1, <2>2
<1>6. rank \in Surjection(ids, 1 .. n)
  <2> HIDE DEF rank
  <2> QED
    BY <1>4, <1>5, FS_Injection DEF n
<1>7. \A k \in 1 .. n : \E i \in ids : Cardinality(Upto(i)) = k
  BY <1>6 DEF Surjection
<1> DEFINE Kth(k) == CHOOSE i \in ids : Cardinality({j \in ids : j <= i}) = k
<1>8. \A k \in 1 .. n : Kth(k) \in ids /\ Cardinality(Upto(Kth(k))) = k
  BY <1>7
<1>9. Ascending(ids) = [k \in 1 .. n |-> Kth(k)]
  BY DEF Ascending
<1> HIDE DEF Kth
<1>10. Ascending(ids) \in [1 .. n -> ids]
  BY <1>8, <1>9
<1>11. Ascending(ids) \in Seq(ids)
  BY <1>1, <1>10
<1>12. ASSUME NEW i \in ids
       PROVE  \E k \in DOMAIN Ascending(ids) : Ascending(ids)[k] = i
  <2> DEFINE k == Cardinality(Upto(i))
  <2>1. k \in 1 .. n
    BY <1>2
  <2>2. Kth(k) \in ids /\ Cardinality(Upto(Kth(k))) = k
    BY <1>8, <2>1
  <2>3. Kth(k) = i
    <3> DEFINE j == Kth(k)
    <3>1. Cardinality(Upto(j)) = Cardinality(Upto(i))
      BY <2>2
    <3> HIDE DEF j, Upto
    <3>2. j \in ids
      BY <2>2 DEF j
    <3>3. ~(i < j) /\ ~(j < i)
      BY <1>3, <3>1, <3>2
    <3>4. j \in Int /\ i \in Int
      BY <3>2
    <3> QED
      BY <3>3, <3>4 DEF j
  <2> HIDE DEF k
  <2> QED
    BY <1>9, <2>1, <2>3
<1> QED
  BY <1>11, <1>12

LEMMA UnheldType == Unheld \in Entry /\ Unheld.watcher = 0 /\ ~Unheld.held /\ Unheld.pending = 0
  BY DEF Unheld, Entry

LEMMA PendingFacts ==
    ASSUME NEW wk \in [Tab -> Entry], NEW sid \in Nat
    PROVE  /\ Pending(wk, sid) \in [Tab -> Entry]
           /\ \A t \in Tab : /\ Pending(wk, sid)[t].held = wk[t].held
                             /\ Pending(wk, sid)[t].watcher = wk[t].watcher
<1>1. ASSUME NEW t \in Tab
      PROVE  /\ [wk[t] EXCEPT !.pending = sid] \in Entry
             /\ [wk[t] EXCEPT !.pending = sid].held = wk[t].held
             /\ [wk[t] EXCEPT !.pending = sid].watcher = wk[t].watcher
  BY DEF Entry
<1> QED
  BY <1>1 DEF Pending

LEMMA WatchPostsFacts ==
    ASSUME NEW wk \in [Tab -> Entry], NEW sid \in Nat
    PROVE  /\ WatchPosts(wk, sid) \subseteq Post
           /\ \A p \in WatchPosts(wk, sid) : p.type = "watch" /\ p.answer = 0
<1>1. ASSUME NEW t \in Wanting(wk, sid)
      PROVE  [type |-> "watch", tab |-> t, reg |-> wk[t].reg, sid |-> sid, answer |-> 0,
              at |-> "sent"] \in Post
  <2>1. t \in Tab /\ wk[t].reg \in Nat
    BY DEF Wanting, Entry
  <2> QED
    BY <2>1 DEF Post
<1> QED
  BY <1>1 DEF WatchPosts

LEMMA OnWireTail ==
    ASSUME Typed, frames # <<>>, frames' = Tail(frames)
    PROVE  /\ frames' \in Seq(Frame)
           /\ OnWire' \subseteq OnWire
           /\ \A f \in OnWire : f \in OnWire' \/ f = Head(frames)
           /\ Head(frames) \in OnWire /\ Head(frames) \in Frame
<1>1. frames \in Seq(Frame) /\ Len(frames) \in Nat \ {0} /\ DOMAIN frames = 1 .. Len(frames)
  BY DEF Typed
<1>2. /\ frames' \in Seq(Frame) /\ DOMAIN frames' = 1 .. (Len(frames) - 1)
      /\ \A k \in 1 .. (Len(frames) - 1) : frames'[k] = frames[k + 1]
  BY <1>1
<1>3. Head(frames) = frames[1] /\ 1 \in DOMAIN frames
  BY <1>1
<1>4. OnWire' \subseteq OnWire
  <2>1. \A k \in DOMAIN frames' : k + 1 \in DOMAIN frames /\ frames'[k] = frames[k + 1]
    BY <1>1, <1>2
  <2> QED
    BY <2>1 DEF OnWire
<1>5. ASSUME NEW k \in DOMAIN frames, k # 1
      PROVE  frames[k] \in OnWire'
  <2>1. k - 1 \in DOMAIN frames' /\ frames'[k - 1] = frames[k]
    BY <1>1, <1>2, <1>5
  <2> QED
    BY <2>1 DEF OnWire
<1>6. Head(frames) \in Frame
  BY <1>1, <1>3
<1> QED
  BY <1>2, <1>3, <1>4, <1>5, <1>6 DEF OnWire

LEMMA OnWireAppend ==
    ASSUME Typed, NEW f \in Frame, frames' = Append(frames, f)
    PROVE  frames' \in Seq(Frame) /\ OnWire' = OnWire \cup {f}
<1>1. frames \in Seq(Frame) /\ Len(frames) \in Nat /\ DOMAIN frames = 1 .. Len(frames)
  BY DEF Typed
<1>2. /\ frames' \in Seq(Frame) /\ DOMAIN frames' = 1 .. (Len(frames) + 1)
      /\ frames'[Len(frames) + 1] = f
      /\ \A k \in 1 .. Len(frames) : frames'[k] = frames[k]
  BY <1>1
<1>3. \A k \in DOMAIN frames : k \in DOMAIN frames' /\ frames'[k] = frames[k]
  BY <1>1, <1>2
<1>4. \A k \in DOMAIN frames' : k \in DOMAIN frames \/ k = Len(frames) + 1
  BY <1>1, <1>2
<1>5. Len(frames) + 1 \in DOMAIN frames'
  BY <1>1, <1>2
<1> QED
  BY <1>2, <1>3, <1>4, <1>5 DEF OnWire

LEMMA OnWireConcat ==
    ASSUME Typed, NEW more \in Seq(Frame), frames' = frames \o more
    PROVE  /\ frames' \in Seq(Frame)
           /\ OnWire' = OnWire \cup {more[k] : k \in DOMAIN more}
<1>1. /\ frames \in Seq(Frame) /\ Len(frames) \in Nat /\ DOMAIN frames = 1 .. Len(frames)
      /\ Len(more) \in Nat /\ DOMAIN more = 1 .. Len(more)
  BY DEF Typed
<1>2. /\ frames' \in Seq(Frame) /\ DOMAIN frames' = 1 .. (Len(frames) + Len(more))
      /\ \A k \in 1 .. (Len(frames) + Len(more)) :
           frames'[k] = IF k <= Len(frames) THEN frames[k] ELSE more[k - Len(frames)]
  BY <1>1
<1>3. \A k \in DOMAIN frames : k \in DOMAIN frames' /\ frames'[k] = frames[k]
  BY <1>1, <1>2
<1>4. \A k \in DOMAIN more :
        k + Len(frames) \in DOMAIN frames' /\ frames'[k + Len(frames)] = more[k]
  BY <1>1, <1>2
<1>5. \A k \in DOMAIN frames' :
        \/ k \in DOMAIN frames /\ frames'[k] = frames[k]
        \/ k - Len(frames) \in DOMAIN more /\ frames'[k] = more[k - Len(frames)]
  BY <1>1, <1>2
<1>6. ASSUME NEW f, f \in OnWire'
      PROVE  f \in OnWire \cup {more[k] : k \in DOMAIN more}
  <2>1. PICK k \in DOMAIN frames' : f = frames'[k]
    BY <1>6 DEF OnWire
  <2> QED
    BY <1>5, <2>1 DEF OnWire
<1>7. OnWire \cup {more[k] : k \in DOMAIN more} \subseteq OnWire'
  BY <1>3, <1>4 DEF OnWire
<1> QED
  BY <1>2, <1>6, <1>7

-----------------------------------------------------------------------------
(* What leaves the stream's invariant alone. *)

(* No name is spoken but those that were, and 0, which is no Watcher's.    *)
LEMMA NamesKept ==
    ASSUME StreamInv, issued'.watchers = issued.watchers,
           \A w \in watchers' :
              w.id # 0 /\ \E x \in watchers : x.id = w.id /\ x.tab = w.tab,
           \A t \in Tab, i \in Nat : Mentions(t, i)' => i = 0 \/ Mentions(t, i)
    PROVE  Names'
<1>1. issued.watchers \in Nat
  BY DEF StreamInv, Typed
<1>2. ASSUME NEW t \in Tab, NEW i \in Nat, Mentions(t, i)'
      PROVE  i <= issued.watchers /\ \A w \in watchers' : w.id = i => w.tab = t
  <2>1. CASE i = 0
    BY <1>1, <2>1
  <2>2. CASE Mentions(t, i)
    <3>1. i <= issued.watchers /\ \A w \in watchers : w.id = i => w.tab = t
      BY <2>2 DEF StreamInv, Names
    <3> QED
      BY <3>1
  <2> QED
    BY <1>2, <2>1, <2>2
<1> QED
  BY <1>2 DEF Names

LEMMA AttendingKept ==
    ASSUME StreamInv, reports' = reports, watchers' \subseteq watchers,
           \A t \in Tab : /\ tab'[t].is = tab[t].is /\ tab'[t].focus = tab[t].focus
                          /\ tab'[t].watcher = tab[t].watcher
                          /\ tab'[t].epoch = tab[t].epoch
    PROVE  Attending'
<1>1. /\ \A w \in watchers : w.tab \in Tab
      /\ \A r \in reports : r.tab \in Tab
  BY DEF StreamInv, Typed, StreamTypeOK, Watcher, ReportRec
<1>2. \A t \in Tab : Attends(t)' = Attends(t)
  BY DEF Attends
<1>3. Epochs'
  BY DEF StreamInv, Attending, Epochs
<1>4. ReportsSound'
  BY <1>1, <1>2 DEF StreamInv, Attending, ReportsSound
<1>5. SeqSound'
  BY <1>1, <1>2 DEF StreamInv, Attending, SeqSound
<1>6. Landing'
  BY <1>1 DEF StreamInv, Attending, Landing
<1> QED
  BY <1>3, <1>4, <1>5, <1>6 DEF Attending

(* Everybody has seen the board, or failed to, or has no less ahead of it  *)
(* than before.                                                            *)
LEMMA ReachingKept ==
    ASSUME StreamInv, version' = version, conn' = conn,
           \A t \in Tab :
              \/ tab'[t].seen = version
              \/ /\ tab'[t].seen = tab[t].seen
                 /\ tab'[t].unread = tab[t].unread \/ tab'[t].unread
                 /\ \/ tab'[t].unread
                    \/ tab'[t].is # "live"
                    \/ worker'[t].watcher = 0
                    \/ /\ tab'[t].is = tab[t].is
                       /\ worker'[t].watcher = worker[t].watcher
                       /\ worker'[t].held => worker[t].held,
           \A w \in watchers' :
              w.id # 0 /\ \E x \in watchers : x.id = w.id /\ x.stream = w.stream,
           OnWire' \subseteq OnWire,
           \A f \in OnWire : f.type = "push" => f \in OnWire'
    PROVE  Reaching'
<1>1. version \in Nat
  BY DEF StreamInv, Typed, StreamTypeOK
<1>2. SeenSound'
  BY <1>1 DEF StreamInv, Reaching, SeenSound
<1>3. ASSUME NEW t \in Tab, NEW w \in watchers', tab'[t].is = "live", worker'[t].held,
             worker'[t].watcher = w.id, w.stream = conn
      PROVE  \/ tab'[t].unread
             \/ tab'[t].seen = version
             \/ \E f \in OnWire' : f.type = "push" /\ f.watcher = w.id /\ f.version = version
  <2>1. PICK x \in watchers : w.id # 0 /\ x.id = w.id /\ x.stream = w.stream
    OBVIOUS
  <2>2. CASE tab'[t].seen # version /\ ~tab'[t].unread
    <3>1. /\ tab[t].is = "live" /\ worker[t].held /\ worker[t].watcher = x.id
          /\ x.stream = conn /\ tab'[t].seen = tab[t].seen /\ ~tab[t].unread
      BY <1>3, <2>1, <2>2
    <3>2. \/ tab[t].seen = version
          \/ \E f \in OnWire : f.type = "push" /\ f.watcher = x.id /\ f.version = version
      BY <3>1 DEF StreamInv, Reaching, Reaches
    <3> QED
      BY <2>1, <2>2, <3>1, <3>2
  <2> QED
    BY <2>2
<1>4. Reaches'
  BY <1>3 DEF Reaches
<1> QED
  BY <1>2, <1>4 DEF Reaching

LEMMA IdsKept ==
    ASSUME StreamInv, issued' = issued, watchers' \subseteq watchers,
           streams' \subseteq streams, conn' \in {0, conn}
    PROVE  IdsSound'
<1>1. IsFiniteSet(watchers')
  BY FS_Subset DEF StreamInv, IdsSound
<1>2. conn' \in 0 .. issued.streams
  BY DEF StreamInv, IdsSound, Typed
<1> QED
  BY <1>1, <1>2 DEF StreamInv, IdsSound

(* A step of the worker's that learns no Watcher, or of the daemon's that  *)
(* mints none.                                                             *)
Quiet ==
    /\ UNCHANGED <<tab, reports, conn, version, issued>>
    /\ watchers' \subseteq watchers
    /\ streams' \subseteq streams
    /\ worker' \in [Tab -> Entry]
    /\ \A t \in Tab : \/ worker'[t].watcher = 0
                      \/ worker'[t].watcher = worker[t].watcher
                         /\ (worker'[t].held => worker[t].held)
    /\ frames' \in Seq(Frame)
    /\ OnWire' \subseteq OnWire
    /\ \A f \in OnWire : f.type = "push" => f \in OnWire'
    /\ posts' \subseteq Post
    /\ \A p \in posts' : p \in posts \/ (p.type = "watch" => p.answer = 0)
    /\ streamId' \in {0, conn}
    /\ edges' \in 0 .. MaxEdges /\ losses' \in 0 .. MaxLosses

LEMMA FrameTypes ==
    ASSUME NEW fs \in Seq(Frame)
    PROVE  \A k \in DOMAIN fs : fs[k].type \in {"stream", "watcher", "push"}
<1>1. \A k \in DOMAIN fs : fs[k] \in Frame
  OBVIOUS
<1>2. \A f \in Frame : f.type \in {"stream", "watcher", "push"}
  BY DEF Frame
<1> QED
  BY <1>1, <1>2

LEMMA PostTypes == \A p \in Post : p.type \in {"watch", "beat"}
  BY DEF Post

LEMMA ReportTypes == \A r \in ReportRec : r.tab \in Tab /\ r.attends \in {"yes", "no"}
  BY DEF ReportRec

(* The types, of the parts a step assigns.                                 *)
LEMMA TypedAfter ==
    ASSUME tab' \in [Tab -> TabRec], worker' \in [Tab -> Entry], conn' \in Nat,
           streamId' \in {0, conn'}, frames' \in Seq(Frame), posts' \subseteq Post,
           reports' \subseteq ReportRec, streams' \in SUBSET Nat,
           watchers' \subseteq Watcher, version' \in 0 .. MaxPushes,
           edges' \in 0 .. MaxEdges, losses' \in 0 .. MaxLosses,
           issued' \in [watchers : Nat, streams : Nat]
    PROVE  Typed'
<1>1. /\ \A p \in posts' : p.type \in {"watch", "beat"}
      /\ \A r \in reports' : r.tab \in Tab /\ r.attends \in {"yes", "no"}
  BY PostTypes, ReportTypes
<1>2. \A k \in DOMAIN frames' : frames'[k].type \in {"stream", "watcher", "push"}
  BY FrameTypes
<1> QED
  BY <1>1, <1>2 DEF Typed, StreamTypeOK, TabRec, Entry

LEMMA TypedParts ==
    ASSUME Typed
    PROVE  /\ tab \in [Tab -> TabRec] /\ worker \in [Tab -> Entry] /\ conn \in Nat
           /\ streamId \in {0, conn} /\ frames \in Seq(Frame) /\ posts \subseteq Post
           /\ reports \subseteq ReportRec /\ streams \in SUBSET Nat
           /\ watchers \subseteq Watcher /\ version \in 0 .. MaxPushes
           /\ edges \in 0 .. MaxEdges /\ losses \in 0 .. MaxLosses
           /\ issued \in [watchers : Nat, streams : Nat]
           /\ issued.watchers \in Nat /\ issued.streams \in Nat /\ streamId \in Nat
  BY DEF Typed, StreamTypeOK, TabRec, Entry

LEMMA QuietKeeps ==
    ASSUME StreamInv, Quiet
    PROVE  StreamInv'
<1>1. Typed
  BY DEF StreamInv
<1>2. Typed'
  <2>1. /\ tab' \in [Tab -> TabRec] /\ worker' \in [Tab -> Entry] /\ conn' \in Nat
        /\ streamId' \in {0, conn'} /\ frames' \in Seq(Frame) /\ posts' \subseteq Post
        /\ reports' \subseteq ReportRec /\ streams' \in SUBSET Nat
        /\ watchers' \subseteq Watcher /\ version' \in 0 .. MaxPushes
        /\ edges' \in 0 .. MaxEdges /\ losses' \in 0 .. MaxLosses
        /\ issued' \in [watchers : Nat, streams : Nat]
    BY <1>1, TypedParts DEF Quiet
  <2> QED
    BY <2>1, TypedAfter
<1>3. IdsSound'
  BY IdsKept DEF Quiet
<1>4. \A w \in watchers' : w \in watchers /\ w.id # 0
  BY DEF Quiet, StreamInv, IdsSound
<1>5. ASSUME NEW t \in Tab, NEW i \in Nat, Mentions(t, i)'
      PROVE  i = 0 \/ Mentions(t, i)
  BY <1>5 DEF Quiet, Mentions
<1>6. Names'
  BY <1>4, <1>5, NamesKept DEF Quiet
<1>7. Attending'
  BY AttendingKept DEF Quiet
<1>8. Reaching'
  BY <1>4, ReachingKept DEF Quiet
<1> QED
  BY <1>2, <1>3, <1>6, <1>7, <1>8 DEF StreamInv

-----------------------------------------------------------------------------
(* The quiet steps. *)

LEMMA RegisterFacts ==
    ASSUME Typed, NEW wk \in [Tab -> Entry], NEW standing \in SUBSET Post,
           Register(wk, standing)
    PROVE  /\ worker' \in [Tab -> Entry]
           /\ \A t \in Tab : worker'[t].held = wk[t].held /\ worker'[t].watcher = wk[t].watcher
           /\ posts' \subseteq Post
           /\ \A p \in posts' : p \in standing \/ p.answer = 0
<1>1. streamId \in Nat
  BY TypedParts
<1> QED
  BY <1>1, PendingFacts, WatchPostsFacts DEF Register

LEMMA Lost ==
    ASSUME Typed, Loss
    PROVE  losses' \in 0 .. MaxLosses
<1>1. losses \in 0 .. MaxLosses /\ MaxLosses \in Nat
  BY TypedParts, StreamBounds
<1> QED
  BY <1>1 DEF Loss

LEMMA UnwatchShrinks == \A t : Unwatch(t) \subseteq watchers
  BY DEF Unwatch

(* The worker's entry of a tab it lets go of, or holds anew.               *)
LEMMA LetGo ==
    ASSUME Typed, NEW t \in Tab, NEW entry \in Entry, entry.watcher = 0
    PROVE  /\ [worker EXCEPT ![t] = entry] \in [Tab -> Entry]
           /\ \A u \in Tab : \/ [worker EXCEPT ![t] = entry][u].watcher = 0
                             \/ [worker EXCEPT ![t] = entry][u] = worker[u]
<1>1. worker \in [Tab -> Entry]
  BY TypedParts
<1> QED
  BY <1>1

LEMMA HeldAnew ==
    ASSUME NEW reg \in Nat
    PROVE  /\ [Unheld EXCEPT !.held = TRUE, !.reg = reg] \in Entry
           /\ [Unheld EXCEPT !.held = TRUE, !.reg = reg].watcher = 0
  BY DEF Unheld, Entry

LEMMA BeatsKeeps ==
    ASSUME StreamInv, NEW t \in Tab, Beats(t)
    PROVE  StreamInv'
<1> DEFINE entry == [Unheld EXCEPT !.held = TRUE, !.reg = worker[t].reg + 1]
           wk == [worker EXCEPT ![t] = entry]
<1>1. Typed
  BY DEF StreamInv
<1>2. entry \in Entry /\ entry.watcher = 0
  <2>1. worker[t].reg + 1 \in Nat
    BY <1>1, TypedParts DEF Entry
  <2> QED
    BY <2>1, HeldAnew
<1>3. Register(wk, posts)
  BY DEF Beats
<1> HIDE DEF entry
<1>4. /\ wk \in [Tab -> Entry]
      /\ \A u \in Tab : wk[u].watcher = 0 \/ wk[u] = worker[u]
  BY <1>1, <1>2, LetGo
<1> HIDE DEF wk
<1>5. /\ worker' \in [Tab -> Entry]
      /\ \A u \in Tab : worker'[u].held = wk[u].held /\ worker'[u].watcher = wk[u].watcher
      /\ posts' \subseteq Post
      /\ \A p \in posts' : p \in posts \/ p.answer = 0
  <2>1. posts \in SUBSET Post
    BY <1>1, TypedParts
  <2> QED
    BY <1>1, <1>3, <1>4, <2>1, RegisterFacts
<1>6. \A u \in Tab : \/ worker'[u].watcher = 0
                     \/ worker'[u].watcher = worker[u].watcher
                        /\ (worker'[u].held => worker[u].held)
  BY <1>4, <1>5
<1>7. UNCHANGED <<tab, conn, streamId, frames, reports, streams, issued, version, edges>>
  BY DEF Beats
<1>8. watchers' \subseteq watchers
  BY UnwatchShrinks DEF Beats
<1>9. losses' \in 0 .. MaxLosses
  BY <1>1, Lost, TypedParts DEF Beats
<1>10. Quiet
  BY <1>1, <1>5, <1>6, <1>7, <1>8, <1>9, TypedParts DEF Quiet, OnWire
<1> QED
  BY <1>10, QuietKeeps

LEMMA DropTabKeeps ==
    ASSUME StreamInv, NEW t \in Tab, DropTab(t)
    PROVE  StreamInv'
<1> DEFINE entry == [Unheld EXCEPT !.reg = worker[t].reg]
<1>1. Typed
  BY DEF StreamInv
<1>2. entry \in Entry /\ entry.watcher = 0
  <2>1. worker[t].reg \in Nat
    BY <1>1, TypedParts DEF Entry
  <2> QED
    BY <2>1 DEF Entry, Unheld
<1>3. worker' = [worker EXCEPT ![t] = entry]
  BY DEF DropTab
<1> HIDE DEF entry
<1>4. /\ worker' \in [Tab -> Entry]
      /\ \A u \in Tab : worker'[u].watcher = 0 \/ worker'[u] = worker[u]
  BY <1>1, <1>2, <1>3, LetGo
<1>5. UNCHANGED <<tab, conn, streamId, frames, posts, reports, streams, issued, version,
                  edges>>
  BY DEF DropTab
<1>6. watchers' \subseteq watchers /\ losses' \in 0 .. MaxLosses
  BY <1>1, Lost, TypedParts, UnwatchShrinks DEF DropTab
<1>7. \A u \in Tab : \/ worker'[u].watcher = 0
                     \/ worker'[u].watcher = worker[u].watcher
                        /\ (worker'[u].held => worker[u].held)
  BY <1>4
<1>8. Quiet
  BY <1>1, <1>4, <1>5, <1>6, <1>7, TypedParts DEF Quiet, OnWire
<1> QED
  BY <1>8, QuietKeeps

LEMMA IntervalKeeps ==
    ASSUME StreamInv, Interval
    PROVE  StreamInv'
<1> DEFINE beaten == {worker[t].watcher : t \in {u \in Tab : worker[u].held}} \ {0}
           unknown == beaten \ {w.id : w \in {x \in watchers : x.stream = streamId}}
           answer == [type |-> "beat", unknown |-> unknown, sid |-> streamId]
           more == IF unknown = {} \/ streamId \notin streams THEN {} ELSE {answer}
           standing == posts \cup more
<1>1. Typed
  BY DEF StreamInv
<1>2. Register(worker, standing)
      /\ UNCHANGED <<tab, conn, streamId, frames, reports, streams, watchers, issued,
                     version, edges, losses>>
  BY DEF Interval
<1>3. worker \in [Tab -> Entry] /\ posts \subseteq Post /\ streamId \in Nat
  BY <1>1, TypedParts
<1>4. unknown \in SUBSET Nat
  BY <1>3 DEF Entry
<1> HIDE DEF unknown, beaten
<1>5. answer \in Post /\ answer.type = "beat"
  BY <1>3, <1>4 DEF Post
<1> HIDE DEF answer
<1>6. standing \in SUBSET Post /\ \A p \in standing : p \in posts \/ p.type = "beat"
  BY <1>3, <1>5
<1> HIDE DEF standing
<1>7. /\ worker' \in [Tab -> Entry]
      /\ \A t \in Tab : worker'[t].held = worker[t].held
                        /\ worker'[t].watcher = worker[t].watcher
      /\ posts' \subseteq Post
      /\ \A p \in posts' : p \in standing \/ p.answer = 0
  BY <1>1, <1>2, <1>3, <1>6, RegisterFacts
<1>8. \A p \in posts' : p \in posts \/ (p.type = "watch" => p.answer = 0)
  BY <1>6, <1>7
<1>9. Quiet
  BY <1>1, <1>2, <1>7, <1>8, TypedParts DEF Quiet, OnWire
<1> QED
  BY <1>9, QuietKeeps

LEMMA FrameStreamKeeps ==
    ASSUME StreamInv, FrameStream
    PROVE  StreamInv'
<1> DEFINE wk == [t \in Tab |-> [worker[t] EXCEPT !.watcher = 0, !.pending = 0]]
<1>1. Typed
  BY DEF StreamInv
<1>2. /\ frames # <<>> /\ Head(frames).type = "stream" /\ frames' = Tail(frames)
      /\ streamId' = conn
      /\ worker' = Pending(wk, conn)
      /\ posts' = posts \cup WatchPosts(wk, conn)
      /\ UNCHANGED <<tab, conn, reports, streams, watchers, issued, version, edges, losses>>
  BY DEF FrameStream
<1>3. worker \in [Tab -> Entry] /\ posts \subseteq Post /\ conn \in Nat
  BY <1>1, TypedParts
<1>4. wk \in [Tab -> Entry] /\ \A t \in Tab : wk[t].watcher = 0
  <2>1. ASSUME NEW t \in Tab
        PROVE  /\ [worker[t] EXCEPT !.watcher = 0, !.pending = 0] \in Entry
               /\ [worker[t] EXCEPT !.watcher = 0, !.pending = 0].watcher = 0
    BY <1>3 DEF Entry
  <2> QED
    BY <2>1
<1> HIDE DEF wk
<1>5. worker' \in [Tab -> Entry] /\ \A t \in Tab : worker'[t].watcher = 0
  BY <1>2, <1>3, <1>4, PendingFacts
<1>6. posts' \subseteq Post /\ \A p \in posts' : p \in posts \/ p.answer = 0
  BY <1>2, <1>3, <1>4, WatchPostsFacts
<1>7. /\ frames' \in Seq(Frame) /\ OnWire' \subseteq OnWire
      /\ \A f \in OnWire : f.type = "push" => f \in OnWire'
  BY <1>1, <1>2, OnWireTail
<1>8. Quiet
  BY <1>1, <1>2, <1>5, <1>6, <1>7, TypedParts DEF Quiet
<1> QED
  BY <1>8, QuietKeeps

LEMMA BeatAnsweredKeeps ==
    ASSUME StreamInv, NEW p \in posts, BeatAnswered(p)
    PROVE  StreamInv'
<1> DEFINE lost == {t \in Tab : worker[t].held /\ worker[t].watcher \in p.unknown}
           wk == [t \in Tab |-> IF t \in lost THEN [worker[t] EXCEPT !.watcher = 0]
                                ELSE worker[t]]
           sid == IF lost = {} THEN 0 ELSE streamId
           next == [t \in Tab |-> IF t \in lost THEN Pending(wk, sid)[t] ELSE wk[t]]
           more == {q \in WatchPosts(wk, sid) : q.tab \in lost}
<1>1. Typed
  BY DEF StreamInv
<1>2. /\ \/ worker' = worker /\ posts' = posts \ {p}
         \/ worker' = next /\ posts' = (posts \ {p}) \cup more
      /\ UNCHANGED <<tab, conn, streamId, frames, reports, streams, watchers, issued,
                     version, edges, losses>>
  BY DEF BeatAnswered
<1>3. worker \in [Tab -> Entry] /\ posts \subseteq Post /\ streamId \in Nat
  BY <1>1, TypedParts
<1>4. sid \in Nat
  BY <1>3
<1>5. wk \in [Tab -> Entry] /\ \A t \in Tab : wk[t].watcher = 0 \/ wk[t] = worker[t]
  <2>1. ASSUME NEW t \in Tab
        PROVE  /\ [worker[t] EXCEPT !.watcher = 0] \in Entry
               /\ [worker[t] EXCEPT !.watcher = 0].watcher = 0
    BY <1>3 DEF Entry
  <2> HIDE DEF lost
  <2> QED
    BY <1>3, <2>1
<1> HIDE DEF sid, lost, wk
<1>6. /\ next \in [Tab -> Entry]
      /\ \A t \in Tab : \/ next[t].watcher = 0
                        \/ next[t].watcher = worker[t].watcher
                           /\ (next[t].held => worker[t].held)
  BY <1>4, <1>5, PendingFacts
<1>7. more \subseteq Post /\ \A q \in more : q.answer = 0
  BY <1>4, <1>5, WatchPostsFacts
<1> HIDE DEF next, more
<1>8. /\ worker' \in [Tab -> Entry]
      /\ \A t \in Tab : \/ worker'[t].watcher = 0
                        \/ worker'[t].watcher = worker[t].watcher
                           /\ (worker'[t].held => worker[t].held)
      /\ posts' \subseteq Post
      /\ \A q \in posts' : q \in posts \/ q.answer = 0
  BY <1>2, <1>3, <1>6, <1>7
<1>9. Quiet
  BY <1>1, <1>2, <1>8, TypedParts DEF Quiet, OnWire
<1> QED
  BY <1>9, QuietKeeps

(* A post settled lets the worker ask again, no more.                      *)
LEMMA SettledFacts ==
    ASSUME Typed, NEW p \in posts, p.type = "watch"
    PROVE  /\ Settled(p) \in [Tab -> Entry] /\ p.tab \in Tab /\ p.answer \in Nat
           /\ \A t \in Tab : /\ Settled(p)[t].held = worker[t].held
                             /\ Settled(p)[t].watcher = worker[t].watcher
<1>1. worker \in [Tab -> Entry] /\ p \in Post
  BY TypedParts
<1>2. p.tab \in Tab /\ p.answer \in Nat
  BY <1>1 DEF Post
<1> DEFINE left == IF worker[p.tab].reg = p.reg /\ worker[p.tab].pending = p.sid THEN 0
                   ELSE worker[p.tab].pending
           entry == [worker[p.tab] EXCEPT !.pending = left]
<1>3. Settled(p) = [worker EXCEPT ![p.tab] = entry]
  BY <1>1, <1>2 DEF Settled
<1>4. left \in Nat
  BY <1>1, <1>2 DEF Entry
<1> HIDE DEF left
<1>5. /\ entry \in Entry /\ entry.held = worker[p.tab].held
      /\ entry.watcher = worker[p.tab].watcher
  BY <1>1, <1>2, <1>4 DEF Entry
<1> HIDE DEF entry
<1> QED
  BY <1>1, <1>2, <1>3, <1>5

LEMMA PostFailsKeeps ==
    ASSUME StreamInv, NEW p \in posts, PostFails(p)
    PROVE  StreamInv'
<1>1. Typed
  BY DEF StreamInv
<1>2. /\ worker' = IF p.type = "watch" THEN Settled(p) ELSE worker
      /\ posts' = posts \ {p}
      /\ UNCHANGED <<tab, conn, streamId, frames, reports, streams, watchers, issued,
                     version, edges>>
      /\ losses' \in 0 .. MaxLosses
  BY <1>1, Lost DEF PostFails
<1>3. /\ worker' \in [Tab -> Entry]
      /\ \A t \in Tab : worker'[t].held = worker[t].held
                        /\ worker'[t].watcher = worker[t].watcher
  BY <1>1, <1>2, SettledFacts, TypedParts
<1>4. Quiet
  BY <1>1, <1>2, <1>3, TypedParts DEF Quiet, OnWire
<1> QED
  BY <1>4, QuietKeeps

LEMMA SweepKeeps ==
    ASSUME StreamInv, NEW w \in watchers, Sweep(w)
    PROVE  StreamInv'
<1>1. Typed
  BY DEF StreamInv
<1>2. /\ watchers' \subseteq watchers /\ losses' \in 0 .. MaxLosses
      /\ UNCHANGED <<tab, worker, conn, streamId, frames, posts, reports, streams, issued,
                     version, edges>>
  BY <1>1, Lost, TypedParts DEF Sweep
<1>3. Quiet
  BY <1>1, <1>2, TypedParts DEF Quiet, OnWire
<1> QED
  BY <1>3, QuietKeeps

LEMMA CloseStreamKeeps ==
    ASSUME StreamInv, NEW s \in streams, CloseStream(s)
    PROVE  StreamInv'
<1>1. Typed
  BY DEF StreamInv
<1>2. /\ watchers' \subseteq watchers /\ streams' \subseteq streams
      /\ UNCHANGED <<tab, worker, conn, streamId, frames, posts, reports, issued, version,
                     edges, losses>>
  BY DEF CloseStream
<1>3. Quiet
  BY <1>1, <1>2, TypedParts DEF Quiet, OnWire
<1> QED
  BY <1>3, QuietKeeps

-----------------------------------------------------------------------------
(* The tabs' steps. *)

(* A tab becomes another record, under the names it had.                   *)
LEMMA TabBecomes ==
    ASSUME StreamInv, NEW t \in Tab, NEW next \in TabRec, tab' = [tab EXCEPT ![t] = next]
    PROVE  /\ tab' \in [Tab -> TabRec] /\ tab'[t] = next
           /\ \A u \in Tab : u # t => tab'[u] = tab[u]
  BY TypedParts DEF StreamInv

LEMMA MembersOf ==
    ASSUME StreamInv
    PROVE  /\ \A w \in watchers : w \in Watcher /\ w.tab \in Tab /\ w.id \in Nat \ {0}
                                  /\ w.seq \in Nat
           /\ \A r \in reports : r \in ReportRec /\ r.tab \in Tab /\ r.epoch \in Nat
                                 /\ r.watcher \in Nat
           /\ \A t \in Tab : tab[t] \in TabRec /\ worker[t] \in Entry
                             /\ tab[t].epoch \in Nat /\ tab[t].watcher \in Nat
                             /\ worker[t].watcher \in Nat
<1>1. /\ watchers \subseteq Watcher /\ reports \subseteq ReportRec
      /\ tab \in [Tab -> TabRec] /\ worker \in [Tab -> Entry]
  BY TypedParts DEF StreamInv
<1>2. \A w \in watchers : w.id # 0
  BY DEF StreamInv, IdsSound
<1> QED
  BY <1>1, <1>2 DEF Watcher, ReportRec, TabRec, Entry

LEMMA OpenKeeps ==
    ASSUME StreamInv, NEW t \in Tab, Open(t)
    PROVE  StreamInv'
<1>1. PICK focus \in BOOLEAN :
        tab' = [tab EXCEPT ![t] = [@ EXCEPT !.is = "live", !.focus = focus, !.seen = version]]
  BY DEF Open
<1> DEFINE next == [tab[t] EXCEPT !.is = "live", !.focus = focus, !.seen = version]
<1>2. /\ tab[t].is = "unborn" /\ tab[t].watcher = 0 /\ tab[t].epoch = 0
      /\ UNCHANGED <<worker, conn, streamId, frames, posts, reports, streams, watchers,
                     issued, version, edges, losses>>
  BY DEF Open, StreamInv, Attending, Epochs
<1>3. Typed /\ tab \in [Tab -> TabRec] /\ version \in 0 .. MaxPushes
  BY TypedParts DEF StreamInv
<1>4. /\ next \in TabRec /\ next.watcher = 0 /\ next.epoch = 0 /\ next.is = "live"
      /\ next.seen = version
  BY <1>2, <1>3 DEF TabRec
<1>5. tab' = [tab EXCEPT ![t] = next]
  BY <1>1, <1>3
<1> HIDE DEF next
<1>6. /\ tab' \in [Tab -> TabRec] /\ tab'[t] = next
      /\ \A u \in Tab : u # t => tab'[u] = tab[u]
  BY <1>4, <1>5, TabBecomes
<1>7. Typed'
  BY <1>2, <1>3, <1>6, TypedParts, TypedAfter
<1>8. IdsSound'
  BY <1>2 DEF StreamInv, IdsSound
<1>9. Names'
  <2>1. \A u \in Tab, i \in Nat : Mentions(u, i)' => Mentions(u, i)
    BY <1>2, <1>4, <1>6 DEF Mentions, OnWire
  <2> QED
    BY <1>2, <2>1, NamesKept, MembersOf
<1>10. Epochs'
  BY <1>4, <1>6 DEF StreamInv, Attending, Epochs
<1>11. \A u \in Tab : u # t => Attends(u)' = Attends(u)
  BY <1>6 DEF Attends
<1>12. ReportsSound'
  <2>1. \A r \in reports : r.tab # t
    BY <1>2 DEF StreamInv, Attending, ReportsSound
  <2> QED
    BY <1>2, <1>6, <1>11, <2>1, MembersOf DEF StreamInv, Attending, ReportsSound
<1>13. SeqSound'
  <2>1. ASSUME NEW w \in watchers, w.tab = t PROVE w.seq = 0
    BY <1>2, <2>1, MembersOf DEF StreamInv, Attending, SeqSound
  <2> QED
    BY <1>2, <1>4, <1>6, <1>11, <2>1, MembersOf DEF StreamInv, Attending, SeqSound
<1>14. Landing'
  BY <1>2, <1>4, <1>6, MembersOf DEF StreamInv, Attending, Landing
<1>15. Reaching'
  <2>1. OnWire' = OnWire
    BY <1>2 DEF OnWire
  <2> QED
    BY <1>2, <1>4, <1>6, <2>1, ReachingKept, MembersOf
<1> QED
  BY <1>7, <1>8, <1>9, <1>10, <1>12, <1>13, <1>14, <1>15 DEF StreamInv, Attending

LEMMA ShutKeeps ==
    ASSUME StreamInv, NEW t \in Tab, Shut(t)
    PROVE  StreamInv'
<1> DEFINE next == [tab[t] EXCEPT !.is = "gone"]
<1>1. /\ tab[t].is = "live"
      /\ UNCHANGED <<worker, conn, streamId, frames, posts, reports, streams, watchers,
                     issued, version, edges, losses>>
  BY DEF Shut
<1>2. Typed /\ tab \in [Tab -> TabRec]
  BY TypedParts DEF StreamInv
<1>3. /\ next \in TabRec /\ next.watcher = tab[t].watcher /\ next.epoch = tab[t].epoch
      /\ next.is = "gone" /\ next.focus = tab[t].focus /\ next.seen = tab[t].seen
      /\ next.unread = tab[t].unread
  BY <1>1, <1>2 DEF TabRec
<1>4. tab' = [tab EXCEPT ![t] = next]
  BY <1>2 DEF Shut
<1> HIDE DEF next
<1>5. /\ tab' \in [Tab -> TabRec] /\ tab'[t] = next
      /\ \A u \in Tab : u # t => tab'[u] = tab[u]
  BY <1>3, <1>4, TabBecomes
<1>6. \A u \in Tab : /\ tab'[u].watcher = tab[u].watcher /\ tab'[u].epoch = tab[u].epoch
                     /\ tab'[u].focus = tab[u].focus /\ tab'[u].seen = tab[u].seen
                     /\ tab'[u].unread = tab[u].unread
                     /\ tab'[u].is = tab[u].is \/ tab'[u].is = "gone"
                     /\ Attends(u)' = Attends(u)
  BY <1>3, <1>5 DEF Attends
<1>7. Typed'
  BY <1>1, <1>2, <1>5, TypedParts, TypedAfter
<1>8. IdsSound'
  BY <1>1 DEF StreamInv, IdsSound
<1>9. Names'
  <2>1. \A u \in Tab, i \in Nat : Mentions(u, i)' => Mentions(u, i)
    BY <1>1, <1>6 DEF Mentions, OnWire
  <2> QED
    BY <1>1, <2>1, NamesKept, MembersOf
<1>10. Epochs'
  BY <1>6 DEF StreamInv, Attending, Epochs
<1>11. ReportsSound'
  BY <1>1, <1>6, MembersOf DEF StreamInv, Attending, ReportsSound
<1>12. SeqSound'
  BY <1>1, <1>6, MembersOf DEF StreamInv, Attending, SeqSound
<1>13. Landing'
  BY <1>1, <1>6, MembersOf DEF StreamInv, Attending, Landing
<1>14. Reaching'
  <2>1. OnWire' = OnWire
    BY <1>1 DEF OnWire
  <2> QED
    BY <1>1, <1>6, <2>1, ReachingKept, MembersOf
<1> QED
  BY <1>7, <1>8, <1>9, <1>10, <1>11, <1>12, <1>13, <1>14 DEF StreamInv, Attending

(* A new report of t, of its next epoch, to its Watcher w, the one it had  *)
(* or a new one.                                                           *)
LEMMA ReportAttends ==
    ASSUME StreamInv, NEW t \in Tab, NEW next \in TabRec, NEW w \in Nat \ {0},
           tab' = [tab EXCEPT ![t] = next],
           tab[t].is = "live", next.is = "live",
           next.watcher = w, next.epoch = tab[t].epoch + 1,
           reports' = reports \cup
              {Report(t, w, IF next.focus THEN "yes" ELSE "no", next.epoch)},
           watchers' = watchers
    PROVE  Attending' /\ reports' \subseteq ReportRec
<1> DEFINE r == Report(t, w, IF next.focus THEN "yes" ELSE "no", next.epoch)
<1>1. /\ tab'[t] = next /\ \A u \in Tab : u # t => tab'[u] = tab[u]
  BY TabBecomes
<1>2. /\ tab[t].epoch \in Nat /\ next.epoch \in Nat
  BY MembersOf
<1>3. Attends(t)' = IF next.focus THEN "yes" ELSE "no"
  BY <1>1 DEF Attends
<1>4. \A u \in Tab : u # t => Attends(u)' = Attends(u)
  BY <1>1 DEF Attends
<1>5. /\ r.tab = t /\ r.watcher = w /\ r.attends = Attends(t)' /\ r.epoch = next.epoch
      /\ r \in ReportRec
  BY <1>2, <1>3 DEF Report, ReportRec
<1> HIDE DEF r
<1>6. reports' = reports \cup {r}
  BY DEF r
<1>7. reports' \subseteq ReportRec
  BY <1>5, <1>6, MembersOf
<1>8. Epochs'
  BY <1>1, <1>2 DEF StreamInv, Attending, Epochs
<1>9. ReportsSound'
  <2>1. ASSUME NEW q \in reports
        PROVE  /\ q.epoch \in 1 .. tab'[q.tab].epoch
               /\ q.epoch = tab'[q.tab].epoch =>
                     q.watcher = tab'[q.tab].watcher /\ q.attends = Attends(q.tab)'
    <3>1. /\ q.tab \in Tab /\ q.epoch \in 1 .. tab[q.tab].epoch
          /\ q.epoch = tab[q.tab].epoch =>
                q.watcher = tab[q.tab].watcher /\ q.attends = Attends(q.tab)
      BY MembersOf DEF StreamInv, Attending, ReportsSound
    <3>2. CASE q.tab = t
      BY <1>1, <1>2, <3>1, <3>2
    <3>3. CASE q.tab # t
      BY <1>1, <1>4, <3>1, <3>3
    <3> QED
      BY <3>2, <3>3
  <2>2. /\ r.epoch \in 1 .. tab'[r.tab].epoch
        /\ r.watcher = tab'[r.tab].watcher /\ r.attends = Attends(r.tab)'
    BY <1>1, <1>2, <1>5
  <2> QED
    BY <1>6, <2>1, <2>2 DEF ReportsSound
<1>10. SeqSound'
  <2>1. ASSUME NEW x \in watchers
        PROVE  /\ x.seq <= tab'[x.tab].epoch
               /\ (x.seq = tab'[x.tab].epoch /\ x.seq # 0) =>
                     tab'[x.tab].watcher = x.id /\ x.attended = Attends(x.tab)'
    <3>1. /\ x.tab \in Tab /\ x.seq \in Nat /\ x.seq <= tab[x.tab].epoch
          /\ (x.seq = tab[x.tab].epoch /\ x.seq # 0) =>
                tab[x.tab].watcher = x.id /\ x.attended = Attends(x.tab)
      BY MembersOf DEF StreamInv, Attending, SeqSound
    <3>2. CASE x.tab = t
      BY <1>1, <1>2, <3>1, <3>2
    <3>3. CASE x.tab # t
      BY <1>1, <1>4, <3>1, <3>3
    <3> QED
      BY <3>2, <3>3
  <2> QED
    BY <2>1 DEF SeqSound
<1>11. Landing'
  <2>1. ASSUME NEW x \in watchers, tab'[x.tab].is = "live", tab'[x.tab].watcher = x.id
        PROVE  \/ x.seq = tab'[x.tab].epoch
               \/ \E q \in reports' : q.tab = x.tab /\ q.epoch = tab'[x.tab].epoch
    <3>1. CASE x.tab = t
      BY <1>1, <1>5, <1>6, <3>1
    <3>2. CASE x.tab # t
      <4>1. /\ tab'[x.tab] = tab[x.tab]
        BY <1>1, <3>2, MembersOf
      <4>2. \/ x.seq = tab[x.tab].epoch
            \/ \E q \in reports : q.tab = x.tab /\ q.epoch = tab[x.tab].epoch
        BY <2>1, <4>1 DEF StreamInv, Attending, Landing
      <4> QED
        BY <1>6, <4>1, <4>2
    <3> QED
      BY <3>1, <3>2
  <2> QED
    BY <2>1 DEF Landing
<1> QED
  BY <1>7, <1>8, <1>9, <1>10, <1>11 DEF Attending

LEMMA EdgeKeeps ==
    ASSUME StreamInv, NEW t \in Tab, Edge(t)
    PROVE  StreamInv'
<1> DEFINE focus == ~tab[t].focus
           w == tab[t].watcher
           epoch == tab[t].epoch + 1
           told == Report(t, w, IF focus THEN "yes" ELSE "no", epoch)
<1>1. /\ tab[t].is = "live" /\ edges < MaxEdges /\ edges' = edges + 1
      /\ IF w = 0 THEN tab' = [tab EXCEPT ![t].focus = focus] /\ UNCHANGED reports
         ELSE /\ tab' = [tab EXCEPT ![t] = [@ EXCEPT !.focus = focus, !.epoch = epoch]]
              /\ reports' = reports \cup {told}
      /\ UNCHANGED <<worker, conn, streamId, frames, posts, streams, watchers, issued,
                     version, losses>>
  BY DEF Edge
<1>2. Typed /\ tab \in [Tab -> TabRec] /\ edges' \in 0 .. MaxEdges
  <2>1. edges \in 0 .. MaxEdges /\ MaxEdges \in Nat
    BY TypedParts, StreamBounds DEF StreamInv
  <2> QED
    BY <1>1, <2>1, TypedParts DEF StreamInv
<1>3. w \in Nat /\ epoch \in Nat /\ focus \in BOOLEAN /\ tab[t] \in TabRec
  BY <1>2, MembersOf DEF TabRec
<1>4. IdsSound'
  BY <1>1 DEF StreamInv, IdsSound
<1>5. OnWire' = OnWire
  BY <1>1 DEF OnWire
<1>6. CASE w = 0
  <2> DEFINE next == [tab[t] EXCEPT !.focus = focus]
  <2>1. tab' = [tab EXCEPT ![t] = next] /\ UNCHANGED reports
    BY <1>1, <1>2, <1>6
  <2> HIDE DEF focus
  <2>2. /\ next \in TabRec /\ next.watcher = 0 /\ next.epoch = tab[t].epoch
        /\ next.is = tab[t].is /\ next.seen = tab[t].seen /\ next.unread = tab[t].unread
    BY <1>3, <1>6 DEF TabRec
  <2> HIDE DEF next
  <2>3. /\ tab' \in [Tab -> TabRec] /\ tab'[t] = next
        /\ \A u \in Tab : u # t => tab'[u] = tab[u]
    BY <2>1, <2>2, TabBecomes
  <2>4. tab[t].epoch = 0
    BY <1>6 DEF StreamInv, Attending, Epochs
  <2>5. Typed'
    BY <1>1, <1>2, <2>1, <2>3, TypedParts, TypedAfter
  <2>6. Names'
    <3>1. \A u \in Tab, i \in Nat : Mentions(u, i)' => Mentions(u, i)
      BY <1>1, <1>5, <1>6, <2>1, <2>2, <2>3 DEF Mentions
    <3> QED
      BY <1>1, <3>1, NamesKept, MembersOf
  <2>7. Epochs'
    BY <1>6, <2>2, <2>3 DEF StreamInv, Attending, Epochs
  <2>8. \A u \in Tab : u # t => Attends(u)' = Attends(u)
    BY <2>3 DEF Attends
  <2>9. ReportsSound'
    <3>1. \A r \in reports : r.tab # t
      BY <2>4 DEF StreamInv, Attending, ReportsSound
    <3> QED
      BY <2>1, <2>3, <2>8, <3>1, MembersOf DEF StreamInv, Attending, ReportsSound
  <2>10. SeqSound'
    <3>1. ASSUME NEW x \in watchers, x.tab = t PROVE x.seq = 0
      BY <2>4, <3>1, MembersOf DEF StreamInv, Attending, SeqSound
    <3> QED
      BY <1>1, <2>2, <2>3, <2>4, <2>8, <3>1, MembersOf DEF StreamInv, Attending, SeqSound
  <2>11. Landing'
    BY <1>1, <2>1, <2>2, <2>3, MembersOf DEF StreamInv, Attending, Landing
  <2>12. Reaching'
    <3>1. \A u \in Tab : /\ tab'[u].seen = tab[u].seen /\ tab'[u].is = tab[u].is
                         /\ tab'[u].unread = tab[u].unread
      BY <2>2, <2>3
    <3> QED
      BY <1>1, <1>5, <3>1, ReachingKept, MembersOf
  <2> QED
    BY <1>4, <2>5, <2>6, <2>7, <2>9, <2>10, <2>11, <2>12 DEF StreamInv, Attending
<1>7. CASE w # 0
  <2> DEFINE next == [tab[t] EXCEPT !.focus = focus, !.epoch = epoch]
  <2>1. tab' = [tab EXCEPT ![t] = next] /\ reports' = reports \cup {told}
    BY <1>1, <1>2, <1>7
  <2> HIDE DEF focus, epoch
  <2>2. /\ next \in TabRec /\ next.watcher = w /\ next.epoch = epoch
        /\ next.is = tab[t].is /\ next.seen = tab[t].seen /\ next.focus = focus
        /\ next.unread = tab[t].unread
    BY <1>3 DEF TabRec
  <2> HIDE DEF next
  <2>3. /\ tab' \in [Tab -> TabRec] /\ tab'[t] = next
        /\ \A u \in Tab : u # t => tab'[u] = tab[u]
    BY <2>1, <2>2, TabBecomes
  <2>4. Attending' /\ reports' \subseteq ReportRec
    <3>1. next.is = "live" /\ next.epoch = tab[t].epoch + 1
      BY <1>1, <2>2 DEF epoch
    <3>2. told = Report(t, w, IF next.focus THEN "yes" ELSE "no", next.epoch)
      BY <2>2
    <3> HIDE DEF told, w
    <3>3. reports' = reports \cup {Report(t, w, IF next.focus THEN "yes" ELSE "no", next.epoch)}
      BY <2>1, <3>2
    <3>4. w \in Nat \ {0} /\ next \in TabRec /\ next.watcher = w
      BY <1>3, <1>7, <2>2
    <3> QED
      BY <1>1, <2>1, <3>1, <3>3, <3>4, ReportAttends
  <2>5. Typed'
    BY <1>1, <1>2, <2>3, <2>4, TypedParts, TypedAfter
  <2>6. told.tab = t /\ told.watcher = w
    BY DEF Report
  <2>7. Names'
    <3> HIDE DEF told
    <3>1. \A u \in Tab, i \in Nat : Mentions(u, i)' => Mentions(u, i)
      BY <1>1, <1>5, <2>1, <2>2, <2>3, <2>6 DEF Mentions
    <3> QED
      BY <1>1, <3>1, NamesKept, MembersOf
  <2>8. Reaching'
    <3>1. \A u \in Tab : /\ tab'[u].seen = tab[u].seen /\ tab'[u].is = tab[u].is
                         /\ tab'[u].unread = tab[u].unread
      BY <2>2, <2>3
    <3> QED
      BY <1>1, <1>5, <3>1, ReachingKept, MembersOf
  <2> QED
    BY <1>4, <2>4, <2>5, <2>7, <2>8 DEF StreamInv
<1> QED
  BY <1>6, <1>7

(* A report given up is not the latest of a tab that lives.                *)
LEMMA ReportFailsKeeps ==
    ASSUME StreamInv, NEW r \in reports, ReportFails(r)
    PROVE  StreamInv'
<1>1. /\ tab[r.tab].is # "live" \/ r.epoch # tab[r.tab].epoch
      /\ reports' = reports \ {r}
      /\ UNCHANGED <<tab, worker, conn, streamId, frames, posts, streams, watchers, issued,
                     version, edges, losses>>
  BY DEF ReportFails
<1>2. Typed'
  BY <1>1, TypedParts, TypedAfter DEF StreamInv
<1>3. IdsSound'
  BY <1>1 DEF StreamInv, IdsSound
<1>4. OnWire' = OnWire
  BY <1>1 DEF OnWire
<1>5. Names'
  <2>1. \A u \in Tab, i \in Nat : Mentions(u, i)' => Mentions(u, i)
    BY <1>1, <1>4 DEF Mentions
  <2> QED
    BY <1>1, <2>1, NamesKept, MembersOf
<1>6. Epochs' /\ ReportsSound' /\ SeqSound'
  BY <1>1 DEF StreamInv, Attending, Epochs, ReportsSound, SeqSound, Attends
<1>7. Landing'
  <2>1. ASSUME NEW x \in watchers, tab[x.tab].is = "live", tab[x.tab].watcher = x.id
        PROVE  \/ x.seq = tab[x.tab].epoch
               \/ \E q \in reports' : q.tab = x.tab /\ q.epoch = tab[x.tab].epoch
    <3>1. \/ x.seq = tab[x.tab].epoch
          \/ \E q \in reports : q.tab = x.tab /\ q.epoch = tab[x.tab].epoch
      BY <2>1 DEF StreamInv, Attending, Landing
    <3>2. \A q \in reports : (q.tab = x.tab /\ q.epoch = tab[x.tab].epoch) => q # r
      BY <1>1, <2>1
    <3> QED
      BY <1>1, <3>1, <3>2
  <2> QED
    BY <1>1, <2>1 DEF Landing
<1>8. Reaching'
  BY <1>1, <1>4, ReachingKept, MembersOf
<1> QED
  BY <1>2, <1>3, <1>5, <1>6, <1>7, <1>8 DEF StreamInv, Attending

-----------------------------------------------------------------------------
(* The worker's steps that learn a Watcher. *)

LEMMA AdoptFacts ==
    ASSUME StreamInv, NEW wk \in [Tab -> Entry], NEW t \in Tab, NEW w \in Nat \ {0},
           \A u \in Tab : wk[u].held = worker[u].held /\ wk[u].watcher = worker[u].watcher,
           Mentions(t, w), Adopt(wk, t, w),
           UNCHANGED <<watchers, conn, version, issued>>,
           OnWire' \subseteq OnWire, posts' \subseteq posts,
           \A f \in OnWire : f.type = "push" => f \in OnWire'
    PROVE  /\ worker' \in [Tab -> Entry] /\ tab' \in [Tab -> TabRec]
           /\ reports' \subseteq ReportRec
           /\ Names' /\ Attending' /\ Reaching'
<1> DEFINE entry == [wk[t] EXCEPT !.watcher = w]
           epoch == tab[t].epoch + 1
           heard == [tab[t] EXCEPT !.watcher = w, !.epoch = epoch]
           read == [heard EXCEPT !.seen = version, !.unread = FALSE]
           missed == [heard EXCEPT !.unread = TRUE]
           told == Report(t, w, Attends(t), epoch)
<1>1. /\ tab \in [Tab -> TabRec] /\ worker \in [Tab -> Entry] /\ reports \subseteq ReportRec
      /\ version \in 0 .. MaxPushes
  BY TypedParts DEF StreamInv
<1>2. /\ entry \in Entry /\ entry.held = wk[t].held /\ entry.watcher = w
  BY DEF Entry
<1>3. \/ worker' = wk /\ UNCHANGED <<tab, reports>>
      \/ /\ worker' = [wk EXCEPT ![t] = entry]
         /\ tab[t].is # "live" /\ UNCHANGED <<tab, reports>>
      \/ /\ worker' = [wk EXCEPT ![t] = entry]
         /\ tab[t].is = "live"
         /\ tab' = [tab EXCEPT ![t] = read] \/ tab' = [tab EXCEPT ![t] = missed]
         /\ reports' = reports \cup {told}
  <2>1. \/ worker' = wk /\ UNCHANGED <<tab, reports>>
        \/ /\ worker' = [wk EXCEPT ![t].watcher = w]
           /\ \/ tab[t].is # "live" /\ UNCHANGED <<tab, reports>>
              \/ /\ tab[t].is = "live"
                 /\ tab' = [tab EXCEPT ![t] = read] \/ tab' = [tab EXCEPT ![t] = missed]
                 /\ reports' = reports \cup {told}
    BY DEF Adopt, SeenOnOpen
  <2>2. [wk EXCEPT ![t].watcher = w] = [wk EXCEPT ![t] = entry]
    OBVIOUS
  <2> HIDE DEF entry, read, missed, told
  <2> QED
    BY <2>1, <2>2
<1> HIDE DEF entry
<1> DEFINE next == tab'[t]
<1>7. ASSUME tab[t].is = "live",
             tab' = [tab EXCEPT ![t] = read] \/ tab' = [tab EXCEPT ![t] = missed]
      PROVE  /\ tab' = [tab EXCEPT ![t] = next]
             /\ next \in TabRec /\ next.watcher = w /\ next.epoch = epoch
             /\ next.is = "live" /\ next.focus = tab[t].focus
             /\ \/ next.seen = version
                \/ next.unread /\ next.seen = tab[t].seen
  <2>1. epoch \in Nat
    BY MembersOf
  <2> HIDE DEF epoch
  <2>2. /\ read \in TabRec /\ read.watcher = w /\ read.epoch = epoch
        /\ read.is = "live" /\ read.focus = tab[t].focus /\ read.seen = version
    BY <1>1, <1>7, <2>1 DEF TabRec
  <2>3. /\ missed \in TabRec /\ missed.watcher = w /\ missed.epoch = epoch
        /\ missed.is = "live" /\ missed.focus = tab[t].focus
        /\ missed.unread /\ missed.seen = tab[t].seen
    BY <1>1, <1>7, <2>1 DEF TabRec
  <2> HIDE DEF read, missed
  <2>4. next = read \/ next = missed
    BY <1>1, <1>7
  <2>5. tab' = [tab EXCEPT ![t] = next]
    BY <1>7, <2>4
  <2> HIDE DEF next
  <2> QED
    BY <2>2, <2>3, <2>4, <2>5
<1> HIDE DEF read, missed
<1>4. /\ worker' \in [Tab -> Entry]
      /\ \A u \in Tab : /\ worker'[u].held = worker[u].held
                        /\ \/ worker'[u].watcher = worker[u].watcher
                           \/ /\ u = t /\ worker'[u].watcher = w
                              /\ (tab[t].is = "live" =>
                                    tab'[t].seen = version \/ tab'[t].unread)
  <2>1. \/ worker' = wk
        \/ /\ worker' = [wk EXCEPT ![t] = entry]
           /\ (tab[t].is = "live" => tab'[t].seen = version \/ tab'[t].unread)
    BY <1>3, <1>7
  <2> QED
    BY <1>2, <2>1
<1>5. CASE UNCHANGED <<tab, reports>>
  <2>1. Attending'
    BY <1>5, AttendingKept
  <2>2. Names'
    <3>1. \A u \in Tab, i \in Nat : Mentions(u, i)' => Mentions(u, i)
      BY <1>4, <1>5 DEF Mentions
    <3> QED
      BY <3>1, NamesKept, MembersOf
  <2>3. Reaching'
    <3>1. \A u \in Tab : \/ tab'[u].seen = version
                         \/ /\ tab'[u].seen = tab[u].seen
                            /\ tab'[u].unread = tab[u].unread
                            /\ \/ tab'[u].is # "live" \/ tab'[u].unread
                               \/ worker'[u].watcher = worker[u].watcher
                                  /\ tab'[u].is = tab[u].is
                                  /\ (worker'[u].held => worker[u].held)
      BY <1>4, <1>5
    <3> QED
      BY <3>1, ReachingKept, MembersOf
  <2> QED
    BY <1>1, <1>4, <1>5, <2>1, <2>2, <2>3
<1>6. CASE /\ tab[t].is = "live"
           /\ tab' = [tab EXCEPT ![t] = read] \/ tab' = [tab EXCEPT ![t] = missed]
           /\ reports' = reports \cup {told}
  <2>1. /\ next \in TabRec /\ next.watcher = w /\ next.epoch = tab[t].epoch + 1
        /\ next.is = "live" /\ next.focus = tab[t].focus
        /\ \/ next.seen = version
           \/ next.unread /\ next.seen = tab[t].seen
    BY <1>6, <1>7
  <2>2. told = Report(t, w, IF next.focus THEN "yes" ELSE "no", next.epoch)
    BY <2>1 DEF Attends
  <2>3. told.tab = t /\ told.watcher = w
    BY DEF Report
  <2>4. tab' = [tab EXCEPT ![t] = next]
    BY <1>6, <1>7
  <2> HIDE DEF next
  <2>5. /\ tab' \in [Tab -> TabRec] /\ tab'[t] = next
        /\ \A u \in Tab : u # t => tab'[u] = tab[u]
    BY <2>1, <2>4, TabBecomes
  <2> HIDE DEF told
  <2>6. reports' = reports \cup {Report(t, w, IF next.focus THEN "yes" ELSE "no", next.epoch)}
    BY <1>6, <2>2
  <2>7. Attending' /\ reports' \subseteq ReportRec
    BY <1>6, <2>1, <2>4, <2>6, ReportAttends
  <2>8. Names'
    <3>1. \A u \in Tab, i \in Nat : Mentions(u, i)' => Mentions(u, i)
      BY <1>4, <1>6, <2>1, <2>3, <2>5 DEF Mentions
    <3> QED
      BY <3>1, NamesKept, MembersOf
  <2>9. Reaching'
    <3>1. \A u \in Tab : \/ tab'[u].seen = version
                         \/ tab'[u].unread /\ tab'[u].seen = tab[u].seen
                         \/ /\ tab'[u] = tab[u]
                            /\ worker'[u].watcher = worker[u].watcher
                            /\ (worker'[u].held => worker[u].held)
      BY <1>4, <2>1, <2>5
    <3> QED
      BY <3>1, ReachingKept, MembersOf
  <2> QED
    BY <1>4, <2>5, <2>7, <2>8, <2>9
<1> QED
  BY <1>3, <1>5, <1>6

LEMMA FrameWatcherKeeps ==
    ASSUME StreamInv, FrameWatcher
    PROVE  StreamInv'
<1> DEFINE f == Head(frames)
<1>1. Typed
  BY DEF StreamInv
<1>2. /\ frames # <<>> /\ f.type = "watcher" /\ frames' = Tail(frames)
      /\ Adopt(worker, f.tab, f.watcher)
      /\ UNCHANGED <<conn, streamId, posts, streams, watchers, issued, version, edges, losses>>
  BY DEF FrameWatcher
<1>3. /\ frames' \in Seq(Frame) /\ OnWire' \subseteq OnWire
      /\ \A g \in OnWire : g \in OnWire' \/ g = f
      /\ f \in OnWire /\ f \in Frame
  BY <1>1, <1>2, OnWireTail
<1> HIDE DEF f
<1>4. f.tab \in Tab /\ f.watcher \in Nat \ {0}
  BY <1>2, <1>3 DEF Frame
<1>5. Mentions(f.tab, f.watcher)
  BY <1>2, <1>3 DEF Mentions
<1>6. \A g \in OnWire : g.type = "push" => g \in OnWire'
  BY <1>2, <1>3
<1>7. worker \in [Tab -> Entry]
  BY <1>1, TypedParts
<1>8. /\ worker' \in [Tab -> Entry] /\ tab' \in [Tab -> TabRec]
      /\ reports' \subseteq ReportRec
      /\ Names' /\ Attending' /\ Reaching'
  BY <1>2, <1>3, <1>4, <1>5, <1>6, <1>7, AdoptFacts
<1>9. Typed'
  BY <1>1, <1>2, <1>3, <1>8, TypedParts, TypedAfter
<1>10. IdsSound'
  BY <1>2 DEF StreamInv, IdsSound
<1> QED
  BY <1>8, <1>9, <1>10 DEF StreamInv

LEMMA WatchAnsweredKeeps ==
    ASSUME StreamInv, NEW p \in posts, WatchAnswered(p)
    PROVE  StreamInv'
<1>1. Typed
  BY DEF StreamInv
<1>2. /\ p.type = "watch"
      /\ \/ p.answer # 0 /\ Adopt(Settled(p), p.tab, p.answer)
         \/ worker' = Settled(p) /\ UNCHANGED <<tab, reports>>
      /\ posts' = posts \ {p}
      /\ UNCHANGED <<conn, streamId, frames, streams, watchers, issued, version, edges, losses>>
  BY DEF WatchAnswered
<1>3. /\ Settled(p) \in [Tab -> Entry] /\ p.tab \in Tab /\ p.answer \in Nat
      /\ \A t \in Tab : /\ Settled(p)[t].held = worker[t].held
                        /\ Settled(p)[t].watcher = worker[t].watcher
  BY <1>1, <1>2, SettledFacts
<1>4. OnWire' = OnWire
  BY <1>2 DEF OnWire
<1>5. CASE p.answer # 0 /\ Adopt(Settled(p), p.tab, p.answer)
  <2>1. Mentions(p.tab, p.answer)
    BY <1>2 DEF Mentions
  <2>2. /\ worker' \in [Tab -> Entry] /\ tab' \in [Tab -> TabRec]
        /\ reports' \subseteq ReportRec
        /\ Names' /\ Attending' /\ Reaching'
    <3>1. p.answer \in Nat \ {0}
      BY <1>3, <1>5
    <3> QED
      BY <1>2, <1>3, <1>4, <1>5, <2>1, <3>1, AdoptFacts
  <2>3. Typed'
    BY <1>1, <1>2, <2>2, TypedParts, TypedAfter
  <2>4. IdsSound'
    BY <1>2 DEF StreamInv, IdsSound
  <2> QED
    BY <2>2, <2>3, <2>4 DEF StreamInv
<1>6. CASE worker' = Settled(p) /\ UNCHANGED <<tab, reports>>
  <2>1. Quiet
    BY <1>1, <1>2, <1>3, <1>4, <1>6, TypedParts DEF Quiet
  <2> QED
    BY <2>1, QuietKeeps
<1> QED
  BY <1>2, <1>5, <1>6

-----------------------------------------------------------------------------
(* The stream comes and goes. *)

(* On a stream that no Watcher is of, nobody waits for a push.             *)
LEMMA AnewFacts ==
    ASSUME StreamInv, UNCHANGED <<tab, posts, reports, watchers, version>>,
           issued'.watchers = issued.watchers,
           \A w \in watchers : w.stream # conn',
           \A t \in Tab : worker'[t].watcher \in {0, worker[t].watcher},
           \A f \in OnWire' : f.type = "stream"
    PROVE  Names' /\ Attending' /\ Reaching'
<1>1. Names'
  <2>1. ASSUME NEW t \in Tab, NEW i \in Nat, Mentions(t, i)'
        PROVE  i = 0 \/ Mentions(t, i)
    BY <2>1 DEF Mentions
  <2> QED
    BY <2>1, NamesKept, MembersOf
<1>2. Attending'
  BY AttendingKept
<1>3. SeenSound'
  BY DEF StreamInv, Reaching, SeenSound
<1>4. Reaches'
  BY DEF Reaches
<1> QED
  BY <1>1, <1>2, <1>3, <1>4 DEF Reaching

LEMMA ConnectKeeps ==
    ASSUME StreamInv, Connect
    PROVE  StreamInv'
<1> DEFINE f == [type |-> "stream"]
<1>1. /\ conn' = issued.streams + 1
      /\ issued' = [issued EXCEPT !.streams = @ + 1]
      /\ streams' = streams \cup {conn'} /\ frames' = <<f>>
      /\ conn = 0
      /\ UNCHANGED <<tab, worker, streamId, posts, reports, watchers, version, edges, losses>>
  BY DEF Connect
<1>2. /\ issued \in [watchers : Nat, streams : Nat] /\ streams \in SUBSET Nat
      /\ issued.streams \in Nat
  BY TypedParts DEF StreamInv
<1>3. /\ issued' \in [watchers : Nat, streams : Nat] /\ issued'.watchers = issued.watchers
      /\ issued'.streams = issued.streams + 1
  BY <1>1, <1>2
<1>4. f \in Frame /\ f.type = "stream"
  BY DEF Frame
<1> HIDE DEF f
<1>5. frames' \in Seq(Frame) /\ \A g \in OnWire' : g.type = "stream"
  <2>1. frames' \in Seq(Frame) /\ DOMAIN frames' = {1} /\ frames'[1] = f
    BY <1>1, <1>4
  <2> QED
    BY <1>4, <2>1 DEF OnWire
<1>6. Typed'
  <2>1. streamId' \in {0, conn'}
    BY <1>1, TypedParts DEF StreamInv
  <2>2. conn' \in Nat /\ streams' \in SUBSET Nat
    BY <1>1, <1>2
  <2> QED
    BY <1>1, <1>3, <1>5, <2>1, <2>2, TypedParts, TypedAfter DEF StreamInv
<1>7. IdsSound'
  <2>1. /\ \A w \in watchers : w.id \in 1 .. issued.watchers
                               /\ w.stream \in 1 .. (issued.streams + 1)
        /\ conn' \in 0 .. (issued.streams + 1)
        /\ streams' \subseteq 1 .. (issued.streams + 1)
    BY <1>1, <1>2 DEF StreamInv, IdsSound
  <2> QED
    BY <1>1, <1>3, <2>1 DEF StreamInv, IdsSound
<1>8. \A w \in watchers : w.stream # conn'
  BY <1>1, <1>2 DEF StreamInv, IdsSound
<1>9. Names' /\ Attending' /\ Reaching'
  BY <1>1, <1>3, <1>5, <1>8, AnewFacts
<1> QED
  BY <1>6, <1>7, <1>9 DEF StreamInv

LEMMA NoFrames ==
    ASSUME frames' = <<>>
    PROVE  frames' \in Seq(Frame) /\ OnWire' = {}
  BY DEF OnWire

LEMMA DisconnectKeeps ==
    ASSUME StreamInv, Disconnect
    PROVE  StreamInv'
<1>1. /\ conn' = 0 /\ streamId' = 0 /\ frames' = <<>>
      /\ UNCHANGED <<tab, worker, posts, reports, streams, watchers, issued, version, edges>>
      /\ losses' \in 0 .. MaxLosses
  BY Lost DEF Disconnect, StreamInv
<1>2. Typed'
  BY <1>1, NoFrames, TypedParts, TypedAfter DEF StreamInv
<1>3. IdsSound'
  BY <1>1, IdsKept
<1>4. \A w \in watchers : w.stream # 0
  BY DEF StreamInv, IdsSound
<1>5. Names' /\ Attending' /\ Reaching'
  BY <1>1, <1>4, NoFrames, AnewFacts
<1> QED
  BY <1>2, <1>3, <1>5 DEF StreamInv

LEMMA WorkerEndsKeeps ==
    ASSUME StreamInv, WorkerEnds
    PROVE  StreamInv'
<1>1. /\ conn' = 0 /\ streamId' = 0 /\ frames' = <<>>
      /\ worker' = [t \in Tab |-> [Unheld EXCEPT !.reg = worker[t].reg]]
      /\ UNCHANGED <<tab, posts, reports, streams, watchers, issued, version, edges>>
      /\ losses' \in 0 .. MaxLosses
  BY Lost, TypedParts DEF WorkerEnds, StreamInv
<1>2. worker' \in [Tab -> Entry] /\ \A t \in Tab : worker'[t].watcher = 0
  <2>1. ASSUME NEW t \in Tab
        PROVE  /\ [Unheld EXCEPT !.reg = worker[t].reg] \in Entry
               /\ [Unheld EXCEPT !.reg = worker[t].reg].watcher = 0
    <3>1. worker[t].reg \in Nat
      BY MembersOf DEF Entry
    <3> QED
      BY <3>1 DEF Unheld, Entry
  <2> QED
    BY <1>1, <2>1
<1>3. Typed'
  BY <1>1, <1>2, NoFrames, TypedParts, TypedAfter DEF StreamInv
<1>4. IdsSound'
  BY <1>1, IdsKept
<1>5. \A w \in watchers : w.stream # 0
  BY DEF StreamInv, IdsSound
<1>6. Names' /\ Attending' /\ Reaching'
  BY <1>1, <1>2, <1>5, NoFrames, AnewFacts
<1> QED
  BY <1>3, <1>4, <1>6 DEF StreamInv

LEMMA FramePushKeeps ==
    ASSUME StreamInv, FramePush
    PROVE  StreamInv'
<1> DEFINE f == Head(frames)
           heard == {t \in Tab : /\ worker[t].held /\ worker[t].watcher = f.watcher
                                 /\ tab[t].is = "live"}
           next(t) == [tab[t] EXCEPT !.seen = f.version]
<1>1. Typed
  BY DEF StreamInv
<1>2. /\ frames # <<>> /\ f.type = "push" /\ frames' = Tail(frames)
      /\ tab' = [t \in Tab |-> IF t \in heard /\ tab[t].seen < f.version THEN next(t)
                               ELSE tab[t]]
      /\ UNCHANGED <<worker, conn, streamId, posts, reports, streams, watchers, issued,
                     version, edges, losses>>
  BY DEF FramePush
<1>3. /\ frames' \in Seq(Frame) /\ OnWire' \subseteq OnWire
      /\ \A g \in OnWire : g \in OnWire' \/ g = f
      /\ f \in OnWire /\ f \in Frame
  BY <1>1, <1>2, OnWireTail
<1> HIDE DEF f
<1>4. f.version \in 1 .. version /\ version \in 0 .. MaxPushes /\ MaxPushes \in Nat
  BY <1>1, <1>2, <1>3, TypedParts, StreamBounds DEF StreamInv, Reaching, SeenSound
<1>5. ASSUME NEW t \in Tab
      PROVE  /\ next(t) \in TabRec /\ next(t).seen = f.version
             /\ next(t).is = tab[t].is /\ next(t).focus = tab[t].focus
             /\ next(t).watcher = tab[t].watcher /\ next(t).epoch = tab[t].epoch
             /\ next(t).unread = tab[t].unread
  <2>1. f.version \in 0 .. MaxPushes /\ tab[t] \in TabRec
    BY <1>4, MembersOf
  <2> QED
    BY <2>1 DEF TabRec
<1> HIDE DEF next
<1>6. /\ tab' \in [Tab -> TabRec]
      /\ \A t \in Tab : /\ tab'[t].is = tab[t].is /\ tab'[t].focus = tab[t].focus
                        /\ tab'[t].watcher = tab[t].watcher
                        /\ tab'[t].epoch = tab[t].epoch
                        /\ tab'[t].unread = tab[t].unread
                        /\ tab'[t].seen = IF t \in heard /\ tab[t].seen < f.version
                                          THEN f.version ELSE tab[t].seen
  <2> HIDE DEF heard
  <2> QED
    BY <1>2, <1>5, MembersOf
<1>7. Typed'
  BY <1>1, <1>2, <1>3, <1>6, TypedParts, TypedAfter
<1>8. IdsSound'
  BY <1>2 DEF StreamInv, IdsSound
<1>9. Names'
  <2>1. \A u \in Tab, i \in Nat : Mentions(u, i)' => Mentions(u, i)
    BY <1>2, <1>3, <1>6 DEF Mentions
  <2> QED
    BY <1>2, <2>1, NamesKept, MembersOf
<1>10. Attending'
  BY <1>2, <1>6, AttendingKept
<1>11. \A t \in Tab : tab[t].seen \in 0 .. version
  <2>1. \A t \in Tab : tab[t].seen \in 0 .. MaxPushes /\ tab[t].seen <= version
    BY MembersOf DEF TabRec, StreamInv, Reaching, SeenSound
  <2> QED
    BY <1>4, <2>1
<1>12. SeenSound'
  <2>1. \A t \in Tab : tab'[t].seen <= version
    BY <1>4, <1>6, <1>11
  <2> QED
    BY <1>2, <1>3, <2>1 DEF StreamInv, Reaching, SeenSound
<1>13. Reaches'
  <2>1. ASSUME NEW t \in Tab, NEW w \in watchers, tab[t].is = "live", worker[t].held,
               worker[t].watcher = w.id, w.stream = conn
        PROVE  \/ tab'[t].unread
               \/ tab'[t].seen = version
               \/ \E g \in OnWire' : g.type = "push" /\ g.watcher = w.id /\ g.version = version
    <3>1. CASE tab[t].seen = version
      BY <1>4, <1>6, <3>1
    <3>2. CASE tab[t].seen # version /\ ~tab[t].unread
      <4>1. PICK g \in OnWire : g.type = "push" /\ g.watcher = w.id /\ g.version = version
        BY <2>1, <3>2 DEF StreamInv, Reaching, Reaches
      <4>2. CASE g \in OnWire'
        BY <4>1, <4>2
      <4>3. CASE g = f
        <5>1. t \in heard /\ f.version = version
          BY <2>1, <4>1, <4>3
        <5> QED
          BY <1>4, <1>6, <1>11, <3>2, <5>1
      <4> QED
        BY <1>3, <4>2, <4>3
    <3> QED
      BY <1>6, <3>1, <3>2
  <2> QED
    BY <1>2, <1>6, <2>1 DEF Reaches
<1> QED
  BY <1>7, <1>8, <1>9, <1>10, <1>12, <1>13 DEF StreamInv, Reaching

-----------------------------------------------------------------------------
(* The daemon's steps. *)

(* A Watcher just minted is nobody's yet.                                  *)
LEMMA HandleWatchKeeps ==
    ASSUME StreamInv, NEW p \in posts, HandleWatch(p)
    PROVE  StreamInv'
<1> DEFINE w == issued.watchers + 1
           x == [id |-> w, tab |-> p.tab, stream |-> p.sid, attended |-> "unknown", seq |-> 0]
           f == [type |-> "watcher", watcher |-> w, tab |-> p.tab]
           refused == [p EXCEPT !.at = "done"]
           answered == [p EXCEPT !.at = "done", !.answer = w]
<1>1. Typed
  BY DEF StreamInv
<1>2. /\ p.type = "watch" /\ p \in Post
      /\ UNCHANGED <<tab, worker, conn, streamId, reports, streams, version, edges, losses>>
  BY <1>1, TypedParts DEF HandleWatch
<1>3. /\ p.tab \in Tab /\ p.sid \in Nat
      /\ refused \in Post /\ refused.tab = p.tab /\ refused.answer = p.answer
  BY <1>2 DEF Post
<1>4. \/ posts' = (posts \ {p}) \cup {refused} /\ UNCHANGED <<watchers, issued, frames>>
      \/ /\ p.sid \in streams
         /\ issued' = [issued EXCEPT !.watchers = w]
         /\ watchers' = watchers \cup {x}
         /\ posts' = (posts \ {p}) \cup {answered}
         /\ frames' = IF p.sid # conn THEN frames ELSE Append(frames, f)
  BY DEF HandleWatch
<1>5. CASE posts' = (posts \ {p}) \cup {refused} /\ UNCHANGED <<watchers, issued, frames>>
  <2> HIDE DEF refused
  <2>1. OnWire' = OnWire
    BY <1>5 DEF OnWire
  <2>2. Typed'
    BY <1>1, <1>2, <1>3, <1>5, TypedParts, TypedAfter
  <2>3. IdsSound'
    BY <1>2, <1>5 DEF StreamInv, IdsSound
  <2>4. Names'
    <3>1. \A u \in Tab, i \in Nat : Mentions(u, i)' => Mentions(u, i)
      BY <1>2, <1>3, <1>5, <2>1 DEF Mentions
    <3> QED
      BY <1>5, <3>1, NamesKept, MembersOf
  <2>5. Attending'
    BY <1>2, <1>5, AttendingKept
  <2>6. Reaching'
    BY <1>2, <1>5, <2>1, ReachingKept, MembersOf
  <2> QED
    BY <2>2, <2>3, <2>4, <2>5, <2>6 DEF StreamInv
<1>6. CASE /\ p.sid \in streams
           /\ issued' = [issued EXCEPT !.watchers = w]
           /\ watchers' = watchers \cup {x}
           /\ posts' = (posts \ {p}) \cup {answered}
           /\ frames' = IF p.sid # conn THEN frames ELSE Append(frames, f)
  <2> HIDE DEF refused
  <2>1. /\ issued \in [watchers : Nat, streams : Nat] /\ issued.watchers \in Nat
        /\ w \in Nat \ {0} /\ w > issued.watchers
    BY <1>1, TypedParts
  <2>2. issued' \in [watchers : Nat, streams : Nat] /\ issued'.watchers = w
        /\ issued'.streams = issued.streams
    <3> HIDE DEF w
    <3> QED
      BY <1>6, <2>1
  <2>3. /\ x \in Watcher /\ x.id = w /\ x.tab = p.tab /\ x.stream = p.sid /\ x.seq = 0
    BY <1>3, <2>1 DEF Watcher
  <2>4. f \in Frame /\ f.type = "watcher" /\ f.tab = p.tab /\ f.watcher = w
    <3> HIDE DEF w
    <3> QED
      BY <1>3, <2>1 DEF Frame
  <2>5. answered \in Post /\ answered.tab = p.tab /\ answered.answer = w
    <3> HIDE DEF w
    <3> QED
      BY <1>2, <2>1 DEF Post
  <2> HIDE DEF x, f, answered
  <2>6. /\ frames' \in Seq(Frame)
        /\ \A g \in OnWire' : g \in OnWire \/ g = f
        /\ OnWire \subseteq OnWire'
    <3>1. CASE p.sid # conn
      BY <1>1, <1>6, <3>1, TypedParts DEF OnWire
    <3>2. CASE p.sid = conn
      <4>1. frames' = Append(frames, f)
        BY <1>6, <3>2
      <4> QED
        BY <1>1, <2>4, <4>1, OnWireAppend
    <3> QED
      BY <3>1, <3>2
  <2>7. \A u \in Tab, i \in Nat : Mentions(u, i) => i # w
    BY <2>1 DEF StreamInv, Names
  <2>8. \A y \in watchers : y.id # w
    BY <2>1 DEF StreamInv, IdsSound
  <2> HIDE DEF w
  <2>9. Typed'
    <3>1. posts' \subseteq Post /\ watchers' \subseteq Watcher
      BY <1>1, <1>6, <2>3, <2>5, TypedParts
    <3> QED
      BY <1>1, <1>2, <2>2, <2>6, <3>1, TypedParts, TypedAfter
  <2>10. IdsSound'
    <3>1. IsFiniteSet(watchers')
      BY <1>6, FS_AddElement DEF StreamInv, IdsSound
    <3>2. x.id \in 1 .. w /\ x.stream \in 1 .. issued.streams
      BY <1>6, <2>1, <2>3 DEF StreamInv, IdsSound
    <3>3. \A y \in watchers : y.id \in 1 .. w /\ y.stream \in 1 .. issued.streams
      BY <2>1 DEF StreamInv, IdsSound
    <3>4. \A y, z \in watchers' : y.id = z.id => y = z
      BY <1>6, <2>3, <2>8 DEF StreamInv, IdsSound
    <3> QED
      BY <1>2, <1>6, <2>2, <3>1, <3>2, <3>3, <3>4 DEF StreamInv, IdsSound
  <2>11. Names'
    <3>1. ASSUME NEW u \in Tab, NEW i \in Nat, Mentions(u, i)'
          PROVE  Mentions(u, i) \/ (u = p.tab /\ i = w)
      <4>1. CASE \E q \in posts' : q.type = "watch" /\ q.tab = u /\ q.answer = i
        BY <1>6, <2>5, <4>1 DEF Mentions
      <4>2. CASE \E g \in OnWire' : g.type = "watcher" /\ g.tab = u /\ g.watcher = i
        BY <2>4, <2>6, <4>2 DEF Mentions
      <4> QED
        BY <1>2, <3>1, <4>1, <4>2 DEF Mentions
    <3>2. ASSUME NEW u \in Tab, NEW i \in Nat, Mentions(u, i)
          PROVE  i <= w /\ \A y \in watchers' : y.id = i => y.tab = u
      <4>1. i <= issued.watchers /\ \A y \in watchers : y.id = i => y.tab = u
        BY <3>2 DEF StreamInv, Names
      <4> QED
        BY <1>6, <2>1, <2>3, <2>7, <3>2, <4>1
    <3>3. w <= w /\ \A y \in watchers' : y.id = w => y.tab = p.tab
      BY <1>6, <2>1, <2>3, <2>8
    <3> QED
      BY <2>2, <3>1, <3>2, <3>3 DEF Names
  <2>12. Epochs' /\ ReportsSound'
    BY <1>2 DEF StreamInv, Attending, Epochs, ReportsSound, Attends
  <2>13. SeqSound'
    <3>1. \A y \in watchers : y.seq <= tab[y.tab].epoch /\
            ((y.seq = tab[y.tab].epoch /\ y.seq # 0) =>
               tab[y.tab].watcher = y.id /\ y.attended = Attends(y.tab))
      BY DEF StreamInv, Attending, SeqSound
    <3>2. x.seq <= tab[x.tab].epoch
      BY <1>3, <2>3, MembersOf
    <3> QED
      BY <1>2, <1>6, <2>3, <3>1, <3>2 DEF SeqSound, Attends
  <2>14. \A u \in Tab : tab[u].watcher # w /\ worker[u].watcher # w
    BY <2>1, <2>7 DEF Mentions
  <2>15. Landing'
    <3>1. tab[x.tab].watcher # x.id
      BY <1>3, <2>3, <2>14
    <3> QED
      BY <1>2, <1>6, <3>1 DEF StreamInv, Attending, Landing
  <2>16. SeenSound'
    BY <1>2, <2>4, <2>6 DEF StreamInv, Reaching, SeenSound
  <2>17. Reaches'
    <3>1. \A u \in Tab : worker[u].watcher # x.id
      BY <2>3, <2>14
    <3> QED
      BY <1>2, <1>6, <2>6, <3>1 DEF StreamInv, Reaching, Reaches
  <2> QED
    BY <2>9, <2>10, <2>11, <2>12, <2>13, <2>15, <2>16, <2>17
       DEF StreamInv, Attending, Reaching
<1> QED
  BY <1>4, <1>5, <1>6

(* A push is addressed to every Watcher of the stream.                     *)
LEMMA PushBoardKeeps ==
    ASSUME StreamInv, PushBoard
    PROVE  StreamInv'
<1> DEFINE ids == {w.id : w \in {x \in watchers : x.stream = conn}}
           heard == Ascending(ids)
           next == version + 1
           more == [k \in DOMAIN heard |->
                      [type |-> "push", watcher |-> heard[k], version |-> next]]
<1>1. Typed
  BY DEF StreamInv
<1>2. /\ version < MaxPushes /\ version' = next
      /\ frames' = frames \o more
      /\ UNCHANGED <<tab, worker, conn, streamId, posts, reports, streams, watchers,
                     issued, edges, losses>>
  BY DEF PushBoard
<1>3. version \in Nat /\ next \in 1 .. MaxPushes /\ next > version /\ MaxPushes \in Nat
  BY <1>1, <1>2, TypedParts, StreamBounds
<1>4. ids \subseteq Nat /\ IsFiniteSet(ids)
  <2>1. ids \subseteq Nat
    BY MembersOf
  <2> DEFINE those == {x \in watchers : x.stream = conn}
  <2>2. IsFiniteSet(those)
    BY FS_Subset DEF StreamInv, IdsSound
  <2>3. IsFiniteSet({w.id : w \in those})
    <3> HIDE DEF those
    <3> DEFINE g == [w \in those |-> w.id]
    <3>1. g \in Surjection(those, {w.id : w \in those})
      BY DEF Surjection
    <3> HIDE DEF g
    <3> QED
      BY <2>2, <3>1, FS_Surjection
  <2> QED
    BY <2>1, <2>3
<1>5. \A w \in watchers : w.stream = conn => w.id \in ids
  OBVIOUS
<1> HIDE DEF ids
<1>6. heard \in Seq(ids) /\ \A i \in ids : \E k \in DOMAIN heard : heard[k] = i
  BY <1>4, AscendingFacts
<1> HIDE DEF heard
<1>7. /\ more \in Seq(Frame) /\ DOMAIN more = DOMAIN heard
      /\ \A k \in DOMAIN more :
           /\ more[k].type = "push" /\ more[k].watcher = heard[k] /\ more[k].version = next
  <2>1. \A k \in DOMAIN heard : heard[k] \in Nat
    <3>1. \A k \in DOMAIN heard : heard[k] \in ids
      <4>1. heard \in [1 .. Len(heard) -> ids]
        BY <1>6, LenProperties
      <4> QED
        BY <4>1
    <3> QED
      BY <1>4, <3>1
  <2>2. \A k \in DOMAIN heard :
          /\ [type |-> "push", watcher |-> heard[k], version |-> next] \in Frame
          /\ [type |-> "push", watcher |-> heard[k], version |-> next].type = "push"
    BY <1>3, <2>1 DEF Frame
  <2>3. DOMAIN heard = 1 .. Len(heard) /\ Len(heard) \in Nat
    BY <1>6
  <2>4. more \in [1 .. Len(heard) -> Frame]
    BY <2>2, <2>3
  <2> QED
    BY <2>3, <2>4
<1> HIDE DEF more, next
<1>8. frames' \in Seq(Frame) /\ OnWire' = OnWire \cup {more[k] : k \in DOMAIN more}
  BY <1>1, <1>2, <1>7, OnWireConcat
<1>9. Typed'
  <2>1. version' \in 0 .. MaxPushes
    BY <1>2, <1>3
  <2> QED
    BY <1>1, <1>2, <1>8, <2>1, TypedParts, TypedAfter
<1>10. IdsSound'
  BY <1>2 DEF StreamInv, IdsSound
<1>11. Names'
  <2>1. \A u \in Tab, i \in Nat : Mentions(u, i)' => Mentions(u, i)
    BY <1>2, <1>7, <1>8 DEF Mentions
  <2> QED
    BY <1>2, <2>1, NamesKept, MembersOf
<1>12. Attending'
  BY <1>2, AttendingKept
<1>13. SeenSound'
  <2>1. \A t \in Tab : tab[t].seen <= next
    <3>1. \A t \in Tab : tab[t].seen \in 0 .. MaxPushes /\ tab[t].seen <= version
      BY MembersOf DEF TabRec, StreamInv, Reaching, SeenSound
    <3> QED
      BY <1>3, <3>1
  <2>2. \A f \in OnWire : f.type = "push" => f.version \in 1 .. next
    BY <1>3 DEF StreamInv, Reaching, SeenSound
  <2>3. next \in 1 .. next
    BY <1>3
  <2> QED
    BY <1>2, <1>7, <1>8, <2>1, <2>2, <2>3 DEF SeenSound
<1>14. Reaches'
  <2>1. ASSUME NEW w \in watchers, w.stream = conn
        PROVE  \E f \in OnWire' : f.type = "push" /\ f.watcher = w.id /\ f.version = next
    <3>1. PICK k \in DOMAIN heard : heard[k] = w.id
      BY <1>5, <1>6, <2>1
    <3> QED
      BY <1>7, <1>8, <3>1
  <2> QED
    BY <1>2, <2>1 DEF Reaches
<1> QED
  BY <1>9, <1>10, <1>11, <1>12, <1>13, <1>14 DEF StreamInv, Reaching

(* The report that lands last is the latest, whatever the order.           *)
LEMMA HandleAttendedKeeps ==
    ASSUME StreamInv, NEW r \in reports, HandleAttended(r)
    PROVE  StreamInv'
<1> DEFINE Heard(w) == IF w.id = r.watcher /\ ~Overtaken(w, r)
                       THEN [w EXCEPT !.attended = r.attends, !.seq = r.epoch] ELSE w
<1>1. Typed
  BY DEF StreamInv
<1>2. /\ watchers' = {Heard(w) : w \in watchers}
      /\ reports' = reports \ {r}
      /\ UNCHANGED <<tab, worker, conn, streamId, frames, posts, streams, issued, version,
                     edges, losses>>
  BY DEF HandleAttended
<1>3. /\ r.tab \in Tab /\ r.epoch \in Nat /\ r.watcher \in Nat /\ r.attends \in {"yes", "no"}
      /\ r.epoch <= tab[r.tab].epoch
      /\ r.epoch = tab[r.tab].epoch =>
            r.watcher = tab[r.tab].watcher /\ r.attends = Attends(r.tab)
  BY MembersOf DEF ReportRec, StreamInv, Attending, ReportsSound
<1>4. ASSUME NEW w \in watchers
      PROVE  /\ Heard(w) \in Watcher /\ Heard(w).id = w.id /\ Heard(w).tab = w.tab
             /\ Heard(w).stream = w.stream
             /\ \/ Heard(w) = w /\ (w.id = r.watcher => r.epoch <= w.seq)
                \/ /\ Heard(w).seq = r.epoch /\ Heard(w).attended = r.attends
                   /\ w.id = r.watcher /\ w.seq < r.epoch
  <2> DEFINE told == [w EXCEPT !.attended = r.attends, !.seq = r.epoch]
  <2>1. w \in Watcher /\ w.seq \in Nat
    BY MembersOf
  <2>2. /\ told \in Watcher /\ told.id = w.id /\ told.tab = w.tab /\ told.stream = w.stream
        /\ told.seq = r.epoch /\ told.attended = r.attends
    BY <1>3, <2>1 DEF Watcher
  <2> HIDE DEF told
  <2>3. Heard(w) = IF w.id = r.watcher /\ ~(r.epoch <= w.seq) THEN told ELSE w
    BY DEF told, Overtaken
  <2>4. ~(r.epoch <= w.seq) => w.seq < r.epoch
    BY <1>3, <2>1
  <2> HIDE DEF Heard
  <2> QED
    BY <2>1, <2>2, <2>3, <2>4
<1> HIDE DEF Heard
<1>5. \A w \in watchers' : \E x \in watchers : w = Heard(x)
  BY <1>2
<1>6. \A w \in watchers' :
        w.id # 0 /\ \E x \in watchers : x.id = w.id /\ x.tab = w.tab /\ x.stream = w.stream
  BY <1>4, <1>5, MembersOf
<1>7. \A w \in watchers : w.id = r.watcher => w.tab = r.tab
  <2>1. Mentions(r.tab, r.watcher)
    BY DEF Mentions
  <2> QED
    BY <1>3, <2>1 DEF StreamInv, Names
<1>8. Typed'
  <2>1. watchers' \subseteq Watcher
    BY <1>4, <1>5
  <2>2. reports' \subseteq ReportRec
    BY <1>1, <1>2, TypedParts
  <2> QED
    BY <1>1, <1>2, <2>1, <2>2, TypedParts, TypedAfter
<1>9. IdsSound'
  <2>1. IsFiniteSet(watchers')
    <3> DEFINE g == [w \in watchers |-> Heard(w)]
    <3>1. g \in Surjection(watchers, watchers')
      BY <1>2 DEF Surjection
    <3> HIDE DEF g
    <3> QED
      BY <3>1, FS_Surjection DEF StreamInv, IdsSound
  <2>2. \A w, x \in watchers' : w.id = x.id => w = x
    BY <1>4, <1>5 DEF StreamInv, IdsSound
  <2>3. \A w \in watchers' : w.id \in 1 .. issued.watchers /\ w.stream \in 1 .. issued.streams
    BY <1>6 DEF StreamInv, IdsSound
  <2> QED
    BY <1>2, <2>1, <2>2, <2>3 DEF StreamInv, IdsSound
<1>10. OnWire' = OnWire
  BY <1>2 DEF OnWire
<1>11. Names'
  <2>1. \A u \in Tab, i \in Nat : Mentions(u, i)' => Mentions(u, i)
    BY <1>2, <1>10 DEF Mentions
  <2> QED
    BY <1>2, <1>6, <2>1, NamesKept
<1>12. \A u : Attends(u)' = Attends(u)
  BY <1>2 DEF Attends
<1>13. Epochs' /\ ReportsSound'
  BY <1>2, <1>12 DEF StreamInv, Attending, Epochs, ReportsSound
<1>14. SeqSound'
  <2>1. ASSUME NEW w \in watchers
        PROVE  /\ Heard(w).seq <= tab[w.tab].epoch
               /\ (Heard(w).seq = tab[w.tab].epoch /\ Heard(w).seq # 0) =>
                     tab[w.tab].watcher = w.id /\ Heard(w).attended = Attends(w.tab)
    <3>1. /\ w.seq <= tab[w.tab].epoch
          /\ (w.seq = tab[w.tab].epoch /\ w.seq # 0) =>
                tab[w.tab].watcher = w.id /\ w.attended = Attends(w.tab)
      BY DEF StreamInv, Attending, SeqSound
    <3>2. CASE Heard(w) = w
      BY <3>1, <3>2
    <3>3. CASE /\ Heard(w).seq = r.epoch /\ Heard(w).attended = r.attends
               /\ w.id = r.watcher
      <4>1. w.tab = r.tab
        BY <1>7, <3>3
      <4> QED
        BY <1>3, <3>3, <4>1
    <3> QED
      BY <1>4, <3>2, <3>3
  <2>2. ASSUME NEW x \in watchers'
        PROVE  /\ x.seq <= tab[x.tab].epoch
               /\ (x.seq = tab[x.tab].epoch /\ x.seq # 0) =>
                     tab[x.tab].watcher = x.id /\ x.attended = Attends(x.tab)
    <3>1. PICK w \in watchers : x = Heard(w)
      BY <1>5
    <3>2. x.tab = w.tab /\ x.id = w.id
      BY <1>4, <3>1
    <3> QED
      BY <2>1, <3>1, <3>2
  <2> QED
    BY <1>2, <1>12, <2>2 DEF SeqSound
<1>15. Landing'
  <2>1. ASSUME NEW w \in watchers, tab[w.tab].is = "live", tab[w.tab].watcher = w.id
        PROVE  \/ Heard(w).seq = tab[w.tab].epoch
               \/ \E q \in reports' : q.tab = w.tab /\ q.epoch = tab[w.tab].epoch
    <3>1. /\ w.seq \in Nat /\ w.tab \in Tab /\ tab[w.tab].epoch \in Nat
          /\ w.seq <= tab[w.tab].epoch
      BY MembersOf DEF StreamInv, Attending, SeqSound
    <3>2. CASE w.seq = tab[w.tab].epoch
      <4>1. w.id = r.watcher => r.epoch <= w.seq
        BY <1>3, <1>7, <3>2
      <4>2. Heard(w) = w
        BY <1>3, <1>4, <3>1, <4>1
      <4> QED
        BY <3>2, <4>2
    <3>3. CASE w.seq # tab[w.tab].epoch
      <4>1. PICK q \in reports : q.tab = w.tab /\ q.epoch = tab[w.tab].epoch
        BY <2>1, <3>3 DEF StreamInv, Attending, Landing
      <4>2. CASE q # r
        BY <1>2, <4>1, <4>2
      <4>3. CASE q = r
        <5>1. w.id = r.watcher /\ r.epoch = tab[w.tab].epoch
          BY <1>3, <2>1, <4>1, <4>3
        <5>2. ~(r.epoch <= w.seq)
          BY <3>1, <3>3, <5>1
        <5> QED
          BY <1>4, <5>1, <5>2
      <4> QED
        BY <4>2, <4>3
    <3> QED
      BY <3>2, <3>3
  <2>2. ASSUME NEW x \in watchers', tab[x.tab].is = "live", tab[x.tab].watcher = x.id
        PROVE  \/ x.seq = tab[x.tab].epoch
               \/ \E q \in reports' : q.tab = x.tab /\ q.epoch = tab[x.tab].epoch
    <3>1. PICK w \in watchers : x = Heard(w)
      BY <1>5
    <3>2. x.tab = w.tab /\ x.id = w.id
      BY <1>4, <3>1
    <3> QED
      BY <2>1, <2>2, <3>1, <3>2
  <2> QED
    BY <1>2, <2>2 DEF Landing
<1>16. Reaching'
  <2>1. \A u \in Tab : /\ tab'[u].seen = tab[u].seen /\ tab'[u].is = tab[u].is
                       /\ tab'[u].unread = tab[u].unread
    BY <1>2
  <2> QED
    BY <1>2, <1>6, <1>10, <2>1, ReachingKept
<1> QED
  BY <1>8, <1>9, <1>11, <1>13, <1>14, <1>15, <1>16 DEF StreamInv, Attending

-----------------------------------------------------------------------------
(* What holds of the shared stream. *)

LEMMA StreamStarts == StreamInit => StreamInv
<1> SUFFICES ASSUME StreamInit PROVE StreamInv
  OBVIOUS
<1>1. /\ tab = [t \in Tab |-> [is |-> "unborn", focus |-> FALSE, watcher |-> 0,
                               epoch |-> 0, seen |-> 0, unread |-> FALSE]]
      /\ worker = [t \in Tab |-> Unheld]
      /\ conn = 0 /\ streamId = 0 /\ frames = <<>>
      /\ posts = {} /\ reports = {} /\ streams = {} /\ watchers = {}
      /\ issued = [watchers |-> 0, streams |-> 0]
      /\ version = 0 /\ edges = 0 /\ losses = 0
  BY DEF StreamInit
<1>2. MaxPushes \in Nat /\ MaxEdges \in Nat /\ MaxLosses \in Nat
  BY StreamBounds
<1>3. Typed
  <2>1. tab \in [Tab -> TabRec]
    BY <1>1, <1>2 DEF TabRec
  <2>2. worker \in [Tab -> Entry]
    BY <1>1, UnheldType
  <2>3. frames \in Seq(Frame) /\ DOMAIN frames = {}
    BY <1>1
  <2> QED
    BY <1>1, <1>2, <2>1, <2>2, <2>3 DEF Typed, StreamTypeOK, TabRec, Entry
<1>4. OnWire = {}
  BY <1>1 DEF OnWire
<1>5. IdsSound
  BY <1>1, FS_EmptySet DEF IdsSound
<1>6. \A t \in Tab : /\ tab[t].watcher = 0 /\ tab[t].epoch = 0 /\ tab[t].seen = 0
                     /\ tab[t].is = "unborn" /\ worker[t].watcher = 0
  BY <1>1, UnheldType
<1>7. Names
  BY <1>1, <1>4, <1>6 DEF Names, Mentions
<1>8. Attending
  BY <1>1, <1>6 DEF Attending, Epochs, ReportsSound, SeqSound, Landing
<1>9. Reaching
  BY <1>1, <1>4, <1>6 DEF Reaching, SeenSound, Reaches
<1> QED
  BY <1>3, <1>5, <1>7, <1>8, <1>9 DEF StreamInv

LEMMA StreamStep == StreamInv /\ [StreamNext]_streamVars => StreamInv'
<1> SUFFICES ASSUME StreamInv, [StreamNext]_streamVars PROVE StreamInv'
  OBVIOUS
<1>1. CASE UNCHANGED streamVars
  BY <1>1 DEF streamVars, StreamInv, Typed, StreamTypeOK, OnWire, IdsSound, Mentions, Names,
     Attends, Attending, Epochs, ReportsSound, SeqSound, Landing, Reaching, SeenSound, Reaches
<1>2. CASE \E t \in Tab : Open(t) \/ Beats(t) \/ Edge(t) \/ Shut(t) \/ DropTab(t)
  BY <1>2, OpenKeeps, BeatsKeeps, EdgeKeeps, ShutKeeps, DropTabKeeps
<1>3. CASE \E r \in reports : ReportFails(r) \/ HandleAttended(r)
  BY <1>3, ReportFailsKeeps, HandleAttendedKeeps
<1>4. CASE Interval \/ Connect \/ Disconnect \/ WorkerEnds
  BY <1>4, IntervalKeeps, ConnectKeeps, DisconnectKeeps, WorkerEndsKeeps
<1>5. CASE FrameStream \/ FrameWatcher \/ FramePush
  BY <1>5, FrameStreamKeeps, FrameWatcherKeeps, FramePushKeeps
<1>6. CASE \E p \in posts :
             HandleWatch(p) \/ WatchAnswered(p) \/ BeatAnswered(p) \/ PostFails(p)
  BY <1>6, HandleWatchKeeps, WatchAnsweredKeeps, BeatAnsweredKeeps, PostFailsKeeps
<1>7. CASE \E w \in watchers : Sweep(w)
  BY <1>7, SweepKeeps
<1>8. CASE \E s \in streams : CloseStream(s)
  BY <1>8, CloseStreamKeeps
<1>9. CASE PushBoard
  BY <1>9, PushBoardKeeps
<1> QED
  BY <1>1, <1>2, <1>3, <1>4, <1>5, <1>6, <1>7, <1>8, <1>9 DEF StreamNext

(* The shared stream's inductive invariant: names are minted once and are  *)
(* one tab's, a tab's latest report is on its way until its Watcher knows  *)
(* it, and so is the last push of the board.                               *)
THEOREM StreamInvariance == StreamSpec => []StreamInv
  BY StreamStarts, StreamStep, PTL DEF StreamSpec

(* The stream's state is of its types.                                     *)
THEOREM StreamTypeCorrect == StreamSpec => []StreamTypeOK
<1>1. StreamInv => StreamTypeOK
  BY DEF StreamInv, Typed
<1> QED
  BY <1>1, StreamInvariance, PTL

(* Whatever the order a tab's reports arrive in, once none of its latest   *)
(* is in the air its Watcher is attended exactly while the tab is focused  *)
(* (setAttended, reportAttended).                                          *)
THEOREM AttendanceAlwaysSettles == StreamSpec => []AttendanceSettles
<1>1. StreamInv => AttendanceSettles
  <2> SUFFICES ASSUME StreamInv, NEW t \in Tab, NEW w \in watchers,
                      tab[t].is = "live", tab[t].watcher = w.id,
                      \A r \in reports : r.tab = t => r.epoch # tab[t].epoch
               PROVE  w.attended = Attends(t)
    BY DEF AttendanceSettles
  <2>1. w.tab = t
    <3>1. Mentions(t, w.id)
      BY DEF Mentions
    <3> QED
      BY <3>1, MembersOf DEF StreamInv, Names
  <2>2. w.seq = tab[t].epoch
    BY <2>1 DEF StreamInv, Attending, Landing
  <2>3. w.seq # 0
    BY <2>2, MembersOf DEF StreamInv, Attending, Epochs
  <2> QED
    BY <2>1, <2>2, <2>3 DEF StreamInv, Attending, SeqSound
<1> QED
  BY <1>1, StreamInvariance, PTL

(* A tab whose Watcher the worker and the daemon agree on has seen every   *)
(* push of the board, or has the last on its way, or failed to read the    *)
(* board again (adopt, broadcast, resync).                                 *)
THEOREM PushesAlwaysReachTab == StreamSpec => []PushesReachTab
<1>1. StreamInv => PushesReachTab
  <2> SUFFICES ASSUME StreamInv, NEW t \in Tab, NEW w \in watchers,
                      tab[t].is = "live", ~tab[t].unread,
                      worker[t].held, worker[t].watcher = w.id, w.stream = conn,
                      \A k \in DOMAIN frames : frames[k].type = "push" => frames[k].watcher # w.id
               PROVE  tab[t].seen = version
    BY DEF PushesReachTab
  <2>1. ~\E f \in OnWire : f.type = "push" /\ f.watcher = w.id
    BY DEF OnWire
  <2> QED
    BY <2>1 DEF StreamInv, Reaching, Reaches
<1> QED
  BY <1>1, StreamInvariance, PTL

-----------------------------------------------------------------------------
(* The page's comments. *)

SendSound(p) ==
    /\ DOMAIN p = {"n", "comments", "by", "at", "snap"}
    /\ p.by = "bar" \/ p.n \in Pages
    /\ p.at = "stored" => p.comments \subseteq stored

(* What the daemon answered it stored, it holds; and the Sends that take a *)
(* whole page's comments off the queue are the page rounds'.               *)
CommentsInv ==
    /\ on \in [Comment -> 0 .. MaxRounds]
    /\ CommentsKept
    /\ \A p \in sends : SendSound(p)

LEMMA NewSendSound ==
    ASSUME NEW n, NEW comments, NEW by, NEW snap, by = "bar" \/ n \in Pages
    PROVE  LET p == [n |-> n, comments |-> comments, by |-> by, at |-> "sent", snap |-> snap]
           IN  SendSound(p)'
  BY DEF SendSound

LEMMA FlushSound ==
    ASSUME NEW n \in Pages, NEW q, NEW p \in Flush(n, q)
    PROVE  SendSound(p)'
<1>1. p = [n |-> n, comments |-> {c \in q : on[c] = n}, by |-> "flush", at |-> "sent",
           snap |-> NoBoard]
  BY DEF Flush
<1> QED
  BY <1>1 DEF SendSound

LEMMA SendSoundKept ==
    ASSUME NEW p, SendSound(p), stored \subseteq stored'
    PROVE  SendSound(p)'
  BY DEF SendSound

(* What a repaint flushes is of page rounds.                               *)
LEMMA BecomeSends ==
    ASSUME CommentsInv, NEW t, NEW q, NEW standing \in SUBSET sends,
           Become(t, q, standing), stored' = stored
    PROVE  \A p \in sends' : SendSound(p)'
<1> DEFINE closed == {n \in Pages \ frozen :
                        /\ InBoard(t.board, n) /\ t.board[n].status = "abandoned"
                        /\ t.dom[n] # <<>> /\ Head(t.dom[n]).as = "live"}
<1>1. sends' = standing \cup UNION {Flush(n, q) : n \in closed}
  BY DEF Become
<1>2. closed \subseteq Pages
  OBVIOUS
<1> HIDE DEF closed
<1>3. ASSUME NEW p \in sends'
      PROVE  SendSound(p)'
  <2>1. CASE p \in standing
    BY <2>1, SendSoundKept DEF CommentsInv
  <2>2. CASE p \notin standing
    <3>1. PICK n \in closed : p \in Flush(n, q)
      BY <1>1, <2>2
    <3> QED
      BY <1>2, <3>1, FlushSound
  <2> QED
    BY <2>1, <2>2
<1> QED
  BY <1>3

LEMMA CommentsRest ==
    ASSUME CommentsInv, on' = on, queue' = queue, stored' = stored,
           \A p \in sends' : SendSound(p)'
    PROVE  CommentsInv'
  BY DEF CommentsInv, CommentsKept

LEMMA CommentsStill ==
    ASSUME CommentsInv, UNCHANGED <<on, queue, stored, sends>>
    PROVE  CommentsInv'
  BY SendSoundKept DEF CommentsInv, CommentsKept

(* The steps that touch no comment and no Send.                            *)
LEMMA QuietPageStep ==
    ASSUME \/ PostRound \/ AmendRound \/ AbandonBoard \/ Serve \/ Drop \/ Reopen
           \/ \E n \in RoundNo : WaitRunsOut(n) \/ OtherSends(n) \/ AnswerRound(n)
           \/ \E k \in 1 .. Len(reads) : CatchUpFails(k)
    PROVE  UNCHANGED <<on, queue, stored, sends>>
<1>1. ASSUME PostRound PROVE UNCHANGED <<on, queue, stored, sends>>
  BY <1>1, Zenon DEF PostRound, tabVars
<1>2. ASSUME AmendRound PROVE UNCHANGED <<on, queue, stored, sends>>
  BY <1>2, Zenon DEF AmendRound, tabVars
<1>3. ASSUME AbandonBoard PROVE UNCHANGED <<on, queue, stored, sends>>
  BY <1>3, Zenon DEF AbandonBoard, tabVars
<1>4. ASSUME Serve PROVE UNCHANGED <<on, queue, stored, sends>>
  BY <1>4 DEF Serve, heldVars
<1>5. ASSUME Drop \/ Reopen PROVE UNCHANGED <<on, queue, stored, sends>>
  BY <1>5 DEF Drop, Reopen, heldVars, tabVars
<1>6. ASSUME NEW n \in RoundNo, WaitRunsOut(n) \/ OtherSends(n) \/ AnswerRound(n)
      PROVE UNCHANGED <<on, queue, stored, sends>>
  BY <1>6 DEF WaitRunsOut, OtherSends, AnswerRound, heldVars, tabVars
<1>7. ASSUME NEW k \in 1 .. Len(reads), CatchUpFails(k)
      PROVE UNCHANGED <<on, queue, stored, sends>>
  BY <1>7 DEF CatchUpFails, heldVars
<1> QED
  BY <1>1, <1>2, <1>3, <1>4, <1>5, <1>6, <1>7

(* The daemon takes a Send whole before it answers that it did.            *)
LEMMA HandleSubmitKeeps ==
    ASSUME CommentsInv, NEW p \in sends, HandleSubmit(p)
    PROVE  CommentsInv'
<1>1. on' = on /\ queue' = queue
  BY DEF HandleSubmit
<1>2. SendSound(p)
  BY DEF CommentsInv
<1>3. ASSUME NEW snap, stored' = stored \cup p.comments,
             sends' = (sends \ {p}) \cup {[p EXCEPT !.at = "stored", !.snap = snap]}
      PROVE  CommentsInv'
  <2> DEFINE q == [p EXCEPT !.at = "stored", !.snap = snap]
  <2>1. /\ DOMAIN q = DOMAIN p /\ q.by = p.by /\ q.n = p.n /\ q.comments = p.comments
    BY <1>2 DEF SendSound
  <2>2. sends' = (sends \ {p}) \cup {q}
    BY <1>3
  <2> HIDE DEF q
  <2>3. SendSound(q)'
    BY <1>2, <1>3, <2>1 DEF SendSound
  <2>4. \A s \in sends : SendSound(s)'
    BY <1>3, SendSoundKept DEF CommentsInv
  <2>5. \A s \in sends' : SendSound(s)'
    BY <2>2, <2>3, <2>4
  <2> QED
    BY <1>1, <1>3, <2>5 DEF CommentsInv, CommentsKept
<1>4. CASE /\ stored' = stored
           /\ sends' = (sends \ {p}) \cup {[p EXCEPT !.at = "refused"]}
  <2> DEFINE q == [p EXCEPT !.at = "refused"]
  <2>1. /\ DOMAIN q = DOMAIN p /\ q.by = p.by /\ q.n = p.n /\ q.at = "refused"
    BY <1>2 DEF SendSound
  <2> HIDE DEF q
  <2>2. SendSound(q)'
    BY <1>2, <2>1 DEF SendSound
  <2>3. \A s \in sends : SendSound(s)'
    BY <1>4, SendSoundKept DEF CommentsInv
  <2>4. \A s \in sends' : SendSound(s)'
    BY <1>4, <2>2, <2>3 DEF q
  <2> QED
    BY <1>1, <1>4, <2>4, CommentsRest
<1>5. \/ \E snap :
           /\ stored' = stored \cup p.comments
           /\ sends' = (sends \ {p}) \cup {[p EXCEPT !.at = "stored", !.snap = snap]}
      \/ /\ stored' = stored
         /\ sends' = (sends \ {p}) \cup {[p EXCEPT !.at = "refused"]}
  BY DEF HandleSubmit
<1> QED
  BY <1>3, <1>4, <1>5

(* An answer takes off the queue what the daemon stored, or what is        *)
(* written on a page round.                                                *)
LEMMA AnswerLandsKeeps ==
    ASSUME CommentsInv, NEW p \in sends, AnswerLands(p)
    PROVE  CommentsInv'
<1>1. /\ queue' = queue \ Leaves(p) /\ on' = on /\ stored' = stored
      /\ p.at \in {"stored", "refused"}
      /\ \/ \E t : Become(t, queue \ Leaves(p), sends \ {p})
         \/ sends' = sends \ {p}
  BY DEF AnswerLands, heldVars
<1>2. SendSound(p)
  BY DEF CommentsInv
<1>3. \A c \in Leaves(p) : c \in stored \/ on[c] \in Pages
  BY <1>1, <1>2 DEF Leaves, SendSound
<1>4. \A q \in sends' : SendSound(q)'
  <2>1. CASE sends' = sends \ {p}
    BY <1>1, <2>1, SendSoundKept DEF CommentsInv
  <2>2. CASE \E t : Become(t, queue \ Leaves(p), sends \ {p})
    BY <1>1, <2>2, BecomeSends
  <2> QED
    BY <1>1, <2>1, <2>2
<1> QED
  BY <1>1, <1>3, <1>4 DEF CommentsInv, CommentsKept

LEMMA CommentsStep == CommentsInv /\ [PageNext]_pageVars => CommentsInv'
<1> SUFFICES ASSUME CommentsInv, [PageNext]_pageVars PROVE CommentsInv'
  OBVIOUS
<1>1. CASE UNCHANGED pageVars
  BY <1>1, CommentsStill DEF pageVars
<1>2. CASE \/ PostRound \/ AmendRound \/ AbandonBoard \/ Serve \/ Drop \/ Reopen
           \/ \E n \in RoundNo : WaitRunsOut(n) \/ OtherSends(n) \/ AnswerRound(n)
           \/ \E k \in 1 .. Len(reads) : CatchUpFails(k)
  BY <1>2, QuietPageStep, CommentsStill
<1>3. ASSUME NEW p \in sends, HandleSubmit(p) PROVE CommentsInv'
  BY <1>3, HandleSubmitKeeps
<1>4. ASSUME NEW p \in sends, AnswerLands(p) PROVE CommentsInv'
  BY <1>4, AnswerLandsKeeps
<1>5. ASSUME NEW p \in sends, SendFails(p) PROVE CommentsInv'
  <2>1. sends' = sends \ {p} /\ UNCHANGED <<on, queue, stored>>
    BY <1>5 DEF SendFails, heldVars
  <2> QED
    BY <2>1, SendSoundKept, CommentsRest DEF CommentsInv
<1>6. ASSUME RecvPush PROVE CommentsInv'
  <2>1. /\ UNCHANGED <<on, queue, stored>>
        /\ sends' = sends \/ \E t : Become(t, queue, sends)
    BY <1>6 DEF RecvPush, heldVars
  <2>2. \A p \in sends' : SendSound(p)'
    BY <2>1, SendSoundKept, BecomeSends DEF CommentsInv
  <2> QED
    BY <2>1, <2>2, CommentsRest
<1>7. ASSUME RecvNudge PROVE CommentsInv'
  <2>1. UNCHANGED <<on, queue, stored>> /\ Become(ThisTab, queue, sends)
    BY <1>7 DEF RecvNudge, heldVars
  <2> QED
    BY <2>1, BecomeSends, CommentsRest
<1>8. ASSUME NEW k \in 1 .. Len(reads), CatchUp(k) PROVE CommentsInv'
  <2>1. /\ UNCHANGED <<on, queue, stored>>
        /\ sends' = sends \/ \E t : Become(t, queue, sends)
    BY <1>8 DEF CatchUp, heldVars
  <2>2. \A p \in sends' : SendSound(p)'
    BY <2>1, SendSoundKept, BecomeSends DEF CommentsInv
  <2> QED
    BY <2>1, <2>2, CommentsRest
<1>9. ASSUME NEW c \in Comment, NEW n \in RoundNo, WriteComment(c, n) PROVE CommentsInv'
  <2>1. /\ on' = [on EXCEPT ![c] = n] /\ queue' = queue \cup {c}
        /\ stored' = stored /\ sends' = sends /\ n \in 0 .. MaxRounds
    BY <1>9 DEF WriteComment, heldVars, RoundNo
  <2>2. on' \in [Comment -> 0 .. MaxRounds] /\ CommentsKept'
    BY <2>1 DEF CommentsInv, CommentsKept
  <2> QED
    BY <2>1, <2>2, SendSoundKept DEF CommentsInv
<1>10. ASSUME NEW n \in RoundNo, Send(n) \/ SendPage(n) PROVE CommentsInv'
  <2>1. /\ UNCHANGED <<on, queue, stored>>
        /\ \E comments, by :
             /\ by = "bar" \/ n \in Pages
             /\ sends' = sends \cup {[n |-> n, comments |-> comments, by |-> by, at |-> "sent",
                                      snap |-> NoBoard]}
    <3>1. CASE Send(n)
      BY <3>1 DEF Send, heldVars
    <3>2. CASE SendPage(n)
      BY <3>2 DEF SendPage, heldVars
    <3> QED
      BY <1>10, <3>1, <3>2
  <2>2. \A p \in sends' : SendSound(p)'
    BY <2>1, NewSendSound, SendSoundKept DEF CommentsInv
  <2> QED
    BY <2>1, <2>2, CommentsRest
<1>11. ASSUME NEW n \in RoundNo, Expire(n) PROVE CommentsInv'
  <2>1. n \in Pages /\ sends' = sends \cup Flush(n, queue) /\ UNCHANGED <<on, queue, stored>>
    BY <1>11 DEF Expire, heldVars
  <2>2. \A p \in sends' : SendSound(p)'
    BY <2>1, FlushSound, SendSoundKept DEF CommentsInv
  <2> QED
    BY <2>1, <2>2, CommentsRest
<1> QED
  BY <1>1, <1>2, <1>3, <1>4, <1>5, <1>6, <1>7, <1>8, <1>9, <1>10, <1>11 DEF PageNext

LEMMA CommentsStart == PageInit => CommentsInv
<1> SUFFICES ASSUME PageInit PROVE CommentsInv
  OBVIOUS
<1>1. on = [c \in Comment |-> 0] /\ sends = {} /\ MaxRounds \in Nat
  BY PageBounds DEF PageInit
<1> QED
  BY <1>1 DEF CommentsInv, CommentsKept

(* The comments' inductive invariant: besides what is promised, what the   *)
(* Sends in the air carry and may take off the queue.                      *)
THEOREM CommentsInvariance == PageSpec => []CommentsInv
  BY CommentsStart, CommentsStep, PTL DEF PageSpec

(* A comment queued on a page that is not a page round stays in the tab    *)
(* until the daemon holds it, over every race of its Sends, their answers  *)
(* and failures, and the rounds sent or closed under it (submitBoard).     *)
THEOREM CommentsAlwaysKept == PageSpec => []CommentsKept
<1>1. CommentsInv => CommentsKept
  BY DEF CommentsInv
<1> QED
  BY <1>1, CommentsInvariance, PTL

-----------------------------------------------------------------------------
(* Steps a handler takes over rounds in their order, as one. *)

(* Of some numbers one is the least; what holds of 0 and goes up by one    *)
(* holds up to where it goes.                                              *)
LEMMA LeastOf ==
    ASSUME NEW S \in SUBSET Nat, S # {}
    PROVE  \E n \in S : \A m \in S : n <= m
<1> DEFINE R == OpToRel(<, Nat)
<1>1. IsWellFoundedOn(R, Nat)
  BY NatLessThanWellFounded DEF OpToRel
<1>2. \A x, y \in Nat : x < y => <<x, y>> \in R
  BY DEF OpToRel
<1> HIDE DEF R
<1>3. PICK n \in S : \A m \in S : <<m, n>> \notin R
  BY <1>1, WFMin
<1>4. n \in Nat /\ \A m \in S : m \in Nat
  OBVIOUS
<1>5. \A m \in S : ~(m < n)
  BY <1>2, <1>3, <1>4
<1>6. \A m \in S : n <= m
  BY <1>4, <1>5
<1> QED
  BY <1>6

LEMMA UpTo ==
    ASSUME NEW m \in Nat, NEW T, 0 \in T, \A k \in 1 .. m : k - 1 \in T => k \in T
    PROVE  0 .. m \subseteq T
<1> SUFFICES ASSUME (0 .. m) \ T # {}
             PROVE  FALSE
  OBVIOUS
<1> DEFINE S == (0 .. m) \ T
<1>1. S \in SUBSET Nat /\ S # {}
  OBVIOUS
<1> HIDE DEF S
<1>2. PICK k \in S : \A j \in S : k <= j
  BY <1>1, LeastOf
<1>3. k \in 1 .. m /\ k - 1 \in 0 .. m /\ k - 1 \notin S
  BY <1>2 DEF S
<1> QED
  BY <1>2, <1>3 DEF S

(* Steps taken in order, each from where the one before it led: they lead  *)
(* somewhere, and as far as each stays in a set.                           *)
Leads(g, m, S) == \A k \in 1 .. m, u \in S : g[k][u] \in S
Taken(f, g, m, S, x) ==
    f \in [0 .. m -> S] /\ f[0] = x /\ \A k \in 1 .. m : f[k] = g[k][f[k - 1]]

LEMMA InTurn ==
    ASSUME NEW m \in Nat, NEW S, NEW x \in S, NEW g, Leads(g, m, S)
    PROVE  \E f : Taken(f, g, m, S, x)
<1> USE DEF Leads
<1> DEFINE Good(f, j) == /\ f \in [0 .. j -> S] /\ f[0] = x
                         /\ \A k \in 1 .. j : f[k] = g[k][f[k - 1]]
           T == {j \in 0 .. m : \E f : Good(f, j)}
<1>1. 0 \in T
  <2> DEFINE f == [k \in 0 .. 0 |-> x]
  <2>1. f \in [0 .. 0 -> S] /\ f[0] = x /\ 1 .. 0 = {}
    OBVIOUS
  <2> HIDE DEF f
  <2>2. Good(f, 0)
    BY <2>1
  <2>3. 0 \in 0 .. m
    OBVIOUS
  <2> HIDE DEF Good
  <2> QED
    BY <2>2, <2>3
<1>2. ASSUME NEW j \in 1 .. m, j - 1 \in T
      PROVE  j \in T
  <2>1. PICK f : Good(f, j - 1)
    BY <1>2
  <2> DEFINE h == [k \in 0 .. j |-> IF k = j THEN g[j][f[j - 1]] ELSE f[k]]
  <2>2. f[j - 1] \in S /\ g[j][f[j - 1]] \in S
    BY <2>1
  <2>3. h \in [0 .. j -> S]
    BY <2>1, <2>2
  <2>4. h[0] = x /\ \A k \in 1 .. j : h[k] = g[k][h[k - 1]]
    <3>1. h[j] = g[j][f[j - 1]] /\ \A k \in 0 .. (j - 1) : h[k] = f[k]
      OBVIOUS
    <3>2. 0 \in 0 .. (j - 1) /\ j - 1 \in 0 .. (j - 1)
      OBVIOUS
    <3>3. ASSUME NEW k \in 1 .. j
          PROVE  h[k] = g[k][h[k - 1]]
      <4>1. CASE k = j
        BY <3>1, <3>2, <4>1
      <4>2. CASE k # j
        <5>1. k \in 1 .. (j - 1) /\ k \in 0 .. (j - 1) /\ k - 1 \in 0 .. (j - 1)
          BY <4>2
        <5> HIDE DEF h
        <5> QED
          BY <2>1, <3>1, <5>1
      <4> QED
        BY <4>1, <4>2
    <3> QED
      BY <2>1, <3>1, <3>2, <3>3
  <2>5. \E e : Good(e, j)
    <3> HIDE DEF h
    <3> QED
      BY <2>3, <2>4
  <2> HIDE DEF Good, h
  <2> QED
    BY <2>5
<1>3. m \in T
  <2> HIDE DEF T
  <2> QED
    BY <1>1, <1>2, UpTo
<1>4. PICK f : Good(f, m)
  BY <1>3
<1> QED
  BY <1>4 DEF Taken

(* So it is with the sent records a catch-up applies, and with the rounds  *)
(* it replays.                                                             *)
LEMMA SentRoundsStay ==
    ASSUME NEW ns, ns \subseteq Nat, IsFiniteSet(ns), NEW snap, NEW S, NEW t \in S,
           \A u \in S, n \in ns : SubmittedPush(u, n, snap) \in S
    PROVE  /\ SentRounds(t, ns, snap) \in S
           /\ ns # {} => \E u \in S, n \in ns : SentRounds(t, ns, snap) = SubmittedPush(u, n, snap)
<1> DEFINE m == Cardinality(ns)
           at == Ascending(ns)
           g == [k \in 1 .. m |-> [u \in S |-> SubmittedPush(u, at[k], snap)]]
           Run(h) == h = [k \in 0 .. m |->
                            IF k = 0 THEN t ELSE SubmittedPush(h[k - 1], at[k], snap)]
           after == CHOOSE h : Run(h)
<1>1. SentRounds(t, ns, snap) = after[m]
  BY Zenon DEF SentRounds
<1>2. m \in Nat /\ (ns # {} => m # 0)
  BY FS_CardinalityType, FS_EmptySet
<1>3. \A k \in 1 .. m : at[k] \in ns
  <2>1. at \in Seq(ns) /\ DOMAIN at = 1 .. m
    BY AscendingFacts DEF Ascending
  <2> QED
    BY <2>1, LenProperties, ElementOfSeq
<1> HIDE DEF m, at
<1>4. \A k \in 1 .. m, u \in S : g[k][u] = SubmittedPush(u, at[k], snap)
  OBVIOUS
<1>5. Leads(g, m, S)
  BY <1>3 DEF Leads
<1> HIDE DEF g
<1>6. \E h : Run(h)
  <2>1. PICK h : Taken(h, g, m, S, t)
    BY <1>2, <1>5, InTurn
  <2>2. \A k \in 1 .. m : h[k - 1] \in S
    BY <1>2, <2>1 DEF Taken
  <2>3. \A k \in 0 .. m : h[k] = IF k = 0 THEN t ELSE SubmittedPush(h[k - 1], at[k], snap)
    BY <1>2, <1>4, <2>1, <2>2 DEF Taken
  <2>4. Run(h)
    BY <2>1, <2>3 DEF Taken
  <2> QED
    BY <2>4
<1>7. Run(after)
  <2> HIDE DEF Run
  <2> QED
    BY <1>6
<1> HIDE DEF after
<1>8. after[0] = t
  BY <1>2, <1>7
<1>9. \A k \in 1 .. m : after[k] = SubmittedPush(after[k - 1], at[k], snap)
  BY <1>2, <1>7
<1> HIDE DEF Run
<1>10. \A k \in 0 .. m : after[k] \in S
  <2> DEFINE T == {k \in 0 .. m : after[k] \in S}
  <2>1. 0 \in T
    BY <1>2, <1>8
  <2>2. ASSUME NEW k \in 1 .. m, k - 1 \in T
        PROVE  k \in T
    <3>1. after[k - 1] \in S /\ k \in 0 .. m
      BY <1>2, <2>2
    <3>2. SubmittedPush(after[k - 1], at[k], snap) \in S
      BY <1>3, <3>1
    <3>3. after[k] \in S
      BY <1>9, <3>2
    <3> QED
      BY <3>1, <3>3
  <2> HIDE DEF T
  <2>3. 0 .. m \subseteq T
    BY <1>2, <2>1, <2>2, UpTo
  <2> QED
    BY <2>3 DEF T
<1>11. ASSUME m # 0
       PROVE  \E u \in S, n \in ns : after[m] = SubmittedPush(u, n, snap)
  <2>1. m \in 1 .. m /\ m - 1 \in 0 .. m
    BY <1>2, <1>11
  <2> QED
    BY <1>3, <1>9, <1>10, <2>1
<1>12. m \in 0 .. m
  BY <1>2
<1> QED
  BY <1>1, <1>2, <1>10, <1>11, <1>12

LEMMA ReplayedStays ==
    ASSUME NEW ns, ns \subseteq Nat, IsFiniteSet(ns), NEW snap, NEW S, NEW t \in S,
           \A u \in S, n \in ns : Replay(u, n, snap) \in S
    PROVE  /\ Replayed(t, ns, snap) \in S
           /\ ns # {} => \E u \in S, n \in ns : Replayed(t, ns, snap) = Replay(u, n, snap)
<1> DEFINE m == Cardinality(ns)
           at == Ascending(ns)
           g == [k \in 1 .. m |-> [u \in S |-> Replay(u, at[k], snap)]]
           Run(h) == h = [k \in 0 .. m |->
                            IF k = 0 THEN t ELSE Replay(h[k - 1], at[k], snap)]
           after == CHOOSE h : Run(h)
<1>1. Replayed(t, ns, snap) = after[m]
  BY Zenon DEF Replayed
<1>2. m \in Nat /\ (ns # {} => m # 0)
  BY FS_CardinalityType, FS_EmptySet
<1>3. \A k \in 1 .. m : at[k] \in ns
  <2>1. at \in Seq(ns) /\ DOMAIN at = 1 .. m
    BY AscendingFacts DEF Ascending
  <2> QED
    BY <2>1, LenProperties, ElementOfSeq
<1> HIDE DEF m, at
<1>4. \A k \in 1 .. m, u \in S : g[k][u] = Replay(u, at[k], snap)
  OBVIOUS
<1>5. Leads(g, m, S)
  BY <1>3 DEF Leads
<1> HIDE DEF g
<1>6. \E h : Run(h)
  <2>1. PICK h : Taken(h, g, m, S, t)
    BY <1>2, <1>5, InTurn
  <2>2. \A k \in 1 .. m : h[k - 1] \in S
    BY <1>2, <2>1 DEF Taken
  <2>3. \A k \in 0 .. m : h[k] = IF k = 0 THEN t ELSE Replay(h[k - 1], at[k], snap)
    BY <1>2, <1>4, <2>1, <2>2 DEF Taken
  <2>4. Run(h)
    BY <2>1, <2>3 DEF Taken
  <2> QED
    BY <2>4
<1>7. Run(after)
  <2> HIDE DEF Run
  <2> QED
    BY <1>6
<1> HIDE DEF after
<1>8. after[0] = t
  BY <1>2, <1>7
<1>9. \A k \in 1 .. m : after[k] = Replay(after[k - 1], at[k], snap)
  BY <1>2, <1>7
<1> HIDE DEF Run
<1>10. \A k \in 0 .. m : after[k] \in S
  <2> DEFINE T == {k \in 0 .. m : after[k] \in S}
  <2>1. 0 \in T
    BY <1>2, <1>8
  <2>2. ASSUME NEW k \in 1 .. m, k - 1 \in T
        PROVE  k \in T
    <3>1. after[k - 1] \in S /\ k \in 0 .. m
      BY <1>2, <2>2
    <3>2. Replay(after[k - 1], at[k], snap) \in S
      BY <1>3, <3>1
    <3>3. after[k] \in S
      BY <1>9, <3>2
    <3> QED
      BY <3>1, <3>3
  <2> HIDE DEF T
  <2>3. 0 .. m \subseteq T
    BY <1>2, <2>1, <2>2, UpTo
  <2> QED
    BY <2>3 DEF T
<1>11. ASSUME m # 0
       PROVE  \E u \in S, n \in ns : after[m] = Replay(u, n, snap)
  <2>1. m \in 1 .. m /\ m - 1 \in 0 .. m
    BY <1>2, <1>11
  <2> QED
    BY <1>3, <1>9, <1>10, <2>1
<1>12. m \in 0 .. m
  BY <1>2
<1> QED
  BY <1>1, <1>2, <1>10, <1>11, <1>12

-----------------------------------------------------------------------------
(* The page's board: nothing that reaches the tab is ahead of the daemon,  *)
(* and the catch-ups it would still apply come in the order they were read.*)

Statuses == {"open", "abandoned", "sent"}
Reading == Board \cup {NoBoard}

(* The k-th catch-up is answered after those before it, of no older board. *)
Ordered(r) ==
    \A j, k \in DOMAIN r :
       j < k /\ r[k] # NoBoard => r[j] # NoBoard /\ NoOlder(r[j], r[k])

(* Every catch-up lies between what the tab holds and what the daemon does.*)
Between(r, old, new) ==
    \A k \in DOMAIN r : r[k] # NoBoard => NoOlder(old, r[k]) /\ NoOlder(r[k], new)

(* A push, and an answer that carries a board, is about a round of one     *)
(* that was held.                                                          *)
PushesSound ==
    /\ wire \in Seq(Push)
    /\ \A k \in DOMAIN wire : wire[k].n \in DOMAIN wire[k].snap /\ NoOlder(wire[k].snap, held)
AnswerSound(p) ==
    p.at = "stored" => p.snap \in Board /\ p.n \in DOMAIN p.snap /\ NoOlder(p.snap, held)
About(p, b) == p.snap = b /\ p.n \in DOMAIN b

BoardsInv ==
    /\ held \in Board /\ board \in Board /\ NoOlder(board, held)
    /\ PushesSound
    /\ \A p \in sends : AnswerSound(p)
    /\ reads \in Seq(Reading)
    /\ Ordered(reads)
    /\ Between(reads, board, held)

Tabs == [board : Board, dom : [RoundNo -> Seq(Section)], applied : SUBSET RoundNo,
         draft : [RoundNo -> Text \cup {NoDraft}]]

TabInv ==
    /\ ThisTab \in Tabs
    /\ stored \in SUBSET Comment /\ queue \in SUBSET Comment
    /\ up \in BOOLEAN
    /\ frozen \in SUBSET Pages
    /\ sends \subseteq SendRecord
    /\ troubles \in 0 .. MaxTroubles

PageInv == CommentsInv /\ BoardsInv /\ TabInv

LEMMA BoardFacts ==
    ASSUME NEW b \in Board
    PROVE  /\ b # NoBoard /\ DOMAIN b \subseteq RoundNo
           /\ \E k \in RoundNo : DOMAIN b = 1 .. k /\ b \in [1 .. k -> RoundRec]
           /\ \A n \in DOMAIN b : /\ b[n] \in RoundRec /\ b[n].status \in Statuses
                                  /\ b[n].text \in Text /\ b[n].text \in Nat
<1>1. PICK k \in RoundNo : b \in [1 .. k -> RoundRec]
  BY DEF Board
<1>2. MaxRounds \in Nat /\ MaxText \in Nat
  BY PageBounds
<1>3. k \in Nat \ {0} /\ 1 .. k \subseteq RoundNo
  BY <1>2 DEF RoundNo
<1>4. \A r \in RoundRec : r.status \in Statuses /\ r.text \in Text /\ r.text \in Nat
  BY <1>2 DEF RoundRec, Statuses, Text
<1>5. 1 \in DOMAIN b /\ b # NoBoard
  BY <1>1, <1>3 DEF NoBoard
<1> QED
  BY <1>1, <1>3, <1>4, <1>5

LEMMA StageType == \A s \in Statuses : Stage(s) \in Nat
  BY DEF Statuses, Stage

LEMMA NoOlderSelf ==
    ASSUME NEW b \in Board
    PROVE  NoOlder(b, b)
  BY BoardFacts, StageType DEF NoOlder

LEMMA NoOlderOnward ==
    ASSUME NEW a \in Board, NEW b \in Board, NEW c \in Board, NoOlder(a, b), NoOlder(b, c)
    PROVE  NoOlder(a, c)
<1>1. DOMAIN a \subseteq DOMAIN b /\ DOMAIN b \subseteq DOMAIN c
  BY DEF NoOlder
<1>2. ASSUME NEW n \in DOMAIN a
      PROVE  a[n].text <= c[n].text /\ Stage(a[n].status) <= Stage(c[n].status)
  <2>1. /\ a[n].text <= b[n].text /\ Stage(a[n].status) <= Stage(b[n].status)
        /\ b[n].text <= c[n].text /\ Stage(b[n].status) <= Stage(c[n].status)
    BY <1>1, <1>2 DEF NoOlder
  <2>2. /\ a[n].text \in Nat /\ b[n].text \in Nat /\ c[n].text \in Nat
        /\ Stage(a[n].status) \in Nat /\ Stage(b[n].status) \in Nat
        /\ Stage(c[n].status) \in Nat
    BY <1>1, <1>2, BoardFacts, StageType
  <2> QED
    BY <2>1, <2>2
<1> QED
  BY <1>1, <1>2 DEF NoOlder

(* A board grows a round, or one of its rounds moves on.                   *)
LEMMA RoundAdded ==
    ASSUME NEW b \in Board, Len(b) + 1 \in RoundNo
    PROVE  LET after == Append(b, [status |-> "open", text |-> 0])
           IN  after \in Board /\ NoOlder(b, after) /\ Len(b) + 1 \in DOMAIN after
<1> DEFINE fresh == [status |-> "open", text |-> 0]
           after == Append(b, fresh)
<1>1. PICK k \in RoundNo : DOMAIN b = 1 .. k /\ b \in [1 .. k -> RoundRec]
  BY BoardFacts
<1>2. MaxRounds \in Nat /\ MaxText \in Nat /\ k \in Nat
  BY <1>1, PageBounds DEF RoundNo
<1>3. fresh \in RoundRec
  BY <1>2 DEF RoundRec, Text
<1>4. b \in Seq(RoundRec) /\ Len(b) = k
  BY <1>1, <1>2
<1> HIDE DEF fresh
<1>5. /\ after \in Seq(RoundRec) /\ Len(after) = k + 1
      /\ \A n \in 1 .. k : after[n] = b[n]
  BY <1>3, <1>4, AppendProperties
<1> HIDE DEF after
<1>6. after \in [1 .. (k + 1) -> RoundRec] /\ DOMAIN after = 1 .. (k + 1)
  BY <1>5, LenProperties
<1>7. after \in Board
  BY <1>4, <1>6 DEF Board
<1>8. NoOlder(b, after)
  <2>1. DOMAIN b \subseteq DOMAIN after
    BY <1>1, <1>2, <1>6
  <2>2. \A n \in DOMAIN b : after[n] = b[n]
    BY <1>1, <1>5
  <2>3. NoOlder(b, b)
    BY NoOlderSelf
  <2> QED
    BY <2>1, <2>2, <2>3 DEF NoOlder
<1>9. Len(b) + 1 \in DOMAIN after
  BY <1>2, <1>4, <1>6
<1> QED
  BY <1>7, <1>8, <1>9 DEF after, fresh

LEMMA RoundsMoved ==
    ASSUME NEW b \in Board, NEW after, DOMAIN after = DOMAIN b,
           after = [n \in DOMAIN b |-> after[n]],
           \A n \in DOMAIN b : /\ after[n] \in RoundRec
                               /\ b[n].text <= after[n].text
                               /\ Stage(b[n].status) <= Stage(after[n].status)
    PROVE  after \in Board /\ NoOlder(b, after)
<1>1. PICK k \in RoundNo : DOMAIN b = 1 .. k
  BY BoardFacts
<1>2. after \in [1 .. k -> RoundRec]
  BY <1>1
<1> QED
  BY <1>2 DEF Board, NoOlder

(* Fewer catch-ups, in the order they were.                                *)
LEMMA FewerReads ==
    ASSUME NEW r \in Seq(Reading), NEW q \in Seq(Reading), NEW f, NEW old, NEW new,
           Ordered(r), Between(r, old, new),
           \A j \in DOMAIN q : f[j] \in DOMAIN r /\ q[j] = r[f[j]],
           \A i, j \in DOMAIN q : i < j => f[i] < f[j]
    PROVE  Ordered(q) /\ Between(q, old, new)
  BY DEF Ordered, Between

LEMMA ReadsAfterFacts ==
    ASSUME NEW r \in Seq(Reading), NEW k \in DOMAIN r
    PROVE  LET q == SubSeq(r, k + 1, Len(r))
           IN  /\ q \in Seq(Reading)
               /\ \A j \in DOMAIN q : j + k \in DOMAIN r /\ q[j] = r[j + k]
<1>1. Len(r) \in Nat /\ DOMAIN r = 1 .. Len(r) /\ k \in 1 .. Len(r)
  BY LenProperties
<1>2. \A i \in (k + 1) .. Len(r) : r[i] \in Reading
  BY <1>1, ElementOfSeq
<1> DEFINE q == SubSeq(r, k + 1, Len(r))
<1>3. /\ q \in Seq(Reading) /\ Len(q) = IF k + 1 <= Len(r) THEN Len(r) - (k + 1) + 1 ELSE 0
      /\ \A i \in 1 .. Len(r) - (k + 1) + 1 : q[i] = r[(k + 1) + i - 1]
  <2>1. k + 1 \in Int /\ Len(r) \in Int
    BY <1>1
  <2> QED
    BY <1>2, <2>1, SubSeqProperties
<1> HIDE DEF q
<1>4. Len(q) = Len(r) - k /\ DOMAIN q = 1 .. (Len(r) - k)
  BY <1>1, <1>3, LenProperties
<1>5. \A j \in DOMAIN q : j + k \in DOMAIN r /\ q[j] = r[j + k]
  BY <1>1, <1>3, <1>4
<1> QED
  BY <1>3, <1>5 DEF q

LEMMA RemoveAtFacts ==
    ASSUME NEW r \in Seq(Reading), NEW k \in DOMAIN r
    PROVE  LET q == RemoveAt(r, k)
               From(j) == IF j < k THEN j ELSE j + 1
           IN  /\ q \in Seq(Reading)
               /\ \A j \in DOMAIN q : From(j) \in DOMAIN r /\ q[j] = r[From(j)]
<1>1. Len(r) \in Nat /\ DOMAIN r = 1 .. Len(r) /\ k \in 1 .. Len(r)
  BY LenProperties
<1>2. \A i \in 1 .. Len(r) : r[i] \in Reading
  BY <1>1, ElementOfSeq
<1> DEFINE a == SubSeq(r, 1, k - 1)
           b == SubSeq(r, k + 1, Len(r))
           q == a \o b
           From(j) == IF j < k THEN j ELSE j + 1
<1>3. /\ a \in Seq(Reading) /\ Len(a) = k - 1
      /\ \A i \in 1 .. (k - 1) : a[i] = r[i]
  <2>1. 1 \in Int /\ k - 1 \in Int /\ \A i \in 1 .. (k - 1) : r[i] \in Reading
    BY <1>1, <1>2
  <2>2. /\ a \in Seq(Reading) /\ Len(a) = IF 1 <= k - 1 THEN (k - 1) - 1 + 1 ELSE 0
        /\ \A i \in 1 .. (k - 1) - 1 + 1 : a[i] = r[1 + i - 1]
    BY <2>1, SubSeqProperties
  <2> HIDE DEF a
  <2> QED
    BY <1>1, <2>2
<1>4. /\ b \in Seq(Reading) /\ Len(b) = Len(r) - k /\ DOMAIN b = 1 .. Len(b)
      /\ \A j \in DOMAIN b : b[j] = r[j + k]
  <2>1. k + 1 \in Int /\ Len(r) \in Int /\ \A i \in (k + 1) .. Len(r) : r[i] \in Reading
    BY <1>1, <1>2
  <2>2. /\ b \in Seq(Reading)
        /\ Len(b) = IF k + 1 <= Len(r) THEN Len(r) - (k + 1) + 1 ELSE 0
        /\ \A i \in 1 .. Len(r) - (k + 1) + 1 : b[i] = r[(k + 1) + i - 1]
    BY <2>1, SubSeqProperties
  <2> HIDE DEF b
  <2>3. DOMAIN b = 1 .. Len(b)
    BY <2>2, LenProperties
  <2>4. Len(b) = Len(r) - k
    BY <1>1, <2>2
  <2>5. ASSUME NEW j \in DOMAIN b
        PROVE  b[j] = r[j + k]
    <3>1. j \in 1 .. Len(r) - (k + 1) + 1 /\ (k + 1) + j - 1 = j + k
      BY <1>1, <2>3, <2>4
    <3>2. b[j] = r[(k + 1) + j - 1]
      BY <2>2, <3>1
    <3> QED
      BY <3>1, <3>2
  <2> QED
    BY <2>2, <2>3, <2>4, <2>5
<1> HIDE DEF a, b
<1>5. /\ q \in Seq(Reading) /\ Len(q) = Len(r) - 1
      /\ \A i \in 1 .. (Len(r) - 1) : q[i] = IF i <= k - 1 THEN a[i] ELSE b[i - (k - 1)]
  <2>1. /\ q \in Seq(Reading) /\ Len(q) = Len(a) + Len(b)
        /\ \A i \in 1 .. Len(a) + Len(b) : q[i] = IF i <= Len(a) THEN a[i] ELSE b[i - Len(a)]
    BY <1>3, <1>4, ConcatProperties
  <2> HIDE DEF q
  <2> QED
    BY <1>1, <1>3, <1>4, <2>1
<1> HIDE DEF q
<1>6. DOMAIN q = 1 .. (Len(r) - 1)
  BY <1>5, LenProperties
<1>7. ASSUME NEW j \in DOMAIN q
      PROVE  From(j) \in DOMAIN r /\ q[j] = r[From(j)]
  <2>1. CASE j < k
    <3>1. j \in 1 .. (k - 1) /\ j <= k - 1 /\ j \in DOMAIN r
      BY <1>1, <1>6, <2>1
    <3> QED
      BY <1>3, <1>5, <1>6, <2>1, <3>1
  <2>2. CASE ~(j < k)
    <3>1. /\ ~(j <= k - 1) /\ j - (k - 1) \in DOMAIN b /\ j + 1 \in DOMAIN r
          /\ j - (k - 1) + k = j + 1
      BY <1>1, <1>4, <1>6, <2>2
    <3>2. q[j] = b[j - (k - 1)] /\ b[j - (k - 1)] = r[j - (k - 1) + k]
      BY <1>4, <1>5, <1>6, <3>1
    <3> QED
      BY <2>2, <3>1, <3>2
  <2> QED
    BY <2>1, <2>2
<1> QED
  BY <1>5, <1>7 DEF q, a, b, RemoveAt

(* A push is of the board as it is now; the ones before it, of no newer.   *)
LEMMA DaemonMoves ==
    ASSUME BoardsInv, held' \in Board, NoOlder(held, held'), board' = board, reads' = reads,
           wire' \in Seq(Push),
           \A k \in DOMAIN wire' :
              About(wire'[k], held') \/ \E j \in DOMAIN wire : wire'[k] = wire[j],
           \A p \in sends' : p \in sends \/ (p.at = "stored" => About(p, held'))
    PROVE  BoardsInv'
<1>1. NoOlder(held', held')
  BY NoOlderSelf
<1>2. \A b \in Board : NoOlder(b, held) => NoOlder(b, held')
  BY NoOlderOnward DEF BoardsInv
<1>3. PushesSound'
  <2>1. \A j \in DOMAIN wire : /\ wire[j].snap \in Board /\ NoOlder(wire[j].snap, held)
                               /\ wire[j].n \in DOMAIN wire[j].snap
    <3>1. \A j \in DOMAIN wire : wire[j] \in Push
      BY LenProperties, ElementOfSeq DEF BoardsInv, PushesSound
    <3> QED
      BY <3>1 DEF BoardsInv, PushesSound, Push
  <2>2. \A k \in DOMAIN wire' :
          wire'[k].n \in DOMAIN wire'[k].snap /\ NoOlder(wire'[k].snap, held')
    BY <1>1, <1>2, <2>1 DEF About
  <2> QED
    BY <2>2 DEF PushesSound
<1>4. \A p \in sends' : AnswerSound(p)'
  BY <1>1, <1>2 DEF BoardsInv, AnswerSound, About
<1>5. Between(reads, board, held')
  <2>1. \A k \in DOMAIN reads : reads[k] \in Reading
    BY LenProperties, ElementOfSeq DEF BoardsInv
  <2> QED
    BY <1>2, <2>1 DEF BoardsInv, Between, Reading
<1> QED
  BY <1>2, <1>3, <1>4, <1>5 DEF BoardsInv

(* The tab takes a board it was brought, or only drops what was coming.    *)
LEMMA TabMoves ==
    ASSUME BoardsInv, held' = held, board' \in Board, NoOlder(board', held),
           wire' \in Seq(Push),
           \A k \in DOMAIN wire' : \E j \in DOMAIN wire : wire'[k] = wire[j],
           \A p \in sends' : p \in sends \/ p.at = "sent",
           reads' \in Seq(Reading), Ordered(reads'), Between(reads', board', held)
    PROVE  BoardsInv'
<1>1. PushesSound'
  BY DEF BoardsInv, PushesSound
<1>2. \A p \in sends' : AnswerSound(p)'
  BY DEF BoardsInv, AnswerSound
<1> QED
  BY <1>1, <1>2 DEF BoardsInv

LEMMA BroadcastFacts ==
    ASSUME wire \in Seq(Push), NEW ps \in Seq(Push), NEW after,
           Broadcast(ps), \A k \in DOMAIN ps : About(ps[k], after)
    PROVE  /\ wire' \in Seq(Push)
           /\ \A k \in DOMAIN wire' :
                 About(wire'[k], after) \/ \E j \in DOMAIN wire : wire'[k] = wire[j]
<1>1. CASE wire' = wire
  BY <1>1
<1>2. CASE wire' = wire \o ps
  <2>1. /\ Len(wire) \in Nat /\ DOMAIN wire = 1 .. Len(wire)
        /\ Len(ps) \in Nat /\ DOMAIN ps = 1 .. Len(ps)
    BY LenProperties
  <2>2. /\ wire' \in Seq(Push) /\ Len(wire') = Len(wire) + Len(ps)
        /\ \A i \in 1 .. Len(wire) + Len(ps) :
              wire'[i] = IF i <= Len(wire) THEN wire[i] ELSE ps[i - Len(wire)]
    BY <1>2, ConcatProperties
  <2>3. DOMAIN wire' = 1 .. (Len(wire) + Len(ps))
    BY <2>2, LenProperties
  <2>4. ASSUME NEW k \in DOMAIN wire'
        PROVE  \/ k \in DOMAIN wire /\ wire'[k] = wire[k]
               \/ k - Len(wire) \in DOMAIN ps /\ wire'[k] = ps[k - Len(wire)]
    BY <2>1, <2>2, <2>3
  <2> QED
    BY <2>2, <2>4
<1> QED
  BY <1>1, <1>2 DEF Broadcast

LEMMA OnePush ==
    ASSUME NEW after \in Board, NEW n \in DOMAIN after,
           NEW type \in {"new-round", "amend", "submitted", "awaitExpired"}
    PROVE  LET ps == <<Pushed(type, n, after)>>
           IN  ps \in Seq(Push) /\ \A k \in DOMAIN ps : About(ps[k], after)
<1> DEFINE p == Pushed(type, n, after)
<1>1. p \in Push /\ About(p, after)
  BY BoardFacts DEF Pushed, Push, About
<1> HIDE DEF p
<1>2. <<p>> \in Seq(Push) /\ \A k \in DOMAIN <<p>> : <<p>>[k] = p
  BY <1>1
<1> QED
  BY <1>1, <1>2 DEF p

(* What a step of the daemon's leaves of the tab.                          *)
LEMMA DaemonPushes ==
    ASSUME BoardsInv, NEW after \in Board, held' = after, NoOlder(held, after),
           NEW ps \in Seq(Push), Broadcast(ps), \A k \in DOMAIN ps : About(ps[k], after),
           UNCHANGED <<board, reads>>,
           \A p \in sends' : p \in sends \/ (p.at = "stored" => About(p, after))
    PROVE  BoardsInv'
<1>1. wire \in Seq(Push)
  BY DEF BoardsInv, PushesSound
<1>2. /\ wire' \in Seq(Push)
      /\ \A k \in DOMAIN wire' :
            About(wire'[k], after) \/ \E j \in DOMAIN wire : wire'[k] = wire[j]
  BY <1>1, BroadcastFacts
<1> QED
  BY <1>2, DaemonMoves

LEMMA PostRoundBoards ==
    ASSUME BoardsInv, PostRound
    PROVE  BoardsInv'
<1> DEFINE n == Len(held) + 1
           after == Append(held, [status |-> "open", text |-> 0])
           ps == <<Pushed("new-round", n, after)>>
<1>1. /\ n \in RoundNo /\ held' = after /\ Broadcast(ps)
      /\ UNCHANGED <<board, reads, sends>>
  BY Zenon DEF PostRound, tabVars
<1>2. after \in Board /\ NoOlder(held, after) /\ n \in DOMAIN after
  BY <1>1, RoundAdded DEF BoardsInv
<1> HIDE DEF after, n
<1>3. ps \in Seq(Push) /\ \A k \in DOMAIN ps : About(ps[k], after)
  BY <1>1, <1>2, OnePush
<1> HIDE DEF ps
<1> QED
  BY <1>1, <1>2, <1>3, DaemonPushes

LEMMA RoundBecomes ==
    ASSUME NEW b \in Board, NEW n \in DOMAIN b, NEW r \in RoundRec,
           b[n].text <= r.text, Stage(b[n].status) <= Stage(r.status)
    PROVE  [b EXCEPT ![n] = r] \in Board /\ NoOlder(b, [b EXCEPT ![n] = r])
<1> DEFINE after == [b EXCEPT ![n] = r]
<1>1. /\ DOMAIN after = DOMAIN b /\ after = [m \in DOMAIN b |-> after[m]]
      /\ \A m \in DOMAIN b : after[m] = IF m = n THEN r ELSE b[m]
  OBVIOUS
<1>2. \A m \in DOMAIN b : /\ b[m] \in RoundRec /\ b[m].text <= b[m].text
                          /\ Stage(b[m].status) <= Stage(b[m].status)
  BY BoardFacts, StageType
<1> HIDE DEF after
<1>3. \A m \in DOMAIN b : /\ after[m] \in RoundRec
                          /\ b[m].text <= after[m].text
                          /\ Stage(b[m].status) <= Stage(after[m].status)
  BY <1>1, <1>2
<1>4. after \in Board /\ NoOlder(b, after)
  BY <1>1, <1>3, RoundsMoved
<1> QED
  BY <1>4 DEF after

LEMMA AmendRoundBoards ==
    ASSUME BoardsInv, AmendRound
    PROVE  BoardsInv'
<1> DEFINE n == Len(held)
           r == [held[n] EXCEPT !.text = held[n].text + 1]
           after == [held EXCEPT ![n] = r]
           ps == <<Pushed("amend", n, after)>>
<1>1. /\ held[n].status = "open" /\ held[n].text < MaxText /\ n \in RoundNo
      /\ held' = [held EXCEPT ![n].text = @ + 1]
      /\ Broadcast(<<Pushed("amend", n, [held EXCEPT ![n].text = @ + 1])>>)
      /\ UNCHANGED <<board, reads, sends>>
  BY PageKinds DEF AmendRound, tabVars, RoundNo
<1>2. PICK k \in RoundNo : DOMAIN held = 1 .. k /\ held \in [1 .. k -> RoundRec]
  BY BoardFacts DEF BoardsInv
<1>3. n \in DOMAIN held
  <2>1. k \in Nat /\ k >= 1
    BY PageBounds DEF RoundNo
  <2>2. held \in Seq(RoundRec) /\ Len(held) = k
    BY <1>2, <2>1
  <2> QED
    BY <1>2, <2>1, <2>2
<1>4. held' = after /\ Broadcast(ps)
  BY <1>1
<1> HIDE DEF n
<1>5. /\ held[n] \in RoundRec /\ held[n].text \in Nat /\ held[n].status \in Statuses
  BY <1>3, BoardFacts DEF BoardsInv
<1>6. held[n].text + 1 \in Text
  BY <1>1, <1>5, PageBounds DEF Text
<1>7. r \in RoundRec /\ r.text = held[n].text + 1 /\ r.status = held[n].status
  BY <1>5, <1>6 DEF RoundRec
<1> HIDE DEF r
<1>8. after \in Board /\ NoOlder(held, after) /\ n \in DOMAIN after
  <2>1. held[n].text <= r.text /\ Stage(held[n].status) <= Stage(r.status)
    BY <1>5, <1>7, StageType
  <2> QED
    BY <1>3, <1>7, <2>1, RoundBecomes DEF BoardsInv
<1> HIDE DEF after
<1>9. ps \in Seq(Push) /\ \A j \in DOMAIN ps : About(ps[j], after)
  BY <1>1, <1>8, OnePush
<1> HIDE DEF ps
<1> QED
  BY <1>1, <1>4, <1>8, <1>9, DaemonPushes

LEMMA SentByFacts ==
    ASSUME NEW n, held \in Board, Unsent(held, n)
    PROVE  /\ SentBy(n) \in Board /\ NoOlder(held, SentBy(n)) /\ n \in DOMAIN SentBy(n)
<1> DEFINE r == [held[n] EXCEPT !.status = "sent"]
<1>1. n \in DOMAIN held /\ DOMAIN SentBy(n) = DOMAIN held
  BY DEF Unsent, InBoard, SentBy
<1>2. held[n] \in RoundRec /\ held[n].text \in Nat /\ held[n].status \in Statuses
  BY <1>1, BoardFacts
<1>3. r \in RoundRec /\ r.text = held[n].text /\ r.status = "sent"
  BY <1>2 DEF RoundRec
<1>4. SentBy(n) = [held EXCEPT ![n] = r]
  BY DEF SentBy
<1> HIDE DEF r
<1>5. held[n].text <= r.text /\ Stage(held[n].status) <= Stage(r.status)
  BY <1>2, <1>3 DEF Stage, Statuses
<1> QED
  BY <1>1, <1>3, <1>4, <1>5, RoundBecomes

LEMMA OtherSendsBoards ==
    ASSUME BoardsInv, NEW n \in RoundNo, OtherSends(n)
    PROVE  BoardsInv'
<1> DEFINE after == SentBy(n)
           ps == <<Pushed("submitted", n, after)>>
<1>1. /\ Unsent(held, n) /\ held' = after /\ Broadcast(ps)
      /\ UNCHANGED <<board, reads, sends>>
  BY Zenon DEF OtherSends, tabVars
<1>2. after \in Board /\ NoOlder(held, after) /\ n \in DOMAIN after
  BY <1>1, SentByFacts DEF BoardsInv
<1> HIDE DEF after
<1>3. ps \in Seq(Push) /\ \A k \in DOMAIN ps : About(ps[k], after)
  BY <1>2, OnePush
<1> HIDE DEF ps
<1> QED
  BY <1>1, <1>2, <1>3, DaemonPushes

LEMMA WaitRunsOutBoards ==
    ASSUME BoardsInv, NEW n \in RoundNo, WaitRunsOut(n)
    PROVE  BoardsInv'
<1> DEFINE ps == <<Pushed("awaitExpired", n, held)>>
<1>1. /\ n \in DOMAIN held /\ held' = held /\ Broadcast(ps)
      /\ UNCHANGED <<board, reads, sends>>
  BY Zenon DEF WaitRunsOut, tabVars, heldVars
<1>2. held \in Board /\ NoOlder(held, held)
  BY NoOlderSelf DEF BoardsInv
<1>3. ps \in Seq(Push) /\ \A k \in DOMAIN ps : About(ps[k], held)
  BY <1>1, <1>2, OnePush
<1> HIDE DEF ps
<1> QED
  BY <1>1, <1>2, <1>3, DaemonPushes

LEMMA AbandonBoardBoards ==
    ASSUME BoardsInv, AbandonBoard
    PROVE  BoardsInv'
<1> DEFINE closed == {n \in DOMAIN held : held[n].status = "open"}
           shut(n) == [held[n] EXCEPT !.status = "abandoned"]
           after == [n \in DOMAIN held |-> IF n \in closed THEN shut(n) ELSE held[n]]
           order == Ascending(closed)
           count == Cardinality(closed)
           ps == [k \in 1 .. count |-> Pushed("awaitExpired", order[k], after)]
<1>1. held' = after /\ Broadcast(ps) /\ UNCHANGED <<board, reads, sends>>
  BY Zenon DEF AbandonBoard, tabVars
<1>2. after \in Board /\ NoOlder(held, after)
  <2>1. ASSUME NEW n \in closed
        PROVE  /\ shut(n) \in RoundRec /\ held[n].text <= shut(n).text
               /\ Stage(held[n].status) <= Stage(shut(n).status)
    <3>1. /\ held[n] \in RoundRec /\ held[n].text \in Nat /\ held[n].status = "open"
      BY BoardFacts DEF BoardsInv
    <3>2. shut(n) \in RoundRec /\ shut(n).text = held[n].text /\ shut(n).status = "abandoned"
      BY <3>1 DEF RoundRec
    <3> QED
      BY <3>1, <3>2 DEF Stage
  <2>2. \A n \in DOMAIN held : /\ held[n] \in RoundRec /\ held[n].text <= held[n].text
                               /\ Stage(held[n].status) <= Stage(held[n].status)
    BY BoardFacts, StageType DEF BoardsInv
  <2> HIDE DEF shut
  <2>3. \A n \in DOMAIN held : after[n] = IF n \in closed THEN shut(n) ELSE held[n]
    OBVIOUS
  <2>4. DOMAIN after = DOMAIN held /\ after = [n \in DOMAIN held |-> after[n]]
    OBVIOUS
  <2> HIDE DEF after, closed
  <2>5. \A n \in DOMAIN held : /\ after[n] \in RoundRec
                               /\ held[n].text <= after[n].text
                               /\ Stage(held[n].status) <= Stage(after[n].status)
    BY <2>1, <2>2, <2>3
  <2> QED
    BY <2>4, <2>5, RoundsMoved DEF BoardsInv
<1>3. /\ closed \subseteq RoundNo /\ closed \subseteq Nat /\ IsFiniteSet(closed)
      /\ closed \subseteq DOMAIN after
  <2>1. closed \subseteq RoundNo /\ closed \subseteq DOMAIN after
    BY BoardFacts DEF BoardsInv
  <2>2. RoundNo \subseteq Nat /\ IsFiniteSet(RoundNo)
    <3>1. MaxRounds \in Int /\ 1 \in Int
      BY PageBounds
    <3> QED
      BY <3>1, FS_Interval DEF RoundNo
  <2> HIDE DEF closed, after
  <2> QED
    BY <2>1, <2>2, FS_Subset
<1> HIDE DEF closed, after
<1>4. order \in Seq(closed) /\ DOMAIN order = 1 .. count /\ count \in Nat
  BY <1>3, AscendingFacts, FS_CardinalityType DEF Ascending
<1>5. \A k \in 1 .. count : order[k] \in RoundNo /\ order[k] \in DOMAIN after
  BY <1>3, <1>4, LenProperties, ElementOfSeq
<1> HIDE DEF order, count
<1>6. \A k \in 1 .. count : /\ Pushed("awaitExpired", order[k], after) \in Push
                            /\ About(Pushed("awaitExpired", order[k], after), after)
  BY <1>2, <1>5 DEF Pushed, Push, About
<1>7. ps \in Seq(Push) /\ \A k \in DOMAIN ps : About(ps[k], after)
  <2>1. ps \in [1 .. count -> Push]
    BY <1>6
  <2> QED
    BY <1>4, <1>6, <2>1
<1> HIDE DEF ps
<1> QED
  BY <1>1, <1>2, <1>7, DaemonPushes

LEMMA HandleSubmitBoards ==
    ASSUME PageInv, NEW p \in sends, HandleSubmit(p)
    PROVE  BoardsInv'
<1> DEFINE after == SentBy(p.n)
           ps == <<Pushed("submitted", p.n, after)>>
           q == [p EXCEPT !.at = "stored", !.snap = after]
           r == [p EXCEPT !.at = "refused"]
<1>1. UNCHANGED <<board, reads>> /\ SendSound(p) /\ BoardsInv
  BY DEF HandleSubmit, PageInv, CommentsInv
<1>2. \/ /\ Unsent(held, p.n) /\ held' = after /\ Broadcast(ps)
         /\ sends' = (sends \ {p}) \cup {q}
      \/ sends' = (sends \ {p}) \cup {r} /\ UNCHANGED <<held, wire>>
  BY Zenon DEF HandleSubmit
<1>3. CASE /\ Unsent(held, p.n) /\ held' = after /\ Broadcast(ps)
           /\ sends' = (sends \ {p}) \cup {q}
  <2>1. after \in Board /\ NoOlder(held, after) /\ p.n \in DOMAIN after
    BY <1>1, <1>3, SentByFacts DEF BoardsInv
  <2> HIDE DEF after
  <2>2. About(q, after)
    BY <1>1, <2>1 DEF SendSound, About
  <2> HIDE DEF q
  <2>3. ps \in Seq(Push) /\ \A k \in DOMAIN ps : About(ps[k], after)
    BY <2>1, OnePush
  <2> HIDE DEF ps
  <2>4. \A s \in sends' : s \in sends \/ (s.at = "stored" => About(s, after))
    BY <1>3, <2>2
  <2> QED
    BY <1>1, <1>3, <2>1, <2>3, <2>4, DaemonPushes
<1>4. CASE sends' = (sends \ {p}) \cup {r} /\ UNCHANGED <<held, wire>>
  <2>1. r.at = "refused"
    BY <1>1 DEF SendSound
  <2> HIDE DEF r
  <2>2. \A s \in sends' : AnswerSound(s)'
    BY <1>1, <1>4, <2>1 DEF BoardsInv, AnswerSound
  <2> QED
    BY <1>1, <1>4, <2>2 DEF BoardsInv, PushesSound
<1> QED
  BY <1>2, <1>3, <1>4

(* A catch-up is answered from the board as it is, after those before it.  *)
LEMMA ServeBoards ==
    ASSUME BoardsInv, Serve
    PROVE  BoardsInv'
<1>1. PICK k \in DOMAIN reads :
        /\ reads[k] = NoBoard
        /\ \A j \in 1 .. (k - 1) : reads[j] # NoBoard
        /\ reads' = [reads EXCEPT ![k] = held]
        /\ UNCHANGED <<held, board, wire, sends>>
  BY DEF Serve, heldVars
<1>2. /\ reads \in Seq(Reading) /\ held \in Board /\ board \in Board
      /\ Ordered(reads) /\ Between(reads, board, held) /\ NoOlder(board, held)
  BY DEF BoardsInv
<1>3. Len(reads) \in Nat /\ DOMAIN reads = 1 .. Len(reads)
  BY <1>2, LenProperties
<1>4. /\ reads' \in Seq(Reading) /\ DOMAIN reads' = DOMAIN reads
      /\ \A j \in DOMAIN reads : reads'[j] = IF j = k THEN held ELSE reads[j]
  <2>1. reads \in [1 .. Len(reads) -> Reading]
    BY <1>2, <1>3
  <2>2. held \in Reading
    BY <1>2 DEF Reading
  <2>3. reads' \in [1 .. Len(reads) -> Reading]
    BY <1>1, <2>1, <2>2
  <2>4. \A j \in DOMAIN reads : reads'[j] = IF j = k THEN held ELSE reads[j]
    BY <1>1, <2>1
  <2>5. reads' \in Seq(Reading) /\ DOMAIN reads' = 1 .. Len(reads)
    BY <1>3, <2>3
  <2> QED
    BY <1>3, <2>4, <2>5
<1>5. held # NoBoard /\ NoOlder(held, held)
  BY <1>2, BoardFacts, NoOlderSelf
<1>6. Between(reads', board, held)
  BY <1>2, <1>4, <1>5 DEF Between
<1>7. Ordered(reads')
  <2>1. ASSUME NEW i \in DOMAIN reads, NEW j \in DOMAIN reads, i < j, reads'[j] # NoBoard
        PROVE  reads'[i] # NoBoard /\ NoOlder(reads'[i], reads'[j])
    <3>1. CASE j = k
      <4>1. i \in 1 .. (k - 1) /\ i # k
        BY <1>3, <2>1, <3>1
      <4>2. reads[i] # NoBoard /\ reads'[i] = reads[i] /\ reads'[j] = held
        BY <1>1, <1>4, <3>1, <4>1
      <4> QED
        BY <1>2, <4>2 DEF Between
    <3>2. CASE j # k
      <4>1. reads'[j] = reads[j] /\ reads[i] # NoBoard /\ NoOlder(reads[i], reads[j])
        BY <1>2, <1>4, <2>1, <3>2 DEF Ordered
      <4>2. i # k
        BY <1>1, <4>1
      <4> QED
        BY <1>4, <4>1, <4>2
    <3> QED
      BY <3>1, <3>2
  <2> QED
    BY <1>4, <2>1 DEF Ordered
<1> QED
  BY <1>1, <1>2, <1>4, <1>6, <1>7 DEF BoardsInv, PushesSound, AnswerSound

(* A catch-up the tab asks for is the last to be answered.                 *)
LEMMA ReadAsked ==
    ASSUME NEW r \in Seq(Reading), NEW old, NEW new, Ordered(r), Between(r, old, new)
    PROVE  LET q == Append(r, NoBoard)
           IN  q \in Seq(Reading) /\ Ordered(q) /\ Between(q, old, new)
<1> DEFINE q == Append(r, NoBoard)
<1>1. Len(r) \in Nat /\ DOMAIN r = 1 .. Len(r)
  BY LenProperties
<1>2. /\ q \in Seq(Reading) /\ Len(q) = Len(r) + 1
      /\ \A i \in 1 .. Len(r) : q[i] = r[i]
      /\ q[Len(r) + 1] = NoBoard
  <2>1. NoBoard \in Reading
    BY DEF Reading
  <2> QED
    BY <2>1, AppendProperties
<1> HIDE DEF q
<1>3. DOMAIN q = 1 .. (Len(r) + 1)
  BY <1>2, LenProperties
<1>4. \A k \in DOMAIN q : q[k] # NoBoard => k \in DOMAIN r /\ q[k] = r[k]
  BY <1>1, <1>2, <1>3
<1>5. Between(q, old, new)
  BY <1>4 DEF Between
<1>6. Ordered(q)
  <2>1. ASSUME NEW j \in DOMAIN q, NEW k \in DOMAIN q, j < k, q[k] # NoBoard
        PROVE  q[j] # NoBoard /\ NoOlder(q[j], q[k])
    <3>1. k \in DOMAIN r /\ q[k] = r[k]
      BY <1>4, <2>1
    <3>2. j \in DOMAIN r /\ q[j] = r[j]
      BY <1>1, <1>2, <1>3, <2>1, <3>1
    <3> QED
      BY <2>1, <3>1, <3>2 DEF Ordered
  <2> QED
    BY <2>1 DEF Ordered
<1> QED
  BY <1>2, <1>5, <1>6 DEF q

LEMMA NoReads ==
    ASSUME NEW old, NEW new
    PROVE  <<>> \in Seq(Reading) /\ Ordered(<<>>) /\ Between(<<>>, old, new)
  BY DEF Ordered, Between

LEMMA BecomeFacts ==
    ASSUME NEW t, NEW q, NEW standing, Become(t, q, standing)
    PROVE  board' = t.board /\ \A p \in sends' : p \in standing \/ p.at = "sent"
<1> DEFINE closed == {n \in Pages \ frozen :
                        /\ InBoard(t.board, n) /\ t.board[n].status = "abandoned"
                        /\ t.dom[n] # <<>> /\ Head(t.dom[n]).as = "live"}
<1>1. board' = t.board /\ sends' = standing \cup UNION {Flush(n, q) : n \in closed}
  BY DEF Become
<1> HIDE DEF closed
<1>2. \A n : \A p \in Flush(n, q) : p.at = "sent"
  BY DEF Flush
<1> QED
  BY <1>1, <1>2

-----------------------------------------------------------------------------
(* The tab's parts: their types, and what the handlers make of them. *)

LEMMA SectionTypes ==
    /\ \A s \in Section : s.text \in Text
    /\ \A b \in Board : \A n \in DOMAIN b :
          Live(b[n].text) \in Section /\ Record(b[n].text) \in Section
    /\ \A s \in Section, b \in Board : \A n \in DOMAIN b : [s EXCEPT !.text = b[n].text] \in Section
<1>1. \A b \in Board : \A n \in DOMAIN b : b[n].text \in Text
  BY BoardFacts
<1> QED
  BY <1>1 DEF Section, Live, Record

(* What stands first, and only what stands first, gives way.               *)
LEMMA NewHead ==
    ASSUME NEW q \in Seq(Section), q # <<>>, NEW s \in Section
    PROVE  /\ <<s>> \o Tail(q) \in Seq(Section) /\ <<s>> \o Tail(q) # <<>>
           /\ Head(<<s>> \o Tail(q)) = s /\ Head(q) \in Section
<1> DEFINE z == <<s>> \o Tail(q)
<1>1. Tail(q) \in Seq(Section) /\ Head(q) \in Section /\ <<s>> \in Seq(Section)
  BY HeadTailProperties
<1>2. Len(<<s>>) = 1 /\ <<s>>[1] = s /\ Len(Tail(q)) \in Nat
  BY <1>1, LenProperties
<1>3. z \in Seq(Section) /\ Len(z) = 1 + Len(Tail(q)) /\ z[1] = s
  BY <1>1, <1>2, ConcatProperties
<1> HIDE DEF z
<1>4. z # <<>> /\ Head(z) = s
  BY <1>2, <1>3
<1> QED
  BY <1>1, <1>3, <1>4 DEF z

LEMMA FirstFacts ==
    ASSUME NEW d \in [RoundNo -> Seq(Section)], NEW n \in RoundNo, NEW s \in Section
    PROVE  /\ First(d, n, s) \in [RoundNo -> Seq(Section)]
           /\ \A k \in RoundNo : k # n => First(d, n, s)[k] = d[k]
           /\ d[n] # <<>> => First(d, n, s)[n] # <<>> /\ Head(First(d, n, s)[n]) = s
<1>1. d[n] # <<>> => /\ <<s>> \o Tail(d[n]) \in Seq(Section) /\ <<s>> \o Tail(d[n]) # <<>>
                     /\ Head(<<s>> \o Tail(d[n])) = s
  BY NewHead
<1>2. First(d, n, s) = [k \in RoundNo |-> IF k # n THEN d[k]
                                          ELSE IF d[n] = <<>> THEN d[n]
                                          ELSE <<s>> \o Tail(d[n])]
  BY DEF First
<1> QED
  BY <1>1, <1>2

LEMMA ClearFacts ==
    ASSUME NEW t \in Tabs, NEW ns
    PROVE  /\ ClearFields(t, ns) \in Tabs
           /\ ClearFields(t, ns).board = t.board
           /\ ClearFields(t, ns).dom = t.dom
           /\ ClearFields(t, ns).applied = t.applied
           /\ \A n \in RoundNo :
                 ClearFields(t, ns).draft[n] = IF n \in ns THEN NoDraft ELSE t.draft[n]
  BY DEF ClearFields, Tabs

LEMMA HistoryFacts ==
    ASSUME NEW t \in Tabs, NEW ns
    PROVE  /\ MarkHistory(t, ns) \in Tabs
           /\ MarkHistory(t, ns).board = t.board
           /\ MarkHistory(t, ns).applied = t.applied
           /\ MarkHistory(t, ns).draft = t.draft
           /\ \A n \in RoundNo :
                 t.dom[n] # <<>> => /\ MarkHistory(t, ns).dom[n] # <<>>
                                    /\ Head(MarkHistory(t, ns).dom[n]).text = Head(t.dom[n]).text
<1> DEFINE marked(n) == [Head(t.dom[n]) EXCEPT !.as = "history"]
           d == [n \in RoundNo |-> IF n \in ns /\ t.dom[n] # <<>>
                                   THEN <<marked(n)>> \o Tail(t.dom[n]) ELSE t.dom[n]]
<1>1. MarkHistory(t, ns) = [t EXCEPT !.dom = d]
  BY DEF MarkHistory
<1>2. ASSUME NEW n \in RoundNo, t.dom[n] # <<>>
      PROVE  /\ <<marked(n)>> \o Tail(t.dom[n]) \in Seq(Section)
             /\ <<marked(n)>> \o Tail(t.dom[n]) # <<>>
             /\ Head(<<marked(n)>> \o Tail(t.dom[n])).text = Head(t.dom[n]).text
  <2>1. t.dom[n] \in Seq(Section)
    BY DEF Tabs
  <2>2. Head(t.dom[n]) \in Section
    BY <1>2, <2>1, HeadTailProperties
  <2>3. marked(n) \in Section /\ marked(n).text = Head(t.dom[n]).text
    BY <2>2 DEF Section
  <2> HIDE DEF marked
  <2> QED
    BY <1>2, <2>1, <2>3, NewHead
<1> HIDE DEF marked
<1>3. /\ d \in [RoundNo -> Seq(Section)]
      /\ \A n \in RoundNo : t.dom[n] # <<>> =>
            d[n] # <<>> /\ Head(d[n]).text = Head(t.dom[n]).text
  <2>1. \A n \in RoundNo : t.dom[n] \in Seq(Section)
    BY DEF Tabs
  <2> QED
    BY <1>2, <2>1
<1> HIDE DEF d
<1> QED
  BY <1>1, <1>3 DEF Tabs

(* A round's push or replay brings its board, takes away the answers to    *)
(* the blocks it changes, and leaves every page its content, but that of   *)
(* its own round.                                                          *)
LEMMA RoundPushFacts ==
    ASSUME NEW t \in Tabs, NEW mode, NEW snap \in Board, NEW n \in DOMAIN snap
    PROVE  LET u == RoundPush(t, mode, n, snap)
           IN  /\ u \in Tabs /\ u.board = snap
               /\ \A k \in RoundNo :
                     u.draft[k] = IF k \in Changed(t.board, snap) THEN NoDraft ELSE t.draft[k]
               /\ \A k \in RoundNo : t.dom[k] # <<>> =>
                     /\ u.dom[k] # <<>>
                     /\ \/ Head(u.dom[k]).text = Head(t.dom[k]).text
                        \/ k = n /\ Head(u.dom[k]).text = snap[n].text
<1> DEFINE s == IF snap[n].status = "sent" THEN Record(snap[n].text) ELSE Live(snap[n].text)
           amended == [Head(t.dom[n]) EXCEPT !.text = snap[n].text]
           placed == IF mode = "new-round" THEN [t.dom EXCEPT ![n] = Append(@, s)]
                     ELSE IF t.dom[n] = <<>> THEN t.dom
                     ELSE First(t.dom, n, amended)
           cleared == ClearFields(t, Changed(t.board, snap))
           shown == [cleared EXCEPT !.board = snap, !.dom = placed]
<1>1. RoundPush(t, mode, n, snap) = MarkHistory(shown, NowSent(t.board, snap))
  BY Zenon DEF RoundPush, Cleared
<1>2. n \in RoundNo /\ s \in Section /\ t.dom \in [RoundNo -> Seq(Section)] /\ t.dom[n] \in Seq(Section)
  <2>1. n \in RoundNo
    BY BoardFacts
  <2> QED
    BY <2>1, SectionTypes DEF Tabs
<1>3. t.dom[n] # <<>> => amended \in Section /\ amended.text = snap[n].text
  <2>1. t.dom[n] # <<>> => Head(t.dom[n]) \in Section
    BY <1>2, HeadTailProperties
  <2> QED
    BY <2>1, SectionTypes DEF Section
<1> HIDE DEF s, amended
<1>4. /\ placed \in [RoundNo -> Seq(Section)]
      /\ \A k \in RoundNo : t.dom[k] # <<>> =>
            /\ placed[k] # <<>>
            /\ \/ Head(placed[k]).text = Head(t.dom[k]).text
               \/ k = n /\ Head(placed[k]).text = snap[n].text
  <2>1. CASE mode = "new-round"
    <3>1. /\ Append(t.dom[n], s) \in Seq(Section) /\ Append(t.dom[n], s) # <<>>
          /\ t.dom[n] # <<>> => Head(Append(t.dom[n], s)) = Head(t.dom[n])
      <4> DEFINE q == t.dom[n]
                 z == Append(q, s)
      <4>1. q \in Seq(Section) /\ Len(q) \in Nat
        BY <1>2, LenProperties
      <4> HIDE DEF q
      <4>2. /\ z \in Seq(Section) /\ Len(z) = Len(q) + 1 /\ \A i \in 1 .. Len(q) : z[i] = q[i]
        BY <1>2, <4>1, AppendProperties
      <4> HIDE DEF z
      <4>3. z # <<>>
        BY <4>1, <4>2
      <4>4. q # <<>> => z[1] = q[1]
        BY <4>1, <4>2
      <4>5. q # <<>> => Head(z) = Head(q)
        BY <4>4
      <4> QED
        BY <4>2, <4>3, <4>5 DEF z, q
    <3>2. placed = [t.dom EXCEPT ![n] = Append(t.dom[n], s)]
      BY <2>1
    <3> HIDE DEF placed
    <3> QED
      BY <1>2, <3>1, <3>2
  <2>2. CASE mode # "new-round" /\ t.dom[n] = <<>>
    BY <1>2, <2>2
  <2>3. CASE mode # "new-round" /\ t.dom[n] # <<>>
    <3>1. placed = First(t.dom, n, amended)
      BY <2>3
    <3> HIDE DEF placed
    <3>2. /\ placed \in [RoundNo -> Seq(Section)]
          /\ \A k \in RoundNo : k # n => placed[k] = t.dom[k]
          /\ placed[n] # <<>> /\ Head(placed[n]) = amended
      BY <1>2, <1>3, <2>3, <3>1, FirstFacts
    <3> QED
      BY <1>3, <2>3, <3>2
  <2> QED
    BY <2>1, <2>2, <2>3
<1> HIDE DEF placed
<1>5. /\ cleared \in Tabs
      /\ \A k \in RoundNo :
            cleared.draft[k] = IF k \in Changed(t.board, snap) THEN NoDraft ELSE t.draft[k]
  BY ClearFacts
<1> HIDE DEF cleared
<1>6. shown \in Tabs /\ shown.board = snap /\ shown.dom = placed /\ shown.draft = cleared.draft
  BY <1>4, <1>5 DEF Tabs
<1> HIDE DEF shown
<1> DEFINE u == MarkHistory(shown, NowSent(t.board, snap))
<1>7. /\ u \in Tabs /\ u.board = shown.board /\ u.draft = shown.draft
      /\ \A k \in RoundNo : shown.dom[k] # <<>> =>
            u.dom[k] # <<>> /\ Head(u.dom[k]).text = Head(shown.dom[k]).text
  BY <1>6, HistoryFacts
<1> HIDE DEF u
<1>8. RoundPush(t, mode, n, snap) = u
  BY <1>1 DEF u
<1> QED
  BY <1>4, <1>5, <1>6, <1>7, <1>8

LEMMA SubmittedFacts ==
    ASSUME NEW t \in Tabs, NEW snap \in Board, NEW n \in DOMAIN snap, n \notin t.applied
    PROVE  LET u == SubmittedPush(t, n, snap)
           IN  /\ u \in Tabs /\ u.board = snap
               /\ u.draft[n] = NoDraft
               /\ u.dom[n] # <<>> /\ Head(u.dom[n]).text = snap[n].text
               /\ \A k \in RoundNo : k # n => u.dom[k] = t.dom[k] /\ u.draft[k] = t.draft[k]
<1> DEFINE record == Record(snap[n].text)
           cleared == ClearFields(t, {n})
           d == IF t.dom[n] = <<>> THEN [t.dom EXCEPT ![n] = <<record>>]
                ELSE First(t.dom, n, record)
<1>1. cleared \in Tabs /\ cleared.dom = t.dom /\ cleared.applied = t.applied
  BY ClearFacts
<1>2. n \in RoundNo
  BY BoardFacts
<1>3. cleared.draft[n] = NoDraft /\ \A k \in RoundNo : k # n => cleared.draft[k] = t.draft[k]
  BY <1>2, ClearFacts
<1>4. SubmittedPush(t, n, snap)
        = [cleared EXCEPT !.board = snap, !.applied = t.applied \cup {n}, !.dom = d]
  <2>1. SubmittedPush(t, n, snap)
          = [cleared EXCEPT !.board = snap, !.applied = @ \cup {n},
               !.dom = IF t.dom[n] = <<>> THEN [@ EXCEPT ![n] = <<record>>]
                       ELSE First(@, n, record)]
    BY Zenon DEF SubmittedPush
  <2> HIDE DEF cleared, record
  <2> QED
    BY <1>1, <2>1 DEF Tabs
<1>5. record \in Section /\ record.text = snap[n].text
  BY SectionTypes DEF Record
<1> HIDE DEF cleared, record
<1>6. /\ d \in [RoundNo -> Seq(Section)] /\ d[n] # <<>> /\ Head(d[n]) = record
      /\ \A k \in RoundNo : k # n => d[k] = t.dom[k]
  <2>1. t.dom \in [RoundNo -> Seq(Section)]
    BY DEF Tabs
  <2>2. CASE t.dom[n] = <<>>
    <3>1. <<record>> \in Seq(Section) /\ <<record>> # <<>> /\ Head(<<record>>) = record
      BY <1>5
    <3> QED
      BY <1>2, <2>1, <2>2, <3>1
  <2>3. CASE t.dom[n] # <<>>
    BY <1>2, <1>5, <2>1, <2>3, FirstFacts
  <2> QED
    BY <2>2, <2>3
<1> HIDE DEF d
<1> DEFINE u == [cleared EXCEPT !.board = snap, !.applied = t.applied \cup {n}, !.dom = d]
<1>7. /\ u \in Tabs /\ u.board = snap /\ u.dom = d /\ u.draft = cleared.draft
  BY <1>1, <1>2, <1>6 DEF Tabs
<1> HIDE DEF u
<1>8. SubmittedPush(t, n, snap) = u
  BY <1>4 DEF u
<1> QED
  BY <1>3, <1>5, <1>6, <1>7, <1>8

LEMMA SubmittedTwice ==
    ASSUME NEW t, NEW n, NEW snap, n \in t.applied
    PROVE  SubmittedPush(t, n, snap) = t
  BY DEF SubmittedPush

LEMMA ReplayFacts ==
    ASSUME NEW t \in Tabs, NEW snap \in Board, NEW n \in DOMAIN snap
    PROVE  LET u == Replay(t, n, snap)
           IN  /\ u \in Tabs /\ u.board = snap
               /\ \A k \in RoundNo :
                     u.draft[k] = IF k \in Changed(t.board, snap) THEN NoDraft ELSE t.draft[k]
               /\ \A k \in RoundNo : t.dom[k] # <<>> =>
                     /\ u.dom[k] # <<>>
                     /\ \/ Head(u.dom[k]).text = Head(t.dom[k]).text
                        \/ k = n /\ Head(u.dom[k]).text = snap[n].text
<1> DEFINE mode == IF t.dom[n] = <<>> THEN "new-round" ELSE "amend"
           u == RoundPush(t, mode, n, snap)
<1>1. Replay(t, n, snap) = u
  BY DEF Replay
<1> HIDE DEF mode
<1>2. /\ u \in Tabs /\ u.board = snap
      /\ \A k \in RoundNo :
            u.draft[k] = IF k \in Changed(t.board, snap) THEN NoDraft ELSE t.draft[k]
      /\ \A k \in RoundNo : t.dom[k] # <<>> =>
            /\ u.dom[k] # <<>>
            /\ \/ Head(u.dom[k]).text = Head(t.dom[k]).text
               \/ k = n /\ Head(u.dom[k]).text = snap[n].text
  BY RoundPushFacts
<1> HIDE DEF u
<1> QED
  BY <1>1, <1>2

(* What a board differs in from an earlier one is rounds of its own.       *)
LEMMA DiffFacts ==
    ASSUME NEW old \in Board, NEW new \in Board, NEW ns,
           ns \subseteq DOMAIN new
    PROVE  ns \subseteq Nat /\ IsFiniteSet(ns)
<1>1. PICK k \in RoundNo : DOMAIN new = 1 .. k
  BY BoardFacts
<1>2. k \in Nat
  BY <1>1, PageBounds DEF RoundNo
<1>3. IsFiniteSet(1 .. k)
  BY <1>2, FS_Interval
<1> QED
  BY <1>1, <1>2, <1>3, FS_Subset

(* Where a catch-up leads, each way it can be taken on.                    *)
LEMMA SentRoundsFacts ==
    ASSUME NEW t \in Tabs, NEW snap \in Board, NEW ns, NEW n \in RoundNo,
           t.board = snap, ns \subseteq DOMAIN snap
    PROVE  LET u == SentRounds(t, ns, snap)
           IN  /\ u \in Tabs /\ u.board = snap
               /\ t.draft[n] = NoDraft => u.draft[n] = NoDraft
               /\ (n \in DOMAIN snap /\ t.dom[n] # <<>> /\ Head(t.dom[n]).text = snap[n].text) =>
                     Head(u.dom[n]).text = snap[n].text
<1>1. ns \subseteq Nat /\ IsFiniteSet(ns)
  BY DiffFacts
<1>2. ASSUME NEW u \in Tabs, u.board = snap, NEW k \in ns
      PROVE  LET v == SubmittedPush(u, k, snap)
             IN  /\ v \in Tabs /\ v.board = snap
                 /\ u.draft[n] = NoDraft => v.draft[n] = NoDraft
                 /\ (u.dom[n] # <<>> /\ Head(u.dom[n]).text = snap[n].text) =>
                       v.dom[n] # <<>> /\ Head(v.dom[n]).text = snap[n].text
  <2>1. CASE k \in u.applied
    BY <1>2, <2>1, SubmittedTwice
  <2>2. CASE k \notin u.applied
    <3>1. k \in DOMAIN snap
      BY <1>2
    <3> QED
      BY <2>2, <3>1, SubmittedFacts
  <2> QED
    BY <2>1, <2>2
<1> DEFINE S == {u \in Tabs : /\ u.board = snap
                              /\ t.draft[n] = NoDraft => u.draft[n] = NoDraft
                              /\ (t.dom[n] # <<>> /\ Head(t.dom[n]).text = snap[n].text) =>
                                    u.dom[n] # <<>> /\ Head(u.dom[n]).text = snap[n].text}
<1>3. t \in S
  OBVIOUS
<1>4. \A u \in S, k \in ns : SubmittedPush(u, k, snap) \in S
  BY <1>2
<1> HIDE DEF S
<1>5. SentRounds(t, ns, snap) \in S
  BY <1>1, <1>3, <1>4, SentRoundsStay
<1> QED
  BY <1>5 DEF S

LEMMA ReplayedFacts ==
    ASSUME NEW t \in Tabs, NEW fresh \in Board, NEW ns, ns \subseteq DOMAIN fresh, ns # {},
           NEW n \in RoundNo
    PROVE  LET u == Replayed(t, ns, fresh)
           IN  /\ u \in Tabs /\ u.board = fresh
               /\ n \in Changed(t.board, fresh) => u.draft[n] = NoDraft
               /\ (n \in DOMAIN fresh /\ t.dom[n] # <<>> /\ Head(t.dom[n]).text = fresh[n].text) =>
                     u.dom[n] # <<>> /\ Head(u.dom[n]).text = fresh[n].text
<1>1. ns \subseteq Nat /\ IsFiniteSet(ns)
  BY DiffFacts
<1> DEFINE kept == t.dom[n] # <<>> /\ Head(t.dom[n]).text = fresh[n].text
           S == {u \in Tabs :
                   /\ \/ u.board = t.board
                      \/ u.board = fresh /\ (n \in Changed(t.board, fresh) => u.draft[n] = NoDraft)
                   /\ kept => u.dom[n] # <<>> /\ Head(u.dom[n]).text = fresh[n].text}
<1>2. t \in S
  OBVIOUS
<1> HIDE DEF kept
<1>3. ASSUME NEW u \in S, NEW k \in ns
      PROVE  /\ Replay(u, k, fresh) \in S
             /\ Replay(u, k, fresh).board = fresh
             /\ n \in Changed(t.board, fresh) => Replay(u, k, fresh).draft[n] = NoDraft
  <2> DEFINE v == Replay(u, k, fresh)
  <2>1. u \in Tabs /\ k \in DOMAIN fresh
    OBVIOUS
  <2>2. /\ v \in Tabs /\ v.board = fresh
        /\ v.draft[n] = IF n \in Changed(u.board, fresh) THEN NoDraft ELSE u.draft[n]
        /\ u.dom[n] # <<>> =>
              /\ v.dom[n] # <<>>
              /\ \/ Head(v.dom[n]).text = Head(u.dom[n]).text
                 \/ k = n /\ Head(v.dom[n]).text = fresh[k].text
    BY <2>1, ReplayFacts
  <2> HIDE DEF v
  <2>3. n \in Changed(t.board, fresh) => v.draft[n] = NoDraft
    BY <2>2
  <2> QED
    BY <2>2, <2>3 DEF v
<1>4. \A u \in S, k \in ns : Replay(u, k, fresh) \in S
  BY <1>3
<1>5. Replayed(t, ns, fresh) \in S
  <2> HIDE DEF S
  <2> QED
    BY <1>1, <1>2, <1>4, ReplayedStays
<1>6. PICK u \in S, k \in ns : Replayed(t, ns, fresh) = Replay(u, k, fresh)
  <2> HIDE DEF S
  <2> QED
    BY <1>1, <1>2, <1>4, ReplayedStays
<1> QED
  BY <1>3, <1>5, <1>6 DEF kept

LEMMA NoneReplayed ==
    ASSUME NEW t, NEW fresh
    PROVE  Replayed(t, {}, fresh) = t
<1>1. IsFiniteSet({}) /\ {} \subseteq Nat
  BY FS_EmptySet
<1> DEFINE S == {t}
<1>2. t \in S /\ \A u \in S, n \in {} : Replay(u, n, fresh) \in S
  OBVIOUS
<1> HIDE DEF S
<1>3. Replayed(t, {}, fresh) \in S
  BY <1>1, <1>2, ReplayedStays
<1> QED
  BY <1>3 DEF S

(* A catch-up that repaints leaves the tab with the board it read, and,    *)
(* unless that closes a round unsent, no answer to a content it changed.   *)
LEMMA ResyncFacts ==
    ASSUME NEW t \in Tabs, NEW fresh \in Board, Repaints(t.board, fresh), NEW n \in RoundNo
    PROVE  LET u == Resync(t, fresh)
           IN  /\ u \in Tabs /\ u.board = fresh
               /\ (/\ n \in DOMAIN t.board /\ n \in DOMAIN fresh /\ t.dom[n] # <<>>
                   /\ t.board[n].text = Head(t.dom[n]).text
                   /\ ClosedUnsent(t.board, fresh) = {}) =>
                     \/ u.draft[n] = NoDraft
                     \/ Head(u.dom[n]).text = Head(t.dom[n]).text
<1> DEFINE touched == Added(t.board, fresh) \cup Changed(t.board, fresh)
           sent == NowSent(t.board, fresh)
           closed == ClosedUnsent(t.board, fresh)
           adopted == IF closed # {} \/ (touched = {} /\ sent # {})
                      THEN [t EXCEPT !.board = fresh] ELSE t
           v == Replayed(adopted, touched, fresh)
<1>1. Resync(t, fresh) = SentRounds(v, sent, fresh)
  BY Zenon DEF Resync
<1>2. /\ touched \subseteq DOMAIN fresh /\ sent \subseteq DOMAIN fresh
      /\ touched # {} \/ sent # {} \/ closed # {}
  BY DEF Added, Changed, NowSent, Repaints
<1>3. adopted \in Tabs /\ adopted.dom = t.dom /\ adopted.draft = t.draft
  BY DEF Tabs
<1>4. closed = {} => \/ adopted = t
                     \/ touched = {} /\ adopted.board = fresh
  BY DEF Tabs
<1>5. adopted.board = fresh \/ touched # {}
  BY <1>2 DEF Tabs
<1> DEFINE same == /\ n \in DOMAIN t.board /\ n \in DOMAIN fresh /\ t.dom[n] # <<>>
                   /\ t.board[n].text = Head(t.dom[n]).text
                   /\ closed = {}
<1>6. same => \/ n \in Changed(t.board, fresh)
              \/ Head(t.dom[n]).text = fresh[n].text
  BY DEF Changed
<1>7. n \in Changed(t.board, fresh) => touched # {}
  OBVIOUS
<1>8. closed = {} /\ touched # {} => adopted = t
  BY <1>4
<1> HIDE DEF touched, sent, adopted
<1>9. /\ v \in Tabs /\ v.board = fresh
      /\ same => \/ v.draft[n] = NoDraft
                 \/ v.dom[n] # <<>> /\ Head(v.dom[n]).text = fresh[n].text
                      /\ Head(t.dom[n]).text = fresh[n].text
  <2>1. CASE touched = {}
    <3>1. v = adopted
      BY <2>1, NoneReplayed
    <3> HIDE DEF v
    <3> QED
      BY <1>3, <1>5, <1>6, <1>7, <2>1, <3>1
  <2>2. CASE touched # {}
    <3>1. /\ v \in Tabs /\ v.board = fresh
          /\ n \in Changed(adopted.board, fresh) => v.draft[n] = NoDraft
          /\ (n \in DOMAIN fresh /\ t.dom[n] # <<>> /\ Head(t.dom[n]).text = fresh[n].text) =>
                v.dom[n] # <<>> /\ Head(v.dom[n]).text = fresh[n].text
      BY <1>2, <1>3, <2>2, ReplayedFacts
    <3> HIDE DEF v
    <3> QED
      BY <1>6, <1>8, <2>2, <3>1
  <2> QED
    BY <2>1, <2>2
<1> HIDE DEF v, same, closed
<1> DEFINE u == SentRounds(v, sent, fresh)
<1>10. v \in Tabs /\ v.board = fresh /\ sent \subseteq DOMAIN fresh
  BY <1>2, <1>9
<1>11. /\ u \in Tabs /\ u.board = fresh
       /\ v.draft[n] = NoDraft => u.draft[n] = NoDraft
       /\ (n \in DOMAIN fresh /\ v.dom[n] # <<>> /\ Head(v.dom[n]).text = fresh[n].text) =>
             Head(u.dom[n]).text = fresh[n].text
  BY <1>10, SentRoundsFacts
<1> HIDE DEF u
<1>12. Resync(t, fresh) = u
  BY <1>1 DEF u
<1> QED
  BY <1>9, <1>11, <1>12 DEF same, closed

-----------------------------------------------------------------------------
(* What lands in the tab. *)

LEMMA PushTaken ==
    ASSUME BoardsInv, wire # <<>>, wire' = Tail(wire)
    PROVE  /\ Head(wire) \in Push /\ Head(wire).snap \in Board
           /\ Head(wire).n \in DOMAIN Head(wire).snap
           /\ NoOlder(Head(wire).snap, held)
           /\ wire' \in Seq(Push) /\ wire' # wire
           /\ \A k \in DOMAIN wire' : \E j \in DOMAIN wire : wire'[k] = wire[j]
<1>1. wire \in Seq(Push) /\ Len(wire) \in Nat /\ DOMAIN wire = 1 .. Len(wire)
  BY LenProperties DEF BoardsInv, PushesSound
<1>2. Len(wire) # 0 /\ Head(wire) = wire[1]
  BY <1>1
<1>3. 1 \in DOMAIN wire
  BY <1>1, <1>2
<1>4. /\ Head(wire) \in Push /\ wire' \in Seq(Push) /\ Len(wire') = Len(wire) - 1
      /\ \A i \in 1 .. Len(wire') : wire'[i] = wire[i + 1]
  BY <1>1, HeadTailProperties
<1>5. DOMAIN wire' = 1 .. (Len(wire) - 1)
  BY <1>4, LenProperties
<1>6. wire' # wire
  <2>1. \A n \in Nat : n - 1 # n
    OBVIOUS
  <2>2. Len(wire') # Len(wire)
    BY <1>1, <1>4, <2>1
  <2> QED
    BY <2>2
<1>7. \A k \in DOMAIN wire' : k + 1 \in DOMAIN wire /\ wire'[k] = wire[k + 1]
  BY <1>1, <1>4, <1>5
<1>8. Head(wire).snap \in Board
  BY <1>4 DEF Push
<1> QED
  BY <1>2, <1>3, <1>4, <1>6, <1>7, <1>8 DEF BoardsInv, PushesSound

LEMMA RoundPushBoard ==
    ASSUME NEW t \in Tabs, NEW mode, NEW snap \in Board, NEW n \in DOMAIN snap
    PROVE  RoundPush(t, mode, n, snap).board = snap
  BY RoundPushFacts

LEMMA RecvPushBoards ==
    ASSUME PageInv, RecvPush
    PROVE  BoardsInv' /\ wire' # wire
<1> DEFINE p == Head(wire)
           t == IF p.type = "submitted" THEN SubmittedPush(ThisTab, p.n, p.snap)
                ELSE RoundPush(ThisTab, p.type, p.n, p.snap)
<1>1. /\ wire # <<>> /\ wire' = Tail(wire) /\ held' = held
      /\ \/ UNCHANGED <<board, sends, reads>>
         \/ /\ ~(p.type = "submitted" /\ p.n \in applied)
            /\ Become(t, queue, sends) /\ reads' = <<>>
  BY Zenon DEF RecvPush, ReadsAfterPush, heldVars
<1>2. /\ p \in Push /\ p.snap \in Board /\ p.n \in DOMAIN p.snap /\ NoOlder(p.snap, held)
      /\ wire' \in Seq(Push) /\ wire' # wire
      /\ \A k \in DOMAIN wire' : \E j \in DOMAIN wire : wire'[k] = wire[j]
  BY <1>1, PushTaken DEF PageInv
<1> HIDE DEF p
<1>3. ~(p.type = "submitted" /\ p.n \in applied) => t.board = p.snap
  <2>1. ThisTab \in Tabs /\ ThisTab.applied = applied
    BY DEF PageInv, TabInv, ThisTab
  <2>2. p.n \notin applied => SubmittedPush(ThisTab, p.n, p.snap).board = p.snap
    BY <1>2, <2>1, SubmittedFacts
  <2>3. \A mode : RoundPush(ThisTab, mode, p.n, p.snap).board = p.snap
    BY <1>2, <2>1, RoundPushBoard
  <2> QED
    BY <2>2, <2>3
<1> USE DEF PageInv
<1> HIDE DEF t
<1>4. CASE UNCHANGED <<board, sends, reads>>
  <2>1. /\ board' \in Board /\ NoOlder(board', held) /\ reads' \in Seq(Reading)
        /\ Ordered(reads') /\ Between(reads', board', held)
        /\ \A s \in sends' : s \in sends
    BY <1>4 DEF BoardsInv
  <2> QED
    BY <1>1, <1>2, <2>1, TabMoves
<1>5. CASE /\ ~(p.type = "submitted" /\ p.n \in applied)
           /\ Become(t, queue, sends) /\ reads' = <<>>
  <2>1. board' = p.snap /\ \A s \in sends' : s \in sends \/ s.at = "sent"
    BY <1>3, <1>5, BecomeFacts
  <2>2. reads' \in Seq(Reading) /\ Ordered(reads') /\ Between(reads', board', held)
    BY <1>5, NoReads
  <2> QED
    BY <1>1, <1>2, <2>1, <2>2, TabMoves
<1> QED
  BY <1>1, <1>2, <1>4, <1>5

LEMMA RecvNudgeBoards ==
    ASSUME BoardsInv, RecvNudge
    PROVE  BoardsInv' /\ board' = board
<1>1. /\ wire # <<>> /\ wire' = Tail(wire) /\ held' = held
      /\ Become(ThisTab, queue, sends) /\ reads' = Append(reads, NoBoard)
  BY DEF RecvNudge, heldVars
<1>2. board' = board /\ \A s \in sends' : s \in sends \/ s.at = "sent"
  BY <1>1, BecomeFacts DEF ThisTab
<1>3. /\ wire' \in Seq(Push)
      /\ \A k \in DOMAIN wire' : \E j \in DOMAIN wire : wire'[k] = wire[j]
  BY <1>1, PushTaken
<1>4. reads' \in Seq(Reading) /\ Ordered(reads') /\ Between(reads', board, held)
  BY <1>1, ReadAsked DEF BoardsInv
<1>5. board \in Board /\ NoOlder(board, held)
  BY DEF BoardsInv
<1> QED
  BY <1>1, <1>2, <1>3, <1>4, <1>5, TabMoves

LEMMA DropBoards ==
    ASSUME BoardsInv, Drop
    PROVE  BoardsInv' /\ board' = board
<1>1. wire' = <<>> /\ UNCHANGED <<held, board, sends, reads>>
  BY DEF Drop, heldVars, tabVars
<1>2. wire' \in Seq(Push) /\ \A k \in DOMAIN wire' : \E j \in DOMAIN wire : wire'[k] = wire[j]
  BY <1>1
<1> QED
  BY <1>1, <1>2 DEF BoardsInv, PushesSound, AnswerSound

LEMMA ReopenBoards ==
    ASSUME BoardsInv, Reopen
    PROVE  BoardsInv' /\ board' = board
<1>1. reads' = Append(reads, NoBoard) /\ UNCHANGED <<held, board, wire, sends>>
  BY DEF Reopen, heldVars
<1>2. reads' \in Seq(Reading) /\ Ordered(reads') /\ Between(reads', board, held)
  BY <1>1, ReadAsked DEF BoardsInv
<1> QED
  BY <1>1, <1>2 DEF BoardsInv, PushesSound, AnswerSound

(* The reviewer's steps, and a Send that failed.                           *)
LEMMA BoardsStill ==
    ASSUME BoardsInv, UNCHANGED <<held, board, wire, reads>>,
           \A p \in sends' : p \in sends \/ p.at = "sent"
    PROVE  BoardsInv'
  BY DEF BoardsInv, PushesSound, AnswerSound

(* An answer brings the board it was stored in; no Send is made anew.      *)
LEMMA AnswerLandsBoards ==
    ASSUME PageInv, NEW p \in sends, AnswerLands(p)
    PROVE  BoardsInv' /\ p \notin sends'
<1> USE DEF PageInv
<1> DEFINE t == SubmittedPush(ThisTab, p.n, p.snap)
<1>1. /\ UNCHANGED <<held, wire>> /\ p.at \in {"stored", "refused"}
      /\ \/ /\ p.at = "stored" /\ p.n \notin applied
            /\ Become(t, queue \ Leaves(p), sends \ {p}) /\ reads' = <<>>
         \/ sends' = sends \ {p} /\ UNCHANGED <<board, reads>>
  BY Zenon DEF AnswerLands, heldVars, ReadsAfterPush
<1>2. CASE sends' = sends \ {p} /\ UNCHANGED <<board, reads>>
  BY <1>1, <1>2, BoardsStill
<1>3. CASE /\ p.at = "stored" /\ p.n \notin applied
           /\ Become(t, queue \ Leaves(p), sends \ {p}) /\ reads' = <<>>
  <2>1. t.board = p.snap
    <3>1. ThisTab \in Tabs /\ ThisTab.applied = applied
      BY DEF TabInv, ThisTab
    <3>2. p.snap \in Board /\ p.n \in DOMAIN p.snap /\ p.n \notin applied
      BY <1>3 DEF BoardsInv, AnswerSound
    <3> QED
      BY <3>1, <3>2, SubmittedFacts
  <2> HIDE DEF t
  <2>2. board' = p.snap /\ \A s \in sends' : s \in sends \ {p} \/ s.at = "sent"
    BY <1>3, <2>1, BecomeFacts
  <2>3. p.snap \in Board /\ NoOlder(p.snap, held)
    BY <1>3 DEF BoardsInv, AnswerSound
  <2>4. reads' \in Seq(Reading) /\ Ordered(reads') /\ Between(reads', board', held)
    BY <1>3, NoReads
  <2>5. wire' \in Seq(Push) /\ \A k \in DOMAIN wire' : \E j \in DOMAIN wire : wire'[k] = wire[j]
    BY <1>1 DEF BoardsInv, PushesSound
  <2>6. BoardsInv'
    BY <1>1, <2>2, <2>3, <2>4, <2>5, TabMoves
  <2> QED
    BY <1>3, <2>2, <2>6
<1> QED
  BY <1>1, <1>2, <1>3

(* A catch-up that lands is no older than what the tab held, and drops     *)
(* those before it, so that none of what is left is older than it.         *)
LEMMA CatchUpBoards ==
    ASSUME PageInv, NEW k \in 1 .. Len(reads), CatchUp(k)
    PROVE  BoardsInv' /\ (board' # board => NoOlder(board, board'))
<1> DEFINE q == SubSeq(reads, k + 1, Len(reads))
<1>1. /\ k \in DOMAIN reads /\ reads[k] # NoBoard /\ reads' = q
      /\ UNCHANGED <<held, wire>>
      /\ \/ Repaints(board, reads[k]) /\ Become(Resync(ThisTab, reads[k]), queue, sends)
         \/ UNCHANGED <<board, sends>>
  BY Zenon DEF CatchUp, ReadsAfter, heldVars
<1>2. /\ reads \in Seq(Reading) /\ Ordered(reads) /\ Between(reads, board, held)
      /\ board \in Board /\ NoOlder(board, held)
  BY DEF PageInv, BoardsInv
<1>3. Repaints(board, reads[k]) => Resync(ThisTab, reads[k]).board = reads[k]
  <2>1. ThisTab \in Tabs /\ ThisTab.board = board
    BY DEF PageInv, TabInv, ThisTab
  <2>2. reads[k] \in Board
    BY <1>1, <1>2, LenProperties, ElementOfSeq DEF Reading
  <2>3. 1 \in RoundNo
    BY PageBounds DEF RoundNo
  <2> QED
    BY <2>1, <2>2, <2>3, ResyncFacts
<1>4. /\ board' \in {board, reads[k]}
      /\ \A s \in sends' : s \in sends \/ s.at = "sent"
  BY <1>1, <1>3, BecomeFacts
<1> USE DEF PageInv
<1>5. q \in Seq(Reading) /\ \A j \in DOMAIN q : j + k \in DOMAIN reads /\ q[j] = reads[j + k]
  BY <1>1, <1>2, ReadsAfterFacts
<1> HIDE DEF q
<1>6. /\ reads[k] \in Board /\ NoOlder(board, reads[k]) /\ NoOlder(reads[k], held)
  <2>1. reads[k] \in Reading
    BY <1>1, <1>2, LenProperties, ElementOfSeq
  <2> QED
    BY <1>1, <1>2, <2>1 DEF Between, Reading
<1>7. \A j \in DOMAIN q : j \in Nat /\ j >= 1 /\ k \in Nat
  BY <1>5, LenProperties
<1>8. Ordered(q) /\ Between(q, board, held)
  <2> DEFINE f == [j \in DOMAIN q |-> j + k]
  <2>1. /\ \A j \in DOMAIN q : f[j] \in DOMAIN reads /\ q[j] = reads[f[j]]
        /\ \A i, j \in DOMAIN q : i < j => f[i] < f[j]
    BY <1>5, <1>7
  <2> HIDE DEF f
  <2> QED
    BY <1>2, <1>5, <2>1, FewerReads
<1>9. Between(q, reads[k], held)
  <2>1. \A j \in DOMAIN q : q[j] # NoBoard => NoOlder(reads[k], q[j])
    <3>1. \A j \in DOMAIN q : k < j + k
      BY <1>7
    <3> QED
      BY <1>1, <1>2, <1>5, <3>1 DEF Ordered
  <2> QED
    BY <1>8, <2>1 DEF Between
<1>10. wire' \in Seq(Push) /\ \A i \in DOMAIN wire' : \E j \in DOMAIN wire : wire'[i] = wire[j]
  BY <1>1 DEF BoardsInv, PushesSound
<1>11. /\ board' \in Board /\ NoOlder(board', held)
       /\ reads' \in Seq(Reading) /\ Ordered(reads') /\ Between(reads', board', held)
  BY <1>1, <1>2, <1>4, <1>5, <1>6, <1>8, <1>9
<1>12. BoardsInv'
  BY <1>1, <1>4, <1>10, <1>11, TabMoves
<1> QED
  BY <1>4, <1>6, <1>12

LEMMA CatchUpFailsBoards ==
    ASSUME BoardsInv, NEW k \in 1 .. Len(reads), CatchUpFails(k)
    PROVE  BoardsInv' /\ board' = board
<1> DEFINE q == RemoveAt(reads, k)
           From(j) == IF j < k THEN j ELSE j + 1
<1>1. /\ k \in DOMAIN reads /\ reads' = q /\ UNCHANGED <<held, board, wire, sends>>
  BY Zenon DEF CatchUpFails, heldVars
<1>2. /\ reads \in Seq(Reading) /\ Ordered(reads) /\ Between(reads, board, held)
  BY DEF BoardsInv
<1>3. /\ q \in Seq(Reading)
      /\ \A j \in DOMAIN q : From(j) \in DOMAIN reads /\ q[j] = reads[From(j)]
  BY <1>1, <1>2, RemoveAtFacts
<1> HIDE DEF q
<1>4. \A j \in DOMAIN q : j \in Int /\ k \in Int
  BY <1>3, LenProperties
<1>5. Ordered(q) /\ Between(q, board, held)
  <2> DEFINE f == [j \in DOMAIN q |-> From(j)]
  <2>1. \A j \in DOMAIN q : f[j] \in DOMAIN reads /\ q[j] = reads[f[j]]
    BY <1>3
  <2>2. \A i, j \in DOMAIN q : i < j => f[i] < f[j]
    BY <1>4
  <2> HIDE DEF f
  <2> QED
    BY <1>2, <1>3, <2>1, <2>2, FewerReads
<1> QED
  BY <1>1, <1>3, <1>5 DEF BoardsInv, PushesSound, AnswerSound

(* The steps of the reviewer's, which bring no board.                      *)
LEMMA ReviewerBoards ==
    ASSUME BoardsInv,
           \/ \E p \in sends : SendFails(p)
           \/ \E n \in RoundNo : \/ \E c \in Comment : WriteComment(c, n)
                                 \/ AnswerRound(n) \/ Send(n) \/ SendPage(n) \/ Expire(n)
    PROVE  BoardsInv' /\ board' = board
<1>1. ASSUME NEW p \in sends, SendFails(p)
      PROVE  UNCHANGED <<held, board, wire, reads>> /\ sends' \subseteq sends
  BY <1>1 DEF SendFails, heldVars
<1>2. ASSUME NEW n \in RoundNo, NEW c \in Comment, WriteComment(c, n)
      PROVE  UNCHANGED <<held, board, wire, reads>> /\ sends' \subseteq sends
  BY <1>2 DEF WriteComment, heldVars
<1>3. ASSUME NEW n \in RoundNo, AnswerRound(n)
      PROVE  UNCHANGED <<held, board, wire, reads>> /\ sends' \subseteq sends
  BY <1>3 DEF AnswerRound, heldVars
<1>4. ASSUME NEW n \in RoundNo, Send(n)
      PROVE  /\ UNCHANGED <<held, board, wire, reads>>
             /\ \A p \in sends' : p \in sends \/ p.at = "sent"
  BY <1>4 DEF Send, heldVars
<1>5. ASSUME NEW n \in RoundNo, SendPage(n)
      PROVE  /\ UNCHANGED <<held, board, wire, reads>>
             /\ \A p \in sends' : p \in sends \/ p.at = "sent"
  BY <1>5 DEF SendPage, heldVars
<1>6. ASSUME NEW n \in RoundNo, Expire(n)
      PROVE  /\ UNCHANGED <<held, board, wire, reads>>
             /\ \A p \in sends' : p \in sends \/ p.at = "sent"
  BY <1>6 DEF Expire, Flush, heldVars
<1>7. /\ UNCHANGED <<held, board, wire, reads>>
      /\ \A p \in sends' : p \in sends \/ p.at = "sent"
  BY <1>1, <1>2, <1>3, <1>4, <1>5, <1>6
<1> QED
  BY <1>7, BoardsStill

LEMMA BoardsStep ==
    ASSUME PageInv, [PageNext]_pageVars
    PROVE  /\ BoardsInv'
           /\ board' # board /\ wire' = wire /\ sends \subseteq sends' => NoOlder(board, board')
<1>1. BoardsInv
  BY DEF PageInv
<1>2. CASE UNCHANGED pageVars
  <2>1. UNCHANGED <<held, board, wire, reads, sends>>
    BY <1>2 DEF pageVars
  <2> QED
    BY <1>1, <2>1, BoardsStill
<1>3. ASSUME PostRound \/ AmendRound \/ AbandonBoard \/ Serve
      PROVE  BoardsInv' /\ board' = board
  <2>1. ASSUME PostRound PROVE board' = board
    BY <2>1, Zenon DEF PostRound, tabVars
  <2>2. ASSUME AmendRound PROVE board' = board
    BY <2>2, Zenon DEF AmendRound, tabVars
  <2>3. ASSUME AbandonBoard PROVE board' = board
    BY <2>3, Zenon DEF AbandonBoard, tabVars
  <2>4. ASSUME Serve PROVE board' = board
    BY <2>4 DEF Serve
  <2> QED
    BY <1>1, <1>3, <2>1, <2>2, <2>3, <2>4, PostRoundBoards, AmendRoundBoards,
       AbandonBoardBoards, ServeBoards
<1>4. ASSUME NEW n \in RoundNo, WaitRunsOut(n) \/ OtherSends(n)
      PROVE  BoardsInv' /\ board' = board
  <2>1. board' = board
    BY <1>4 DEF WaitRunsOut, OtherSends, tabVars
  <2> QED
    BY <1>1, <1>4, <2>1, WaitRunsOutBoards, OtherSendsBoards
<1>5. ASSUME NEW p \in sends, HandleSubmit(p)
      PROVE  BoardsInv' /\ board' = board
  <2>1. board' = board
    BY <1>5 DEF HandleSubmit
  <2> QED
    BY <1>5, <2>1, HandleSubmitBoards
<1>6. ASSUME NEW p \in sends, AnswerLands(p)
      PROVE  BoardsInv' /\ ~(sends \subseteq sends')
  BY <1>6, AnswerLandsBoards
<1>7. ASSUME Drop \/ Reopen \/ RecvNudge
      PROVE  BoardsInv' /\ board' = board
  BY <1>1, <1>7, DropBoards, ReopenBoards, RecvNudgeBoards
<1>8. ASSUME RecvPush
      PROVE  BoardsInv' /\ wire' # wire
  BY <1>8, RecvPushBoards
<1>9. ASSUME \/ \E p \in sends : SendFails(p)
             \/ \E n \in RoundNo : \/ \E c \in Comment : WriteComment(c, n)
                                   \/ AnswerRound(n) \/ Send(n) \/ SendPage(n) \/ Expire(n)
      PROVE  BoardsInv' /\ board' = board
  BY <1>1, <1>9, ReviewerBoards
<1>10. ASSUME NEW k \in 1 .. Len(reads), CatchUp(k)
       PROVE  BoardsInv' /\ (board' # board => NoOlder(board, board'))
  BY <1>10, CatchUpBoards
<1>11. ASSUME NEW k \in 1 .. Len(reads), CatchUpFails(k)
       PROVE  BoardsInv' /\ board' = board
  BY <1>1, <1>11, CatchUpFailsBoards
<1> QED
  BY <1>2, <1>3, <1>4, <1>5, <1>6, <1>7, <1>8, <1>9, <1>10, <1>11 DEF PageNext

LEMMA BoardsStart ==
    ASSUME PageInit
    PROVE  BoardsInv
<1>1. /\ held = <<[status |-> "open", text |-> 0]>> /\ board = held
      /\ wire = <<>> /\ sends = {} /\ reads = <<>>
  BY DEF PageInit
<1>2. held \in Board
  <2>1. MaxRounds \in Nat \ {0} /\ MaxText \in Nat
    BY PageBounds
  <2>2. 1 \in RoundNo /\ [status |-> "open", text |-> 0] \in RoundRec
    BY <2>1 DEF RoundNo, RoundRec, Text
  <2>3. held \in [1 .. 1 -> RoundRec]
    BY <1>1, <2>2
  <2> QED
    BY <2>2, <2>3 DEF Board
<1>3. NoOlder(board, held)
  BY <1>1, <1>2, NoOlderSelf
<1>4. PushesSound
  BY <1>1 DEF PushesSound
<1>5. reads \in Seq(Reading) /\ Ordered(reads) /\ Between(reads, board, held)
  BY <1>1, NoReads
<1> QED
  BY <1>1, <1>2, <1>3, <1>4, <1>5 DEF BoardsInv

-----------------------------------------------------------------------------
(* What the tab and the daemon hold keeps its type. *)

LEMMA TabStill ==
    ASSUME TabInv, ThisTab' \in Tabs, stored' \subseteq Comment, queue' \subseteq Comment,
           up' \in BOOLEAN, frozen' \subseteq Pages, troubles' \in 0 .. MaxTroubles,
           \A p \in sends' : p \in sends \/ p \in SendRecord
    PROVE  TabInv'
  BY DEF TabInv

LEMMA TroubleType ==
    ASSUME TabInv, troubles' = troubles \/ Trouble
    PROVE  troubles' \in 0 .. MaxTroubles
  BY PageBounds DEF TabInv, Trouble

(* A new Send is of a round, and carries what was queued.                  *)
LEMMA NewSendType ==
    ASSUME NEW n \in RoundNo, NEW cs \in SUBSET Comment, NEW by \in {"bar", "page", "flush"}
    PROVE  [n |-> n, comments |-> cs, by |-> by, at |-> "sent", snap |-> NoBoard] \in SendRecord
  BY DEF SendRecord

LEMMA FlushTypes ==
    ASSUME NEW n \in Pages, NEW q \in SUBSET Comment
    PROVE  \A p \in Flush(n, q) : p \in SendRecord
<1>1. n \in RoundNo
  BY PageKinds DEF RoundNo
<1> DEFINE cs == {c \in q : on[c] = n}
           s == [n |-> n, comments |-> cs, by |-> "flush", at |-> "sent", snap |-> NoBoard]
<1>2. s \in SendRecord
  BY <1>1, NewSendType
<1> HIDE DEF s
<1>3. \A p \in Flush(n, q) : p = s
  BY DEF Flush, s
<1> QED
  BY <1>2, <1>3

LEMMA BecomeTypes ==
    ASSUME NEW t \in Tabs, NEW q \in SUBSET Comment, NEW standing, Become(t, q, standing),
           TabInv
    PROVE  /\ ThisTab' = t /\ frozen' \subseteq Pages
           /\ \A p \in sends' : p \in standing \/ p \in SendRecord
<1> DEFINE closed == {n \in Pages \ frozen :
                        /\ InBoard(t.board, n) /\ t.board[n].status = "abandoned"
                        /\ t.dom[n] # <<>> /\ Head(t.dom[n]).as = "live"}
<1>1. /\ board' = t.board /\ dom' = t.dom /\ applied' = t.applied /\ draft' = t.draft
      /\ frozen' = frozen \cup closed
      /\ sends' = standing \cup UNION {Flush(n, q) : n \in closed}
  BY DEF Become
<1>2. closed \subseteq Pages
  OBVIOUS
<1> HIDE DEF closed
<1>3. ThisTab' = t
  BY <1>1 DEF Tabs, ThisTab
<1>4. ASSUME NEW p \in sends', p \notin standing
      PROVE  p \in SendRecord
  <2>1. PICK n \in closed : p \in Flush(n, q)
    BY <1>1, <1>4
  <2> QED
    BY <1>2, <2>1, FlushTypes
<1> QED
  BY <1>1, <1>2, <1>3, <1>4 DEF TabInv

(* The steps that leave the tab as it is.                                  *)
LEMMA QuietTypes ==
    ASSUME TabInv, UNCHANGED <<board, dom, applied, draft, queue, frozen>>,
           stored' \subseteq Comment, up' \in BOOLEAN, troubles' = troubles \/ Trouble,
           \A p \in sends' : p \in sends \/ p \in SendRecord
    PROVE  TabInv'
<1>1. ThisTab' = ThisTab
  BY DEF ThisTab
<1>2. ThisTab' \in Tabs /\ queue' \subseteq Comment /\ frozen' \subseteq Pages
  BY <1>1 DEF TabInv
<1> QED
  BY <1>2, TroubleType, TabStill

LEMMA DaemonTypes ==
    ASSUME PageInv,
           \/ PostRound \/ AmendRound \/ AbandonBoard \/ Serve \/ Drop \/ Reopen
           \/ \E n \in RoundNo : WaitRunsOut(n) \/ OtherSends(n)
           \/ \E k \in 1 .. Len(reads) : CatchUpFails(k)
    PROVE  TabInv' /\ dom' = dom
<1> DEFINE Still == /\ UNCHANGED <<board, dom, applied, draft, queue, frozen, stored, sends>>
                    /\ up' = up \/ up' \in BOOLEAN
                    /\ troubles' = troubles \/ Trouble
<1>1. ASSUME PostRound PROVE Still
  BY <1>1, Zenon DEF PostRound, tabVars
<1>2. ASSUME AmendRound PROVE Still
  BY <1>2, Zenon DEF AmendRound, tabVars
<1>3. ASSUME AbandonBoard PROVE Still
  BY <1>3, Zenon DEF AbandonBoard, tabVars
<1>4. ASSUME Serve PROVE Still
  BY <1>4 DEF Serve, heldVars
<1>5. ASSUME Drop PROVE Still
  BY <1>5 DEF Drop, heldVars, tabVars
<1>6. ASSUME Reopen PROVE Still
  BY <1>6 DEF Reopen, heldVars
<1>7. ASSUME NEW n \in RoundNo, WaitRunsOut(n) \/ OtherSends(n) PROVE Still
  BY <1>7, Zenon DEF WaitRunsOut, OtherSends, tabVars, heldVars
<1>8. ASSUME NEW k \in 1 .. Len(reads), CatchUpFails(k) PROVE Still
  BY <1>8 DEF CatchUpFails, heldVars
<1>9. Still
  BY <1>1, <1>2, <1>3, <1>4, <1>5, <1>6, <1>7, <1>8
<1>10. TabInv
  BY DEF PageInv
<1>11. stored' \subseteq Comment /\ up' \in BOOLEAN
  BY <1>9, <1>10 DEF TabInv
<1> QED
  BY <1>9, <1>10, <1>11, QuietTypes

LEMMA HandleSubmitTypes ==
    ASSUME PageInv, NEW p \in sends, HandleSubmit(p)
    PROVE  TabInv' /\ dom' = dom
<1>1. /\ UNCHANGED <<up, troubles, board, dom, applied, queue, draft, frozen>>
      /\ p \in SendRecord /\ held \in Board /\ TabInv
  BY DEF HandleSubmit, PageInv, BoardsInv, TabInv
<1>2. /\ stored' = stored \/ stored' = stored \cup p.comments
      /\ \/ /\ Unsent(held, p.n)
            /\ sends' = (sends \ {p}) \cup {[p EXCEPT !.at = "stored", !.snap = SentBy(p.n)]}
         \/ sends' = (sends \ {p}) \cup {[p EXCEPT !.at = "refused"]}
  BY Zenon DEF HandleSubmit
<1>3. Unsent(held, p.n) => SentBy(p.n) \in Board
  BY <1>1, SentByFacts
<1>4. stored' \subseteq Comment
  BY <1>1, <1>2 DEF TabInv, SendRecord
<1>5. /\ Unsent(held, p.n) => [p EXCEPT !.at = "stored", !.snap = SentBy(p.n)] \in SendRecord
      /\ [p EXCEPT !.at = "refused"] \in SendRecord
  BY <1>1, <1>3 DEF SendRecord
<1>6. \A s \in sends' : s \in sends \/ s \in SendRecord
  BY <1>2, <1>5
<1>7. up' \in BOOLEAN
  BY <1>1 DEF TabInv
<1> QED
  BY <1>1, <1>4, <1>6, <1>7, QuietTypes

(* The reviewer's steps.                                                   *)
LEMMA ReviewerTypes ==
    ASSUME PageInv,
           \/ \E p \in sends : SendFails(p)
           \/ \E n \in RoundNo : \/ \E c \in Comment : WriteComment(c, n)
                                 \/ AnswerRound(n) \/ Send(n) \/ SendPage(n) \/ Expire(n)
    PROVE  TabInv' /\ dom' = dom
<1>1. /\ TabInv /\ ThisTab \in Tabs /\ queue \in SUBSET Comment /\ stored \subseteq Comment
      /\ up \in BOOLEAN /\ frozen \subseteq Pages
  BY DEF PageInv, TabInv
<1>2. ASSUME NEW p \in sends, SendFails(p)
      PROVE  TabInv' /\ dom' = dom
  <2>1. /\ UNCHANGED <<board, dom, applied, draft, queue, frozen, stored, up>> /\ Trouble
        /\ \A s \in sends' : s \in sends
    BY <1>2 DEF SendFails, heldVars
  <2> QED
    BY <1>1, <2>1, QuietTypes
<1>3. ASSUME NEW n \in RoundNo, NEW c \in Comment, WriteComment(c, n)
      PROVE  TabInv' /\ dom' = dom
  <2>1. /\ UNCHANGED <<board, dom, applied, draft, frozen, stored, up, troubles, sends>>
        /\ queue' = queue \cup {c}
    BY <1>3 DEF WriteComment, heldVars
  <2>2. ThisTab' = ThisTab
    BY <2>1 DEF ThisTab
  <2>3. troubles' \in 0 .. MaxTroubles
    BY <1>1, <2>1, TroubleType
  <2> QED
    BY <1>1, <2>1, <2>2, <2>3, TabStill
<1>4. ASSUME NEW n \in RoundNo, AnswerRound(n)
      PROVE  TabInv' /\ dom' = dom
  <2>1. /\ UNCHANGED <<board, dom, applied, queue, frozen, stored, up, troubles, sends>>
        /\ draft' = [draft EXCEPT ![n] = Head(dom[n]).text] /\ dom[n] # <<>>
    BY <1>4 DEF AnswerRound, ShownLive, Shown, heldVars
  <2>2. /\ dom \in [RoundNo -> Seq(Section)] /\ draft \in [RoundNo -> Text \cup {NoDraft}]
        /\ board \in Board /\ applied \in SUBSET RoundNo
    BY <1>1 DEF Tabs, ThisTab
  <2>3. Head(dom[n]).text \in Text
    <3>1. dom[n] \in Seq(Section)
      BY <2>2
    <3>2. Head(dom[n]) \in Section
      BY <2>1, <3>1, HeadTailProperties
    <3> QED
      BY <3>2 DEF Section
  <2>4. draft' \in [RoundNo -> Text \cup {NoDraft}]
    BY <2>1, <2>2, <2>3
  <2>5. ThisTab' \in Tabs
    BY <2>1, <2>2, <2>4 DEF ThisTab, Tabs
  <2>6. troubles' \in 0 .. MaxTroubles
    BY <1>1, <2>1, TroubleType
  <2> QED
    BY <1>1, <2>1, <2>5, <2>6, TabStill
<1>5. ASSUME NEW n \in RoundNo, Send(n) \/ SendPage(n)
      PROVE  TabInv' /\ dom' = dom
  <2>1. /\ UNCHANGED <<board, dom, applied, draft, queue, frozen, stored, up, troubles>>
        /\ \E cs \in SUBSET queue, by \in {"bar", "page", "flush"} :
              sends' = sends \cup {[n |-> n, comments |-> cs, by |-> by, at |-> "sent",
                                    snap |-> NoBoard]}
    BY <1>5 DEF Send, SendPage, SentFrom, heldVars
  <2>2. PICK cs \in SUBSET queue, by \in {"bar", "page", "flush"} :
              sends' = sends \cup {[n |-> n, comments |-> cs, by |-> by, at |-> "sent",
                                    snap |-> NoBoard]}
    BY <2>1
  <2>3. cs \in SUBSET Comment
    BY <1>1
  <2>4. \A s \in sends' : s \in sends \/ s \in SendRecord
    BY <2>2, <2>3, NewSendType
  <2> QED
    BY <1>1, <2>1, <2>4, QuietTypes
<1>6. ASSUME NEW n \in RoundNo, Expire(n)
      PROVE  TabInv' /\ dom' = dom
  <2>1. /\ UNCHANGED <<board, dom, applied, draft, queue, stored, up, troubles>>
        /\ n \in Pages /\ frozen' = frozen \cup {n} /\ sends' = sends \cup Flush(n, queue)
    BY <1>6 DEF Expire, heldVars
  <2>2. ThisTab' = ThisTab
    BY <2>1 DEF ThisTab
  <2>3. \A s \in sends' : s \in sends \/ s \in SendRecord
    BY <1>1, <2>1, FlushTypes
  <2>4. troubles' \in 0 .. MaxTroubles
    BY <1>1, <2>1, TroubleType
  <2> QED
    BY <1>1, <2>1, <2>2, <2>3, <2>4, TabStill
<1> QED
  BY <1>2, <1>3, <1>4, <1>5, <1>6

(* What lands in the tab, and what it takes from the reviewer with it.     *)
NoneStale ==
    \A n \in RoundNo :
       (/\ dom'[n] # dom[n]
        /\ Shown(n) /\ InBoard(board, n) /\ board[n].text = Head(dom[n]).text
        /\ Head(dom'[n]).text # Head(dom[n]).text
        /\ ClosedUnsent(board, board') = {}) =>
       draft'[n] = NoDraft

(* The tab taken to t loses what the reviewer made to a content it changes.*)
LosesStale(t) ==
    \A n \in RoundNo :
       (/\ dom[n] # <<>> /\ n \in DOMAIN board /\ board[n].text = Head(dom[n]).text
        /\ ClosedUnsent(board, t.board) = {}) =>
       \/ t.draft[n] = NoDraft \/ t.dom[n] = dom[n] \/ Head(t.dom[n]).text = Head(dom[n]).text

LEMMA TabTaken ==
    ASSUME TabInv, NEW t \in Tabs, NEW q \in SUBSET Comment, NEW standing \in SUBSET sends,
           Become(t, q, standing), LosesStale(t), UNCHANGED <<stored, up, troubles>>,
           queue' \subseteq Comment
    PROVE  TabInv' /\ NoneStale
<1>1. /\ ThisTab' = t /\ frozen' \subseteq Pages
      /\ \A p \in sends' : p \in sends \/ p \in SendRecord
  BY BecomeTypes
<1>2. TabInv'
  <2>1. stored' \subseteq Comment /\ up' \in BOOLEAN /\ troubles' \in 0 .. MaxTroubles
    BY DEF TabInv
  <2> QED
    BY <1>1, <2>1, TabStill
<1>3. board' = t.board /\ dom' = t.dom /\ draft' = t.draft
  BY <1>1 DEF ThisTab
<1> QED
  BY <1>2, <1>3 DEF NoneStale, LosesStale, Shown, InBoard

(* A round's push.                                                         *)
LEMMA RoundPushStale ==
    ASSUME TabInv, NEW mode, NEW snap \in Board, NEW k \in DOMAIN snap
    PROVE  RoundPush(ThisTab, mode, k, snap) \in Tabs /\ LosesStale(RoundPush(ThisTab, mode, k, snap))
<1> DEFINE t == RoundPush(ThisTab, mode, k, snap)
<1>1. ThisTab \in Tabs
  BY DEF TabInv
<1>2. /\ t \in Tabs
      /\ \A n \in RoundNo :
            t.draft[n] = IF n \in Changed(ThisTab.board, snap) THEN NoDraft ELSE ThisTab.draft[n]
      /\ \A n \in RoundNo : ThisTab.dom[n] # <<>> =>
            /\ t.dom[n] # <<>>
            /\ \/ Head(t.dom[n]).text = Head(ThisTab.dom[n]).text
               \/ n = k /\ Head(t.dom[n]).text = snap[n].text
  BY <1>1, RoundPushFacts
<1> HIDE DEF t
<1>3. LosesStale(t)
  <2>1. ThisTab.board = board /\ ThisTab.dom = dom
    BY DEF ThisTab
  <2> QED
    BY <1>2, <2>1 DEF LosesStale, Changed
<1> QED
  BY <1>2, <1>3 DEF t

(* A Send's, or its answer.                                                *)
LEMMA SubmittedStale ==
    ASSUME TabInv, NEW snap \in Board, NEW k \in DOMAIN snap, k \notin applied
    PROVE  SubmittedPush(ThisTab, k, snap) \in Tabs /\ LosesStale(SubmittedPush(ThisTab, k, snap))
<1> DEFINE t == SubmittedPush(ThisTab, k, snap)
<1>1. ThisTab \in Tabs /\ ThisTab.applied = applied /\ ThisTab.dom = dom
  BY DEF TabInv, ThisTab
<1>2. t \in Tabs /\ t.draft[k] = NoDraft /\ \A n \in RoundNo : n # k => t.dom[n] = dom[n]
  BY <1>1, SubmittedFacts
<1> HIDE DEF t
<1>3. LosesStale(t)
  BY <1>2 DEF LosesStale
<1> QED
  BY <1>2, <1>3 DEF t

LEMMA RecvPushTypes ==
    ASSUME PageInv, RecvPush
    PROVE  TabInv' /\ NoneStale
<1> DEFINE p == Head(wire)
           t == IF p.type = "submitted" THEN SubmittedPush(ThisTab, p.n, p.snap)
                ELSE RoundPush(ThisTab, p.type, p.n, p.snap)
<1>1. /\ wire # <<>> /\ wire' = Tail(wire) /\ UNCHANGED <<stored, up, troubles, queue>>
      /\ \/ UNCHANGED <<board, dom, applied, draft, frozen, sends>>
         \/ ~(p.type = "submitted" /\ p.n \in applied) /\ Become(t, queue, sends)
  BY Zenon DEF RecvPush, heldVars
<1>2. TabInv /\ BoardsInv /\ queue \in SUBSET Comment /\ up \in BOOLEAN /\ stored \subseteq Comment
  BY DEF PageInv, TabInv
<1>3. p.snap \in Board /\ p.n \in DOMAIN p.snap
  BY <1>1, <1>2, PushTaken
<1> HIDE DEF p
<1>4. ~(p.type = "submitted" /\ p.n \in applied) => t \in Tabs /\ LosesStale(t)
  <2>1. \A mode : /\ RoundPush(ThisTab, mode, p.n, p.snap) \in Tabs
                  /\ LosesStale(RoundPush(ThisTab, mode, p.n, p.snap))
    BY <1>2, <1>3, RoundPushStale
  <2>2. p.n \notin applied => /\ SubmittedPush(ThisTab, p.n, p.snap) \in Tabs
                              /\ LosesStale(SubmittedPush(ThisTab, p.n, p.snap))
    BY <1>2, <1>3, SubmittedStale
  <2> QED
    BY <2>1, <2>2
<1> HIDE DEF t
<1>5. CASE UNCHANGED <<board, dom, applied, draft, frozen, sends>>
  <2>1. TabInv'
    BY <1>1, <1>2, <1>5, QuietTypes
  <2> QED
    BY <1>5, <2>1 DEF NoneStale
<1>6. CASE ~(p.type = "submitted" /\ p.n \in applied) /\ Become(t, queue, sends)
  BY <1>1, <1>2, <1>4, <1>6, TabTaken
<1> QED
  BY <1>1, <1>5, <1>6

LEMMA RecvNudgeTypes ==
    ASSUME PageInv, RecvNudge
    PROVE  TabInv' /\ NoneStale
<1>1. Become(ThisTab, queue, sends) /\ UNCHANGED <<stored, up, troubles, queue>>
  BY DEF RecvNudge, heldVars
<1>2. TabInv /\ ThisTab \in Tabs /\ queue \in SUBSET Comment
  BY DEF PageInv, TabInv
<1>3. LosesStale(ThisTab)
  BY DEF LosesStale, ThisTab
<1> QED
  BY <1>1, <1>2, <1>3, TabTaken

LEMMA AnswerLandsTypes ==
    ASSUME PageInv, NEW p \in sends, AnswerLands(p)
    PROVE  TabInv' /\ NoneStale
<1> DEFINE t == SubmittedPush(ThisTab, p.n, p.snap)
           q == queue \ Leaves(p)
<1>1. /\ queue' = q /\ UNCHANGED <<stored, up, troubles>>
      /\ \/ /\ p.at = "stored" /\ p.n \notin applied
            /\ Become(t, q, sends \ {p})
         \/ sends' = sends \ {p} /\ UNCHANGED <<board, dom, applied, draft, frozen>>
  BY Zenon DEF AnswerLands, heldVars
<1>2. TabInv /\ BoardsInv /\ q \in SUBSET Comment
  BY DEF PageInv, TabInv
<1> HIDE DEF q
<1>3. CASE p.at = "stored" /\ p.n \notin applied /\ Become(t, q, sends \ {p})
  <2>1. p.snap \in Board /\ p.n \in DOMAIN p.snap
    BY <1>2, <1>3 DEF BoardsInv, AnswerSound
  <2>2. t \in Tabs /\ LosesStale(t)
    BY <1>2, <1>3, <2>1, SubmittedStale
  <2> HIDE DEF t
  <2> QED
    BY <1>1, <1>2, <1>3, <2>2, TabTaken
<1>4. CASE sends' = sends \ {p} /\ UNCHANGED <<board, dom, applied, draft, frozen>>
  <2>1. ThisTab' = ThisTab
    BY <1>4 DEF ThisTab
  <2>2. TabInv'
    BY <1>1, <1>2, <1>4, <2>1 DEF TabInv
  <2> QED
    BY <1>4, <2>2 DEF NoneStale
<1> QED
  BY <1>1, <1>3, <1>4

LEMMA CatchUpTypes ==
    ASSUME PageInv, NEW k \in 1 .. Len(reads), CatchUp(k)
    PROVE  TabInv' /\ NoneStale
<1> DEFINE t == Resync(ThisTab, reads[k])
<1>1. /\ k \in DOMAIN reads /\ reads[k] # NoBoard
      /\ UNCHANGED <<stored, up, troubles, queue>>
      /\ \/ Repaints(board, reads[k]) /\ Become(t, queue, sends)
         \/ UNCHANGED <<board, dom, applied, draft, frozen, sends>>
  BY Zenon DEF CatchUp, heldVars
<1>2. /\ TabInv /\ ThisTab \in Tabs /\ ThisTab.board = board /\ ThisTab.dom = dom
      /\ queue \in SUBSET Comment /\ up \in BOOLEAN /\ stored \subseteq Comment
  BY DEF PageInv, TabInv, ThisTab
<1>3. reads[k] \in Board /\ DOMAIN board \subseteq DOMAIN reads[k]
  <2>1. reads \in Seq(Reading) /\ Between(reads, board, held)
    BY DEF PageInv, BoardsInv
  <2>2. reads[k] \in Reading
    BY <1>1, <2>1, LenProperties, ElementOfSeq
  <2> QED
    BY <1>1, <2>1, <2>2 DEF Reading, Between, NoOlder
<1>4. CASE Repaints(board, reads[k]) /\ Become(t, queue, sends)
  <2>1. ASSUME NEW n \in RoundNo
        PROVE  /\ t \in Tabs /\ t.board = reads[k]
               /\ (/\ n \in DOMAIN board /\ dom[n] # <<>> /\ board[n].text = Head(dom[n]).text
                   /\ ClosedUnsent(board, reads[k]) = {}) =>
                     t.draft[n] = NoDraft \/ Head(t.dom[n]).text = Head(dom[n]).text
    <3>1. Repaints(ThisTab.board, reads[k]) /\ (n \in DOMAIN board => n \in DOMAIN reads[k])
      BY <1>2, <1>3, <1>4
    <3> QED
      BY <1>2, <1>3, <3>1, ResyncFacts
  <2> HIDE DEF t
  <2>2. 1 \in RoundNo
    BY PageBounds DEF RoundNo
  <2>3. t \in Tabs /\ LosesStale(t)
    BY <2>1, <2>2 DEF LosesStale
  <2> QED
    BY <1>1, <1>2, <1>4, <2>3, TabTaken
<1>5. CASE UNCHANGED <<board, dom, applied, draft, frozen, sends>>
  <2>1. TabInv'
    BY <1>1, <1>2, <1>5, QuietTypes
  <2> QED
    BY <1>5, <2>1 DEF NoneStale
<1> QED
  BY <1>1, <1>4, <1>5

LEMMA TabStep ==
    ASSUME PageInv, [PageNext]_pageVars
    PROVE  TabInv' /\ NoneStale
<1>1. CASE UNCHANGED pageVars
  <2>1. UNCHANGED <<stored, up, board, dom, applied, queue, draft, frozen, sends, troubles>>
    BY <1>1 DEF pageVars
  <2>2. ThisTab' = ThisTab
    BY <2>1 DEF ThisTab
  <2> QED
    BY <2>1, <2>2 DEF PageInv, TabInv, NoneStale
<1>2. ASSUME \/ PostRound \/ AmendRound \/ AbandonBoard \/ Serve \/ Drop \/ Reopen
             \/ \E n \in RoundNo : WaitRunsOut(n) \/ OtherSends(n)
             \/ \E k \in 1 .. Len(reads) : CatchUpFails(k)
      PROVE  TabInv' /\ NoneStale
  BY <1>2, DaemonTypes DEF NoneStale
<1>3. ASSUME NEW p \in sends, HandleSubmit(p)
      PROVE  TabInv' /\ NoneStale
  BY <1>3, HandleSubmitTypes DEF NoneStale
<1>4. ASSUME \/ \E p \in sends : SendFails(p)
             \/ \E n \in RoundNo : \/ \E c \in Comment : WriteComment(c, n)
                                   \/ AnswerRound(n) \/ Send(n) \/ SendPage(n) \/ Expire(n)
      PROVE  TabInv' /\ NoneStale
  BY <1>4, ReviewerTypes DEF NoneStale
<1>5. ASSUME RecvPush \/ RecvNudge
      PROVE  TabInv' /\ NoneStale
  BY <1>5, RecvPushTypes, RecvNudgeTypes
<1>6. ASSUME NEW p \in sends, AnswerLands(p)
      PROVE  TabInv' /\ NoneStale
  BY <1>6, AnswerLandsTypes
<1>7. ASSUME NEW k \in 1 .. Len(reads), CatchUp(k)
      PROVE  TabInv' /\ NoneStale
  BY <1>7, CatchUpTypes
<1> QED
  BY <1>1, <1>2, <1>3, <1>4, <1>5, <1>6, <1>7 DEF PageNext

LEMMA TabStart ==
    ASSUME PageInit
    PROVE  TabInv
<1>1. MaxRounds \in Nat \ {0} /\ MaxText \in Nat /\ MaxTroubles \in Nat
  BY PageBounds
<1>2. Live(0) \in Section
  BY <1>1 DEF Live, Section, Text
<1>3. dom \in [RoundNo -> Seq(Section)]
  <2>1. <<Live(0)>> \in Seq(Section) /\ <<>> \in Seq(Section)
    BY <1>2
  <2>2. dom = [n \in RoundNo |-> IF n = 1 THEN <<Live(0)>> ELSE <<>>]
    BY DEF PageInit
  <2> QED
    BY <2>1, <2>2
<1>4. board \in Board
  BY BoardsStart DEF BoardsInv
<1>5. draft \in [RoundNo -> Text \cup {NoDraft}] /\ applied = {}
  BY DEF PageInit
<1>6. ThisTab \in Tabs
  BY <1>3, <1>4, <1>5 DEF ThisTab, Tabs
<1> QED
  BY <1>1, <1>6 DEF PageInit, TabInv

-----------------------------------------------------------------------------
(* The page's inductive invariant: the board of the tab, of every push and *)
(* of every answer is one the daemon has held, and the catch-ups the tab   *)
(* would still apply lie between its own and the daemon's, in order.       *)
THEOREM PageInvariance == PageSpec => []PageInv
<1>1. PageInit => PageInv
  BY BoardsStart, CommentsStart, TabStart DEF PageInv
<1>2. PageInv /\ [PageNext]_pageVars => PageInv'
  BY BoardsStep, CommentsStep, TabStep DEF PageInv
<1> QED
  BY <1>1, <1>2, PTL DEF PageSpec

(* Every variable of the page keeps its type.                              *)
THEOREM PageTypeCorrect == PageSpec => []PageTypeOK
<1>1. PageInv => PageTypeOK
  <2> SUFFICES ASSUME PageInv PROVE PageTypeOK
    OBVIOUS
  <2> USE DEF PageInv
  <2>1. held \in Board /\ board \in Board
    BY DEF BoardsInv
  <2>2. \A k \in DOMAIN wire : wire[k] \in Push
    BY LenProperties, ElementOfSeq DEF BoardsInv, PushesSound
  <2>3. \A k \in DOMAIN reads : reads[k] \in Board \cup {NoBoard}
    BY LenProperties, ElementOfSeq DEF BoardsInv, Reading
  <2>4. /\ dom \in [RoundNo -> Seq(Section)] /\ applied \in SUBSET RoundNo
        /\ draft \in [RoundNo -> Text \cup {NoDraft}]
    BY DEF TabInv, ThisTab, Tabs
  <2>5. \A n \in RoundNo : \A k \in DOMAIN dom[n] : dom[n][k] \in Section
    <3>1. \A n \in RoundNo : dom[n] \in Seq(Section)
      BY <2>4
    <3> QED
      BY <3>1, LenProperties, ElementOfSeq
  <2>6. on \in [Comment -> 0 .. MaxRounds]
    BY DEF CommentsInv
  <2> QED
    BY <2>1, <2>2, <2>3, <2>4, <2>5, <2>6 DEF PageTypeOK, TabInv
<1> QED
  BY <1>1, PageInvariance, PTL

(* A catch-up never takes the board back to before what the tab held, over *)
(* any race of it with pushes, the tab's own Sends and other catch-ups     *)
(* (resync).                                                               *)
THEOREM CatchUpsNeverRevert == PageSpec => CatchUpNeverReverts
<1>1. PageInv /\ [PageNext]_pageVars =>
        [board' # board /\ wire' = wire /\ sends \subseteq sends' =>
           NoOlder(board, board')]_pageVars
  BY BoardsStep
<1> QED
  BY PageInvariance, <1>1, PTL DEF PageSpec, CatchUpNeverReverts

(* No step changes the content a page shows, page and board agreeing on    *)
(* it, and leaves the reviewer's answer to the old content standing, but   *)
(* one that also closes a round unsent (clearFieldState): over every push, *)
(* every Send's answer and every catch-up, whatever it replays.            *)
THEOREM AnswersNeverStale == PageSpec => NoStaleAnswer
<1>1. ASSUME PageInv, [PageNext]_pageVars
      PROVE  [\A n \in RoundNo :
                (/\ dom'[n] # dom[n]
                 /\ Shown(n) /\ InBoard(board, n) /\ board[n].text = Head(dom[n]).text
                 /\ Head(dom'[n]).text # Head(dom[n]).text
                 /\ ClosedUnsent(board, board') = {}) =>
                draft'[n] = NoDraft]_pageVars
  BY <1>1, TabStep DEF NoneStale
<1> QED
  BY PageInvariance, <1>1, PTL DEF PageSpec, NoStaleAnswer
=============================================================================
