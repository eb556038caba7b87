--------------------------- MODULE StrandedProofs ---------------------------
(***************************************************************************)
(* Proofs about Stranded, for any tabs, any banner levels, and any bounds  *)
(* on rounds, amends, banners, broken spells and restarts.                 *)
(***************************************************************************)
EXTENDS Stranded, FiniteSetTheorems, SequenceTheorems, WellFoundedInduction, TLAPS

-----------------------------------------------------------------------------
(* The inductive invariant.                                                *)

(* The record follows the banners: it is kept in one place, the banner on  *)
(* screen is the one it names, a record that allows another banner has     *)
(* none on screen and is due one, and any other was raised as it stands.   *)
Follows(w, d, bs) ==
    /\ w.memory = NoRecord \/ w.record = NoRecord
    /\ w.screen \subseteq {RecordOn(w).pid}
    /\ w.child \in {0, RecordOn(w).pid}
    /\ RecordOn(w).returned => RecordOn(w).pid = 0 /\ d
    /\ ~RecordOn(w).returned => \E i \in DOMAIN bs : bs[i] = RecordOn(w).round
    /\ RecordOn(w).pid # 0 => /\ RecordOn(w).pid \in DOMAIN bs
                              /\ bs[RecordOn(w).pid] = RecordOn(w).round

RecordFollows == ~recordLost => Follows(watch, due, banners)

(* A store that never broke keeps the record on disk. *)
StoreKept == spells = 0 => ~broken /\ watch.memory = NoRecord /\ ~recordLost

(* A board the reviewer looks at counts nothing down. *)
LookedAt == Focused(hub) => due /\ watch.pending = "none"

BannersKnown == \A i \in DOMAIN banners : banners[i] <= Len(rounds)

(* The versions of each round that the mark leaves to be announced. *)
Allowed(n, mark, es) == IF n > mark THEN es[n] ELSE 1 + es[n]

Counted ==
    ~recordLost => \A n \in 1 .. MaxRound :
        Announced(n) <= Allowed(n, RecordOn(watch).round, edits)

StrandedInv ==
    /\ StrandedTypeOK
    /\ RecordFollows
    /\ StoreKept
    /\ LookedAt
    /\ BannersKnown
    /\ Counted
    /\ BannerIsWanted
    /\ NotForgotten

-----------------------------------------------------------------------------
(* What the rule's functions do.                                           *)

LEMMA StrandedNumbers ==
    /\ MaxRound \in Nat /\ MaxEdits \in Nat /\ MaxBanners \in Nat
    /\ MaxBreaks \in Nat /\ MaxRestarts \in Nat
    /\ NoRecord \notin BannerRecord
  BY StrandedAssumption DEF BannerRecord

(* What the rule does not rewrite, its mark included. *)
LEMMA RecordIs ==
  ASSUME NEW w \in Watch
  PROVE  /\ RecordOn(w) \in BannerRecord
         /\ RecordOn(w).round \in 0 .. MaxRound /\ RecordOn(w).returned \in BOOLEAN
         /\ RecordOn(w).pid \in 0 .. MaxBanners
         /\ w.record = NoRecord /\ w.memory = NoRecord => RecordOn(w) = Blank
         /\ RecordOn(w).round # 0 \/ ~RecordOn(w).returned =>
               w.record # NoRecord \/ w.memory # NoRecord
  <1>1. Blank \in BannerRecord /\ Blank.round = 0 /\ Blank.returned
    BY StrandedNumbers DEF Blank, BannerRecord
  <1>2. w.record \in BannerRecord \cup {NoRecord} /\ w.memory \in BannerRecord \cup {NoRecord}
    BY DEF Watch
  <1>3. RecordOn(w) \in BannerRecord
    BY <1>1, <1>2 DEF RecordOn
  <1>4. w.record = NoRecord /\ w.memory = NoRecord => RecordOn(w) = Blank
    BY DEF RecordOn
  <1> QED BY <1>1, <1>3, <1>4 DEF BannerRecord

LEMMA SameRecord ==
  ASSUME NEW w, NEW v, w.record = v.record, w.memory = v.memory
  PROVE  RecordOn(w) = RecordOn(v)
  BY DEF RecordOn

LEMMA CancelIs ==
  ASSUME NEW w \in Watch
  PROVE  /\ Cancel(w) \in Watch /\ Cancel(w).pending = "none"
         /\ Cancel(w).record = w.record /\ Cancel(w).memory = w.memory
         /\ Cancel(w).child = w.child /\ Cancel(w).screen = w.screen
         /\ Cancel(w).suppressed = w.suppressed
         /\ RecordOn(Cancel(w)) = RecordOn(w)
  BY DEF Cancel, Watch, RecordOn

LEMMA SpendIs ==
  ASSUME NEW w \in Watch, broken \in BOOLEAN
  PROVE  /\ SpendSuppressed(w) \in Watch /\ SpendSuppressed(w).pending = w.pending
         /\ SpendSuppressed(w).record = w.record /\ SpendSuppressed(w).memory = w.memory
         /\ SpendSuppressed(w).child = w.child /\ SpendSuppressed(w).screen = w.screen
         /\ RecordOn(SpendSuppressed(w)) = RecordOn(w)
  BY DEF SpendSuppressed, Watch, RecordOn

LEMMA TerminateIs ==
  ASSUME NEW w \in Watch, NEW pid
  PROVE  /\ Terminate(w, pid) \in Watch /\ Terminate(w, pid).pending = w.pending
         /\ Terminate(w, pid).record = w.record /\ Terminate(w, pid).memory = w.memory
         /\ Terminate(w, pid).suppressed = w.suppressed
         /\ Terminate(w, pid).child = 0
         /\ Terminate(w, pid).screen = w.screen \ {IF w.child # 0 THEN w.child ELSE pid}
         /\ RecordOn(Terminate(w, pid)) = RecordOn(w)
  <1> DEFINE gone == {IF w.child # 0 THEN w.child ELSE pid}
  <1>1. Terminate(w, pid) = [w EXCEPT !.child = 0, !.screen = w.screen \ gone]
    BY DEF Terminate
  <1>2. w.screen \ gone \in SUBSET (1 .. MaxBanners) /\ 0 \in 0 .. MaxBanners
    BY StrandedNumbers DEF Watch
  <1> HIDE DEF gone
  <1>3. /\ Terminate(w, pid) \in Watch /\ Terminate(w, pid).pending = w.pending
        /\ Terminate(w, pid).record = w.record /\ Terminate(w, pid).memory = w.memory
        /\ Terminate(w, pid).suppressed = w.suppressed
        /\ Terminate(w, pid).child = 0
        /\ Terminate(w, pid).screen = w.screen \ gone
    BY <1>1, <1>2 DEF Watch
  <1> QED BY <1>3, SameRecord DEF gone

LEMMA RewriteIs ==
  ASSUME NEW w \in Watch, NEW round \in 0 .. MaxRound, NEW returned \in BOOLEAN
  PROVE  /\ Rewrite(w, round, returned) \in Watch
         /\ Rewrite(w, round, returned).pending = w.pending
         /\ Rewrite(w, round, returned).suppressed = w.suppressed
         /\ Rewrite(w, round, returned).child = w.child
         /\ Rewrite(w, round, returned).screen = w.screen
         /\ Rewrite(w, round, returned).record = NoRecord <=> w.record = NoRecord
         /\ Rewrite(w, round, returned).memory = NoRecord <=> w.memory = NoRecord
         /\ w.record # NoRecord \/ w.memory # NoRecord =>
              /\ RecordOn(Rewrite(w, round, returned)).round = round
              /\ RecordOn(Rewrite(w, round, returned)).returned = returned
              /\ RecordOn(Rewrite(w, round, returned)).pid = 0
  <1> DEFINE new == [round |-> round, returned |-> returned, pid |-> 0]
             f(rec) == IF rec = NoRecord THEN rec ELSE new
  <1>1. /\ new \in BannerRecord /\ new # NoRecord
        /\ new.round = round /\ new.returned = returned /\ new.pid = 0
    BY StrandedNumbers DEF BannerRecord
  <1>2. Rewrite(w, round, returned) = [w EXCEPT !.record = f(w.record), !.memory = f(w.memory)]
    BY DEF Rewrite
  <1> HIDE DEF new
  <1>3. /\ f(w.record) \in BannerRecord \cup {NoRecord}
        /\ f(w.memory) \in BannerRecord \cup {NoRecord}
        /\ f(w.record) = NoRecord <=> w.record = NoRecord
        /\ f(w.memory) = NoRecord <=> w.memory = NoRecord
        /\ w.record # NoRecord => f(w.record) = new
        /\ w.memory # NoRecord => f(w.memory) = new
    BY <1>1
  <1> HIDE DEF f
  <1>4. /\ Rewrite(w, round, returned) \in Watch
        /\ Rewrite(w, round, returned).pending = w.pending
        /\ Rewrite(w, round, returned).suppressed = w.suppressed
        /\ Rewrite(w, round, returned).child = w.child
        /\ Rewrite(w, round, returned).screen = w.screen
        /\ Rewrite(w, round, returned).record = f(w.record)
        /\ Rewrite(w, round, returned).memory = f(w.memory)
    BY <1>2, <1>3 DEF Watch
  <1>5. w.record # NoRecord \/ w.memory # NoRecord => RecordOn(Rewrite(w, round, returned)) = new
    BY <1>3, <1>4 DEF RecordOn
  <1> QED BY <1>1, <1>3, <1>4, <1>5

(* A look at the board: the countdown ends, the mark stays, and a banner   *)
(* the record names goes unless the record cannot be written.              *)
LEMMA ReturnedIs ==
  ASSUME NEW w \in Watch, broken \in BOOLEAN
  PROVE  /\ Returned(w) \in Watch /\ Returned(w).pending = "none"
         /\ Returned(w).screen \subseteq w.screen /\ Returned(w).child \in {0, w.child}
         /\ RecordOn(Returned(w)).round = RecordOn(w).round
         /\ Returned(w).record = NoRecord <=> w.record = NoRecord
         /\ Returned(w).memory = NoRecord <=> w.memory = NoRecord
         /\ \A bs : Follows(w, TRUE, bs) => Follows(Returned(w), TRUE, bs)
         /\ \A bs : Follows(w, TRUE, bs) /\ ~broken => Returned(w).screen = {}
  <1> DEFINE w1 == SpendSuppressed(Cancel(w))
             rec == RecordOn(w1)
  <1>1. /\ w1 \in Watch /\ w1.pending = "none" /\ w1.record = w.record /\ w1.memory = w.memory
        /\ w1.child = w.child /\ w1.screen = w.screen /\ rec = RecordOn(w)
    BY CancelIs, SpendIs
  <1>2. /\ rec.round \in 0 .. MaxRound /\ w.screen \subseteq 1 .. MaxBanners
        /\ ~rec.returned => w1.record # NoRecord \/ w1.memory # NoRecord
    BY <1>1, RecordIs DEF Watch
  <1>3. Returned(w) = IF rec.returned THEN Terminate(w1, 0)
                      ELSE IF Refused(w1) THEN w1
                      ELSE Terminate(Rewrite(w1, rec.round, TRUE), rec.pid)
    BY DEF Returned
  <1> HIDE DEF w1, rec
  <1>4. CASE rec.returned
    <2>1. Returned(w) = Terminate(w1, 0) /\ RecordOn(w1) = RecordOn(w)
      BY <1>1, <1>3, <1>4 DEF rec
    <2>2. /\ Returned(w) \in Watch /\ Returned(w).pending = "none" /\ Returned(w).child = 0
          /\ Returned(w).record = w.record /\ Returned(w).memory = w.memory
          /\ Returned(w).screen = w.screen \ {IF w.child # 0 THEN w.child ELSE 0}
          /\ RecordOn(Returned(w)) = RecordOn(w)
      BY <1>1, <2>1, TerminateIs
    <2>3. \A bs : Follows(w, TRUE, bs) => Returned(w).screen = {}
      BY <1>1, <1>2, <1>4, <2>2 DEF Follows
    <2> QED BY <2>2, <2>3 DEF Follows
  <1>5. CASE ~rec.returned /\ Refused(w1)
    <2>1. Returned(w) = w1 /\ broken /\ RecordOn(w1) = RecordOn(w)
      BY <1>1, <1>3, <1>5 DEF Refused, rec
    <2> QED BY <1>1, <2>1 DEF Follows
  <1>6. CASE ~rec.returned /\ ~Refused(w1)
    <2> DEFINE w2 == Rewrite(w1, rec.round, TRUE)
    <2>1. Returned(w) = Terminate(w2, rec.pid)
      BY <1>3, <1>6
    <2>2. /\ w2 \in Watch /\ w2.pending = "none" /\ w2.child = w.child /\ w2.screen = w.screen
          /\ w2.record = NoRecord <=> w.record = NoRecord
          /\ w2.memory = NoRecord <=> w.memory = NoRecord
          /\ RecordOn(w2).round = rec.round /\ RecordOn(w2).returned /\ RecordOn(w2).pid = 0
      <3>1. /\ w1 \in Watch /\ rec.round \in 0 .. MaxRound /\ TRUE \in BOOLEAN
            /\ w1.record # NoRecord \/ w1.memory # NoRecord
        BY <1>1, <1>2, <1>6
      <3>2. /\ w2 \in Watch /\ w2.pending = w1.pending /\ w2.child = w1.child
            /\ w2.screen = w1.screen
            /\ w2.record = NoRecord <=> w1.record = NoRecord
            /\ w2.memory = NoRecord <=> w1.memory = NoRecord
            /\ RecordOn(w2).round = rec.round /\ RecordOn(w2).returned = TRUE
            /\ RecordOn(w2).pid = 0
        BY <3>1, RewriteIs
      <3> HIDE DEF w2
      <3> QED BY <1>1, <3>2
    <2> HIDE DEF w2
    <2>3. /\ Returned(w) \in Watch /\ Returned(w).pending = "none" /\ Returned(w).child = 0
          /\ Returned(w).record = NoRecord <=> w.record = NoRecord
          /\ Returned(w).memory = NoRecord <=> w.memory = NoRecord
          /\ RecordOn(Returned(w)).round = rec.round /\ RecordOn(Returned(w)).returned
          /\ RecordOn(Returned(w)).pid = 0
          /\ Returned(w).screen = w.screen \ {IF w.child # 0 THEN w.child ELSE rec.pid}
      BY <2>1, <2>2, TerminateIs
    <2>4. \A bs : Follows(w, TRUE, bs) => Returned(w).screen = {}
      BY <1>1, <1>2, <2>3 DEF Follows
    <2> QED BY <1>1, <2>3, <2>4 DEF Follows
  <1> QED BY <1>4, <1>5, <1>6

(* Every change on the board ends in evaluate: what follows the banners    *)
(* still does, the mark stays, a board looked at counts nothing down and   *)
(* one that may be announced to nobody does.                               *)
LEMMA EvaluateIs ==
  ASSUME NEW w \in Watch, NEW rs, NEW h, NEW d \in BOOLEAN, broken \in BOOLEAN, Focused(h) => d
  PROVE  /\ Evaluate(w, rs, h) \in Watch
         /\ Evaluate(w, rs, h).screen \subseteq w.screen
         /\ Evaluate(w, rs, h).child \in {0, w.child}
         /\ RecordOn(Evaluate(w, rs, h)).round = RecordOn(w).round
         /\ Evaluate(w, rs, h).memory = NoRecord <=> w.memory = NoRecord
         /\ \A bs : Follows(w, d, bs) => Follows(Evaluate(w, rs, h), d, bs)
         /\ \A bs : Focused(h) /\ Follows(w, d, bs) /\ ~broken => Evaluate(w, rs, h).screen = {}
         /\ Focused(h) => Evaluate(w, rs, h).pending = "none"
         /\ ~Focused(h) /\ MayAnnounce(Evaluate(w, rs, h), rs) =>
               Evaluate(w, rs, h).pending # "none"
  <1>1. CASE Focused(h)
    <2>1. Evaluate(w, rs, h) = Returned(w)
      BY <1>1 DEF Evaluate
    <2>2. \A bs, v : Follows(v, d, bs) <=> Follows(v, TRUE, bs)
      BY <1>1 DEF Follows
    <2>3. /\ Returned(w) \in Watch /\ Returned(w).pending = "none"
          /\ Returned(w).screen \subseteq w.screen /\ Returned(w).child \in {0, w.child}
          /\ RecordOn(Returned(w)).round = RecordOn(w).round
          /\ Returned(w).memory = NoRecord <=> w.memory = NoRecord
          /\ \A bs : Follows(w, TRUE, bs) => Follows(Returned(w), TRUE, bs)
          /\ \A bs : Follows(w, TRUE, bs) /\ ~broken => Returned(w).screen = {}
      BY ReturnedIs
    <2> QED BY <1>1, <2>1, <2>2, <2>3
  <1>2. CASE ~Focused(h) /\ ~MayAnnounce(w, rs)
    <2>1. Evaluate(w, rs, h) = Cancel(w)
      BY <1>2 DEF Evaluate
    <2>2. MayAnnounce(Cancel(w), rs) = MayAnnounce(w, rs)
      BY CancelIs DEF MayAnnounce, Announceable
    <2> QED BY <1>2, <2>1, <2>2, CancelIs DEF Follows
  <1>3. CASE ~Focused(h) /\ MayAnnounce(w, rs)
    <2>1. PICK p \in {"none", "grace", "window"} :
             p # "none" /\ Evaluate(w, rs, h) = [w EXCEPT !.pending = p]
      <3>1. CASE w.pending # "none" /\ ~(w.pending = "window" /\ ~Around(h))
        <4>1. Evaluate(w, rs, h) = w /\ w.pending \in {"none", "grace", "window"}
          BY <1>3, <3>1 DEF Evaluate, Watch
        <4>2. w = [w EXCEPT !.pending = w.pending]
          BY DEF Watch
        <4> QED BY <3>1, <4>1, <4>2
      <3>2. CASE ~(w.pending # "none" /\ ~(w.pending = "window" /\ ~Around(h)))
        <4> DEFINE p == IF Around(h) /\ level # "always" THEN "window" ELSE "grace"
        <4>1. Evaluate(w, rs, h) = [w EXCEPT !.pending = p]
          BY <1>3, <3>2 DEF Evaluate
        <4> QED BY <4>1
      <3> QED BY <3>1, <3>2
    <2> DEFINE v == [w EXCEPT !.pending = p]
    <2>2. /\ v \in Watch /\ v.pending = p /\ v.record = w.record /\ v.memory = w.memory
          /\ v.child = w.child /\ v.screen = w.screen
      BY DEF Watch
    <2> HIDE DEF v
    <2>3. RecordOn(v) = RecordOn(w)
      BY <2>2, SameRecord
    <2>4. Evaluate(w, rs, h) = v
      BY <2>1 DEF v
    <2> QED BY <1>3, <2>1, <2>2, <2>3, <2>4 DEF Follows
  <1> QED BY <1>1, <1>2, <1>3

LEMMA LeastOfNat ==
  ASSUME NEW S \in SUBSET Nat, S # {}
  PROVE  \E n \in S : \A m \in S : n <= m
  <1> DEFINE R == OpToRel(<, Nat)
  <1>1. IsWellFoundedOn(R, Nat)
    BY NatLessThanWellFounded DEF OpToRel
  <1>2. \A x, y \in Nat : x < y => <<x, y>> \in R
    BY DEF OpToRel
  <1> HIDE DEF R
  <1>3. PICK n \in S : \A m \in S : <<m, n>> \notin R
    BY <1>1, WFMin
  <1>4. n \in Nat /\ \A m \in S : m \in Nat
    OBVIOUS
  <1>5. \A m \in S : ~(m < n)
    BY <1>2, <1>3, <1>4
  <1>6. \A m \in S : n <= m
    BY <1>4, <1>5
  <1> QED BY <1>6

(* What is announced is an open round past the mark. *)
LEMMA NextIs ==
  ASSUME NEW w \in Watch, NEW rs \in Seq(RoundRecord), MayAnnounce(w, rs)
  PROVE  /\ NextToAnnounce(w, rs) \in 1 .. Len(rs)
         /\ rs[NextToAnnounce(w, rs)].status = "open"
         /\ NextToAnnounce(w, rs) > RecordOn(w).round
         /\ RecordOn(w).returned
  <1>1. DOMAIN rs = 1 .. Len(rs) /\ Len(rs) \in Nat
    BY LenProperties
  <1>2. RecordOn(w).round \in Nat
    BY RecordIs, StrandedNumbers
  <1>3. rs # <<>> => 1 \in 1 .. Len(rs)
    BY <1>1, EmptySeq
  <1>4. \A n \in Announceable(w, rs) :
           n \in 1 .. Len(rs) /\ rs[n].status = "open" /\ n > RecordOn(w).round
    BY <1>1, <1>2, <1>3 DEF Announceable, Waiting
  <1>5. Announceable(w, rs) # {} /\ RecordOn(w).returned
    BY DEF MayAnnounce
  <1>6. \E n \in Announceable(w, rs) : \A m \in Announceable(w, rs) : n <= m
    BY <1>1, <1>4, <1>5, LeastOfNat
  <1>7. NextToAnnounce(w, rs) \in Announceable(w, rs)
    BY <1>6 DEF NextToAnnounce
  <1> QED BY <1>4, <1>5, <1>7

-----------------------------------------------------------------------------
(* The actions.                                                            *)

LEMMA StrandedFacts ==
  ASSUME StrandedTypeOK
  PROVE  /\ rounds \in Seq(RoundRecord) /\ Len(rounds) \in Nat /\ Len(rounds) <= MaxRound
         /\ DOMAIN rounds = 1 .. Len(rounds)
         /\ watch \in Watch /\ hub \in [Tabs -> TabState]
         /\ elsewhere \in {"focused", "window", "away"} /\ level \in Levels
         /\ broken \in BOOLEAN /\ due \in BOOLEAN /\ forgotten \in BOOLEAN
         /\ recordLost \in BOOLEAN
         /\ banners \in Seq(1 .. MaxRound) /\ Len(banners) \in Nat /\ Len(banners) <= MaxBanners
         /\ DOMAIN banners = 1 .. Len(banners)
         /\ \A i \in DOMAIN banners : banners[i] \in Nat /\ banners[i] <= MaxRound
                                      /\ banners[i] # 0
         /\ edits \in [1 .. MaxRound -> 0 .. MaxEdits]
         /\ spells \in 0 .. MaxBreaks /\ restarts \in 0 .. MaxRestarts
         /\ watch.screen \subseteq 1 .. Len(banners) /\ watch.child \in 0 .. Len(banners)
  <1>1. /\ rounds \in Seq(RoundRecord) /\ banners \in Seq(1 .. MaxRound)
        /\ watch \in Watch /\ watch.screen \cup {watch.child} \subseteq 0 .. Len(banners)
    BY DEF StrandedTypeOK
  <1>2. /\ Len(rounds) \in Nat /\ DOMAIN rounds = 1 .. Len(rounds)
        /\ Len(banners) \in Nat /\ DOMAIN banners = 1 .. Len(banners)
    BY <1>1, LenProperties
  <1>3. watch.screen \subseteq 1 .. MaxBanners
    BY <1>1 DEF Watch
  <1>4. watch.screen \subseteq 1 .. Len(banners) /\ watch.child \in 0 .. Len(banners)
    BY <1>1, <1>2, <1>3, StrandedNumbers
  <1>5. \A i \in DOMAIN banners : banners[i] \in Nat /\ banners[i] <= MaxRound /\ banners[i] # 0
    <2>1. \A i \in 1 .. Len(banners) : banners[i] \in 1 .. MaxRound
      BY <1>1, ElementOfSeq
    <2> QED BY <1>2, <2>1, StrandedNumbers
  <1> QED BY <1>1, <1>2, <1>4, <1>5 DEF StrandedTypeOK

LEMMA CountIs ==
  ASSUME StrandedTypeOK, NEW n
  PROVE  IsFiniteSet({i \in DOMAIN banners : banners[i] = n}) /\ Announced(n) \in Nat
  <1>1. {i \in DOMAIN banners : banners[i] = n} \in SUBSET (1 .. Len(banners))
    BY StrandedFacts
  <1>2. IsFiniteSet(1 .. Len(banners))
    BY StrandedFacts, FS_Interval
  <1> QED BY <1>1, <1>2, FS_Subset, FS_CardinalityType DEF Announced

(* A change on the board ends in evaluate, on a watch w0 that follows the  *)
(* banners as the change leaves them.                                      *)
LEMMA ReevaluatedKeeps ==
  ASSUME StrandedInv, NEW w0 \in Watch,
         Reevaluated(w0, rounds', hub'),
         UNCHANGED <<elsewhere, level, broken, banners, recordLost, spells, restarts>>,
         rounds' \in Seq(RoundRecord), Len(rounds') <= MaxRound, Len(rounds) <= Len(rounds'),
         hub' \in [Tabs -> TabState],
         edits' \in [1 .. MaxRound -> 0 .. MaxEdits],
         due' \in BOOLEAN, Focused(hub') => due',
         w0.screen \subseteq watch.screen, w0.child \in {0, watch.child},
         ~recordLost => Follows(w0, due', banners),
         spells = 0 => w0.memory = NoRecord,
         ~recordLost => \A n \in 1 .. MaxRound :
             Announced(n) <= Allowed(n, RecordOn(w0).round, edits'),
         spells = 0 => \A i \in w0.screen : rounds'[banners[i]].status = "open"
  PROVE  StrandedInv'
  <1> DEFINE w == Evaluate(w0, rounds', hub')
  <1>1. watch' = w /\ forgotten' = FALSE /\ broken \in BOOLEAN /\ Len(rounds) \in Nat
    BY StrandedFacts DEF Reevaluated, StrandedInv
  <1>2. /\ w \in Watch /\ w.screen \subseteq w0.screen /\ w.child \in {0, w0.child}
        /\ RecordOn(w).round = RecordOn(w0).round
        /\ w.memory = NoRecord <=> w0.memory = NoRecord
        /\ Follows(w0, due', banners) => Follows(w, due', banners)
        /\ Focused(hub') /\ Follows(w0, due', banners) /\ ~broken => w.screen = {}
        /\ Focused(hub') => w.pending = "none"
        /\ ~Focused(hub') /\ MayAnnounce(w, rounds') => w.pending # "none"
    BY <1>1, EvaluateIs
  <1> HIDE DEF w
  <1>3. StrandedTypeOK'
    <2>1. /\ Len(banners) \in Nat /\ watch.screen \subseteq 1 .. Len(banners)
          /\ watch.child \in 0 .. Len(banners)
      BY StrandedFacts DEF StrandedInv
    <2>2. w.screen \subseteq watch.screen /\ w.child \in {0, watch.child}
      BY <1>2
    <2>3. w.screen \cup {w.child} \subseteq 0 .. Len(banners)
      BY <2>1, <2>2
    <2> QED BY <1>1, <1>2, <2>3 DEF StrandedInv, StrandedTypeOK
  <1>4. RecordFollows'
    BY <1>1, <1>2 DEF RecordFollows
  <1>5. StoreKept'
    BY <1>1, <1>2 DEF StrandedInv, StoreKept
  <1>6. LookedAt'
    BY <1>1, <1>2 DEF LookedAt
  <1>7. BannersKnown'
    <2>1. \A i \in DOMAIN banners : banners[i] \in Nat /\ banners[i] <= Len(rounds)
      BY StrandedFacts DEF StrandedInv, BannersKnown
    <2>2. Len(rounds') \in Nat
      BY LenProperties
    <2> QED BY <1>1, <2>1, <2>2 DEF BannersKnown
  <1>8. Counted'
    BY <1>1, <1>2 DEF Counted, Announced
  <1>9. BannerIsWanted'
    BY <1>1, <1>2 DEF StrandedInv, BannerIsWanted, StoreKept
  <1>10. NotForgotten'
    BY <1>1, <1>2 DEF NotForgotten
  <1> QED BY <1>3, <1>4, <1>5, <1>6, <1>7, <1>8, <1>9, <1>10 DEF StrandedInv

(* Nothing is evaluated: the record stays where it was, a lost one aside,  *)
(* and what may be announced is counted down to, or was so before.         *)
LEMMA UntoldKeeps ==
  ASSUME StrandedInv, watch' \in Watch,
         UNCHANGED <<banners, due, edits>>,
         hub' \in [Tabs -> TabState], Focused(hub') => Focused(hub),
         elsewhere' \in {"focused", "window", "away"}, level' \in Levels,
         broken' \in BOOLEAN, forgotten' \in BOOLEAN, recordLost' \in BOOLEAN,
         spells' \in 0 .. MaxBreaks, restarts' \in 0 .. MaxRestarts,
         rounds' \in Seq(RoundRecord), Len(rounds') = Len(rounds),
         watch'.screen \subseteq watch.screen, watch'.child \in {0, watch.child},
         ~recordLost' => /\ ~recordLost
                         /\ Follows(watch', due, banners)
                         /\ RecordOn(watch').round = RecordOn(watch).round,
         spells' = 0 => /\ spells = 0 /\ ~broken' /\ ~recordLost' /\ watch'.memory = NoRecord
                        /\ \A i \in watch'.screen : rounds'[banners[i]].status = "open",
         watch'.pending # "none" => ~Focused(hub'),
         MayAnnounce(watch', rounds') =>
             \/ forgotten'
             \/ watch'.pending # "none"
             \/ /\ MayAnnounce(watch, rounds) /\ (Focused(hub) => Focused(hub'))
                /\ forgotten' = forgotten /\ watch'.pending = watch.pending
  PROVE  StrandedInv'
  <1>1. StrandedTypeOK'
    <2>1. watch'.screen \cup {watch'.child} \subseteq 0 .. Len(banners)
      BY StrandedFacts DEF StrandedInv
    <2> QED BY <2>1 DEF StrandedInv, StrandedTypeOK
  <1>2. RecordFollows'
    BY DEF RecordFollows
  <1>3. StoreKept'
    BY DEF StrandedInv, StoreKept
  <1>4. LookedAt'
    BY DEF StrandedInv, LookedAt
  <1>5. BannersKnown'
    BY DEF StrandedInv, BannersKnown
  <1>6. Counted'
    BY DEF StrandedInv, Counted, Announced
  <1>7. BannerIsWanted'
    BY DEF StrandedInv, BannerIsWanted
  <1>8. NotForgotten'
    BY DEF StrandedInv, NotForgotten
  <1> QED BY <1>1, <1>2, <1>3, <1>4, <1>5, <1>6, <1>7, <1>8 DEF StrandedInv

LEMMA InitStrandedInv == StrandedInit => StrandedInv
  <1> SUFFICES ASSUME StrandedInit PROVE StrandedInv
    OBVIOUS
  <1>1. /\ rounds = <<>> /\ banners = <<>> /\ hub = [t \in Tabs |-> "none"]
        /\ watch = [pending |-> "none", suppressed |-> FALSE, record |-> NoRecord,
                    memory |-> NoRecord, child |-> 0, screen |-> {}]
        /\ due = TRUE /\ recordLost = FALSE /\ broken = FALSE /\ spells = 0 /\ restarts = 0
        /\ edits = [n \in 1 .. MaxRound |-> 0] /\ forgotten = FALSE
        /\ elsewhere \in {"focused", "window", "away"} /\ level \in Levels
    BY DEF StrandedInit
  <1>2. /\ rounds \in Seq(RoundRecord) /\ banners \in Seq(1 .. MaxRound)
        /\ Len(rounds) = 0 /\ Len(banners) = 0 /\ DOMAIN banners = {}
    BY <1>1, EmptySeq
  <1>3. watch \in Watch /\ watch.screen = {} /\ watch.child = 0 /\ watch.pending = "none"
        /\ watch.record = NoRecord /\ watch.memory = NoRecord
    BY <1>1, StrandedNumbers DEF Watch
  <1>4. StrandedTypeOK
    <2>1. edits \in [1 .. MaxRound -> 0 .. MaxEdits] /\ hub \in [Tabs -> TabState]
      BY <1>1, StrandedNumbers DEF TabState
    <2>2. {broken, due, forgotten, recordLost} \subseteq BOOLEAN
      BY <1>1
    <2>3. /\ Len(rounds) <= MaxRound /\ Len(banners) <= MaxBanners
          /\ spells \in 0 .. MaxBreaks /\ restarts \in 0 .. MaxRestarts
          /\ watch.screen \cup {watch.child} \subseteq 0 .. Len(banners)
      BY <1>1, <1>2, <1>3, StrandedNumbers
    <2>4. elsewhere \in {"focused", "window", "away"} /\ level \in Levels
      BY <1>1
    <2> QED BY <1>2, <1>3, <2>1, <2>2, <2>3, <2>4 DEF StrandedTypeOK
  <1>5. RecordOn(watch) = Blank /\ Blank.round = 0 /\ Blank.returned /\ Blank.pid = 0
    BY <1>3 DEF RecordOn, Blank
  <1>6. RecordFollows /\ StoreKept
    BY <1>1, <1>3, <1>5 DEF RecordFollows, StoreKept, Follows
  <1>7. LookedAt /\ BannersKnown /\ BannerIsWanted
    BY <1>1, <1>2, <1>3 DEF LookedAt, BannersKnown, BannerIsWanted
  <1>8. Counted
    <2>1. \A n : {i \in DOMAIN banners : banners[i] = n} = {}
      BY <1>2
    <2>2. \A n \in 1 .. MaxRound : Announced(n) = 0
      BY <2>1, FS_EmptySet DEF Announced
    <2> QED BY <1>1, <2>2 DEF Counted, Allowed
  <1>9. NotForgotten
    <2>1. Announceable(watch, rounds) = {}
      BY <1>1, <1>3, <1>5 DEF Announceable, Waiting
    <2> QED BY <2>1 DEF NotForgotten, MayAnnounce
  <1> QED BY <1>4, <1>6, <1>7, <1>8, <1>9 DEF StrandedInv

LEMMA PostKeeps ==
  ASSUME StrandedInv, NEW awaited \in BOOLEAN, NEW suppressed \in BOOLEAN,
         Post(awaited, suppressed)
  PROVE  StrandedInv'
  <1> DEFINE w0 == [watch EXCEPT !.suppressed = @ \/ suppressed]
  <1>1. /\ ~broken /\ Len(rounds) < MaxRound
        /\ rounds' = Append(rounds, NewRound(awaited))
        /\ Reevaluated(w0, rounds', hub)
        /\ UNCHANGED <<hub, elsewhere, level, broken, banners, edits, due, recordLost, spells,
                       restarts>>
    BY DEF Post
  <1>2. StrandedTypeOK /\ NewRound(awaited) \in RoundRecord
    BY DEF StrandedInv, NewRound, RoundRecord
  <1>3. /\ rounds' \in Seq(RoundRecord) /\ Len(rounds') = Len(rounds) + 1
        /\ \A i \in 1 .. Len(rounds) : rounds'[i] = rounds[i]
    BY <1>1, <1>2, StrandedFacts, AppendProperties
  <1>4. /\ w0 \in Watch /\ w0.record = watch.record /\ w0.memory = watch.memory
        /\ w0.child = watch.child /\ w0.screen = watch.screen
    BY <1>2, StrandedFacts DEF Watch
  <1> HIDE DEF w0
  <1>5. RecordOn(w0) = RecordOn(watch)
    BY <1>4, SameRecord
  <1>6. ~recordLost => Follows(w0, due, banners)
    BY <1>4, <1>5 DEF StrandedInv, RecordFollows, Follows
  <1>7. spells = 0 => w0.memory = NoRecord
    BY <1>4 DEF StrandedInv, StoreKept
  <1>8. ~recordLost => \A n \in 1 .. MaxRound :
           Announced(n) <= Allowed(n, RecordOn(w0).round, edits)
    BY <1>5 DEF StrandedInv, Counted
  <1>9. spells = 0 => \A i \in w0.screen : rounds'[banners[i]].status = "open"
    <2>1. \A i \in watch.screen : banners[i] \in 1 .. Len(rounds)
      BY <1>2, StrandedFacts DEF StrandedInv, BannersKnown
    <2> QED BY <1>3, <1>4, <2>1 DEF StrandedInv, BannerIsWanted
  <1>10. Focused(hub') => due
    BY <1>1 DEF StrandedInv, LookedAt
  <1>11. Len(rounds') <= MaxRound /\ Len(rounds) <= Len(rounds')
    BY <1>1, <1>2, <1>3, StrandedFacts, StrandedNumbers
  <1> QED BY <1>1, <1>2, <1>3, <1>4, <1>6, <1>7, <1>8, <1>9, <1>10, <1>11, StrandedFacts,
             ReevaluatedKeeps

(* The watch as it stands is evaluated, on the rounds as they stand. *)
LEMMA LookedAgainKeeps ==
  ASSUME StrandedInv, Reevaluated(watch, rounds, hub'),
         UNCHANGED <<rounds, elsewhere, level, broken, banners, edits, recordLost, spells, restarts>>,
         hub' \in [Tabs -> TabState], due' = (due \/ Focused(hub'))
  PROVE  StrandedInv'
  <1>1. StrandedTypeOK
    BY DEF StrandedInv
  <1>2. due' \in BOOLEAN /\ (due => due') /\ (Focused(hub') => due')
    BY <1>1, StrandedFacts DEF Focused
  <1>3. ~recordLost => Follows(watch, due', banners)
    BY <1>2 DEF StrandedInv, RecordFollows, Follows
  <1>4. spells = 0 => watch.memory = NoRecord
    BY DEF StrandedInv, StoreKept
  <1>5. ~recordLost => \A n \in 1 .. MaxRound :
           Announced(n) <= Allowed(n, RecordOn(watch).round, edits)
    BY DEF StrandedInv, Counted
  <1>6. spells = 0 => \A i \in watch.screen : rounds[banners[i]].status = "open"
    BY DEF StrandedInv, BannerIsWanted
  <1>7. Len(rounds') <= MaxRound /\ Len(rounds) <= Len(rounds')
    BY <1>1, StrandedFacts
  <1> QED BY <1>1, <1>2, <1>3, <1>4, <1>5, <1>6, <1>7, StrandedFacts, ReevaluatedKeeps

LEMMA DeadlineMovesKeeps == StrandedInv /\ DeadlineMoves => StrandedInv'
  <1> SUFFICES ASSUME StrandedInv, DeadlineMoves PROVE StrandedInv'
    OBVIOUS
  <1>1. /\ Reevaluated(watch, rounds, hub)
        /\ UNCHANGED <<rounds, hub, elsewhere, level, broken, banners, edits, due, recordLost,
                       spells, restarts>>
    BY DEF DeadlineMoves
  <1>2. hub \in [Tabs -> TabState] /\ due = (due \/ Focused(hub))
    BY StrandedFacts DEF StrandedInv, LookedAt
  <1> QED BY <1>1, <1>2, LookedAgainKeeps

LEMMA SeenKeeps ==
  ASSUME StrandedInv, NEW t \in Tabs, NEW state \in TabState, Seen(t, state)
  PROVE  StrandedInv'
  <1>1. /\ Reevaluated(watch, rounds, hub') /\ due' = (due \/ Focused(hub'))
        /\ hub' = [hub EXCEPT ![t] = state]
        /\ UNCHANGED <<rounds, elsewhere, level, broken, banners, edits, recordLost, spells,
                       restarts>>
    BY DEF Seen
  <1>2. hub' \in [Tabs -> TabState]
    BY <1>1, StrandedFacts DEF StrandedInv
  <1> QED BY <1>1, <1>2, LookedAgainKeeps

(* A terminated banner leaves the record as it was. *)
LEMMA TerminateFollows ==
  ASSUME NEW w \in Watch, NEW pid, NEW d, NEW bs, Follows(w, d, bs)
  PROVE  Follows(Terminate(w, pid), d, bs)
  BY TerminateIs DEF Follows

LEMMA AmendedIs ==
  ASSUME NEW w \in Watch, NEW n \in 1 .. MaxRound, NEW h, broken \in BOOLEAN
  PROVE  /\ Amended(w, n, h) \in Watch
         /\ Amended(w, n, h).screen \subseteq w.screen
         /\ Amended(w, n, h).child \in {0, w.child}
         /\ Amended(w, n, h).record = NoRecord <=> w.record = NoRecord
         /\ Amended(w, n, h).memory = NoRecord <=> w.memory = NoRecord
         /\ \/ /\ RecordOn(Amended(w, n, h)) = RecordOn(w)
               /\ Amended(w, n, h).screen = w.screen /\ Amended(w, n, h).child = w.child
            \/ /\ RecordOn(w).round = n /\ ~Around(h)
               /\ RecordOn(Amended(w, n, h)).round = n - 1
               /\ RecordOn(Amended(w, n, h)).returned
               /\ RecordOn(Amended(w, n, h)).pid = 0
               /\ Amended(w, n, h).child = 0
               /\ Amended(w, n, h).screen =
                     w.screen \ {IF w.child # 0 THEN w.child ELSE RecordOn(w).pid}
  <1> DEFINE rec == RecordOn(w)
             w1 == Cancel(w)
             w2 == Rewrite(w1, n - 1, TRUE)
  <1>1. Amended(w, n, h) = IF Around(h) \/ rec.round # n THEN w
                           ELSE IF Refused(w) THEN w1
                           ELSE Terminate(w2, rec.pid)
    BY DEF Amended
  <1>2. /\ w1 \in Watch /\ w1.record = w.record /\ w1.memory = w.memory
        /\ w1.child = w.child /\ w1.screen = w.screen /\ RecordOn(w1) = rec
    BY CancelIs
  <1>3. n - 1 \in 0 .. MaxRound /\ TRUE \in BOOLEAN /\ n # 0
    BY StrandedNumbers
  <1>4. /\ w2 \in Watch /\ w2.child = w.child /\ w2.screen = w.screen
        /\ w2.record = NoRecord <=> w.record = NoRecord
        /\ w2.memory = NoRecord <=> w.memory = NoRecord
        /\ w.record # NoRecord \/ w.memory # NoRecord =>
             /\ RecordOn(w2).round = n - 1 /\ RecordOn(w2).returned = TRUE
             /\ RecordOn(w2).pid = 0
    <2>1. /\ w2 \in Watch /\ w2.child = w1.child /\ w2.screen = w1.screen
          /\ w2.record = NoRecord <=> w1.record = NoRecord
          /\ w2.memory = NoRecord <=> w1.memory = NoRecord
          /\ w1.record # NoRecord \/ w1.memory # NoRecord =>
               /\ RecordOn(w2).round = n - 1 /\ RecordOn(w2).returned = TRUE
               /\ RecordOn(w2).pid = 0
      BY <1>2, <1>3, RewriteIs
    <2> HIDE DEF w1, w2
    <2> QED BY <1>2, <2>1
  <1> HIDE DEF w1, w2
  <1>5. CASE Around(h) \/ rec.round # n
    BY <1>1, <1>5
  <1>6. CASE ~(Around(h) \/ rec.round # n) /\ Refused(w)
    <2>1. Amended(w, n, h) = w1
      BY <1>1, <1>6
    <2> QED BY <1>2, <2>1
  <1>7. CASE ~(Around(h) \/ rec.round # n) /\ ~Refused(w)
    <2>1. Amended(w, n, h) = Terminate(w2, rec.pid)
      BY <1>1, <1>7
    <2>2. w.record # NoRecord \/ w.memory # NoRecord
      BY <1>3, <1>7, RecordIs
    <2> QED BY <1>4, <1>7, <2>1, <2>2, TerminateIs
  <1> QED BY <1>5, <1>6, <1>7

(* An amend the reviewer is not there to see makes another banner due. *)
LEMMA AmendedFollows ==
  ASSUME NEW w \in Watch, NEW n \in 1 .. MaxRound, NEW h, broken \in BOOLEAN,
         NEW bs, NEW d \in BOOLEAN, Follows(w, d, bs),
         ~Around(h) /\ (\E i \in DOMAIN bs : bs[i] = n) => d
  PROVE  Follows(Amended(w, n, h), d, bs)
  <1> DEFINE v == Amended(w, n, h)
  <1>1. v.memory = NoRecord \/ v.record = NoRecord
    BY AmendedIs DEF Follows
  <1>2. CASE /\ RecordOn(v) = RecordOn(w)
             /\ v.screen = w.screen /\ v.child = w.child
    BY <1>1, <1>2 DEF Follows
  <1>3. CASE /\ RecordOn(w).round = n /\ ~Around(h)
             /\ RecordOn(v).round = n - 1 /\ RecordOn(v).returned /\ RecordOn(v).pid = 0
             /\ v.child = 0
             /\ v.screen = w.screen \ {IF w.child # 0 THEN w.child ELSE RecordOn(w).pid}
    <2>1. v.screen = {}
      BY <1>3 DEF Follows
    <2>2. d
      BY <1>3 DEF Follows
    <2> HIDE DEF v
    <2>3. Follows(v, d, bs)
      BY <1>1, <1>3, <2>1, <2>2 DEF Follows
    <2> QED BY <2>3 DEF v
  <1> QED BY <1>2, <1>3, AmendedIs

LEMMA AmendKeeps == StrandedInv /\ Amend => StrandedInv'
  <1> SUFFICES ASSUME StrandedInv, Amend PROVE StrandedInv'
    OBVIOUS
  <1> DEFINE n == Len(rounds)
             w0 == Amended(watch, n, hub)
  <1>1. /\ ~broken /\ n \in Waiting(rounds) /\ edits[n] < MaxEdits
        /\ edits' = [edits EXCEPT ![n] = @ + 1]
        /\ due' = (due \/ (~Around(hub) /\ \E i \in DOMAIN banners : banners[i] = n))
        /\ Reevaluated(w0, rounds, hub)
        /\ UNCHANGED <<rounds, hub, elsewhere, level, broken, banners, recordLost, spells,
                       restarts>>
    BY DEF Amend
  <1>2. StrandedTypeOK /\ watch \in Watch
    BY StrandedFacts DEF StrandedInv
  <1>3. n \in 1 .. MaxRound /\ n \in Nat
    BY <1>1, <1>2, StrandedFacts, StrandedNumbers DEF Waiting
  <1> HIDE DEF n
  <1>4. due' \in BOOLEAN /\ (due => due')
        /\ (~Around(hub) /\ (\E i \in DOMAIN banners : banners[i] = n) => due')
    BY <1>1, <1>2, StrandedFacts DEF Around
  <1>5. /\ w0 \in Watch /\ w0.screen \subseteq watch.screen /\ w0.child \in {0, watch.child}
        /\ w0.memory = NoRecord <=> watch.memory = NoRecord
        /\ \/ RecordOn(w0).round = RecordOn(watch).round
           \/ RecordOn(watch).round = n /\ RecordOn(w0).round = n - 1
        /\ Follows(watch, due', banners) => Follows(w0, due', banners)
    <2>1. broken \in BOOLEAN
      BY <1>2, StrandedFacts
    <2>2. /\ due' \in BOOLEAN
          /\ ~Around(hub) /\ (\E i \in DOMAIN banners : banners[i] = n) => due'
      BY <1>4
    <2>3. /\ w0 \in Watch /\ w0.screen \subseteq watch.screen /\ w0.child \in {0, watch.child}
          /\ w0.memory = NoRecord <=> watch.memory = NoRecord
          /\ \/ RecordOn(w0).round = RecordOn(watch).round
             \/ RecordOn(watch).round = n /\ RecordOn(w0).round = n - 1
      BY <1>2, <1>3, <2>1, AmendedIs
    <2>4. Follows(watch, due', banners) => Follows(w0, due', banners)
      BY <1>2, <1>3, <2>1, <2>2, AmendedFollows
    <2> QED BY <2>3, <2>4
  <1>6. ~recordLost => Follows(w0, due', banners)
    BY <1>4, <1>5 DEF StrandedInv, RecordFollows, Follows
  <1> HIDE DEF w0
  <1>7. edits \in [1 .. MaxRound -> 0 .. MaxEdits] /\ edits' \in [1 .. MaxRound -> 0 .. MaxEdits]
    BY <1>1, <1>2, <1>3, StrandedFacts, StrandedNumbers
  <1>8. ~recordLost => \A m \in 1 .. MaxRound :
           Announced(m) <= Allowed(m, RecordOn(w0).round, edits')
    <2> SUFFICES ASSUME ~recordLost, NEW m \in 1 .. MaxRound
                 PROVE  Announced(m) <= Allowed(m, RecordOn(w0).round, edits')
      OBVIOUS
    <2>1. Announced(m) \in Nat /\ Announced(m) <= Allowed(m, RecordOn(watch).round, edits)
      BY <1>2, CountIs DEF StrandedInv, Counted
    <2>2. edits'[m] = (IF m = n THEN edits[m] + 1 ELSE edits[m]) /\ edits[m] \in Nat
      BY <1>1, <1>3, <1>7, StrandedNumbers
    <2>3. RecordOn(watch).round \in Nat /\ RecordOn(w0).round \in Nat
      BY <1>2, <1>5, RecordIs, StrandedNumbers
    <2> QED BY <1>3, <1>5, <2>1, <2>2, <2>3 DEF Allowed
  <1>9. spells = 0 => w0.memory = NoRecord
    BY <1>5 DEF StrandedInv, StoreKept
  <1>10. spells = 0 => \A i \in w0.screen : rounds[banners[i]].status = "open"
    BY <1>5 DEF StrandedInv, BannerIsWanted
  <1>11. Focused(hub') => due'
    BY <1>1, <1>4 DEF StrandedInv, LookedAt
  <1>12. Reevaluated(w0, rounds', hub')
    BY <1>1
  <1>13. Len(rounds') <= MaxRound /\ Len(rounds) <= Len(rounds')
    BY <1>1, <1>2, StrandedFacts
  <1> QED BY <1>1, <1>2, <1>4, <1>5, <1>6, <1>7, <1>8, <1>9, <1>10, <1>11, <1>12, <1>13,
             StrandedFacts, ReevaluatedKeeps

(* An answer takes the banner about its round off the screen. *)
LEMMA AnsweredIs ==
  ASSUME NEW w \in Watch, NEW n
  PROVE  /\ Answered(w, n) \in Watch
         /\ Answered(w, n).screen \subseteq w.screen
         /\ Answered(w, n).child \in {0, w.child}
         /\ Answered(w, n).memory = w.memory
         /\ RecordOn(Answered(w, n)) = RecordOn(w)
         /\ \A d, bs : Follows(w, d, bs) => Follows(Answered(w, n), d, bs)
         /\ \A d : Follows(w, d, banners) =>
               \A i \in Answered(w, n).screen : banners[i] # n
  <1>1. 0 \notin w.screen
    BY DEF Watch
  <1>2. \/ Answered(w, n) = w /\ w.child # 0 /\ banners[w.child] # n
        \/ Answered(w, n) = Terminate(w, 0) /\ w.child # 0
        \/ Answered(w, n) = w /\ w.child = 0 /\ RecordOn(w).round # n
        \/ Answered(w, n) = Terminate(w, RecordOn(w).pid) /\ w.child = 0
    BY DEF Answered
  <1>3. CASE Answered(w, n) = w /\ w.child # 0 /\ banners[w.child] # n
    BY <1>1, <1>3 DEF Follows
  <1>4. CASE Answered(w, n) = Terminate(w, 0) /\ w.child # 0
    <2>1. \A d, bs : Follows(w, d, bs) => Answered(w, n).screen = {}
      BY <1>1, <1>4, TerminateIs DEF Follows
    <2> QED BY <1>4, <2>1, TerminateIs, TerminateFollows
  <1>5. CASE Answered(w, n) = w /\ w.child = 0 /\ RecordOn(w).round # n
    BY <1>1, <1>5 DEF Follows
  <1>6. CASE Answered(w, n) = Terminate(w, RecordOn(w).pid) /\ w.child = 0
    <2>1. \A d, bs : Follows(w, d, bs) => Answered(w, n).screen = {}
      BY <1>1, <1>6, TerminateIs DEF Follows
    <2> QED BY <1>6, <2>1, TerminateIs, TerminateFollows
  <1> QED BY <1>2, <1>3, <1>4, <1>5, <1>6

LEMMA SubmitKeeps ==
  ASSUME StrandedInv, NEW n \in DOMAIN rounds, Submit(n)
  PROVE  StrandedInv'
  <1> DEFINE w0 == Answered(watch, n)
             r == [rounds[n] EXCEPT !.status = "sent"]
  <1>1. /\ rounds' = [rounds EXCEPT ![n].status = "sent"]
        /\ Reevaluated(w0, rounds', hub)
        /\ UNCHANGED <<hub, elsewhere, level, broken, banners, edits, due, recordLost, spells,
                       restarts>>
    BY DEF Submit
  <1>2. StrandedTypeOK /\ n \in 1 .. Len(rounds) /\ rounds[n] \in RoundRecord
        /\ watch \in Watch
    BY StrandedFacts, ElementOfSeq DEF StrandedInv
  <1>3. r \in RoundRecord
    BY <1>2 DEF RoundRecord
  <1>4. rounds' = [rounds EXCEPT ![n] = r]
    BY <1>1
  <1> HIDE DEF r
  <1>5. /\ rounds' \in Seq(RoundRecord) /\ Len(rounds') = Len(rounds)
        /\ \A i \in 1 .. Len(rounds) : i # n => rounds'[i] = rounds[i]
    BY <1>2, <1>3, <1>4, StrandedFacts, ExceptSeq
  <1>6. /\ w0 \in Watch /\ w0.screen \subseteq watch.screen /\ w0.child \in {0, watch.child}
        /\ w0.memory = watch.memory /\ RecordOn(w0) = RecordOn(watch)
        /\ Follows(watch, due, banners) => Follows(w0, due, banners)
        /\ Follows(watch, due, banners) => \A i \in w0.screen : banners[i] # n
    BY <1>2, AnsweredIs
  <1> HIDE DEF w0
  <1>7. ~recordLost => Follows(w0, due, banners)
    BY <1>6 DEF StrandedInv, RecordFollows
  <1>8. spells = 0 => w0.memory = NoRecord
    BY <1>6 DEF StrandedInv, StoreKept
  <1>9. ~recordLost => \A m \in 1 .. MaxRound :
           Announced(m) <= Allowed(m, RecordOn(w0).round, edits)
    BY <1>6 DEF StrandedInv, Counted
  <1>10. spells = 0 => \A i \in w0.screen : rounds'[banners[i]].status = "open"
    <2>1. \A i \in watch.screen : banners[i] \in 1 .. Len(rounds)
      BY <1>2, StrandedFacts DEF StrandedInv, BannersKnown
    <2>2. spells = 0 => \A i \in w0.screen : banners[i] # n
      BY <1>6 DEF StrandedInv, StoreKept, RecordFollows
    <2> QED BY <1>5, <1>6, <2>1, <2>2 DEF StrandedInv, BannerIsWanted
  <1>11. Focused(hub') => due
    BY <1>1 DEF StrandedInv, LookedAt
  <1>12. Len(rounds') <= MaxRound /\ Len(rounds) <= Len(rounds')
    BY <1>2, <1>5, StrandedFacts
  <1> QED BY <1>1, <1>2, <1>5, <1>6, <1>7, <1>8, <1>9, <1>10, <1>11, <1>12, StrandedFacts,
             ReevaluatedKeeps

(* An abandon takes the board's banner off the screen and off the record. *)
LEMMA AbandonedIs ==
  ASSUME NEW w \in Watch, ~broken
  PROVE  /\ Abandoned(w) \in Watch /\ Abandoned(w).pending = "none"
         /\ Abandoned(w).screen = w.screen \ {IF w.child # 0 THEN w.child ELSE RecordOn(w).pid}
         /\ Abandoned(w).child = 0
         /\ Abandoned(w).record = NoRecord <=> w.record = NoRecord
         /\ Abandoned(w).memory = NoRecord <=> w.memory = NoRecord
         /\ RecordOn(Abandoned(w)).round = RecordOn(w).round
         /\ RecordOn(Abandoned(w)).returned = RecordOn(w).returned
         /\ RecordOn(Abandoned(w)).pid = 0
  <1> DEFINE rec == RecordOn(w)
             w1 == Terminate(Cancel(w), rec.pid)
             cleared(r) == IF r = NoRecord THEN r ELSE [r EXCEPT !.pid = 0]
             w2 == [w1 EXCEPT !.record = cleared(w1.record), !.memory = cleared(w1.memory)]
  <1>1. Abandoned(w) = IF rec.pid = 0 THEN w1 ELSE w2
    BY DEF Abandoned
  <1>2. /\ w1 \in Watch /\ w1.pending = "none" /\ w1.child = 0
        /\ w1.record = w.record /\ w1.memory = w.memory
        /\ w1.screen = w.screen \ {IF w.child # 0 THEN w.child ELSE rec.pid}
        /\ RecordOn(w1) = rec
    BY CancelIs, TerminateIs
  <1> HIDE DEF w1
  <1>3. CASE rec.pid = 0
    <2>1. Abandoned(w) = w1
      BY <1>1, <1>3
    <2> QED BY <1>2, <1>3, <2>1
  <1>4. CASE rec.pid # 0
    <2>1. \A r \in BannerRecord :
             /\ r # NoRecord
             /\ cleared(r) \in BannerRecord /\ cleared(r) # NoRecord
             /\ cleared(r).round = r.round /\ cleared(r).returned = r.returned
             /\ cleared(r).pid = 0
      BY StrandedNumbers DEF BannerRecord
    <2>2. cleared(NoRecord) = NoRecord
      OBVIOUS
    <2> HIDE DEF cleared
    <2>3. /\ w2 \in Watch /\ w2.pending = w1.pending /\ w2.child = w1.child
          /\ w2.screen = w1.screen
          /\ w2.record = cleared(w1.record) /\ w2.memory = cleared(w1.memory)
      BY <1>2, <2>1, <2>2 DEF Watch
    <2> HIDE DEF w2
    <2>4. w.record \in BannerRecord \cup {NoRecord} /\ w.memory \in BannerRecord \cup {NoRecord}
      BY DEF Watch
    <2>5. w.record # NoRecord \/ w.memory # NoRecord
      BY <1>4 DEF RecordOn, Blank
    <2>6. /\ w2.record = NoRecord <=> w.record = NoRecord
          /\ w2.memory = NoRecord <=> w.memory = NoRecord
      BY <1>2, <2>1, <2>2, <2>3, <2>4
    <2>7. RecordOn(w2) = cleared(rec) /\ rec \in BannerRecord
      BY <1>2, <2>3, <2>4, <2>5, <2>6 DEF RecordOn
    <2>8. Abandoned(w) = w2
      BY <1>1, <1>4
    <2> QED BY <1>2, <2>1, <2>3, <2>6, <2>7, <2>8
  <1> QED BY <1>3, <1>4

LEMMA AbandonKeeps == StrandedInv /\ Abandon => StrandedInv'
  <1> SUFFICES ASSUME StrandedInv, Abandon PROVE StrandedInv'
    OBVIOUS
  <1>1. /\ ~broken /\ watch' = Abandoned(watch)
        /\ rounds' = [n \in DOMAIN rounds |->
                        IF rounds[n].status = "open"
                        THEN [rounds[n] EXCEPT !.status = "abandoned", !.awaited = FALSE]
                        ELSE rounds[n]]
        /\ UNCHANGED <<hub, elsewhere, level, broken, banners, edits, due, forgotten,
                       recordLost, spells, restarts>>
    BY DEF Abandon, strandedHistory
  <1>2. StrandedTypeOK /\ watch \in Watch /\ rounds \in [1 .. Len(rounds) -> RoundRecord]
        /\ Len(rounds) \in Nat
    BY StrandedFacts, LenProperties DEF StrandedInv
  <1>3. /\ DOMAIN rounds' = 1 .. Len(rounds)
        /\ \A n \in 1 .. Len(rounds) : rounds'[n] \in RoundRecord /\ rounds'[n].status # "open"
    <2> DEFINE r(n) == [rounds[n] EXCEPT !.status = "abandoned", !.awaited = FALSE]
    <2>1. \A n \in 1 .. Len(rounds) : r(n) \in RoundRecord /\ r(n).status = "abandoned"
      BY <1>2 DEF RoundRecord
    <2> HIDE DEF r
    <2>2. \A n \in 1 .. Len(rounds) :
             rounds'[n] = IF rounds[n].status = "open" THEN r(n) ELSE rounds[n]
      BY <1>1, <1>2 DEF r
    <2>3. DOMAIN rounds' = 1 .. Len(rounds)
      BY <1>1, <1>2
    <2> QED BY <1>2, <2>1, <2>2, <2>3
  <1>4. rounds' \in Seq(RoundRecord) /\ Len(rounds') = Len(rounds)
    <2>1. rounds' \in [1 .. Len(rounds) -> RoundRecord]
      <3>1. rounds' = [n \in 1 .. Len(rounds) |-> rounds'[n]]
        BY <1>1, <1>2
      <3> QED BY <1>3, <3>1
    <2> QED BY <1>2, <2>1
  <1>5. ~MayAnnounce(watch', rounds')
    <2>1. rounds' # <<>> => 1 \in 1 .. Len(rounds)
      BY <1>2, <1>4, EmptySeq
    <2>2. Announceable(watch', rounds') = {}
      BY <1>3, <2>1 DEF Announceable, Waiting
    <2> QED BY <2>2 DEF MayAnnounce
  <1>6. /\ watch' \in Watch /\ watch'.pending = "none" /\ watch'.child = 0
        /\ watch'.screen =
              watch.screen \ {IF watch.child # 0 THEN watch.child ELSE RecordOn(watch).pid}
        /\ watch'.record = NoRecord <=> watch.record = NoRecord
        /\ watch'.memory = NoRecord <=> watch.memory = NoRecord
        /\ RecordOn(watch').round = RecordOn(watch).round
        /\ RecordOn(watch').returned = RecordOn(watch).returned
        /\ RecordOn(watch').pid = 0
    BY <1>1, <1>2, AbandonedIs
  <1>7. Follows(watch, due, banners) => Follows(watch', due, banners) /\ watch'.screen = {}
    BY <1>6 DEF Follows
  <1>8. ~recordLost => Follows(watch', due, banners)
    BY <1>7 DEF StrandedInv, RecordFollows
  <1>9. spells = 0 => /\ ~recordLost /\ watch'.memory = NoRecord /\ watch'.screen = {}
    BY <1>6, <1>7 DEF StrandedInv, StoreKept, RecordFollows
  <1> QED BY <1>1, <1>2, <1>4, <1>5, <1>6, <1>8, <1>9, StrandedFacts, UntoldKeeps

(* A banner leaves the screen, and the rounds have no more to announce.    *)
LEMMA BannerGoesKeeps ==
  ASSUME StrandedInv, NEW gone, watch' = [watch EXCEPT !.screen = @ \ gone,
                                          !.child = IF @ \in gone THEN 0 ELSE @],
         rounds' \in Seq(RoundRecord), Len(rounds') = Len(rounds),
         \A n \in 1 .. Len(rounds) : /\ rounds'[n].status = rounds[n].status
                                     /\ rounds'[n].dated = rounds[n].dated
                                     /\ rounds'[n].awaited => rounds[n].awaited,
         UNCHANGED <<hub, elsewhere, level, broken, strandedHistory>>
  PROVE  StrandedInv'
  <1>1. StrandedTypeOK /\ watch \in Watch /\ Len(rounds) \in Nat
        /\ DOMAIN rounds = 1 .. Len(rounds) /\ DOMAIN rounds' = 1 .. Len(rounds)
    BY StrandedFacts, LenProperties DEF StrandedInv
  <1>2. UNCHANGED <<hub, elsewhere, level, broken, banners, edits, due, forgotten, recordLost,
                   spells, restarts>>
    BY DEF strandedHistory
  <1> DEFINE c == IF watch.child \in gone THEN 0 ELSE watch.child
             left == watch.screen \ gone
  <1>3. /\ c \in {0, watch.child} /\ c \in 0 .. MaxBanners
        /\ left \in SUBSET (1 .. MaxBanners) /\ left \subseteq watch.screen
        /\ watch' = [watch EXCEPT !.screen = left, !.child = c]
    BY <1>1, StrandedNumbers DEF Watch
  <1> HIDE DEF c, left
  <1>4. /\ watch' \in Watch /\ watch'.screen = left /\ watch'.child = c
        /\ watch'.record = watch.record /\ watch'.memory = watch.memory
        /\ watch'.pending = watch.pending /\ watch'.suppressed = watch.suppressed
    BY <1>1, <1>3 DEF Watch
  <1>5. RecordOn(watch') = RecordOn(watch)
    BY <1>4, SameRecord
  <1>6. ~recordLost => Follows(watch', due, banners)
    BY <1>3, <1>4, <1>5 DEF StrandedInv, RecordFollows, Follows
  <1>7. spells = 0 => /\ ~broken /\ ~recordLost /\ watch'.memory = NoRecord
                      /\ \A i \in watch'.screen : rounds'[banners[i]].status = "open"
    <2>1. \A i \in watch.screen : banners[i] \in 1 .. Len(rounds)
      BY <1>1, StrandedFacts DEF StrandedInv, BannersKnown
    <2> QED BY <1>3, <1>4, <2>1 DEF StrandedInv, StoreKept, BannerIsWanted
  <1>8. MayAnnounce(watch', rounds') => MayAnnounce(watch, rounds)
    <2>1. Waiting(rounds') \subseteq Waiting(rounds)
      BY <1>1 DEF Waiting
    <2>2. (rounds' = <<>> <=> rounds = <<>>) /\ (rounds # <<>> => 1 \in 1 .. Len(rounds))
      BY <1>1, EmptySeq
    <2>3. Announceable(watch', rounds') \subseteq Announceable(watch, rounds)
      BY <1>4, <1>5, <2>1, <2>2 DEF Announceable
    <2> QED BY <1>5, <2>3 DEF MayAnnounce
  <1>9. watch'.pending # "none" => ~Focused(hub')
    BY <1>2, <1>4 DEF StrandedInv, LookedAt
  <1>10. watch'.screen \subseteq watch.screen /\ watch'.child \in {0, watch.child}
    BY <1>3, <1>4
  <1> QED BY <1>1, <1>2, <1>4, <1>5, <1>6, <1>7, <1>8, <1>9, <1>10, StrandedFacts, UntoldKeeps

LEMMA LapseKeeps ==
  ASSUME StrandedInv, NEW n \in DOMAIN rounds, Lapse(n)
  PROVE  StrandedInv'
  <1> DEFINE over == {i \in watch.screen : banners[i] = n}
             r == [rounds[n] EXCEPT !.awaited = FALSE]
  <1>1. /\ rounds' = [rounds EXCEPT ![n] = r]
        /\ watch' = [watch EXCEPT !.screen = @ \ over, !.child = IF @ \in over THEN 0 ELSE @]
        /\ UNCHANGED <<hub, elsewhere, level, broken, strandedHistory>>
    BY DEF Lapse
  <1>2. n \in 1 .. Len(rounds) /\ rounds[n] \in RoundRecord /\ rounds \in Seq(RoundRecord)
    BY StrandedFacts, ElementOfSeq DEF StrandedInv
  <1>3. r \in RoundRecord /\ r.status = rounds[n].status /\ r.dated = rounds[n].dated
        /\ ~r.awaited
    BY <1>2 DEF RoundRecord
  <1> HIDE DEF r, over
  <1>4. /\ rounds' \in Seq(RoundRecord) /\ Len(rounds') = Len(rounds)
        /\ \A i \in 1 .. Len(rounds) : rounds'[i] = IF i = n THEN r ELSE rounds[i]
    BY <1>1, <1>2, <1>3, ExceptSeq
  <1> QED BY <1>1, <1>3, <1>4, BannerGoesKeeps

LEMMA ChildExitsKeeps ==
  ASSUME StrandedInv, NEW i, ChildExits(i)
  PROVE  StrandedInv'
  <1>1. /\ watch' = [watch EXCEPT !.screen = @ \ {i}, !.child = IF @ = i THEN 0 ELSE @]
        /\ UNCHANGED <<rounds, hub, elsewhere, level, broken, strandedHistory>>
    BY DEF ChildExits
  <1>2. watch' = [watch EXCEPT !.screen = @ \ {i}, !.child = IF @ \in {i} THEN 0 ELSE @]
    BY <1>1
  <1>3. rounds \in Seq(RoundRecord)
    BY StrandedFacts DEF StrandedInv
  <1> QED BY <1>1, <1>2, <1>3, BannerGoesKeeps

(* What is no event of the board: the rule's state does not move. *)
LEMMA NoEventKeeps ==
  ASSUME StrandedInv, UNCHANGED <<rounds, watch, banners, edits, due, forgotten, recordLost,
                                  restarts>>,
         hub' \in [Tabs -> TabState], Focused(hub') <=> Focused(hub),
         elsewhere' \in {"focused", "window", "away"}, level' \in Levels,
         broken' \in BOOLEAN, spells' \in 0 .. MaxBreaks,
         spells' = 0 => spells = 0 /\ ~broken'
  PROVE  StrandedInv'
  <1>1. StrandedTypeOK
    BY DEF StrandedInv
  <1>2. ~recordLost => Follows(watch, due, banners)
    BY DEF StrandedInv, RecordFollows
  <1>3. spells' = 0 => /\ ~recordLost /\ watch.memory = NoRecord
                       /\ \A i \in watch.screen : rounds[banners[i]].status = "open"
    BY DEF StrandedInv, StoreKept, BannerIsWanted
  <1>4. watch.pending # "none" => ~Focused(hub)
    BY DEF StrandedInv, LookedAt
  <1> QED BY <1>1, <1>2, <1>3, <1>4, StrandedFacts, UntoldKeeps

LEMMA WindowExpiresKeeps ==
  ASSUME StrandedInv, NEW t \in Tabs, WindowExpires(t)
  PROVE  StrandedInv'
  <1>1. /\ hub[t] = "window" /\ hub' = [hub EXCEPT ![t] = "away"]
        /\ UNCHANGED <<rounds, watch, elsewhere, level, broken, banners, edits, due, forgotten,
                       recordLost, spells, restarts>>
    BY DEF WindowExpires, strandedHistory
  <1>2. StrandedTypeOK /\ hub \in [Tabs -> TabState]
    BY StrandedFacts DEF StrandedInv
  <1>3. hub' \in [Tabs -> TabState]
    BY <1>1, <1>2 DEF TabState
  <1>4. Focused(hub') <=> Focused(hub)
    <2>1. \A u \in Tabs : hub'[u] = "focused" <=> hub[u] = "focused"
      BY <1>1, <1>2
    <2> QED BY <2>1 DEF Focused
  <1>5. spells = 0 => ~broken
    BY DEF StrandedInv, StoreKept
  <1> QED BY <1>1, <1>2, <1>3, <1>4, <1>5, StrandedFacts, NoEventKeeps

LEMMA AsideKeeps ==
  ASSUME StrandedInv,
         \/ \E state \in {"focused", "window", "away"} : Elsewhere(state)
         \/ \E l \in Levels : SetLevel(l)
         \/ Break
         \/ Heal
  PROVE  StrandedInv'
  <1>1. StrandedTypeOK /\ (spells = 0 => ~broken)
    BY DEF StrandedInv, StoreKept
  <1>2. UNCHANGED <<rounds, watch, hub, banners, edits, due, forgotten, recordLost, restarts>>
    BY DEF Elsewhere, SetLevel, Break, Heal, strandedHistory
  <1>3. elsewhere' \in {"focused", "window", "away"} /\ level' \in Levels /\ broken' \in BOOLEAN
    BY <1>1, StrandedFacts DEF Elsewhere, SetLevel, Break, Heal
  <1>4. spells' \in 0 .. MaxBreaks /\ (spells' = 0 => spells = 0 /\ ~broken')
    <2>1. spells \in 0 .. MaxBreaks /\ MaxBreaks \in Nat
      BY <1>1, StrandedFacts, StrandedNumbers
    <2>2. CASE Break
      BY <2>1, <2>2 DEF Break
    <2>3. CASE ~Break
      <3>1. spells' = spells /\ (broken' = broken \/ ~broken')
        BY <2>3 DEF Elsewhere, SetLevel, Heal, strandedHistory
      <3> QED BY <1>1, <2>1, <3>1
    <2> QED BY <2>2, <2>3
  <1>5. hub' \in [Tabs -> TabState] /\ (Focused(hub') <=> Focused(hub))
    BY <1>1, <1>2, StrandedFacts
  <1> QED BY <1>2, <1>3, <1>4, <1>5, NoEventKeeps

(* A stopped daemon's banner goes; the record of a killed one's stays. *)
LEMMA StoppedIs ==
  ASSUME NEW w \in Watch, broken \in BOOLEAN
  PROVE  /\ Stopped(w) \in Watch /\ Stopped(w).screen \subseteq w.screen
         /\ Stopped(w).record = NoRecord <=> w.record = NoRecord
         /\ Stopped(w).record # NoRecord =>
               /\ Stopped(w).record.round = w.record.round
               /\ Stopped(w).record.returned = w.record.returned
               /\ Stopped(w).record.pid \in {0, w.record.pid}
         /\ w.child # 0 => w.child \notin Stopped(w).screen
         /\ w.child = 0 => Stopped(w) = w
  <1>1. CASE w.child = 0
    BY <1>1 DEF Stopped
  <1>2. CASE w.child # 0
    <2> DEFINE w1 == Terminate(w, 0)
               r == IF w1.record = NoRecord \/ broken THEN w1.record
                    ELSE [w1.record EXCEPT !.pid = 0]
    <2>1. /\ w1 \in Watch /\ w1.record = w.record /\ w1.screen = w.screen \ {w.child}
      BY <1>2, TerminateIs
    <2>2. Stopped(w) = [w1 EXCEPT !.record = r]
      BY <1>2 DEF Stopped
    <2> HIDE DEF w1
    <2>3. w1.record \in BannerRecord \cup {NoRecord}
      BY <2>1 DEF Watch
    <2>4. /\ r \in BannerRecord \cup {NoRecord} /\ (r = NoRecord <=> w1.record = NoRecord)
          /\ r # NoRecord => /\ r.round = w1.record.round /\ r.returned = w1.record.returned
                             /\ r.pid \in {0, w1.record.pid}
      BY <2>3, StrandedNumbers DEF BannerRecord
    <2> HIDE DEF r
    <2>5. Stopped(w) \in Watch /\ Stopped(w).record = r /\ Stopped(w).screen = w1.screen
      BY <2>1, <2>2, <2>4 DEF Watch
    <2> QED BY <1>2, <2>1, <2>4, <2>5
  <1> QED BY <1>1, <1>2

LEMMA RestartKeeps ==
  ASSUME StrandedInv, NEW killed \in BOOLEAN, Restart(killed)
  PROVE  StrandedInv'
  <1> DEFINE w == IF killed THEN watch ELSE Stopped(watch)
  <1>1. /\ restarts < MaxRestarts /\ restarts' = restarts + 1
        /\ watch' = [w EXCEPT !.pending = "none", !.child = 0, !.memory = NoRecord]
        /\ hub' = [t \in Tabs |-> "none"]
        /\ forgotten' = TRUE
        /\ recordLost' = (recordLost \/ watch.memory # NoRecord)
        /\ UNCHANGED <<rounds, elsewhere, level, broken, banners, edits, due, spells>>
    BY DEF Restart
  <1>2. StrandedTypeOK /\ watch \in Watch /\ broken \in BOOLEAN /\ recordLost \in BOOLEAN
    BY StrandedFacts DEF StrandedInv
  <1>3. /\ w \in Watch /\ w.screen \subseteq watch.screen
        /\ w.record = NoRecord <=> watch.record = NoRecord
        /\ w.record # NoRecord => /\ w.record.round = watch.record.round
                                  /\ w.record.returned = watch.record.returned
                                  /\ w.record.pid \in {0, watch.record.pid}
        /\ w = watch \/ (watch.child # 0 /\ watch.child \notin w.screen)
    <2>1. CASE killed
      BY <1>2, <2>1
    <2>2. CASE ~killed
      <3>1. w = Stopped(watch)
        BY <2>2
      <3> HIDE DEF w
      <3> QED BY <1>2, <3>1, StoppedIs
    <2> QED BY <2>1, <2>2
  <1> HIDE DEF w
  <1>4. /\ watch' \in Watch /\ watch'.pending = "none" /\ watch'.child = 0
        /\ watch'.memory = NoRecord /\ watch'.record = w.record /\ watch'.screen = w.screen
    <2>1. 0 \in 0 .. MaxBanners
      BY StrandedNumbers
    <2>2. w \in Watch /\ watch' = [w EXCEPT !.pending = "none", !.child = 0, !.memory = NoRecord]
      BY <1>1, <1>3
    <2> QED BY <2>1, <2>2 DEF Watch
  <1>5. watch.memory = NoRecord =>
          /\ RecordOn(watch').round = RecordOn(watch).round
          /\ RecordOn(watch').returned = RecordOn(watch).returned
          /\ RecordOn(watch').pid \in {0, RecordOn(watch).pid}
    BY <1>3, <1>4 DEF RecordOn
  <1>6. /\ recordLost' \in BOOLEAN
        /\ ~recordLost' => ~recordLost /\ watch.memory = NoRecord
    BY <1>1, <1>2
  <1>7. w = watch => RecordOn(watch') = RecordOn(watch) \/ watch.memory # NoRecord
    BY <1>4 DEF RecordOn
  <1>8. ~recordLost' => Follows(watch', due, banners)
    <2> SUFFICES ASSUME ~recordLost' PROVE Follows(watch', due, banners)
      OBVIOUS
    <2>1. Follows(watch, due, banners) /\ watch.memory = NoRecord
      BY <1>6 DEF StrandedInv, RecordFollows
    <2>2. w = watch \/ watch'.screen = {}
      BY <1>3, <1>4, <2>1 DEF Follows
    <2>3. CASE w = watch
      BY <1>4, <1>7, <2>1, <2>3 DEF Follows
    <2>4. CASE watch'.screen = {}
      BY <1>4, <1>5, <2>1, <2>4 DEF Follows
    <2> QED BY <2>2, <2>3, <2>4
  <1>9. spells' = 0 => /\ spells = 0 /\ ~broken' /\ ~recordLost' /\ watch'.memory = NoRecord
                       /\ \A i \in watch'.screen : rounds'[banners[i]].status = "open"
    BY <1>1, <1>3, <1>4 DEF StrandedInv, StoreKept, BannerIsWanted
  <1>10. /\ hub' \in [Tabs -> TabState] /\ ~Focused(hub')
         /\ restarts' \in 0 .. MaxRestarts
    BY <1>1, <1>2, StrandedFacts, StrandedNumbers DEF TabState, Focused
  <1>11. watch'.screen \subseteq watch.screen /\ watch'.child \in {0, watch.child}
    BY <1>3, <1>4
  <1>12. forgotten' = TRUE /\ forgotten' \in BOOLEAN
    BY <1>1
  <1> QED BY <1>1, <1>2, <1>4, <1>5, <1>6, <1>8, <1>9, <1>10, <1>11, <1>12, StrandedFacts,
             UntoldKeeps

-----------------------------------------------------------------------------
(* The countdown ends.                                                     *)

(* What a banner raised about round n does to the watch. *)
LEMMA RaisedIs ==
  ASSUME StrandedTypeOK, NEW w \in Watch, NEW n \in 1 .. MaxRound, Len(banners) < MaxBanners
  PROVE  /\ Raised(w, n) \in Watch /\ Raised(w, n).pending = w.pending
         /\ Raised(w, n).child = Len(banners) + 1
         /\ Raised(w, n).screen = w.screen \cup {Len(banners) + 1}
         /\ ~broken => Raised(w, n).memory = NoRecord
         /\ ~Refused(w) =>
               /\ Raised(w, n).memory = NoRecord \/ Raised(w, n).record = NoRecord
               /\ RecordOn(Raised(w, n)).round = n
               /\ ~RecordOn(Raised(w, n)).returned
               /\ RecordOn(Raised(w, n)).pid = Len(banners) + 1
  <1> DEFINE id == Len(banners) + 1
             rec == [round |-> n, returned |-> FALSE, pid |-> id]
             r == IF broken THEN w.record ELSE rec
             m == IF broken THEN rec ELSE NoRecord
  <1>1. id \in 1 .. MaxBanners /\ id \in 0 .. MaxBanners /\ n \in 0 .. MaxRound
    BY StrandedFacts, StrandedNumbers
  <1> HIDE DEF id
  <1>2. /\ rec \in BannerRecord /\ rec # NoRecord
        /\ rec.round = n /\ ~rec.returned /\ rec.pid = id
    <2>1. rec \in BannerRecord /\ rec.round = n /\ ~rec.returned /\ rec.pid = id
      BY <1>1 DEF BannerRecord
    <2> HIDE DEF rec
    <2> QED BY <2>1, StrandedNumbers
  <1>3. Raised(w, n) = [w EXCEPT !.record = r, !.memory = m, !.child = id,
                                 !.screen = w.screen \cup {id}]
    BY DEF Raised, id
  <1> HIDE DEF rec
  <1>4. /\ r \in BannerRecord \cup {NoRecord} /\ m \in BannerRecord \cup {NoRecord}
        /\ w.screen \cup {id} \in SUBSET (1 .. MaxBanners)
    BY <1>1, <1>2 DEF Watch
  <1> HIDE DEF r, m
  <1>5. /\ Raised(w, n) \in Watch /\ Raised(w, n).pending = w.pending
        /\ Raised(w, n).child = id /\ Raised(w, n).screen = w.screen \cup {id}
        /\ Raised(w, n).record = r /\ Raised(w, n).memory = m
    BY <1>1, <1>3, <1>4 DEF Watch
  <1>6. ~Refused(w) => (m = NoRecord \/ r = NoRecord) /\ RecordOn(Raised(w, n)) = rec
    BY <1>2, <1>5 DEF Refused, RecordOn, r, m
  <1>7. ~broken => m = NoRecord
    BY DEF m
  <1> QED BY <1>2, <1>5, <1>6, <1>7 DEF id

(* A banner adds one to the count of its round. *)
LEMMA OneMore ==
  ASSUME StrandedTypeOK, NEW n \in 1 .. MaxRound, banners' = Append(banners, n)
  PROVE  /\ banners' \in Seq(1 .. MaxRound) /\ Len(banners') = Len(banners) + 1
         /\ DOMAIN banners' = 1 .. Len(banners) + 1
         /\ banners'[Len(banners) + 1] = n
         /\ \A i \in DOMAIN banners : banners'[i] = banners[i]
         /\ \A m : Announced(m)' = IF m = n THEN Announced(m) + 1 ELSE Announced(m)
  <1>1. /\ banners' \in Seq(1 .. MaxRound) /\ Len(banners') = Len(banners) + 1
        /\ banners'[Len(banners) + 1] = n
        /\ \A i \in 1 .. Len(banners) : banners'[i] = banners[i]
        /\ Len(banners) \in Nat /\ DOMAIN banners = 1 .. Len(banners)
    BY StrandedFacts, AppendProperties
  <1>2. /\ DOMAIN banners' = 1 .. Len(banners) + 1
        /\ 1 .. Len(banners) + 1 = (1 .. Len(banners)) \cup {Len(banners) + 1}
        /\ Len(banners) + 1 \notin 1 .. Len(banners)
    BY <1>1, LenProperties
  <1>3. ASSUME NEW m PROVE Announced(m)' = IF m = n THEN Announced(m) + 1 ELSE Announced(m)
    <2> DEFINE S == {i \in DOMAIN banners : banners[i] = m}
               T == {i \in DOMAIN banners' : banners'[i] = m}
    <2>1. /\ IsFiniteSet(S) /\ Announced(m) = Cardinality(S) /\ Announced(m)' = Cardinality(T)
          /\ Len(banners) + 1 \notin S
      BY <1>1, <1>2, CountIs DEF Announced
    <2>2. T = IF m = n THEN S \cup {Len(banners) + 1} ELSE S
      BY <1>1, <1>2
    <2> HIDE DEF S, T
    <2> QED BY <2>1, <2>2, FS_AddElement
  <1> QED BY <1>1, <1>2, <1>3

(* What a banner that fires decides: what it raises was due, about an open *)
(* round past the mark, and on a board nobody looks at.                    *)
LEMMA FireRaises ==
  ASSUME StrandedInv, Fire, banners' # banners
  PROVE  /\ ~recordLost => due
         /\ StrandedInv'
  <1> DEFINE w == Cancel(watch)
             n == NextToAnnounce(w, rounds)
             id == Len(banners) + 1
  <1>1. /\ watch.pending # "none" /\ Len(banners) < MaxBanners
        /\ MayAnnounce(w, rounds)
        /\ watch' = Raised(w, n) /\ banners' = Append(banners, n) /\ due' = FALSE
        /\ recordLost' = (recordLost \/ Refused(w))
        /\ UNCHANGED <<rounds, hub, elsewhere, level, broken, edits, forgotten, spells, restarts>>
    BY DEF Fire
  <1>2. /\ StrandedTypeOK /\ watch \in Watch /\ rounds \in Seq(RoundRecord)
        /\ Len(rounds) \in Nat /\ Len(rounds) <= MaxRound /\ Len(banners) \in Nat
        /\ edits \in [1 .. MaxRound -> 0 .. MaxEdits]
        /\ DOMAIN banners = 1 .. Len(banners)
        /\ recordLost \in BOOLEAN /\ watch.screen \subseteq 1 .. Len(banners)
    BY StrandedFacts DEF StrandedInv
  <1>3. /\ w \in Watch /\ w.pending = "none" /\ w.record = watch.record
        /\ w.memory = watch.memory /\ w.child = watch.child /\ w.screen = watch.screen
        /\ RecordOn(w) = RecordOn(watch)
    BY <1>2, CancelIs
  <1> HIDE DEF w
  <1>4. /\ n \in 1 .. Len(rounds) /\ rounds[n].status = "open" /\ n > RecordOn(watch).round
        /\ RecordOn(watch).returned
    BY <1>1, <1>2, <1>3, NextIs
  <1> HIDE DEF n
  <1>5. n \in 1 .. MaxRound /\ id \in 1 .. MaxBanners /\ n \in Nat
    <2>1. n \in Nat /\ 1 <= n /\ n <= MaxRound
      BY <1>2, <1>4, StrandedNumbers
    <2>2. id \in 1 .. MaxBanners
      <3>1. Len(banners) \in Nat /\ Len(banners) < MaxBanners /\ MaxBanners \in Nat
        BY <1>1, <1>2, StrandedNumbers
      <3> QED BY <3>1
    <2> HIDE DEF id
    <2> QED BY <2>1, <2>2, StrandedNumbers
  <1>6. /\ watch' \in Watch /\ watch'.pending = "none" /\ watch'.child = id
        /\ watch'.screen = watch.screen \cup {id}
        /\ ~broken => watch'.memory = NoRecord
        /\ ~Refused(w) =>
              /\ watch'.memory = NoRecord \/ watch'.record = NoRecord
              /\ RecordOn(watch').round = n /\ ~RecordOn(watch').returned
              /\ RecordOn(watch').pid = id
    <2>1. n \in 1 .. MaxRound /\ w \in Watch /\ Len(banners) < MaxBanners /\ watch' = Raised(w, n)
      BY <1>1, <1>3, <1>5
    <2>2. /\ Raised(w, n) \in Watch /\ Raised(w, n).pending = w.pending
          /\ Raised(w, n).child = id
          /\ Raised(w, n).screen = w.screen \cup {id}
          /\ ~broken => Raised(w, n).memory = NoRecord
          /\ ~Refused(w) =>
                /\ Raised(w, n).memory = NoRecord \/ Raised(w, n).record = NoRecord
                /\ RecordOn(Raised(w, n)).round = n
                /\ ~RecordOn(Raised(w, n)).returned
                /\ RecordOn(Raised(w, n)).pid = id
      BY <1>2, <2>1, RaisedIs
    <2> HIDE DEF id
    <2> QED BY <1>3, <2>1, <2>2
  <1>7. /\ banners' \in Seq(1 .. MaxRound) /\ Len(banners') = id
        /\ DOMAIN banners' = 1 .. id /\ banners'[id] = n
        /\ \A i \in DOMAIN banners : banners'[i] = banners[i]
        /\ \A m : Announced(m)' = IF m = n THEN Announced(m) + 1 ELSE Announced(m)
    BY <1>1, <1>2, <1>5, OneMore
  <1>8. ~recordLost => Follows(watch, due, banners)
    BY DEF StrandedInv, RecordFollows
  <1>9. (~recordLost => due /\ watch.screen = {}) /\ (~recordLost' => ~recordLost /\ ~Refused(w))
        /\ recordLost' \in BOOLEAN
    <2>1. ~recordLost => due /\ watch.screen = {}
      BY <1>2, <1>4, <1>8 DEF Follows
    <2>2. Refused(w) \in BOOLEAN
      BY DEF Refused
    <2> QED BY <1>1, <1>2, <2>1, <2>2
  <1>10. StrandedTypeOK'
    <2>1. watch'.screen \cup {watch'.child} \subseteq 0 .. Len(banners')
      BY <1>2, <1>6, <1>7
    <2>2. {broken, due, forgotten, recordLost}' \subseteq BOOLEAN
      BY <1>1, <1>2, <1>9, StrandedFacts
    <2>3. Len(banners') <= MaxBanners
      BY <1>5, <1>7, StrandedNumbers
    <2> QED BY <1>1, <1>2, <1>6, <1>7, <2>1, <2>2, <2>3 DEF StrandedTypeOK
  <1>11. RecordFollows'
    <2> SUFFICES ASSUME ~recordLost' PROVE Follows(watch', due', banners')
      BY DEF RecordFollows
    <2>1. watch'.screen = {id} /\ id \in DOMAIN banners'
      BY <1>2, <1>6, <1>7, <1>9
    <2> HIDE DEF id
    <2> QED BY <1>6, <1>7, <1>9, <2>1 DEF Follows
  <1>12. spells = 0 => ~broken /\ ~recordLost
    BY DEF StrandedInv, StoreKept
  <1>13. StoreKept'
    BY <1>1, <1>6, <1>12 DEF StoreKept, Refused
  <1>14. ~Focused(hub) /\ ~Focused(hub')
    BY <1>1 DEF StrandedInv, LookedAt
  <1>15. LookedAt' /\ NotForgotten'
    <2>1. LookedAt'
      BY <1>14 DEF LookedAt
    <2>2. ~recordLost' => ~MayAnnounce(watch', rounds')
      BY <1>6, <1>9 DEF MayAnnounce
    <2> QED BY <2>1, <2>2 DEF NotForgotten
  <1>16. BannersKnown'
    <2>1. \A i \in DOMAIN banners' : i = id \/ i \in DOMAIN banners
      BY <1>2, <1>7
    <2>2. n <= Len(rounds)
      BY <1>2, <1>4
    <2> QED BY <1>1, <1>7, <2>1, <2>2 DEF StrandedInv, BannersKnown
  <1>17. Counted'
    <2> SUFFICES ASSUME ~recordLost', NEW m \in 1 .. MaxRound
                 PROVE  Announced(m)' <= Allowed(m, n, edits)
      BY <1>1, <1>6, <1>9 DEF Counted
    <2>1. Announced(m) \in Nat /\ Announced(m) <= Allowed(m, RecordOn(watch).round, edits)
      BY <1>2, <1>9, CountIs DEF StrandedInv, Counted
    <2>2. edits[m] \in Nat /\ m \in Nat /\ RecordOn(watch).round \in Nat
      BY <1>2, RecordIs, StrandedNumbers
    <2>3. Announced(m)' = IF m = n THEN Announced(m) + 1 ELSE Announced(m)
      BY <1>7
    <2> QED BY <1>4, <1>5, <2>1, <2>2, <2>3 DEF Allowed
  <1>18. BannerIsWanted'
    <2> SUFFICES ASSUME spells = 0, NEW i \in watch'.screen
                 PROVE  rounds[banners'[i]].status = "open"
      BY <1>1, <1>14 DEF BannerIsWanted
    <2>1. i = id
      BY <1>6, <1>9, <1>12
    <2> QED BY <1>4, <1>7, <2>1
  <1> QED BY <1>9, <1>10, <1>11, <1>13, <1>15, <1>16, <1>17, <1>18 DEF StrandedInv

(* A countdown that ends without a banner was not to be announced, or goes *)
(* on as a look-away window, or went with level "off".                     *)
LEMMA FireHeldKeeps ==
  ASSUME StrandedInv, Fire, banners' = banners
  PROVE  StrandedInv'
  <1> DEFINE w == Cancel(watch)
  <1>1. StrandedTypeOK /\ watch \in Watch /\ Len(banners) \in Nat /\ banners \in Seq(1 .. MaxRound)
    BY StrandedFacts DEF StrandedInv
  <1>2. /\ w \in Watch /\ w.pending = "none" /\ w.record = watch.record
        /\ w.memory = watch.memory /\ w.child = watch.child /\ w.screen = watch.screen
        /\ RecordOn(w) = RecordOn(watch)
    BY <1>1, CancelIs
  <1>3. watch.pending # "none" /\ ~Focused(hub)
    BY DEF Fire, StrandedInv, LookedAt
  <1> HIDE DEF w
  <1>4. /\ UNCHANGED <<rounds, hub, elsewhere, level, broken, banners, edits, due, recordLost,
                       spells, restarts>>
        /\ \/ watch' = w /\ forgotten' = (level = "off")
              /\ (level = "off" \/ ~MayAnnounce(w, rounds))
           \/ watch' = [w EXCEPT !.pending = "window"] /\ forgotten' = forgotten
    <2> DEFINE n == NextToAnnounce(w, rounds)
    <2>1. \A i : Append(banners, i) # banners
      BY <1>1
    <2>2. Muted = "focused" => level = "no-board"
      BY <1>3 DEF Muted
    <2> QED BY <2>1, <2>2 DEF Fire, w
  <1>5. /\ watch' \in Watch /\ watch'.record = watch.record /\ watch'.memory = watch.memory
        /\ watch'.child = watch.child /\ watch'.screen = watch.screen
    BY <1>2, <1>4 DEF Watch
  <1>6. RecordOn(watch') = RecordOn(watch)
    BY <1>5, SameRecord
  <1>7. ~recordLost => Follows(watch', due, banners)
    BY <1>5, <1>6 DEF StrandedInv, RecordFollows, Follows
  <1>8. spells = 0 => /\ ~broken /\ ~recordLost /\ watch'.memory = NoRecord
                      /\ \A i \in watch'.screen : rounds[banners[i]].status = "open"
    BY <1>5 DEF StrandedInv, StoreKept, BannerIsWanted
  <1>9. MayAnnounce(watch', rounds) => forgotten' \/ watch'.pending # "none"
    BY <1>2, <1>4 DEF Watch
  <1>10. forgotten' \in BOOLEAN
    BY <1>1, <1>4, StrandedFacts
  <1> QED BY <1>1, <1>3, <1>4, <1>5, <1>6, <1>7, <1>8, <1>9, <1>10, StrandedFacts, UntoldKeeps

LEMMA StrandedNextKeeps == StrandedInv /\ [StrandedNext]_strandedVars => StrandedInv'
  <1> SUFFICES ASSUME StrandedInv, [StrandedNext]_strandedVars PROVE StrandedInv'
    OBVIOUS
  <1>1. CASE \E awaited, suppressed \in BOOLEAN : Post(awaited, suppressed)
    BY <1>1, PostKeeps
  <1>2. CASE Amend
    BY <1>2, AmendKeeps
  <1>3. CASE \E n \in DOMAIN rounds : Submit(n) \/ Lapse(n)
    BY <1>3, SubmitKeeps, LapseKeeps
  <1>4. CASE Abandon
    BY <1>4, AbandonKeeps
  <1>5. CASE DeadlineMoves
    BY <1>5, DeadlineMovesKeeps
  <1>6. CASE \E t \in Tabs : \/ Subscribe(t) \/ Unsubscribe(t)
                             \/ Focus(t) \/ LookAway(t) \/ WindowExpires(t)
    <2>1. PICK t \in Tabs : \/ \E state \in TabState : Seen(t, state)
                            \/ WindowExpires(t)
      BY <1>6 DEF Subscribe, Unsubscribe, Focus, LookAway, TabState
    <2> QED BY <2>1, SeenKeeps, WindowExpiresKeeps
  <1>7. CASE \/ \E state \in {"focused", "window", "away"} : Elsewhere(state)
             \/ \E l \in Levels : SetLevel(l)
             \/ Break
             \/ Heal
    BY <1>7, AsideKeeps
  <1>8. CASE Fire
    BY <1>8, FireRaises, FireHeldKeeps
  <1>9. CASE \E i \in 1 .. MaxBanners : ChildExits(i)
    BY <1>9, ChildExitsKeeps
  <1>10. CASE \E killed \in BOOLEAN : Restart(killed)
    BY <1>10, RestartKeeps
  <1>11. CASE UNCHANGED strandedVars
    <2>1. UNCHANGED <<rounds, watch, hub, elsewhere, level, broken, banners, edits, due,
                     forgotten, recordLost, spells, restarts>>
      BY <1>11 DEF strandedVars, strandedHistory
    <2>2. StrandedTypeOK /\ (spells = 0 => ~broken)
      BY DEF StrandedInv, StoreKept
    <2> QED BY <2>1, <2>2, StrandedFacts, NoEventKeeps
  <1> QED BY <1>1, <1>2, <1>3, <1>4, <1>5, <1>6, <1>7, <1>8, <1>9, <1>10, <1>11 DEF StrandedNext

(* Only a countdown that ends raises a banner. *)
LEMMA OnlyFireRaises ==
  ASSUME [StrandedNext]_strandedVars, banners' # banners
  PROVE  Fire
  <1>1. ~UNCHANGED strandedVars
    BY DEF strandedVars, strandedHistory
  <1>2. StrandedNext
    BY <1>1
  <1> QED BY <1>2 DEF StrandedNext, Post, Amend, Submit, Lapse, Abandon, DeadlineMoves, Subscribe,
             Unsubscribe, Focus, LookAway, Seen, WindowExpires, Elsewhere, SetLevel, ChildExits,
             Restart, Break, Heal, strandedHistory

-----------------------------------------------------------------------------
(* The record of what was announced follows the banners through every post,*)
(* answer, look, amend, abandon, restart and refused write of stranded.mjs.*)
THEOREM StrandedInvariance == StrandedSpec => []StrandedInv
  <1> QED BY InitStrandedInv, StrandedNextKeeps, PTL DEF StrandedSpec

(* Every variable keeps its type, the round a banner is about and the      *)
(* process it is included.                                                 *)
THEOREM StrandedTypeCorrect == StrandedSpec => []StrandedTypeOK
  <1>1. StrandedInv => StrandedTypeOK
    BY DEF StrandedInv
  <1> QED BY <1>1, StrandedInvariance, PTL

(* However returns, amends, restarts, lapses and answers out of order fall, *)
(* announce raises at most one banner for each version of a round, while   *)
(* the record of one has not been lost.                                    *)
THEOREM AnnouncedOncePerVersion == StrandedSpec => []OncePerVersion
  <1>1. StrandedInv => OncePerVersion
    <2> SUFFICES ASSUME StrandedInv, ~recordLost, NEW n \in DOMAIN rounds
                 PROVE  Announced(n) <= 1 + edits[n]
      BY DEF OncePerVersion
    <2>1. StrandedTypeOK /\ n \in 1 .. MaxRound
      BY StrandedFacts, StrandedNumbers DEF StrandedInv
    <2>2. edits[n] \in Nat /\ Announced(n) \in Nat
      <3>1. edits[n] \in 0 .. MaxEdits
        BY <2>1, StrandedFacts
      <3>2. Announced(n) \in Nat
        BY <2>1, CountIs
      <3> QED BY <3>1, <3>2, StrandedNumbers
    <2>3. Announced(n) <= Allowed(n, RecordOn(watch).round, edits)
      BY <2>1 DEF StrandedInv, Counted
    <2> QED BY <2>2, <2>3 DEF Allowed
  <1> QED BY <1>1, StrandedInvariance, PTL

(* announce raises a banner only where one is due: after the reviewer has  *)
(* looked at the board, or an announced round was amended unseen, since    *)
(* the last.                                                               *)
THEOREM AnnouncedOncePerAbsence == StrandedSpec => OnePerAbsence
  <1>1. StrandedInv /\ [StrandedNext]_strandedVars =>
          [banners' # banners /\ ~recordLost => due]_strandedVars
    BY OnlyFireRaises, FireRaises
  <1> QED BY <1>1, StrandedInvariance, PTL DEF StrandedSpec, OnePerAbsence

(* terminate takes the last banner off the screen before another comes up, *)
(* the one a killed daemon left behind included.                           *)
THEOREM NeverTwoOnScreen == StrandedSpec => []OneOnScreen
  <1>1. StrandedInv => OneOnScreen
    <2> SUFFICES ASSUME StrandedInv, ~recordLost PROVE Cardinality(watch.screen) <= 1
      BY DEF OneOnScreen
    <2>1. watch.screen \subseteq {RecordOn(watch).pid}
      BY DEF StrandedInv, RecordFollows, Follows
    <2>2. watch.screen = {} \/ watch.screen = {RecordOn(watch).pid}
      BY <2>1
    <2>3. CASE watch.screen = {}
      BY <2>3, FS_EmptySet
    <2>4. CASE watch.screen = {RecordOn(watch).pid}
      <3>1. Cardinality(watch.screen) = 1
        BY <2>4, FS_Singleton
      <3> QED BY <3>1
    <2> QED BY <2>2, <2>3, <2>4
  <1> QED BY <1>1, StrandedInvariance, PTL

(* While the store takes writes, a banner on screen is about an open round *)
(* of a board nobody is looking at: answer, abandon and look take it off.  *)
THEOREM BannersAreWanted == StrandedSpec => []BannerIsWanted
  <1>1. StrandedInv => BannerIsWanted
    BY DEF StrandedInv
  <1> QED BY <1>1, StrandedInvariance, PTL

(* A round that may be announced to nobody has its countdown running: no   *)
(* path through evaluate and announce drops it.                            *)
THEOREM CountdownIsKept == StrandedSpec => []NotForgotten
  <1>1. StrandedInv => NotForgotten
    BY DEF StrandedInv
  <1> QED BY <1>1, StrandedInvariance, PTL

=============================================================================
