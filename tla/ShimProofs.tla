----------------------------- MODULE ShimProofs -----------------------------
(***************************************************************************)
(* Proofs about Shim, for any calls under way at once, any content, and    *)
(* any bounds on boards, conversations and prunes.                         *)
(***************************************************************************)
EXTENDS Shim, FiniteSetTheorems, TLAPS

-----------------------------------------------------------------------------
(* The inductive invariant.                                                *)

(* The calls that may still declare a boundary once they have waited.      *)
Waiters == {c \in Calls : calls[c].pc \in {"joining", "woken"} /\ calls[c].fresh}

SpareKept == conv + Cardinality(Waiters) <= MaxBoundaries

(* A board the daemon holds and the shim did not lose track of.            *)
Known(b) == b \in 1 .. minted /\ ~boards[b].gone /\ b \notin lost \cup dropped

(* The session's board is of this conversation, unless its mint was under  *)
(* way at the boundary, and there is none while one is minted.             *)
SessionSound ==
    /\ session.board \in 0 .. minted
    /\ session.board # 0 =>
          /\ create.phase = "none"
          /\ boards[session.board].conv = conv \/ session.board \in stray

(* The post under way knows its content, its conversation, which is not    *)
(* ahead of the shim's, and, once it is made, its board.  It mints into a  *)
(* conversation that holds no known board.                                 *)
CreateSound ==
    create.phase # "none" =>
        /\ create.content \in Content
        /\ create.conv <= conv
        /\ create.conv = conv => session.createContent = create.content
        /\ create.phase = "sent" =>
              create.board = 0 /\ \A b \in 1 .. minted : Known(b) => boards[b].conv # create.conv
        /\ create.phase = "made" =>
              create.board \in 1 .. minted /\ boards[create.board].conv = create.conv

(* What a call under way holds of session, mint and boards.                *)
CallSound(k) ==
    /\ k.since <= conv /\ k.board <= minted /\ k.before <= minted
    /\ k.pc # "idle" => k.content \in Content
    /\ k.pc = "joining" => create.phase # "none"
    /\ k.pc = "minting" => create.phase # "none" /\ k.since <= create.conv
    /\ k.pc = "woken" => k.board = session.board
    /\ k.pc \in {"pushing", "missing"} => k.board # 0
    /\ k.pc = "missing" => boards[k.board].gone
    /\ k.board # 0 => boards[k.board].conv >= k.since \/ k.board \in stray

CallsSound == \A c \in Calls : CallSound(calls[c])

(* Known boards of one conversation are one board, and the one of this     *)
(* conversation is the session's or about to be.                           *)
OneKnown == \A b, d \in 1 .. minted : Known(b) /\ Known(d) /\ boards[b].conv = boards[d].conv => b = d

CurrentIsHeld ==
    \A b \in 1 .. minted : Known(b) /\ boards[b].conv = conv =>
        session.board = b \/ (create.phase = "made" /\ create.board = b)

BoardsSound == \A b \in 1 .. minted : boards[b].conv <= conv

(* x minted b, and whatever is posted to b is keyed by that.               *)
KeyFor(b, x, y) == IF y = x THEN 0 ELSE b

MintedBy(b, x) ==
    /\ boards[b].scope = KeyFor(b, x, boards[b].lately)
    /\ session.board = b => session.createContent = x
    /\ create.phase = "made" /\ create.board = b => create.content = x
    /\ \A c \in Calls : calls[c].pc = "pushing" /\ calls[c].board = b =>
          calls[c].scope = KeyFor(b, x, calls[c].content)

KeysAgree == \A b \in (1 .. minted) \ stray : \E x \in Content : MintedBy(b, x)

ShimInv ==
    /\ ShimTypeOK
    /\ SpareKept
    /\ SessionSound
    /\ CreateSound
    /\ CallsSound
    /\ OneKnown
    /\ CurrentIsHeld
    /\ BoardsSound
    /\ KeysAgree
    /\ FreshSparesConcurrent
    /\ ParkedIsClosed
    /\ RetryIsSafe

-----------------------------------------------------------------------------
LEMMA ShimNumbers ==
    /\ MaxBoards \in Nat /\ MaxBoundaries \in Nat /\ MaxGone \in Nat
    /\ Conversation = 0 .. MaxBoundaries /\ Board = 1 .. MaxBoards
    /\ None \notin Content /\ IsFiniteSet(Calls)
  BY ShimAssumption DEF Conversation, Board

LEMMA TypeFacts ==
  ASSUME ShimTypeOK
  PROVE  /\ session \in Session /\ create \in Create
         /\ calls \in [Calls -> Call]
         /\ minted \in 0 .. MaxBoards
         /\ boards \in [1 .. minted -> BoardRecord]
         /\ conv \in Conversation
         /\ lost \subseteq Board /\ dropped \subseteq Board /\ stray \subseteq Board
         /\ underfoot \subseteq Board /\ parked \subseteq Board /\ closed \subseteq Board
         /\ doubled \subseteq Board
  BY DEF ShimTypeOK

LEMMA TypeAfter ==
  ASSUME session' \in Session, create' \in Create, calls' \in [Calls -> Call],
         minted' \in 0 .. MaxBoards, boards' \in [1 .. minted' -> BoardRecord],
         conv' \in Conversation,
         lost' \subseteq Board, dropped' \subseteq Board, stray' \subseteq Board,
         underfoot' \subseteq Board, parked' \subseteq Board, closed' \subseteq Board,
         doubled' \subseteq Board
  PROVE  ShimTypeOK'
  BY DEF ShimTypeOK

LEMMA IdleIsCall ==
    /\ Idle \in Call /\ Idle.pc = "idle" /\ Idle.content = None /\ Idle.board = 0
    /\ Idle.scope = 0 /\ Idle.since = 0 /\ Idle.before = 0 /\ ~Idle.fresh
  BY ShimNumbers DEF Idle, Call

LEMMA WaitersFinite == IsFiniteSet(Waiters) /\ Cardinality(Waiters) \in Nat
  <1>1. Waiters \in SUBSET Calls
    BY DEF Waiters
  <1> QED BY <1>1, ShimNumbers, FS_Subset, FS_CardinalityType

LEMMA WaitersFiniteAfter == IsFiniteSet(Waiters') /\ Cardinality(Waiters') \in Nat
  <1>1. Waiters' \in SUBSET Calls
    BY DEF Waiters
  <1> QED BY <1>1, ShimNumbers, FS_Subset, FS_CardinalityType

(* Where nobody new waits and no conversation begins, there is room left   *)
(* for those who may still declare one.                                    *)
LEMMA SpareStays ==
  ASSUME ShimInv, conv' = conv, Waiters' \subseteq Waiters
  PROVE  SpareKept'
  <1>1. Cardinality(Waiters') <= Cardinality(Waiters)
    BY WaitersFinite, FS_Subset
  <1>2. conv \in Nat /\ conv + Cardinality(Waiters) <= MaxBoundaries
    BY TypeFacts, ShimNumbers DEF ShimInv, SpareKept
  <1> QED BY <1>1, <1>2, WaitersFinite, WaitersFiniteAfter, ShimNumbers DEF SpareKept

(* A waiter that declares gives up its place.                              *)
LEMMA SpareSpent ==
  ASSUME ShimInv, NEW c \in Waiters, conv' = conv + 1, Waiters' \subseteq Waiters \ {c}
  PROVE  SpareKept'
  <1>1. /\ IsFiniteSet(Waiters \ {c})
        /\ Cardinality(Waiters \ {c}) = Cardinality(Waiters) - 1
    BY WaitersFinite, FS_RemoveElement
  <1>2. Cardinality(Waiters') <= Cardinality(Waiters \ {c})
    BY <1>1, FS_Subset
  <1>3. conv \in Nat /\ conv + Cardinality(Waiters) <= MaxBoundaries
    BY TypeFacts, ShimNumbers DEF ShimInv, SpareKept
  <1> QED BY <1>1, <1>2, <1>3, WaitersFinite, WaitersFiniteAfter, ShimNumbers DEF SpareKept

LEMMA ConversationAfter ==
  ASSUME conv' \in Nat, SpareKept'
  PROVE  conv' \in Conversation
  BY WaitersFiniteAfter, ShimNumbers DEF SpareKept

-----------------------------------------------------------------------------
(* One call moves while session, mint and boards stay; the board closing   *)
(* that ends it may take the parked board off.                             *)
LEMMA CallMoves ==
  ASSUME ShimInv, NEW c \in Calls, NEW k \in Call, CallSound(k),
         calls' = [calls EXCEPT ![c] = k],
         session' \in Session, session'.board = session.board,
         session'.createContent = session.createContent,
         parked' \subseteq Board, closed' \subseteq Board,
         parked' \subseteq closed' \cup {session'.pending},
         UNCHANGED <<create, boards, minted, conv, lost, dropped, stray, underfoot, doubled>>,
         k.pc = "pushing" => k.board = session.board /\ k.scope = Scope(session, k.content),
         SpareKept'
  PROVE  ShimInv'
  <1>1. ShimTypeOK'
    BY TypeFacts, TypeAfter DEF ShimInv
  <1>2. SessionSound' /\ CreateSound' /\ OneKnown' /\ CurrentIsHeld' /\ BoardsSound'
    BY DEF ShimInv, SessionSound, CreateSound, OneKnown, CurrentIsHeld, BoardsSound, Known
  <1>3. CallsSound'
    <2>1. \A d \in Calls : calls'[d] = IF d = c THEN k ELSE calls[d]
      BY TypeFacts DEF ShimInv
    <2>2. \A d \in Calls : CallSound(calls'[d])
      BY <2>1 DEF ShimInv, CallsSound
    <2> QED BY <2>2 DEF CallsSound, CallSound
  <1>4. KeysAgree'
    <2> SUFFICES ASSUME NEW b \in (1 .. minted) \ stray
                 PROVE  \E x \in Content : MintedBy(b, x)'
      BY DEF KeysAgree
    <2>1. PICK x \in Content : MintedBy(b, x)
      BY DEF ShimInv, KeysAgree
    <2>2. ASSUME NEW d \in Calls, calls'[d].pc = "pushing", calls'[d].board = b
          PROVE  calls'[d].scope = KeyFor(b, x, calls'[d].content)
      <3>1. CASE d # c
        BY <2>1, <2>2, <3>1, TypeFacts DEF ShimInv, MintedBy
      <3>2. CASE d = c
        <4>1. calls'[d] = k
          BY <3>2, TypeFacts DEF ShimInv
        <4>2. session.board = b /\ session.createContent = x
          BY <2>1, <2>2, <4>1 DEF MintedBy
        <4>3. k.content \in Content
          BY <2>2, <4>1 DEF CallSound
        <4> QED BY <2>2, <4>1, <4>2, <4>3 DEF Scope, KeyFor
      <3> QED BY <3>1, <3>2
    <2>3. MintedBy(b, x)'
      BY <2>1, <2>2 DEF MintedBy, KeyFor
    <2> QED BY <2>3
  <1>5. FreshSparesConcurrent' /\ ParkedIsClosed' /\ RetryIsSafe'
    BY DEF ShimInv, FreshSparesConcurrent, ParkedIsClosed, RetryIsSafe
  <1> QED BY <1>1, <1>2, <1>3, <1>4, <1>5 DEF ShimInv

LEMMA MintingIs ==
  ASSUME NEW x \in Content, NEW k \in Conversation
  PROVE  /\ Minting(x, k) \in Create /\ Minting(x, k).phase = "sent"
         /\ Minting(x, k).content = x /\ Minting(x, k).board = 0 /\ Minting(x, k).conv = k
  <1>1. NoCreate \in Create /\ NoCreate.board = 0
    BY ShimNumbers DEF NoCreate, Create
  <1> QED BY <1>1 DEF Minting, Create

(* A post that mints a board begins, in a conversation of which no board   *)
(* is known.                                                               *)
LEMMA MintBegins ==
  ASSUME ShimInv, create.phase = "none",
         NEW c \in Calls, NEW k \in Call, NEW x \in Content,
         k.pc = "minting", k.content = x, k.board = 0, k.since <= conv', k.before <= minted,
         calls' = [calls EXCEPT ![c] = k],
         \A d \in Calls \ {c} : calls[d].pc = "woken" => calls[d].board = 0,
         session' \in Session, session'.board = 0, session'.createContent = x,
         create' = Minting(x, conv'), conv' \in {conv, conv + 1},
         \A b \in 1 .. minted : Known(b)' => boards[b].conv # conv',
         dropped \subseteq dropped', dropped' \subseteq Board,
         parked' \subseteq Board, parked' \subseteq closed' \cup {session'.pending},
         UNCHANGED <<boards, minted, lost, stray, underfoot, closed, doubled>>,
         SpareKept'
  PROVE  ShimInv'
  <1>0. /\ conv \in Nat /\ conv' \in Nat /\ conv' >= conv /\ conv' \in Conversation
        /\ minted \in Nat
    BY TypeFacts, ShimNumbers, ConversationAfter DEF ShimInv
  <1>1. /\ create' \in Create /\ create'.phase = "sent" /\ create'.content = x
        /\ create'.board = 0 /\ create'.conv = conv'
    BY <1>0, MintingIs
  <1>2. ShimTypeOK'
    BY <1>0, <1>1, TypeFacts, TypeAfter DEF ShimInv
  <1>3. SessionSound'
    BY <1>0 DEF SessionSound
  <1>4. CreateSound'
    BY <1>0, <1>1 DEF CreateSound
  <1>5. CallsSound'
    <2> SUFFICES ASSUME NEW d \in Calls PROVE CallSound(calls[d])'
      BY DEF CallsSound
    <2>1. CASE d = c
      <3>1. calls'[d] = k
        BY <2>1, TypeFacts DEF ShimInv
      <3> QED BY <1>0, <1>1, <3>1 DEF CallSound
    <2>2. CASE d # c
      <3>1. calls'[d] = calls[d] /\ CallSound(calls[d]) /\ calls[d] \in Call
        BY <2>2, TypeFacts DEF ShimInv, CallsSound
      <3>2. calls[d].since \in Nat /\ calls[d].board \in Nat /\ calls[d].since <= conv'
        BY <1>0, <3>1, ShimNumbers DEF Call, CallSound
      <3>3. calls[d].pc # "minting"
        BY <3>1 DEF CallSound
      <3> QED BY <1>1, <2>2, <3>1, <3>2, <3>3 DEF CallSound
    <2> QED BY <2>1, <2>2
  <1>6. OneKnown'
    BY DEF ShimInv, OneKnown, Known
  <1>7. CurrentIsHeld'
    BY DEF CurrentIsHeld
  <1>8. BoardsSound'
    <2>1. \A b \in 1 .. minted : boards[b].conv \in Nat /\ boards[b].conv <= conv
      BY TypeFacts, ShimNumbers DEF ShimInv, BoardsSound, BoardRecord
    <2> QED BY <1>0, <2>1 DEF BoardsSound
  <1>9. KeysAgree'
    <2> SUFFICES ASSUME NEW b \in (1 .. minted) \ stray
                 PROVE  \E y \in Content : MintedBy(b, y)'
      BY DEF KeysAgree
    <2>1. PICK y \in Content : MintedBy(b, y)
      BY DEF ShimInv, KeysAgree
    <2>2. \A d \in Calls : calls'[d].pc = "pushing" => calls'[d] = calls[d]
      BY TypeFacts DEF ShimInv
    <2>3. b # 0
      BY <1>0
    <2> QED BY <1>1, <2>1, <2>2, <2>3 DEF MintedBy, KeyFor
  <1>10. FreshSparesConcurrent' /\ ParkedIsClosed' /\ RetryIsSafe'
    BY DEF ShimInv, FreshSparesConcurrent, ParkedIsClosed, RetryIsSafe
  <1> QED BY <1>2, <1>3, <1>4, <1>5, <1>6, <1>7, <1>8, <1>9, <1>10 DEF ShimInv

-----------------------------------------------------------------------------
(* The actions.                                                            *)

LEMMA InitShimInv == ShimInit => ShimInv
  <1> SUFFICES ASSUME ShimInit PROVE ShimInv
    OBVIOUS
  <1>1. /\ minted = 0 /\ boards = <<>> /\ conv = 0 /\ create = NoCreate
        /\ session = [board |-> 0, createContent |-> None, pending |-> 0]
        /\ calls = [c \in Calls |-> Idle]
        /\ lost = {} /\ dropped = {} /\ stray = {} /\ underfoot = {}
        /\ parked = {} /\ closed = {} /\ doubled = {}
    BY DEF ShimInit
  <1>2. NoCreate \in Create /\ session \in Session /\ 0 \in Conversation
    BY <1>1, ShimNumbers DEF NoCreate, Create, Session
  <1>3. ShimTypeOK
    BY <1>1, <1>2, IdleIsCall, ShimNumbers DEF ShimTypeOK
  <1>4. Waiters = {}
    BY <1>1 DEF Waiters, Idle
  <1>5. SpareKept
    BY <1>1, <1>4, FS_EmptySet, ShimNumbers DEF SpareKept
  <1>6. SessionSound /\ CreateSound
    BY <1>1 DEF SessionSound, CreateSound, NoCreate
  <1>7. CallsSound
    BY <1>1 DEF CallsSound, CallSound, Idle
  <1>8. OneKnown /\ CurrentIsHeld /\ BoardsSound /\ KeysAgree
    BY <1>1 DEF OneKnown, CurrentIsHeld, BoardsSound, KeysAgree
  <1>9. FreshSparesConcurrent /\ ParkedIsClosed /\ RetryIsSafe
    BY <1>1 DEF FreshSparesConcurrent, ParkedIsClosed, RetryIsSafe
  <1> QED BY <1>3, <1>5, <1>6, <1>7, <1>8, <1>9 DEF ShimInv

(* Forgetting a board parks it unless another one is parked.               *)
LEMMA BoundedParks ==
  ASSUME ShimInv
  PROVE  /\ Bounded(session) \in Session
         /\ Bounded(session).board = 0 /\ Bounded(session).createContent = None
         /\ Parks(session) => session.board # 0 /\ session.pending = 0
                              /\ Bounded(session).pending = session.board
         /\ ~Parks(session) => Bounded(session).pending = session.pending
         /\ session.board \in Nat /\ (session.board # 0 => session.board \in Board)
  <1>1. session \in Session
    BY TypeFacts DEF ShimInv
  <1>2. Bounded(session) = [board |-> 0, createContent |-> None,
            pending |-> IF session.board # 0 /\ session.pending = 0 THEN session.board
                        ELSE session.pending]
    BY DEF Bounded
  <1> QED BY <1>1, <1>2, ShimNumbers DEF Session, Parks

LEMMA ParkedAfter ==
  ASSUME ShimInv, closed' = closed,
         session'.pending = Bounded(session).pending,
         parked' = parked \cup (IF Parks(session) THEN {session.board} ELSE {})
  PROVE  parked' \subseteq Board /\ parked' \subseteq closed' \cup {session'.pending}
  <1>1. parked \subseteq Board /\ parked \subseteq closed \cup {session.pending} /\ 0 \notin Board
    BY TypeFacts, ShimNumbers DEF ShimInv, ParkedIsClosed
  <1> QED BY <1>1, BoundedParks

(* postThisRound from the head of its loop, of a call c that holds r.      *)
LEMMA EnterKeeps ==
  ASSUME ShimInv, NEW c \in Calls, NEW r \in Call, Enter(c, r),
         r.content \in Content, r.board = 0,
         r.since <= conv, r.before <= minted,
         create.phase = "none" /\ Declares(r) /\ Parks(session) => session.board <= r.before,
         (create.phase = "none" /\ session.board = 0) \/ Declares(r) =>
             \A d \in Calls \ {c} : calls[d].pc = "woken" => calls[d].board = 0,
         SpareKept',
         UNCHANGED <<daemon, lost, dropped, stray, closed, doubled>>
  PROVE  ShimInv'
  <1>0. /\ boards' = boards /\ minted' = minted /\ minted \in Nat /\ conv \in Nat
        /\ underfoot = {} /\ parked \subseteq Board
        /\ parked \subseteq closed \cup {session.pending}
    BY TypeFacts, ShimNumbers DEF daemon, ShimInv, FreshSparesConcurrent, ParkedIsClosed
  <1>1. CASE create.phase # "none"
    <2> DEFINE k == [r EXCEPT !.pc = "joining"]
    <2>1. /\ calls' = [calls EXCEPT ![c] = k]
          /\ UNCHANGED <<session, create, conv, underfoot, parked>>
      BY <1>1 DEF Enter
    <2>2. /\ k \in Call /\ k.pc = "joining" /\ k.content = r.content /\ k.board = 0
          /\ k.since = r.since /\ k.before = r.before
      BY DEF Call
    <2> HIDE DEF k
    <2>3. CallSound(k)
      BY <1>0, <1>1, <2>2 DEF CallSound
    <2>4. session' \in Session
      BY <2>1, TypeFacts DEF ShimInv
    <2> QED BY <1>0, <2>1, <2>2, <2>3, <2>4, TypeFacts, CallMoves DEF ShimInv
  <1>2. CASE create.phase = "none"
    <2> DEFINE s == IF Declares(r) THEN Bounded(session) ELSE session
               now == IF Declares(r) THEN conv + 1 ELSE conv
               bound == [Idle EXCEPT !.content = r.content,
                                     !.since = IF Declares(r) THEN now ELSE r.since]
               held == IF Declares(r) /\ Parks(session) THEN {session.board} ELSE {}
    <2>1. /\ conv' = now
          /\ parked' = parked \cup held
          /\ underfoot' = underfoot \cup {b \in held : b > r.before}
          /\ IF s.board = 0
             THEN /\ session' = [s EXCEPT !.createContent = r.content]
                  /\ create' = Minting(r.content, now)
                  /\ calls' = [calls EXCEPT ![c] = [bound EXCEPT !.pc = "minting"]]
             ELSE /\ session' = s
                  /\ UNCHANGED create
                  /\ calls' = [calls EXCEPT ![c] =
                       [bound EXCEPT !.pc = "pushing", !.board = s.board,
                                     !.scope = Scope(s, r.content)]]
      BY <1>2 DEF Enter
    <2>2. session \in Session /\ s \in Session
      BY BoundedParks, TypeFacts DEF ShimInv
    <2>3. underfoot' = underfoot
      <3>1. \A b \in held : b <= r.before /\ b \in Nat
        BY <1>2, BoundedParks
      <3>2. r.before \in Nat
        BY ShimNumbers DEF Call
      <3>3. {b \in held : b > r.before} = {}
        BY <3>1, <3>2
      <3> QED BY <2>1, <3>3
    <2>4. r.since \in Nat /\ now \in Nat /\ now \in {conv, conv + 1}
      BY <1>0, ShimNumbers DEF Call
    <2>5. conv' \in Conversation
      BY <2>1, <2>4, ConversationAfter
    <2> DEFINE since == IF Declares(r) THEN now ELSE r.since
    <2>6. since \in Conversation /\ since <= conv'
      BY <1>0, <2>1, <2>4, <2>5 DEF Call
    <2>7. CASE s.board = 0
      <3> DEFINE k == [bound EXCEPT !.pc = "minting"]
      <3>1. /\ k \in Call /\ k.pc = "minting" /\ k.content = r.content /\ k.board = 0
            /\ k.since = since /\ k.before = 0
        <4> HIDE DEF now
        <4> HIDE DEF since
        <4>1. bound = [Idle EXCEPT !.content = r.content, !.since = since]
          BY DEF since
        <4>2. /\ bound \in Call /\ bound.content = r.content /\ bound.since = since
              /\ bound.board = 0 /\ bound.before = 0
          <5> HIDE DEF bound
          <5> QED BY <2>6, <4>1, IdleIsCall DEF Call
        <4> HIDE DEF bound
        <4> QED BY <4>2 DEF Call
      <3>2. k.since <= conv' /\ k.before <= minted
        BY <1>0, <2>6, <3>1
      <3>3. /\ session' = [s EXCEPT !.createContent = r.content]
            /\ create' = Minting(r.content, conv')
            /\ calls' = [calls EXCEPT ![c] = k]
        BY <2>1, <2>7
      <3>4. /\ session' \in Session /\ session'.board = 0
            /\ session'.createContent = r.content /\ session'.pending = s.pending
        BY <2>2, <2>7, <3>3 DEF Session
      <3>5. parked' \subseteq Board /\ parked' \subseteq closed' \cup {session'.pending}
        <4>1. CASE Declares(r)
          BY <2>1, <3>4, <4>1, ParkedAfter
        <4>2. CASE ~Declares(r)
          BY <1>0, <2>1, <3>4, <4>2
        <4> QED BY <4>1, <4>2
      <3>6. \A b \in 1 .. minted : Known(b)' => boards[b].conv # conv'
        <4> SUFFICES ASSUME NEW b \in 1 .. minted, Known(b)
                     PROVE  boards[b].conv # conv'
          BY <1>0 DEF Known
        <4>1. boards[b].conv \in Nat /\ boards[b].conv <= conv
          BY TypeFacts, ShimNumbers DEF ShimInv, BoardsSound, BoardRecord
        <4>2. CASE Declares(r)
          BY <1>0, <2>1, <4>1, <4>2
        <4>3. CASE ~Declares(r)
          <5>1. session.board # b
            BY <1>0, <2>7, <4>3
          <5> QED BY <1>2, <2>1, <4>3, <5>1 DEF ShimInv, CurrentIsHeld
        <4> QED BY <4>2, <4>3
      <3>7. \A d \in Calls \ {c} : calls[d].pc = "woken" => calls[d].board = 0
        BY <1>2, <2>7
      <3> HIDE DEF k, s, bound, held, now, since
      <3>8. conv' \in {conv, conv + 1}
        BY <2>1, <2>4
      <3> QED BY <1>0, <1>2, <2>3, <3>1, <3>2, <3>3, <3>4, <3>5, <3>6, <3>7, <3>8, TypeFacts,
                 MintBegins DEF ShimInv
    <2>8. CASE s.board # 0
      <3>1. ~Declares(r)
        BY <2>8, BoundedParks
      <3>2. /\ s = session /\ conv' = conv /\ parked' = parked /\ session' = session
            /\ create' = create
        BY <2>1, <2>8, <3>1
      <3> DEFINE k == [bound EXCEPT !.pc = "pushing", !.board = s.board,
                                    !.scope = Scope(s, r.content)]
      <3>3. k = [[Idle EXCEPT !.content = r.content, !.since = r.since]
                   EXCEPT !.pc = "pushing", !.board = session.board,
                          !.scope = Scope(session, r.content)]
        <4> HIDE DEF s
        <4> QED BY <3>1, <3>2
      <3>4. session.board \in 0 .. MaxBoards /\ Scope(session, r.content) \in 0 .. MaxBoards
        BY <2>2, ShimNumbers DEF Session, Scope
      <3>5. /\ k \in Call /\ k.pc = "pushing" /\ k.content = r.content
            /\ k.board = session.board /\ k.scope = Scope(session, r.content)
            /\ k.since = r.since /\ k.before = 0
        <4> DEFINE e == [Idle EXCEPT !.content = r.content, !.since = r.since]
        <4>1. e \in Call /\ e.content = r.content /\ e.since = r.since /\ e.before = 0
          BY IdleIsCall DEF Call
        <4> HIDE DEF k, e
        <4>2. k = [e EXCEPT !.pc = "pushing", !.board = session.board,
                            !.scope = Scope(session, r.content)]
          BY <3>3 DEF e
        <4> QED BY <3>4, <4>1, <4>2 DEF Call
      <3>6. calls' = [calls EXCEPT ![c] = k]
        BY <2>1, <2>8
      <3>7. /\ session.board \in 1 .. minted
            /\ boards[session.board].conv = conv \/ session.board \in stray
        BY <2>8, <3>2, <1>0 DEF ShimInv, SessionSound
      <3> HIDE DEF k, s, bound, held, now, since
      <3>8. CallSound(k)
        BY <1>0, <2>4, <3>5, <3>7 DEF CallSound
      <3> QED BY <1>0, <2>2, <2>3, <3>2, <3>5, <3>6, <3>8, TypeFacts, CallMoves DEF ShimInv
    <2> QED BY <2>7, <2>8
  <1> QED BY <1>1, <1>2

LEMMA EnterWaits ==
  ASSUME ShimTypeOK, NEW c \in Calls, NEW r \in Call, Enter(c, r)
  PROVE  /\ \A d \in Calls \ {c} : calls'[d] = calls[d]
         /\ create.phase = "none" => Waiters' \subseteq Waiters \ {c}
         /\ create.phase # "none" \/ ~Declares(r) => conv' = conv
         /\ create.phase = "none" /\ Declares(r) => conv' = conv + 1
         /\ calls'[c].fresh /\ calls'[c].pc = "joining" => r.fresh
  <1>1. calls \in [Calls -> Call]
    BY TypeFacts
  <1>2. CASE create.phase # "none"
    <2>1. calls' = [calls EXCEPT ![c] = [r EXCEPT !.pc = "joining"]] /\ conv' = conv
      BY <1>2 DEF Enter
    <2>2. calls'[c] = [r EXCEPT !.pc = "joining"] /\ \A d \in Calls \ {c} : calls'[d] = calls[d]
      BY <1>1, <2>1
    <2>3. [r EXCEPT !.pc = "joining"].fresh = r.fresh
      BY DEF Call
    <2> QED BY <1>2, <2>1, <2>2, <2>3
  <1>3. CASE create.phase = "none"
    <2> DEFINE t == IF Declares(r) THEN Bounded(session) ELSE session
               i == [Idle EXCEPT !.content = r.content,
                                 !.since = IF Declares(r) THEN conv + 1 ELSE r.since]
               k == IF t.board = 0 THEN [i EXCEPT !.pc = "minting"]
                    ELSE [i EXCEPT !.pc = "pushing", !.board = t.board,
                                   !.scope = Scope(t, r.content)]
    <2>1. calls' = [calls EXCEPT ![c] = k]
      BY <1>3 DEF Enter
    <2>2. k.pc \in {"minting", "pushing"}
      <3>1. "pc" \in DOMAIN i
        <4>1. "pc" \in DOMAIN Idle
          BY DEF Idle
        <4> QED BY <4>1
      <3> HIDE DEF i, t
      <3> QED BY <3>1
    <2> HIDE DEF k
    <2>3. calls'[c] = k /\ \A d \in Calls \ {c} : calls'[d] = calls[d]
      BY <1>1, <2>1
    <2>4. conv' = IF Declares(r) THEN conv + 1 ELSE conv
      BY <1>3 DEF Enter
    <2>5. Waiters' \subseteq Waiters \ {c}
      BY <2>2, <2>3 DEF Waiters
    <2> QED BY <1>3, <2>2, <2>3, <2>4, <2>5
  <1> QED BY <1>2, <1>3

(* One more that waits, or one conversation more, has room.                *)
LEMMA SpareTaken ==
  ASSUME ShimInv, Spare, NEW c \in Calls,
         \/ conv' = conv /\ Waiters' \subseteq Waiters \cup {c}
         \/ conv' = conv + 1 /\ Waiters' \subseteq Waiters
  PROVE  SpareKept'
  <1>1. conv \in Nat /\ conv + Cardinality(Waiters) < MaxBoundaries
    BY TypeFacts, ShimNumbers DEF ShimInv, Spare, Waiters
  <1>2. /\ IsFiniteSet(Waiters \cup {c})
        /\ Cardinality(Waiters \cup {c}) <= Cardinality(Waiters) + 1
    BY WaitersFinite, FS_AddElement
  <1>3. \/ conv' = conv /\ Cardinality(Waiters') <= Cardinality(Waiters \cup {c})
        \/ conv' = conv + 1 /\ Cardinality(Waiters') <= Cardinality(Waiters)
    BY <1>2, WaitersFinite, FS_Subset
  <1>4. Cardinality(Waiters \cup {c}) \in Nat
    BY <1>2, FS_CardinalityType
  <1> QED BY <1>1, <1>2, <1>3, <1>4, WaitersFinite, WaitersFiniteAfter, ShimNumbers DEF SpareKept

LEMMA AskKeeps ==
  ASSUME ShimInv, NEW c \in Calls, NEW x \in Content, NEW fresh \in BOOLEAN, Ask(c, x, fresh)
  PROVE  ShimInv'
  <1> DEFINE r == [Idle EXCEPT !.content = x, !.fresh = fresh, !.since = conv, !.before = minted]
  <1>1. /\ Quiet /\ calls[c].pc = "idle" /\ (fresh => Spare) /\ Enter(c, r)
        /\ UNCHANGED <<daemon, lost, dropped, stray, closed, doubled>>
    BY DEF Ask
  <1>2. conv \in Conversation /\ minted \in 0 .. MaxBoards
    BY TypeFacts DEF ShimInv
  <1>3. /\ r \in Call /\ r.content = x /\ r.board = 0 /\ r.since = conv
        /\ r.before = minted /\ r.fresh = fresh
    BY <1>2, IdleIsCall DEF Call
  <1> HIDE DEF r
  <1>4. conv \in Nat /\ minted \in Nat /\ session.board <= minted
    BY <1>2, ShimNumbers DEF ShimInv, SessionSound
  <1>5. \A d \in Calls : calls[d].pc # "woken"
    BY <1>1 DEF Quiet
  <1>6. SpareKept'
    <2>1. /\ \A d \in Calls \ {c} : calls'[d] = calls[d]
          /\ create.phase = "none" => Waiters' \subseteq Waiters \ {c}
          /\ create.phase # "none" \/ ~Declares(r) => conv' = conv
          /\ create.phase = "none" /\ Declares(r) => conv' = conv + 1
      BY <1>1, <1>3, EnterWaits DEF ShimInv
    <2>2. CASE fresh
      <3>1. \/ conv' = conv /\ Waiters' \subseteq Waiters \cup {c}
            \/ conv' = conv + 1 /\ Waiters' \subseteq Waiters
        BY <2>1 DEF Waiters
      <3> QED BY <1>1, <2>2, <3>1, SpareTaken
    <2>3. CASE ~fresh
      <3>1. conv' = conv
        BY <1>3, <2>1, <2>3 DEF Declares
      <3>2. Waiters' \subseteq Waiters
        <4>1. CASE create.phase = "none"
          BY <2>1, <4>1
        <4>2. CASE create.phase # "none"
          <5>1. c \notin Waiters'
            BY <1>1, <1>3, <2>3, <4>2, TypeFacts DEF ShimInv, Enter, Waiters, Call
          <5> QED BY <2>1, <5>1 DEF Waiters
        <4> QED BY <4>1, <4>2
      <3> QED BY <3>1, <3>2, SpareStays
    <2> QED BY <2>2, <2>3
  <1> QED BY <1>1, <1>3, <1>4, <1>5, <1>6, EnterKeeps

LEMMA JoinedKeeps ==
  ASSUME ShimInv, NEW c \in Calls, Joined(c)
  PROVE  ShimInv'
  <1> DEFINE r == [calls[c] EXCEPT !.joined = @ \/ calls[c].board # 0]
  <1>0. /\ calls \in [Calls -> Call] /\ calls[c] \in Call /\ CallSound(calls[c])
        /\ conv \in Nat /\ minted \in Nat /\ session.board \in Nat
    BY TypeFacts, ShimNumbers DEF ShimInv, CallsSound, SessionSound
  <1>1. calls[c].pc = "woken" /\ UNCHANGED <<daemon, lost, dropped, stray, closed, doubled>>
    BY DEF Joined
  <1>2. /\ r \in Call /\ r.content = calls[c].content /\ r.board = calls[c].board
        /\ r.since = calls[c].since /\ r.before = calls[c].before /\ r.fresh = calls[c].fresh
        /\ r.pc = "woken" /\ (r.board # 0 => r.joined)
    BY <1>0, <1>1 DEF Call
  <1>3. calls[c].board = session.board
    BY <1>0, <1>1 DEF CallSound
  <1>4. CASE calls[c].board # 0 /\ session.createContent = calls[c].content
    <2> DEFINE k == [r EXCEPT !.pc = "posted"]
    <2>1. calls' = [calls EXCEPT ![c] = k] /\ UNCHANGED <<session, create, conv, underfoot, parked>>
      BY <1>4 DEF Joined
    <2> HIDE DEF r
    <2>2. /\ k \in Call /\ k.pc = "posted" /\ k.content = r.content /\ k.board = r.board
          /\ k.since = r.since /\ k.before = r.before
      BY <1>2 DEF Call
    <2> HIDE DEF k
    <2>3. CallSound(k)
      BY <1>0, <1>1, <1>2, <2>2 DEF CallSound
    <2>4. Waiters' \subseteq Waiters
      BY <1>0, <2>1, <2>2 DEF Waiters
    <2>5. SpareKept'
      BY <2>1, <2>4, SpareStays
    <2> QED BY <1>1, <2>1, <2>2, <2>3, <2>5, TypeFacts, CallMoves
            DEF ShimInv, ParkedIsClosed, daemon
  <1>5. CASE ~(calls[c].board # 0 /\ session.createContent = calls[c].content)
    <2> DEFINE q == [r EXCEPT !.board = 0]
    <2>1. Enter(c, q)
      BY <1>5 DEF Joined
    <2> HIDE DEF r
    <2>2. /\ q \in Call /\ q.content = r.content /\ q.board = 0 /\ q.since = r.since
          /\ q.before = r.before /\ q.fresh = r.fresh /\ q.joined = r.joined
      BY <1>2, ShimNumbers DEF Call
    <2> HIDE DEF q
    <2>3. Declares(q) => session.board = 0 /\ calls[c].fresh
      BY <1>2, <1>3, <2>2 DEF Declares
    <2>4. \A d \in Calls : calls[d].pc = "woken" => calls[d].board = session.board
      BY DEF ShimInv, CallsSound, CallSound
    <2>5. SpareKept'
      <3>1. /\ \A d \in Calls \ {c} : calls'[d] = calls[d]
            /\ create.phase = "none" => Waiters' \subseteq Waiters \ {c}
            /\ create.phase # "none" \/ ~Declares(q) => conv' = conv
            /\ create.phase = "none" /\ Declares(q) => conv' = conv + 1
            /\ calls'[c].fresh /\ calls'[c].pc = "joining" => q.fresh
        BY <2>1, <2>2, EnterWaits DEF ShimInv
      <3>2. CASE create.phase = "none" /\ Declares(q)
        <4>1. c \in Waiters
          BY <1>1, <2>3, <3>2 DEF Waiters
        <4> QED BY <3>1, <3>2, <4>1, SpareSpent
      <3>3. CASE ~(create.phase = "none" /\ Declares(q))
        <4>1. Waiters' \subseteq Waiters
          <5>1. CASE create.phase = "none"
            BY <3>1, <5>1
          <5>2. CASE create.phase # "none"
            <6>1. calls'[c] = [q EXCEPT !.pc = "joining"]
              BY <1>0, <2>1, <5>2 DEF Enter
            <6>2. calls'[c].pc = "joining"
              BY <2>2, <6>1 DEF Call
            <6>3. c \in Waiters' => c \in Waiters
              BY <1>1, <1>2, <2>2, <3>1, <6>2 DEF Waiters
            <6> QED BY <3>1, <6>3 DEF Waiters
          <5> QED BY <5>1, <5>2
        <4> QED BY <3>1, <3>3, <4>1, SpareStays
      <3> QED BY <3>2, <3>3
    <2>6. /\ q.content \in Content /\ q.since <= conv /\ q.before <= minted
      BY <1>0, <1>1, <1>2, <2>2 DEF CallSound
    <2>7. create.phase = "none" /\ Declares(q) /\ Parks(session) => session.board <= q.before
      BY <2>3, BoundedParks
    <2>8. (create.phase = "none" /\ session.board = 0) \/ Declares(q) =>
             \A d \in Calls \ {c} : calls[d].pc = "woken" => calls[d].board = 0
      BY <2>3, <2>4
    <2> QED BY <1>1, <2>1, <2>2, <2>5, <2>6, <2>7, <2>8, EnterKeeps
  <1> QED BY <1>4, <1>5

LEMMA IdleIsSound ==
  ASSUME ShimInv
  PROVE  CallSound(Idle)
  BY IdleIsCall, TypeFacts, ShimNumbers DEF ShimInv, CallSound

(* A call that ends, or goes on to its flush, asks nothing of the rest.    *)
LEMMA CallEnds ==
  ASSUME ShimInv, NEW c \in Calls, calls' = [calls EXCEPT ![c] = Idle],
         UNCHANGED <<session, create, daemon, shimHistory>>
  PROVE  ShimInv'
  <1>1. Waiters' \subseteq Waiters
    BY IdleIsCall, TypeFacts DEF ShimInv, Waiters
  <1>2. SpareKept'
    BY <1>1, SpareStays DEF shimHistory
  <1>3. UNCHANGED <<create, boards, minted, conv, lost, dropped, stray, underfoot, doubled>>
    BY DEF daemon, shimHistory
  <1>4. /\ session' \in Session /\ session' = session /\ parked' = parked /\ closed' = closed
        /\ parked \subseteq Board /\ closed \subseteq Board
        /\ parked \subseteq closed \cup {session.pending}
    BY TypeFacts DEF shimHistory, ShimInv, ParkedIsClosed
  <1> QED BY <1>2, <1>3, <1>4, IdleIsCall, IdleIsSound, CallMoves

LEMMA GiveUpKeeps ==
  ASSUME ShimInv, NEW c \in Calls, GiveUp(c)
  PROVE  ShimInv'
  BY CallEnds DEF GiveUp

LEMMA PushLostKeeps ==
  ASSUME ShimInv, NEW c \in Calls, PushLost(c)
  PROVE  ShimInv'
  BY CallEnds DEF PushLost

(* A call that changes its place, and nothing that it holds.               *)
LEMMA CallMovesOn ==
  ASSUME ShimInv, NEW c \in Calls,
         NEW to \in {"applied", "missing", "posted"}, calls[c].pc \in {"pushing", "applied"},
         calls' = [calls EXCEPT ![c].pc = to],
         to = "missing" => calls[c].board # 0 /\ boards[calls[c].board].gone,
         UNCHANGED <<session, create, daemon, shimHistory>>
  PROVE  ShimInv'
  <1> DEFINE k == [calls[c] EXCEPT !.pc = to]
  <1>1. /\ calls \in [Calls -> Call] /\ calls[c] \in Call /\ CallSound(calls[c])
    BY TypeFacts DEF ShimInv, CallsSound
  <1>2. /\ k \in Call /\ k.pc = to /\ k.content = calls[c].content /\ k.board = calls[c].board
        /\ k.since = calls[c].since /\ k.before = calls[c].before
    BY <1>1 DEF Call
  <1>3. calls' = [calls EXCEPT ![c] = k]
    OBVIOUS
  <1> HIDE DEF k
  <1>4. CallSound(k)
    BY <1>1, <1>2 DEF CallSound
  <1>5. Waiters' \subseteq Waiters
    BY <1>1, <1>2, <1>3 DEF Waiters
  <1>6. SpareKept'
    BY <1>5, SpareStays DEF shimHistory
  <1>7. UNCHANGED <<create, boards, minted, conv, lost, dropped, stray, underfoot, doubled>>
    BY DEF daemon, shimHistory
  <1>8. /\ session' \in Session /\ session' = session /\ parked' = parked /\ closed' = closed
        /\ parked \subseteq Board /\ closed \subseteq Board
        /\ parked \subseteq closed \cup {session.pending}
    BY TypeFacts DEF shimHistory, ShimInv, ParkedIsClosed
  <1> QED BY <1>2, <1>3, <1>4, <1>6, <1>7, <1>8, CallMoves

LEMMA CallAnsweredKeeps ==
  ASSUME ShimInv, NEW c \in Calls, CallAnswered(c)
  PROVE  ShimInv'
  BY CallMovesOn DEF CallAnswered

LEMMA FlushKeeps ==
  ASSUME ShimInv, NEW c \in Calls, Flush(c)
  PROVE  ShimInv'
  <1>1. /\ session' = [session EXCEPT !.pending = 0]
        /\ closed' = closed \cup ({session.pending} \ {0})
        /\ calls' = [calls EXCEPT ![c] = Idle]
        /\ UNCHANGED <<create, daemon, conv, lost, dropped, stray, underfoot, parked, doubled>>
    BY DEF Flush
  <1>2. session \in Session
    BY TypeFacts DEF ShimInv
  <1>3. /\ session' \in Session /\ session'.board = session.board /\ session'.pending = 0
        /\ session'.createContent = session.createContent
        /\ session.pending \in 0 .. MaxBoards
    BY <1>1, <1>2, ShimNumbers DEF Session
  <1>4. /\ parked \subseteq Board /\ closed \subseteq Board
        /\ parked \subseteq closed \cup {session.pending}
    BY TypeFacts DEF ShimInv, ParkedIsClosed
  <1>5. parked' \subseteq Board /\ closed' \subseteq Board /\ parked' \subseteq closed' \cup {0}
    BY <1>1, <1>3, <1>4, ShimNumbers
  <1>6. Waiters' \subseteq Waiters
    BY <1>1, IdleIsCall, TypeFacts DEF ShimInv, Waiters
  <1>7. SpareKept'
    BY <1>1, <1>6, SpareStays
  <1>8. UNCHANGED <<create, boards, minted, conv, lost, dropped, stray, underfoot, doubled>>
    BY <1>1 DEF daemon
  <1> QED BY <1>1, <1>3, <1>5, <1>7, <1>8, IdleIsCall, IdleIsSound, CallMoves

LEMMA NotFoundKeeps ==
  ASSUME ShimInv, NEW c \in Calls, NotFound(c)
  PROVE  ShimInv'
  <1> DEFINE r == [Idle EXCEPT !.content = calls[c].content, !.since = calls[c].since]
  <1>1. /\ Quiet /\ calls[c].pc = "missing"
        /\ dropped' = dropped \cup ({session.board} \ {0, calls[c].board})
        /\ UNCHANGED <<daemon, conv, lost, stray, underfoot, parked, closed, doubled>>
    BY DEF NotFound
  <1>2. /\ calls \in [Calls -> Call] /\ calls[c] \in Call /\ CallSound(calls[c])
        /\ session \in Session /\ session.board \in 0 .. minted /\ minted \in 0 .. MaxBoards
        /\ conv \in Nat /\ minted \in Nat
        /\ dropped \subseteq Board /\ parked \subseteq Board /\ closed \subseteq Board
        /\ parked \subseteq closed \cup {session.pending} /\ underfoot = {}
    BY TypeFacts, ShimNumbers
       DEF ShimInv, CallsSound, SessionSound, ParkedIsClosed, FreshSparesConcurrent
  <1>3. calls[c].content \in Content /\ calls[c].since \in Conversation /\ calls[c].since <= conv
    BY <1>1, <1>2 DEF CallSound, Call
  <1>4. /\ r \in Call /\ r.content = calls[c].content /\ r.since = calls[c].since
        /\ r.board = 0 /\ r.before = 0 /\ ~r.fresh
    BY <1>3, IdleIsCall DEF Call
  <1>5. \A d \in Calls : calls[d].pc # "woken"
    BY <1>1 DEF Quiet
  <1>6. CASE create.phase # "none"
    <2> DEFINE k == [r EXCEPT !.pc = "joining"]
    <2>1. /\ session' = [session EXCEPT !.board = 0] /\ calls' = [calls EXCEPT ![c] = k]
          /\ create' = create
      BY <1>6 DEF NotFound
    <2>2. session.board = 0
      BY <1>6 DEF ShimInv, SessionSound
    <2>3. session' = session /\ dropped' = dropped
      BY <1>1, <1>2, <2>1, <2>2 DEF Session
    <2> HIDE DEF r
    <2>4. /\ k \in Call /\ k.pc = "joining" /\ k.content = r.content /\ k.since = r.since
          /\ k.board = 0 /\ k.before = 0 /\ ~k.fresh
      BY <1>4 DEF Call
    <2> HIDE DEF k
    <2>5. CallSound(k)
      BY <1>2, <1>3, <1>4, <1>6, <2>4 DEF CallSound
    <2>6. Waiters' \subseteq Waiters
      BY <1>2, <2>1, <2>4 DEF Waiters
    <2>7. SpareKept'
      BY <1>1, <2>6, SpareStays
    <2>8. UNCHANGED <<create, boards, minted, conv, lost, dropped, stray, underfoot, doubled>>
      BY <1>1, <2>1, <2>3 DEF daemon
    <2> QED BY <1>1, <1>2, <2>1, <2>3, <2>4, <2>5, <2>7, <2>8, CallMoves
  <1>7. CASE create.phase = "none"
    <2> DEFINE k == [r EXCEPT !.pc = "minting"]
               x == calls[c].content
    <2> HIDE DEF r
    <2>1. /\ session' = [session EXCEPT !.board = 0, !.createContent = x]
          /\ calls' = [calls EXCEPT ![c] = k]
          /\ create' = Minting(x, conv)
      BY <1>4, <1>7 DEF NotFound, r
    <2>2. /\ k \in Call /\ k.pc = "minting" /\ k.content = x /\ k.since = calls[c].since
          /\ k.board = 0 /\ k.before = 0 /\ ~k.fresh
      BY <1>4 DEF Call
    <2>3. /\ session' \in Session /\ session'.board = 0 /\ session'.createContent = x
          /\ session'.pending = session.pending
      <3>1. session \in Session /\ x \in Content \cup {None} /\ 0 \in 0 .. MaxBoards
        BY <1>2, <1>3, ShimNumbers
      <3> HIDE DEF x
      <3> QED BY <2>1, <3>1 DEF Session
    <2> HIDE DEF k
    <2>4. Waiters' \subseteq Waiters
      BY <1>2, <2>1, <2>2 DEF Waiters
    <2>5. SpareKept'
      BY <1>1, <2>4, SpareStays
    <2>6. \A b \in 1 .. minted : Known(b)' => boards[b].conv # conv'
      <3> SUFFICES ASSUME NEW b \in 1 .. minted, Known(b)', boards[b].conv = conv
                   PROVE  FALSE
        BY <1>1
      <3>1. Known(b) /\ b \notin dropped'
        BY <1>1 DEF Known, daemon
      <3>2. session.board = b
        BY <1>7, <3>1 DEF ShimInv, CurrentIsHeld
      <3>3. b = calls[c].board
        BY <1>1, <1>2, <3>1, <3>2
      <3> QED BY <1>1, <1>2, <3>1, <3>3 DEF CallSound, Known
    <2>7. dropped \subseteq dropped' /\ dropped' \subseteq Board
      <3>1. session.board \in 0 .. MaxBoards
        BY <1>2 DEF Session
      <3>2. {session.board} \ {0, calls[c].board} \subseteq Board
        BY <3>1, ShimNumbers
      <3>3. dropped' = dropped \cup ({session.board} \ {0, calls[c].board})
        BY <1>1
      <3>4. dropped \subseteq Board
        BY <1>2
      <3> QED BY <3>2, <3>3, <3>4
    <2>8. UNCHANGED <<boards, minted, lost, stray, underfoot, closed, doubled>> /\ conv' = conv
      BY <1>1 DEF daemon
    <2>9. k.since <= conv' /\ k.before <= minted /\ create' = Minting(x, conv')
      BY <1>1, <1>2, <1>3, <2>1, <2>2
    <2> HIDE DEF x
    <2> QED BY <1>1, <1>2, <1>3, <1>5, <1>7, <2>1, <2>2, <2>3, <2>5, <2>6, <2>7, <2>8, <2>9,
               MintBegins DEF x
  <1> QED BY <1>6, <1>7

LEMMA MissionBoundaryKeeps == ShimInv /\ MissionBoundary => ShimInv'
  <1> SUFFICES ASSUME ShimInv, MissionBoundary PROVE ShimInv'
    OBVIOUS
  <1>1. /\ Quiet /\ Spare /\ conv' = conv + 1 /\ session' = Bounded(session)
        /\ parked' = parked \cup (IF Parks(session) THEN {session.board} ELSE {})
        /\ UNCHANGED <<create, calls, boards, minted, lost, dropped, stray, underfoot, closed,
                       doubled>>
    BY DEF MissionBoundary, daemon
  <1>2. conv \in Nat /\ conv' \in Nat
    BY <1>1, TypeFacts, ShimNumbers DEF ShimInv
  <1>3. SpareKept'
    <2>1. Waiters' = Waiters
      BY <1>1 DEF Waiters
    <2>2. conv + Cardinality(Waiters) < MaxBoundaries
      BY <1>1 DEF Spare, Waiters
    <2> QED BY <1>1, <1>2, <2>1, <2>2, WaitersFinite, ShimNumbers DEF SpareKept
  <1>4. parked' \subseteq Board /\ parked' \subseteq closed' \cup {session'.pending}
    BY <1>1, ParkedAfter
  <1>5. ShimTypeOK'
    BY <1>1, <1>2, <1>3, <1>4, BoundedParks, TypeFacts, TypeAfter, ConversationAfter DEF ShimInv
  <1>6. SessionSound' /\ session'.board = 0
    BY <1>1, BoundedParks, TypeFacts DEF ShimInv, SessionSound
  <1>7. CreateSound'
    <2>1. create \in Create
      BY TypeFacts DEF ShimInv
    <2>2. create.phase # "none" => create.conv \in Nat /\ create.conv <= conv
      BY <2>1, ShimNumbers DEF ShimInv, CreateSound, Create
    <2> QED BY <1>1, <1>2, <2>2 DEF ShimInv, CreateSound, Known
  <1>8. CallsSound'
    <2> SUFFICES ASSUME NEW d \in Calls PROVE CallSound(calls[d])'
      BY DEF CallsSound
    <2>1. calls[d] \in Call /\ CallSound(calls[d]) /\ calls[d].pc # "woken"
      BY <1>1, TypeFacts DEF ShimInv, CallsSound, Quiet
    <2>2. calls[d].since \in Nat /\ calls[d].since <= conv + 1
      BY <1>2, <2>1, ShimNumbers DEF Call, CallSound
    <2> QED BY <1>1, <2>1, <2>2 DEF CallSound
  <1>9. OneKnown' /\ BoardsSound' /\ CurrentIsHeld'
    <2>1. \A b \in 1 .. minted : boards[b].conv \in Nat /\ boards[b].conv <= conv
      BY TypeFacts, ShimNumbers DEF ShimInv, BoardsSound, BoardRecord
    <2>2. BoardsSound' /\ CurrentIsHeld'
      BY <1>1, <1>2, <2>1 DEF BoardsSound, CurrentIsHeld
    <2>3. OneKnown'
      BY <1>1 DEF ShimInv, OneKnown, Known
    <2> QED BY <2>2, <2>3
  <1>10. KeysAgree'
    <2> SUFFICES ASSUME NEW b \in (1 .. minted) \ stray
                 PROVE  \E x \in Content : MintedBy(b, x)'
      BY <1>1 DEF KeysAgree
    <2>1. PICK x \in Content : MintedBy(b, x)
      BY DEF ShimInv, KeysAgree
    <2>2. session'.board # b
      BY <1>6, TypeFacts, ShimNumbers DEF ShimInv
    <2> QED BY <1>1, <2>1, <2>2 DEF MintedBy, KeyFor
  <1>11. FreshSparesConcurrent' /\ ParkedIsClosed' /\ RetryIsSafe'
    BY <1>1, <1>4 DEF ShimInv, FreshSparesConcurrent, ParkedIsClosed, RetryIsSafe
  <1> QED BY <1>3, <1>5, <1>6, <1>7, <1>8, <1>9, <1>10, <1>11 DEF ShimInv

LEMMA DaemonMintsKeeps == ShimInv /\ DaemonMints => ShimInv'
  <1> SUFFICES ASSUME ShimInv, DaemonMints PROVE ShimInv'
    OBVIOUS
  <1> DEFINE n == minted + 1
             new == [conv |-> create.conv, holds |-> {create.content}, scope |-> 0,
                     lately |-> create.content, gone |-> FALSE]
  <1>1. /\ create.phase = "sent" /\ minted < MaxBoards /\ minted' = n
        /\ boards' = [b \in 1 .. n |-> IF b \in DOMAIN boards THEN boards[b] ELSE new]
        /\ create' = [create EXCEPT !.phase = "made", !.board = n]
        /\ UNCHANGED <<session, calls, conv, lost, dropped, stray, underfoot, parked, closed,
                       doubled>>
    BY DEF DaemonMints, shimHistory
  <1>2. /\ create \in Create /\ boards \in [1 .. minted -> BoardRecord] /\ minted \in Nat
        /\ conv \in Nat /\ session \in Session /\ session.board \in 0 .. minted
        /\ create.content \in Content /\ create.conv <= conv /\ create.conv \in Conversation
        /\ session.board = 0
    BY <1>1, TypeFacts, ShimNumbers DEF ShimInv, SessionSound, CreateSound, Create
  <1>3. /\ new \in BoardRecord /\ new.conv = create.conv /\ new.lately = create.content
        /\ new.scope = 0
    BY <1>2, ShimNumbers DEF BoardRecord
  <1> HIDE DEF new
  <1>4. /\ \A b \in 1 .. minted : boards'[b] = boards[b]
        /\ boards'[n] = new /\ boards' \in [1 .. n -> BoardRecord]
        /\ n \in 1 .. MaxBoards /\ n \notin 1 .. minted /\ 1 .. n = (1 .. minted) \cup {n}
    <2>1. /\ n \in 1 .. MaxBoards /\ n \notin 1 .. minted /\ 1 .. n = (1 .. minted) \cup {n}
          /\ DOMAIN boards = 1 .. minted
      BY <1>1, <1>2, ShimNumbers
    <2> QED BY <1>1, <1>2, <1>3, <2>1
  <1>5. /\ create' \in Create /\ create'.phase = "made" /\ create'.board = n
        /\ create'.conv = create.conv /\ create'.content = create.content
    <2>1. n \in 0 .. MaxBoards
      BY <1>4, ShimNumbers
    <2> HIDE DEF n
    <2> QED BY <1>1, <1>2, <2>1 DEF Create
  <1>6. SpareKept'
    <2>1. Waiters' = Waiters
      BY <1>1 DEF Waiters
    <2> QED BY <1>1, <2>1, SpareStays
  <1>7. ShimTypeOK'
    <2>1. minted' \in 0 .. MaxBoards
      BY <1>1, <1>4, ShimNumbers
    <2> QED BY <1>1, <1>4, <1>5, <2>1, TypeFacts, TypeAfter DEF ShimInv
  <1>8. SessionSound'
    BY <1>1, <1>2 DEF SessionSound
  <1>9. CreateSound'
    BY <1>1, <1>2, <1>3, <1>4, <1>5 DEF ShimInv, CreateSound
  <1>10. CallsSound'
    <2> SUFFICES ASSUME NEW d \in Calls PROVE CallSound(calls[d])'
      BY DEF CallsSound
    <2>1. calls[d] \in Call /\ CallSound(calls[d])
      BY TypeFacts DEF ShimInv, CallsSound
    <2>2. calls[d].board \in Nat /\ calls[d].before \in Nat
      BY <2>1, ShimNumbers DEF Call
    <2>3. calls[d].board # 0 => boards'[calls[d].board] = boards[calls[d].board]
      BY <1>2, <1>4, <2>1, <2>2 DEF CallSound
    <2>4. calls[d].board <= minted' /\ calls[d].before <= minted'
      BY <1>1, <1>2, <2>1, <2>2 DEF CallSound
    <2> QED BY <1>1, <1>5, <2>1, <2>3, <2>4 DEF CallSound
  <1>11. \A b \in 1 .. minted : Known(b)' = Known(b) /\ boards'[b].conv = boards[b].conv
    BY <1>1, <1>4 DEF Known
  <1>12. \A b \in 1 .. minted : Known(b) => boards[b].conv # create.conv
    BY <1>1 DEF ShimInv, CreateSound
  <1>13. OneKnown'
    <2> SUFFICES ASSUME NEW b \in 1 .. n, NEW d \in 1 .. n, Known(b)', Known(d)',
                        boards'[b].conv = boards'[d].conv
                 PROVE  b = d
      BY <1>1 DEF OneKnown
    <2>1. CASE b \in 1 .. minted /\ d \in 1 .. minted
      BY <1>11, <2>1 DEF ShimInv, OneKnown
    <2>2. CASE b = n \/ d = n
      BY <1>3, <1>4, <1>11, <1>12, <2>2
    <2> QED BY <1>4, <2>1, <2>2
  <1>14. CurrentIsHeld'
    <2> SUFFICES ASSUME NEW b \in 1 .. n, Known(b)', boards'[b].conv = conv
                 PROVE  b = n
      BY <1>1, <1>5 DEF CurrentIsHeld
    <2>1. CASE b \in 1 .. minted
      <3>1. session.board = b
        BY <1>1, <1>11, <2>1 DEF ShimInv, CurrentIsHeld
      <3> QED BY <1>2, <2>1, <3>1
    <2> QED BY <1>4, <2>1
  <1>15. BoardsSound'
    BY <1>1, <1>2, <1>3, <1>4 DEF ShimInv, BoardsSound
  <1>16. KeysAgree'
    <2> SUFFICES ASSUME NEW b \in (1 .. n) \ stray
                 PROVE  \E x \in Content : MintedBy(b, x)'
      BY <1>1 DEF KeysAgree
    <2>1. CASE b \in 1 .. minted
      <3>1. PICK x \in Content : MintedBy(b, x)
        BY <2>1 DEF ShimInv, KeysAgree
      <3>2. b # n /\ boards'[b] = boards[b]
        BY <1>4, <2>1
      <3> QED BY <1>1, <1>5, <3>1, <3>2 DEF MintedBy, KeyFor
    <2>2. CASE b = n
      <3>1. \A d \in Calls : calls[d].board # n
        BY <1>2, TypeFacts, ShimNumbers DEF ShimInv, CallsSound, CallSound, Call
      <3>2. session.board # n
        BY <1>2
      <3>3. PICK x \in Content : x = create.content
        BY <1>2
      <3>4. /\ boards'[b] = new /\ session'.board # b /\ create'.content = x
            /\ \A d \in Calls : calls'[d].board # b
        BY <1>1, <1>4, <1>5, <2>2, <3>1, <3>2, <3>3
      <3>5. MintedBy(b, x)'
        BY <1>3, <3>3, <3>4 DEF MintedBy, KeyFor
      <3> QED BY <3>5
    <2> QED BY <1>4, <2>1, <2>2
  <1>17. FreshSparesConcurrent' /\ ParkedIsClosed' /\ RetryIsSafe'
    BY <1>1 DEF ShimInv, FreshSparesConcurrent, ParkedIsClosed, RetryIsSafe
  <1> QED BY <1>6, <1>7, <1>8, <1>9, <1>10, <1>13, <1>14, <1>15, <1>16, <1>17 DEF ShimInv

LEMMA SettleKeeps ==
  ASSUME ShimInv, NEW ok \in BOOLEAN, Settle(ok)
  PROVE  ShimInv'
  <1> DEFINE after(c) ==
         CASE calls[c].pc = "joining" ->
                [calls[c] EXCEPT !.pc = "woken", !.board = IF ok THEN create.board ELSE 0]
           [] calls[c].pc = "minting" ->
                IF ok THEN [calls[c] EXCEPT !.pc = "posted", !.board = create.board] ELSE Idle
           [] OTHER -> calls[c]
  <1>1. /\ Quiet
        /\ create.phase # "none" /\ (ok => create.phase = "made")
        /\ session' = IF ok THEN [session EXCEPT !.board = create.board] ELSE session
        /\ create' = NoCreate
        /\ calls' = [c \in Calls |-> after(c)]
        /\ lost' = IF ok THEN lost ELSE lost \cup ({create.board} \ {0})
        /\ stray' = IF ok /\ create.conv # conv THEN stray \cup {create.board} ELSE stray
        /\ UNCHANGED <<boards, minted, conv, dropped, underfoot, parked, closed, doubled>>
    BY DEF Settle, daemon
  <1>2. /\ create \in Create /\ create.board \in 0 .. MaxBoards /\ session \in Session
        /\ session.board = 0 /\ conv \in Nat /\ create.conv \in Nat /\ create.conv <= conv
        /\ create.content \in Content
        /\ calls \in [Calls -> Call] /\ minted \in Nat /\ minted <= MaxBoards
    <2>1. /\ create \in Create /\ session \in Session /\ conv \in Conversation
          /\ calls \in [Calls -> Call] /\ minted \in 0 .. MaxBoards
      BY TypeFacts DEF ShimInv
    <2>2. /\ create.board \in 0 .. MaxBoards /\ create.conv \in Nat /\ conv \in Nat
          /\ minted \in Nat /\ minted <= MaxBoards
      BY <2>1, ShimNumbers DEF Create
    <2>3. session.board = 0
      BY <1>1 DEF ShimInv, SessionSound
    <2>4. create.conv <= conv /\ create.content \in Content
      BY <1>1 DEF ShimInv, CreateSound
    <2> QED BY <2>1, <2>2, <2>3, <2>4
  <1>3. /\ create.phase = "sent" => create.board = 0
        /\ create.phase = "made" => create.board \in 1 .. minted
                                    /\ boards[create.board].conv = create.conv
        /\ create.conv = conv => session.createContent = create.content
        /\ create.phase \in {"sent", "made"}
    BY <1>1, <1>2 DEF ShimInv, CreateSound, Create
  <1>4. create.board \in 0 .. minted
    BY <1>2, <1>3
  <1>5. NoCreate \in Create /\ NoCreate.phase = "none"
    BY ShimNumbers DEF NoCreate, Create
  <1>6. /\ session' \in Session /\ session'.createContent = session.createContent
        /\ session'.pending = session.pending /\ session'.board = IF ok THEN create.board ELSE 0
    BY <1>1, <1>2, ShimNumbers DEF Session
  <1>7. \A c \in Calls :
            /\ calls'[c] \in Call
            /\ calls[c].pc = "joining" =>
                 /\ calls'[c].pc = "woken" /\ calls'[c].board = IF ok THEN create.board ELSE 0
                 /\ calls'[c].content = calls[c].content /\ calls'[c].since = calls[c].since
                 /\ calls'[c].before = calls[c].before /\ calls'[c].fresh = calls[c].fresh
            /\ calls[c].pc = "minting" /\ ok =>
                 /\ calls'[c].pc = "posted" /\ calls'[c].board = create.board
                 /\ calls'[c].content = calls[c].content /\ calls'[c].since = calls[c].since
                 /\ calls'[c].before = calls[c].before
            /\ calls[c].pc = "minting" /\ ~ok => calls'[c] = Idle
            /\ calls[c].pc \notin {"joining", "minting"} => calls'[c] = calls[c]
    <2> SUFFICES ASSUME NEW c \in Calls
                 PROVE  /\ after(c) \in Call
                        /\ calls[c].pc = "joining" =>
                             /\ after(c).pc = "woken"
                             /\ after(c).board = IF ok THEN create.board ELSE 0
                             /\ after(c).content = calls[c].content
                             /\ after(c).since = calls[c].since
                             /\ after(c).before = calls[c].before
                             /\ after(c).fresh = calls[c].fresh
                        /\ calls[c].pc = "minting" /\ ok =>
                             /\ after(c).pc = "posted" /\ after(c).board = create.board
                             /\ after(c).content = calls[c].content
                             /\ after(c).since = calls[c].since
                             /\ after(c).before = calls[c].before
                        /\ calls[c].pc = "minting" /\ ~ok => after(c) = Idle
                        /\ calls[c].pc \notin {"joining", "minting"} => after(c) = calls[c]
      <3>1. \A c \in Calls : calls'[c] = after(c)
        BY <1>1
      <3> HIDE DEF after
      <3> QED BY <3>1
    <2>1. calls[c] \in Call
      BY <1>2
    <2>2. CASE calls[c].pc = "joining"
      <3> DEFINE nb == IF ok THEN create.board ELSE 0
      <3>1. after(c) = [calls[c] EXCEPT !.pc = "woken", !.board = nb] /\ nb \in 0 .. MaxBoards
        BY <1>2, <2>2, ShimNumbers
      <3> HIDE DEF after, nb
      <3>2. /\ after(c) \in Call /\ after(c).pc = "woken" /\ after(c).board = nb
            /\ after(c).content = calls[c].content /\ after(c).since = calls[c].since
            /\ after(c).before = calls[c].before /\ after(c).fresh = calls[c].fresh
        BY <2>1, <3>1 DEF Call
      <3> QED BY <2>2, <3>2 DEF nb
    <2>3. CASE calls[c].pc = "minting"
      <3>1. CASE ok
        <4>1. after(c) = [calls[c] EXCEPT !.pc = "posted", !.board = create.board]
          BY <2>3, <3>1
        <4> HIDE DEF after
        <4>2. /\ after(c) \in Call /\ after(c).pc = "posted" /\ after(c).board = create.board
              /\ after(c).content = calls[c].content /\ after(c).since = calls[c].since
              /\ after(c).before = calls[c].before
          BY <1>2, <2>1, <4>1 DEF Call
        <4> QED BY <2>3, <3>1, <4>2
      <3>2. CASE ~ok
        <4>1. after(c) = Idle
          BY <2>3, <3>2
        <4> HIDE DEF after
        <4> QED BY <2>3, <3>2, <4>1, IdleIsCall
      <3> QED BY <3>1, <3>2
    <2>4. CASE calls[c].pc \notin {"joining", "minting"}
      <3>1. after(c) = calls[c]
        BY <2>4
      <3> HIDE DEF after
      <3> QED BY <2>1, <2>4, <3>1
    <2> QED BY <2>2, <2>3, <2>4
  <1> HIDE DEF after
  <1>8. SpareKept'
    <2>1. Waiters' \subseteq Waiters
      BY <1>7, IdleIsCall DEF Waiters
    <2> QED BY <1>1, <2>1, SpareStays
  <1>9. lost' \subseteq Board /\ stray' \subseteq Board
    <2>1. {create.board} \ {0} \subseteq Board /\ (ok => create.board \in Board)
      BY <1>1, <1>2, <1>3, ShimNumbers
    <2>2. lost \subseteq Board /\ stray \subseteq Board
      BY TypeFacts DEF ShimInv
    <2> QED BY <1>1, <2>1, <2>2
  <1>10. ShimTypeOK'
    <2>1. calls' \in [Calls -> Call]
      <3>1. DOMAIN calls' = Calls /\ calls' = [c \in Calls |-> calls'[c]]
        BY <1>1
      <3> QED BY <1>7, <3>1
    <2> QED BY <1>1, <1>5, <1>6, <1>9, <2>1, TypeFacts, TypeAfter DEF ShimInv
  <1>11. SessionSound'
    BY <1>1, <1>2, <1>3, <1>4, <1>5, <1>6 DEF SessionSound
  <1>12. CreateSound'
    BY <1>1, <1>5 DEF CreateSound
  <1>13. CallsSound'
    <2> SUFFICES ASSUME NEW c \in Calls PROVE CallSound(calls[c])'
      BY DEF CallsSound
    <2>1. calls[c] \in Call /\ CallSound(calls[c])
      BY <1>2 DEF ShimInv, CallsSound
    <2>2. calls[c].since \in Nat /\ calls[c].before \in Nat
      BY <2>1, ShimNumbers DEF Call
    <2>3. CASE calls[c].pc = "joining"
      BY <1>1, <1>2, <1>3, <1>4, <1>6, <1>7, <2>1, <2>2, <2>3 DEF CallSound
    <2>4. CASE calls[c].pc = "minting" /\ ok
      BY <1>1, <1>2, <1>3, <1>4, <1>6, <1>7, <2>1, <2>2, <2>4 DEF CallSound
    <2>5. CASE calls[c].pc = "minting" /\ ~ok
      <3>1. calls'[c] = Idle
        BY <1>7, <2>5
      <3> QED BY <1>1, <1>2, <3>1, IdleIsCall DEF CallSound
    <2>6. CASE calls[c].pc \notin {"joining", "minting"}
      <3>1. calls'[c] = calls[c] /\ calls[c].pc # "woken"
        BY <1>1, <1>7, <2>6 DEF Quiet
      <3> QED BY <1>1, <2>1, <2>6, <3>1 DEF CallSound
    <2> QED BY <2>3, <2>4, <2>5, <2>6
  <1>14. \A b \in 1 .. minted : Known(b)' => Known(b) /\ (~ok => b # create.board)
    BY <1>1 DEF Known
  <1>15. OneKnown' /\ BoardsSound'
    BY <1>1, <1>14 DEF ShimInv, OneKnown, BoardsSound
  <1>16. CurrentIsHeld'
    <2> SUFFICES ASSUME NEW b \in 1 .. minted, Known(b)', boards[b].conv = conv
                 PROVE  session'.board = b
      BY <1>1 DEF CurrentIsHeld
    <2>1. create.board = b
      BY <1>2, <1>14 DEF ShimInv, CurrentIsHeld
    <2> QED BY <1>6, <1>14, <2>1
  <1>17. KeysAgree'
    <2> SUFFICES ASSUME NEW b \in (1 .. minted) \ stray'
                 PROVE  \E x \in Content : MintedBy(b, x)'
      BY <1>1 DEF KeysAgree
    <2>1. b \in (1 .. minted) \ stray
      BY <1>1
    <2>2. PICK x \in Content : MintedBy(b, x)
      BY <2>1 DEF ShimInv, KeysAgree
    <2>3. \A c \in Calls : calls'[c].pc = "pushing" => calls'[c] = calls[c]
      BY <1>7, IdleIsCall
    <2>4. session'.board = b => session'.createContent = x
      <3> SUFFICES ASSUME session'.board = b PROVE session.createContent = x
        BY <1>6
      <3>1. ok /\ create.board = b
        BY <1>6, <1>2
      <3>2. create.conv = conv
        BY <1>1, <2>1, <3>1
      <3> QED BY <1>1, <1>3, <2>2, <3>1, <3>2 DEF MintedBy
    <2>5. MintedBy(b, x)'
      BY <1>1, <1>5, <2>2, <2>3, <2>4 DEF MintedBy, KeyFor
    <2> QED BY <2>5
  <1>18. FreshSparesConcurrent' /\ ParkedIsClosed' /\ RetryIsSafe'
    BY <1>1, <1>6 DEF ShimInv, FreshSparesConcurrent, ParkedIsClosed, RetryIsSafe
  <1> QED BY <1>8, <1>10, <1>11, <1>12, <1>13, <1>15, <1>16, <1>17, <1>18 DEF ShimInv

(* The daemon takes a push.  One it finds doubled was keyed differently    *)
(* from the post the board took last, and only a stray board's keys differ.*)
LEMMA DaemonTakesKeeps ==
  ASSUME ShimInv, NEW c \in Calls, DaemonTakes(c)
  PROVE  ShimInv'
  <1> DEFINE b == calls[c].board
             x == calls[c].content
             again == /\ boards[b].scope = calls[c].scope
                      /\ boards[b].lately = x
                      /\ boards[b].holds # {}
             twice == ~again /\ x \in boards[b].holds /\ boards[b].lately = x
  <1>1. /\ calls[c] \in Call /\ calls[c].pc = "pushing" /\ CallSound(calls[c])
        /\ x \in Content /\ b \in 1 .. minted /\ minted \in Nat
    <2>1. calls[c] \in Call /\ calls[c].pc = "pushing" /\ CallSound(calls[c])
      BY TypeFacts DEF ShimInv, CallsSound, DaemonTakes
    <2>2. b \in Nat /\ minted \in Nat
      BY <2>1, TypeFacts, ShimNumbers DEF ShimInv, Call
    <2> QED BY <2>1, <2>2 DEF CallSound
  <1>2. CASE boards[b].gone
    <2>1. /\ calls' = [calls EXCEPT ![c].pc = "missing"]
          /\ UNCHANGED <<session, create, daemon, shimHistory>>
      BY <1>2 DEF DaemonTakes, daemon, shimHistory
    <2>2. calls[c].board # 0 /\ boards[calls[c].board].gone
      BY <1>1, <1>2
    <2> QED BY <1>1, <2>1, <2>2, CallMovesOn
  <1>3. CASE ~boards[b].gone
    <2>1. /\ calls' = [calls EXCEPT ![c].pc = "applied"]
          /\ boards' = IF again THEN boards
                       ELSE [boards EXCEPT ![b].holds = @ \cup {x},
                                           ![b].scope = calls[c].scope,
                                           ![b].lately = x]
          /\ doubled' = IF twice THEN doubled \cup {b} ELSE doubled
          /\ UNCHANGED <<session, create, minted, conv, lost, dropped, stray, underfoot,
                         parked, closed>>
      BY <1>3 DEF DaemonTakes
    <2>2. /\ calls' \in [Calls -> Call]
          /\ \A d \in Calls : d # c => calls'[d] = calls[d]
          /\ calls'[c] = [calls[c] EXCEPT !.pc = "applied"]
      BY <1>1, <2>1, TypeFacts DEF ShimInv, Call
    <2>3. /\ calls'[c].pc = "applied" /\ calls'[c].content = calls[c].content
          /\ calls'[c].since = calls[c].since /\ calls'[c].before = calls[c].before
          /\ calls'[c].board = b
      BY <1>1, <2>2 DEF Call
    <2>4. /\ boards' \in [1 .. minted -> BoardRecord]
          /\ \A d \in 1 .. minted : /\ boards'[d].conv = boards[d].conv
                                    /\ boards'[d].gone = boards[d].gone
                                    /\ d # b => boards'[d] = boards[d]
          /\ ~again => boards'[b].scope = calls[c].scope /\ boards'[b].lately = x
          /\ again => boards' = boards
      <3>1. boards \in [1 .. minted -> BoardRecord] /\ calls[c].scope \in 0 .. MaxBoards
        BY <1>1, TypeFacts DEF ShimInv, Call
      <3>2. CASE again
        BY <2>1, <3>1, <3>2
      <3>3. CASE ~again
        <4> DEFINE r == [boards[b] EXCEPT !.holds = @ \cup {x}, !.scope = calls[c].scope,
                                          !.lately = x]
        <4>1. boards' = [boards EXCEPT ![b] = r]
          BY <1>1, <2>1, <3>1, <3>3
        <4>2. /\ r \in BoardRecord /\ r.conv = boards[b].conv /\ r.gone = boards[b].gone
              /\ r.scope = calls[c].scope /\ r.lately = x
          BY <1>1, <3>1 DEF BoardRecord
        <4> HIDE DEF r, b, x, again
        <4> QED BY <1>1, <3>1, <3>3, <4>1, <4>2
      <3> QED BY <3>2, <3>3
    <2> HIDE DEF again, twice
    <2>5. twice => b \in stray
      <3> SUFFICES ASSUME twice, b \notin stray PROVE FALSE
        OBVIOUS
      <3>1. PICK y \in Content : MintedBy(b, y)
        BY <1>1 DEF ShimInv, KeysAgree
      <3>2. /\ boards[b].scope = KeyFor(b, y, boards[b].lately)
            /\ calls[c].scope = KeyFor(b, y, x)
        BY <1>1, <3>1 DEF MintedBy
      <3> QED BY <3>2 DEF twice, again
    <2>6. SpareKept'
      <3>1. Waiters' \subseteq Waiters
        BY <2>2, <2>3 DEF Waiters
      <3> QED BY <2>1, <3>1, SpareStays
    <2>7. doubled' \subseteq Board /\ RetryIsSafe'
      <3>1. doubled \subseteq Board /\ stray \subseteq Board /\ doubled \subseteq stray
        BY TypeFacts DEF ShimInv, RetryIsSafe
      <3> QED BY <2>1, <2>5, <3>1 DEF RetryIsSafe
    <2>8. ShimTypeOK'
      BY <2>1, <2>2, <2>4, <2>7, TypeFacts, TypeAfter DEF ShimInv
    <2>9. \A d : Known(d)' = Known(d)
      BY <2>1, <2>4 DEF Known
    <2>10. SessionSound' /\ CreateSound'
      <3>1. /\ create \in Create /\ minted \in Nat
            /\ session.board # 0 => boards'[session.board].conv = boards[session.board].conv
        BY <1>1, <2>4, TypeFacts, ShimNumbers DEF ShimInv, SessionSound
      <3>2. SessionSound'
        BY <2>1, <3>1 DEF ShimInv, SessionSound
      <3>3. CreateSound'
        BY <2>1, <2>4, <2>9 DEF ShimInv, CreateSound
      <3> QED BY <3>2, <3>3
    <2>11. CallsSound'
      <3> SUFFICES ASSUME NEW d \in Calls PROVE CallSound(calls[d])'
        BY DEF CallsSound
      <3>1. calls[d] \in Call /\ CallSound(calls[d])
        BY TypeFacts DEF ShimInv, CallsSound
      <3>2. calls[d].board # 0 => /\ boards'[calls[d].board].conv = boards[calls[d].board].conv
                                  /\ boards'[calls[d].board].gone = boards[calls[d].board].gone
        <4>1. calls[d].board \in Nat /\ calls[d].board <= minted
          BY <3>1, ShimNumbers DEF Call, CallSound
        <4> QED BY <1>1, <2>4, <4>1
      <3>3. CASE d # c
        BY <2>1, <2>2, <3>1, <3>2, <3>3 DEF CallSound
      <3>4. CASE d = c
        BY <1>1, <2>1, <2>3, <3>1, <3>2, <3>4 DEF CallSound
      <3> QED BY <3>3, <3>4
    <2>12. OneKnown' /\ CurrentIsHeld' /\ BoardsSound'
      <3>1. \A d \in 1 .. minted' : d \in 1 .. minted /\ boards'[d].conv = boards[d].conv
        BY <2>1, <2>4
      <3>2. OneKnown'
        BY <2>9, <3>1 DEF ShimInv, OneKnown
      <3>3. CurrentIsHeld'
        BY <2>1, <2>9, <3>1 DEF ShimInv, CurrentIsHeld
      <3>4. BoardsSound'
        BY <2>1, <3>1 DEF ShimInv, BoardsSound
      <3> QED BY <3>2, <3>3, <3>4
    <2>13. KeysAgree'
      <3> SUFFICES ASSUME NEW d \in (1 .. minted) \ stray
                   PROVE  \E y \in Content : MintedBy(d, y)'
        BY <2>1 DEF KeysAgree
      <3>1. PICK y \in Content : MintedBy(d, y)
        BY DEF ShimInv, KeysAgree
      <3>2. boards'[d].scope = KeyFor(d, y, boards'[d].lately)
        <4>1. CASE d # b \/ again
          <5>1. boards'[d] = boards[d]
            BY <2>4, <4>1
          <5> QED BY <3>1, <5>1 DEF MintedBy
        <4>2. CASE d = b /\ ~again
          <5>1. calls[c].scope = KeyFor(b, y, x)
            BY <1>1, <3>1, <4>2 DEF MintedBy
          <5> QED BY <2>4, <4>2, <5>1
        <4> QED BY <4>1, <4>2
      <3>3. \A e \in Calls : calls'[e].pc = "pushing" => calls'[e] = calls[e]
        BY <2>2, <2>3
      <3>4. \A e \in Calls : calls'[e].pc = "pushing" /\ calls'[e].board = d =>
              calls'[e].scope = KeyFor(d, y, calls'[e].content)
        BY <3>1, <3>3 DEF MintedBy
      <3>5. session' = session /\ create' = create
        BY <2>1
      <3>6. MintedBy(d, y)'
        BY <3>1, <3>2, <3>4, <3>5 DEF MintedBy, KeyFor
      <3> QED BY <3>6
    <2>14. FreshSparesConcurrent' /\ ParkedIsClosed'
      BY <2>1 DEF ShimInv, FreshSparesConcurrent, ParkedIsClosed
    <2> QED BY <2>6, <2>7, <2>8, <2>10, <2>11, <2>12, <2>13, <2>14 DEF ShimInv
  <1> QED BY <1>2, <1>3

(* A board's round ends or the board is pruned: no other part moves, and   *)
(* the boards that are known can only become fewer.                        *)
LEMMA BoardChanges ==
  ASSUME ShimInv,
         boards' \in [1 .. minted -> BoardRecord],
         \A b \in 1 .. minted : /\ boards'[b].conv = boards[b].conv
                                /\ boards'[b].scope = boards[b].scope
                                /\ boards'[b].lately = boards[b].lately
                                /\ boards[b].gone => boards'[b].gone,
         UNCHANGED <<shim, minted, shimHistory>>
  PROVE  ShimInv'
  <1>1. UNCHANGED <<session, create, calls, minted, conv, lost, dropped, stray, underfoot,
                   parked, closed, doubled>>
    BY DEF shim, shimHistory
  <1>2. minted \in Nat
    BY TypeFacts, ShimNumbers DEF ShimInv
  <1>3. SpareKept'
    <2>1. Waiters' = Waiters
      BY <1>1 DEF Waiters
    <2> QED BY <1>1, <2>1, SpareStays
  <1>4. ShimTypeOK'
    BY <1>1, TypeFacts, TypeAfter DEF ShimInv
  <1>5. \A b \in 1 .. minted : Known(b)' => Known(b)
    BY <1>1, TypeFacts DEF ShimInv, Known, BoardRecord
  <1>6. SessionSound'
    BY <1>1, <1>2 DEF ShimInv, SessionSound
  <1>7. CreateSound'
    BY <1>1, <1>5 DEF ShimInv, CreateSound
  <1>8. CallsSound'
    <2> SUFFICES ASSUME NEW d \in Calls PROVE CallSound(calls[d])'
      BY DEF CallsSound
    <2>1. calls[d] \in Call /\ CallSound(calls[d])
      BY TypeFacts DEF ShimInv, CallsSound
    <2>2. calls[d].board # 0 => /\ boards'[calls[d].board].conv = boards[calls[d].board].conv
                                /\ boards[calls[d].board].gone => boards'[calls[d].board].gone
      <3>1. calls[d].board \in Nat /\ calls[d].board <= minted
        BY <2>1, ShimNumbers DEF Call, CallSound
      <3> QED BY <1>2, <3>1
    <2> QED BY <1>1, <2>1, <2>2 DEF CallSound
  <1>9. OneKnown' /\ CurrentIsHeld' /\ BoardsSound'
    BY <1>1, <1>5 DEF ShimInv, OneKnown, CurrentIsHeld, BoardsSound
  <1>10. KeysAgree'
    BY <1>1 DEF ShimInv, KeysAgree, MintedBy, KeyFor
  <1>11. FreshSparesConcurrent' /\ ParkedIsClosed' /\ RetryIsSafe'
    BY <1>1 DEF ShimInv, FreshSparesConcurrent, ParkedIsClosed, RetryIsSafe
  <1> QED BY <1>3, <1>4, <1>6, <1>7, <1>8, <1>9, <1>10, <1>11 DEF ShimInv

LEMMA SentKeeps ==
  ASSUME ShimInv, NEW b \in DOMAIN boards, Sent(b)
  PROVE  ShimInv'
  <1>1. boards \in [1 .. minted -> BoardRecord] /\ b \in 1 .. minted
    BY TypeFacts DEF ShimInv
  <1>2. /\ boards' = [boards EXCEPT ![b] = [boards[b] EXCEPT !.holds = {}]]
        /\ UNCHANGED <<shim, minted, shimHistory>>
    BY <1>1 DEF Sent
  <1> DEFINE r == [boards[b] EXCEPT !.holds = {}]
  <1>3. /\ r \in BoardRecord /\ r.conv = boards[b].conv /\ r.scope = boards[b].scope
        /\ r.lately = boards[b].lately /\ r.gone = boards[b].gone
    BY <1>1 DEF BoardRecord
  <1> HIDE DEF r
  <1>4. \A d \in 1 .. minted : boards'[d] = IF d = b THEN r ELSE boards[d]
    BY <1>1, <1>2 DEF r
  <1>5. boards' \in [1 .. minted -> BoardRecord]
    BY <1>1, <1>2, <1>3 DEF r
  <1> QED BY <1>2, <1>3, <1>4, <1>5, BoardChanges

LEMMA PruneKeeps ==
  ASSUME ShimInv, NEW b \in DOMAIN boards, Prune(b)
  PROVE  ShimInv'
  <1>1. boards \in [1 .. minted -> BoardRecord] /\ b \in 1 .. minted
    BY TypeFacts DEF ShimInv
  <1>2. /\ boards' = [boards EXCEPT ![b] = [boards[b] EXCEPT !.gone = TRUE, !.holds = {}]]
        /\ UNCHANGED <<shim, minted, shimHistory>>
    BY <1>1 DEF Prune
  <1> DEFINE r == [boards[b] EXCEPT !.gone = TRUE, !.holds = {}]
  <1>3. /\ r \in BoardRecord /\ r.conv = boards[b].conv /\ r.scope = boards[b].scope
        /\ r.lately = boards[b].lately /\ r.gone
    BY <1>1 DEF BoardRecord
  <1> HIDE DEF r
  <1>4. \A d \in 1 .. minted : boards'[d] = IF d = b THEN r ELSE boards[d]
    BY <1>1, <1>2 DEF r
  <1>5. boards' \in [1 .. minted -> BoardRecord]
    BY <1>1, <1>2, <1>3 DEF r
  <1> QED BY <1>2, <1>3, <1>4, <1>5, BoardChanges

LEMMA NextKeeps == ShimInv /\ [ShimNext]_shimVars => ShimInv'
  <1> SUFFICES ASSUME ShimInv, [ShimNext]_shimVars PROVE ShimInv'
    OBVIOUS
  <1>1. CASE \E c \in Calls :
               \/ \E x \in Content, fresh \in BOOLEAN : Ask(c, x, fresh)
               \/ Joined(c)
               \/ GiveUp(c)
               \/ DaemonTakes(c)
               \/ CallAnswered(c)
               \/ NotFound(c)
               \/ PushLost(c)
               \/ Flush(c)
    BY <1>1, AskKeeps, JoinedKeeps, GiveUpKeeps, DaemonTakesKeeps, CallAnsweredKeeps,
       NotFoundKeeps, PushLostKeeps, FlushKeeps
  <1>2. CASE MissionBoundary
    BY <1>2, MissionBoundaryKeeps
  <1>3. CASE DaemonMints
    BY <1>3, DaemonMintsKeeps
  <1>4. CASE \E ok \in BOOLEAN : Settle(ok)
    BY <1>4, SettleKeeps
  <1>5. CASE \E b \in DOMAIN boards : Sent(b) \/ Prune(b)
    BY <1>5, SentKeeps, PruneKeeps
  <1>6. CASE UNCHANGED shimVars
    <2>1. /\ UNCHANGED <<session, create, calls, boards, minted, conv, lost, dropped, stray,
                         underfoot, parked, closed, doubled>>
      BY <1>6 DEF shimVars, shim, daemon, shimHistory
    <2>2. boards' \in [1 .. minted -> BoardRecord]
      BY <2>1, TypeFacts DEF ShimInv
    <2>3. UNCHANGED <<shim, minted, shimHistory>>
      BY <2>1 DEF shim, shimHistory
    <2> QED BY <2>1, <2>2, <2>3, BoardChanges
  <1> QED BY <1>1, <1>2, <1>3, <1>4, <1>5, <1>6 DEF ShimNext

-----------------------------------------------------------------------------
(* The shim's memory of its conversation agrees with the daemon's boards,  *)
(* with the mint under way and with every call under way, at each step of  *)
(* bin/mcp.mjs and of the daemon it posts to.                              *)
THEOREM ShimInvariance == ShimSpec => []ShimInv
  <1> QED BY InitShimInv, NextKeeps, PTL DEF ShimSpec

(* Every variable keeps its type: a boundary declared behind a wait never  *)
(* outruns the bound the ask was admitted under.                           *)
THEOREM ShimTypeCorrect == ShimSpec => []ShimTypeOK
  <1>1. ShimInv => ShimTypeOK
    BY DEF ShimInv
  <1> QED BY <1>1, ShimInvariance, PTL

(* One conversation keeps one board: whatever asks run at once, give up,   *)
(* are lost or come back 404, postThisRound never has two boards of one    *)
(* conversation that it minted, kept and saw neither pruned nor lost.      *)
THEOREM OneBoardEach == ShimSpec => []OneBoard
  <1>1. ShimInv => OneBoard
    <2> SUFFICES ASSUME ShimInv, NEW k \in Conversation
                 PROVE  Cardinality({b \in DOMAIN boards :
                            /\ boards[b].conv = k
                            /\ ~boards[b].gone
                            /\ b \notin lost \cup dropped}) <= 1
      BY DEF OneBoard
    <2> DEFINE S == {b \in DOMAIN boards :
                       /\ boards[b].conv = k
                       /\ ~boards[b].gone
                       /\ b \notin lost \cup dropped}
    <2>1. DOMAIN boards = 1 .. minted
      BY TypeFacts DEF ShimInv
    <2>2. \A b, d \in S : b = d
      BY <2>1 DEF ShimInv, OneKnown, Known
    <2>3. CASE S = {}
      BY <2>3, FS_EmptySet
    <2>4. CASE S # {}
      <3>1. PICK b : S = {b}
        BY <2>2, <2>4
      <3>2. Cardinality(S) = 1
        BY <3>1, FS_Singleton
      <3> QED BY <3>2
    <2> QED BY <2>3, <2>4
  <1> QED BY <1>1, ShimInvariance, PTL

(* A fresh ask never parks a board that was minted after it was made: the  *)
(* ask that joined a mint no longer declares.                              *)
THEOREM FreshSpares == ShimSpec => []FreshSparesConcurrent
  <1>1. ShimInv => FreshSparesConcurrent
    BY DEF ShimInv
  <1> QED BY <1>1, ShimInvariance, PTL

(* A board a boundary parked stays in session.pendingAbandon, or has had   *)
(* its abandon sent: no later boundary drops it.                           *)
THEOREM ParkedGetsClosed == ShimSpec => []ParkedIsClosed
  <1>1. ShimInv => ParkedIsClosed
    BY DEF ShimInv
  <1> QED BY <1>1, ShimInvariance, PTL

(* No ask is posted to a board of a conversation over before it was made,  *)
(* save to one whose mint was under way at the boundary.                   *)
THEOREM NeverIntoThePast == ShimSpec => []NotIntoThePast
  <1>1. ShimInv => NotIntoThePast
    BY DEF ShimInv, CallsSound, CallSound, NotIntoThePast
  <1> QED BY <1>1, ShimInvariance, PTL

(* The same post sent twice is applied once while its round is open: a     *)
(* push is keyed as the daemon keyed what the board took last, the post    *)
(* that minted the board included.                                         *)
THEOREM RetriesAreSafe == ShimSpec => []RetryIsSafe
  <1>1. ShimInv => RetryIsSafe
    BY DEF ShimInv
  <1> QED BY <1>1, ShimInvariance, PTL

=============================================================================
