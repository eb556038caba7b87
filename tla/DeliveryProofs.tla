--------------------------- MODULE DeliveryProofs ---------------------------
(***************************************************************************)
(* Proofs about Delivery, for any boards, any bound on their rounds, any   *)
(* number of calls outstanding and any number of failed marks.             *)
(***************************************************************************)
EXTENDS Delivery, TLAPS

-----------------------------------------------------------------------------
(* The inductive invariant.                                                *)

(* A call's hold, its marks and what it carries are about answered rounds, *)
(* and what it will mark it carries, unless the mark is an adoption.       *)
CallCarries ==
    \A c \in Calls :
        /\ calls[c].body \subseteq {k \in Round : status[k] = "sent"}
        /\ calls[c].marks \subseteq {k \in asks : status[k] = "sent"}
        /\ calls[c].marks \cap born \subseteq calls[c].body
        /\ \A k \in calls[c].marks : k[1] \in calls[c].touches
        /\ calls[c].remarks \subseteq calls[c].says
        /\ calls[c].owes \subseteq calls[c].takes \cap calls[c].marks \cap calls[c].body
        /\ calls[c].phase = "idle" => calls[c] = Idle

(* What the disk and the history say of a round agree.                     *)
DiskAgrees ==
    /\ \A k \in Round : k \in got \cup ledger \cup born => status[k] = "sent"
    /\ \A k \in born \cup ledger : k[1] \in ledgered
    /\ ledger \subseteq asks
    /\ \A k \in asks : status[k] # "none"

(* A round that may still be paid out has used up only faults.             *)
PaidOnlyByFault ==
    \A k \in Round :
        /\ paid[k] <= 1 + faults
        /\ k \notin ledger => paid[k] <= faults
        /\ \A c \in Calls : k \in calls[c].owes => paid[k] <= faults

IInv ==
    /\ TypeOK
    /\ HoldExclusive
    /\ CallCarries
    /\ DiskAgrees
    /\ NothingLost
    /\ RemarksNeverLost
    /\ PaidOnlyByFault

-----------------------------------------------------------------------------
LEMMA RoundHasBoard == \A k \in Round : k[1] \in Boards
  BY DEF Round

LEMMA InitIInv == Init => IInv
  <1> SUFFICES ASSUME Init PROVE IInv
    OBVIOUS
  <1> USE DeliveryAssumption DEF Init, History
  <1>1. TypeOK
    BY DEF TypeOK, Idle, Call
  <1>2. HoldExclusive
    BY DEF HoldExclusive, Idle
  <1>3. CallCarries
    BY DEF CallCarries, Idle
  <1>4. DiskAgrees
    BY DEF DiskAgrees
  <1>5. NothingLost /\ RemarksNeverLost /\ PaidOnlyByFault
    BY DEF NothingLost, RemarksNeverLost, PaidOnlyByFault, Idle
  <1> QED BY <1>1, <1>2, <1>3, <1>4, <1>5 DEF IInv

(* Whatever a call that was idle is replaced by, the invariant holds again *)
(* once the new record is typed, holds only rounds nobody else holds, and  *)
(* carries what it marks.                                                  *)
LEMMA NewCall ==
  ASSUME IInv, NEW c \in Calls, NEW r \in Call,
         calls' = [calls EXCEPT ![c] = r],
         status' \in [Round -> {"none", "open", "sent", "abandoned"}],
         asks' \subseteq Round, asks \subseteq asks',
         \A k \in Round : status[k] = "sent" => status'[k] = "sent",
         \A k \in asks' : status'[k] # "none",
         UNCHANGED <<remark, ledger, ledgered, history>>,
         \A k \in r.takes : ~HeldByOther(c, k),
         r.body \subseteq {k \in Round : status'[k] = "sent"},
         r.marks \subseteq {k \in asks' : status'[k] = "sent"},
         r.marks \cap born \subseteq r.body,
         \A k \in r.marks : k[1] \in r.touches,
         r.remarks \subseteq r.says,
         r.owes \subseteq r.takes \cap r.marks \cap r.body,
         \A k \in r.owes : k \notin ledger,
         r.phase = "flying"
  PROVE  IInv'
  <1> USE DEF IInv, history
  <1>1. TypeOK'
    BY DEF TypeOK
  <1>2. HoldExclusive'
    BY DEF HoldExclusive, TypeOK, HeldByOther
  <1>3. CallCarries'
    <2> SUFFICES ASSUME NEW d \in Calls
                 PROVE  /\ calls'[d].body \subseteq {k \in Round : status'[k] = "sent"}
                        /\ calls'[d].marks \subseteq {k \in asks' : status'[k] = "sent"}
                        /\ calls'[d].marks \cap born \subseteq calls'[d].body
                        /\ \A k \in calls'[d].marks : k[1] \in calls'[d].touches
                        /\ calls'[d].remarks \subseteq calls'[d].says
                        /\ calls'[d].owes \subseteq
                               calls'[d].takes \cap calls'[d].marks \cap calls'[d].body
                        /\ calls'[d].phase = "idle" => calls'[d] = Idle
      BY DEF CallCarries
    <2>1. CASE d = c
      <3>1. calls'[d] = r
        BY <2>1 DEF TypeOK
      <3> QED BY <3>1
    <2>2. CASE d # c
      <3>1. calls'[d] = calls[d]
        BY <2>2 DEF TypeOK
      <3> QED BY <3>1 DEF CallCarries, TypeOK
    <2> QED BY <2>1, <2>2
  <1>4. DiskAgrees'
    BY DEF DiskAgrees, TypeOK
  <1>5. NothingLost' /\ RemarksNeverLost'
    BY DEF NothingLost, RemarksNeverLost, TypeOK
  <1>6. PaidOnlyByFault'
    BY DEF PaidOnlyByFault, TypeOK, Call
  <1> QED BY <1>1, <1>2, <1>3, <1>4, <1>5, <1>6

(* A post adds at most one round, and it is not an answered one. *)
LEMMA PostLands ==
  ASSUME IInv, NEW b \in Boards, NEW question \in BOOLEAN, Lands(b, question)
  PROVE  /\ status' \in [Round -> {"none", "open", "sent", "abandoned"}]
         /\ asks' \subseteq Round /\ asks \subseteq asks'
         /\ \A k \in Round : status[k] = "sent" <=> status'[k] = "sent"
         /\ \A k \in asks' : status'[k] # "none"
         /\ \A k \in asks' \ asks : status[k] = "none" /\ status'[k] = "open"
         /\ UNCHANGED <<remark, ledger, ledgered>>
  <1>1. CASE UNCHANGED disk
    BY <1>1 DEF disk, IInv, TypeOK, DiskAgrees
  <1>2. ASSUME NEW n \in 1 .. Cap[b],
               n \notin Posted(b),
               status' = [status EXCEPT ![<<b, n>>] = "open"],
               asks' = (IF question THEN asks \cup {<<b, n>>} ELSE asks),
               UNCHANGED <<remark, ledger, ledgered>>
        PROVE  /\ status' \in [Round -> {"none", "open", "sent", "abandoned"}]
               /\ asks' \subseteq Round /\ asks \subseteq asks'
               /\ \A k \in Round : status[k] = "sent" <=> status'[k] = "sent"
               /\ \A k \in asks' : status'[k] # "none"
               /\ \A k \in asks' \ asks : status[k] = "none" /\ status'[k] = "open"
    <2>1. <<b, n>> \in Round
      BY DEF Round
    <2>2. status[<<b, n>>] = "none"
      BY <1>2 DEF Posted
    <2> QED BY <1>2, <2>1, <2>2 DEF IInv, TypeOK, DiskAgrees
  <1> QED BY <1>1, <1>2 DEF Lands

(* What a drain marks, holds, carries and touches, from the boards as they *)
(* stand: the facts every packet and noWait reply is built on.             *)
LEMMA DrainCarries ==
  ASSUME IInv, NEW c \in Calls, NEW own \in SUBSET Round
  PROVE  /\ Drain(c, own) \in Call
         /\ \A k \in Drain(c, own).takes : ~HeldByOther(c, k)
         /\ Drain(c, own).body \subseteq {k \in Round : status[k] = "sent"}
         /\ Drain(c, own).marks \subseteq {k \in asks : status[k] = "sent"}
         /\ Drain(c, own).marks \cap born \subseteq Drain(c, own).body
         /\ \A k \in Drain(c, own).marks : k[1] \in Drain(c, own).touches
         /\ Drain(c, own).remarks \subseteq Drain(c, own).says
         /\ Drain(c, own).owes \subseteq
                Drain(c, own).takes \cap Drain(c, own).marks \cap Drain(c, own).body
         /\ \A k \in Drain(c, own).owes : k \notin ledger
         /\ Drain(c, own).phase = "flying"
  <1> DEFINE r == Drain(c, own)
             marks == DrainMarks(c, own)
             remarks == DrainRemarks(c, own)
             owes == {k \in marks \ own : ~Adopting(k[1])}
  <1>1. /\ r.phase = "flying"
        /\ r.takes = Claims(c, Unspent \cup OwedRemarks)
        /\ r.body = owes \cup {k \in own : status[k] = "sent"}
        /\ r.owes = owes
        /\ r.says = remarks \cup {k \in own : remark[k] # "none"}
        /\ r.marks = marks
        /\ r.remarks = remarks
        /\ r.touches = {b \in Threaded : Adopting(b) \/ \E k \in marks : k[1] = b}
    BY DEF Drain
  <1>2. r \in Call
    <2>1. /\ Unspent \subseteq Round /\ OwedRemarks \subseteq Round
          /\ Threaded \subseteq Boards
      BY DEF Unspent, OwedRemarks, Threaded
    <2>2. marks \subseteq Round /\ remarks \subseteq Round
      BY <2>1 DEF DrainMarks, DrainRemarks, Claims
    <2>3. Claims(c, Unspent \cup OwedRemarks) \subseteq Round
      BY <2>1 DEF Claims
    <2>4. /\ r.takes \subseteq Round /\ r.body \subseteq Round
          /\ r.owes \subseteq Round /\ r.says \subseteq Round
          /\ r.marks \subseteq Round /\ r.remarks \subseteq Round
          /\ r.touches \subseteq Boards
      BY <1>1, <2>1, <2>2, <2>3
    <2> HIDE DEF marks, remarks, owes
    <2> QED BY <2>4, <1>1 DEF Call, Drain
  <1>3. marks \subseteq {k \in asks : status[k] = "sent"} /\ \A k \in marks : k \notin ledger
    BY DEF DrainMarks, Claims, Unspent
  <1>4. \A k \in r.takes : ~HeldByOther(c, k)
    BY <1>1 DEF Claims
  <1>5. r.body \subseteq {k \in Round : status[k] = "sent"}
    BY <1>1, <1>3 DEF IInv, TypeOK
  <1>6. r.marks \cap born \subseteq r.body
    BY <1>1, <1>3 DEF IInv, DiskAgrees, Adopting, TypeOK
  <1>7. \A k \in r.marks : k[1] \in r.touches
    <2> SUFFICES ASSUME NEW k \in marks PROVE k[1] \in Threaded
      BY <1>1
    <2>1. k \in Round /\ status[k] # "none"
      BY <1>3 DEF IInv, TypeOK
    <2>2. PICK b \in Boards : \E n \in 1 .. Cap[b] : k = <<b, n>>
      BY <2>1 DEF Round
    <2> QED BY <2>1, <2>2 DEF Threaded, Posted
  <1>8. r.remarks \subseteq r.says
    BY <1>1
  <1>9. r.owes \subseteq r.takes \cap r.marks \cap r.body
    BY <1>1 DEF DrainMarks, Claims
  <1> HIDE DEF r
  <1> QED BY <1>1, <1>2, <1>3, <1>4, <1>5, <1>6, <1>7, <1>8, <1>9 DEF r

-----------------------------------------------------------------------------
(* The invariant is preserved, action by action.                           *)

LEMMA PostToWaitIInv ==
  ASSUME IInv, NEW b \in Boards, NEW question \in BOOLEAN, PostToWait(b, question)
  PROVE  IInv'
  <1>1. /\ status' \in [Round -> {"none", "open", "sent", "abandoned"}]
        /\ asks' \subseteq Round /\ asks \subseteq asks'
        /\ \A k \in Round : status[k] = "sent" <=> status'[k] = "sent"
        /\ \A k \in asks' : status'[k] # "none"
        /\ UNCHANGED <<remark, ledger, ledgered, calls, history>>
    BY PostLands DEF PostToWait
  <1> USE <1>1 DEF IInv, history
  <1>2. TypeOK' /\ HoldExclusive'
    BY DEF TypeOK, HoldExclusive
  <1>3. CallCarries'
    BY DEF TypeOK, CallCarries, Idle
  <1>4. DiskAgrees'
    BY DEF TypeOK, DiskAgrees
  <1>5. NothingLost' /\ RemarksNeverLost' /\ PaidOnlyByFault'
    BY DEF NothingLost, RemarksNeverLost, PaidOnlyByFault
  <1> QED BY <1>2, <1>3, <1>4, <1>5

LEMMA PostNoWaitIInv ==
  ASSUME IInv, NEW c \in Calls, NEW b \in Boards, PostNoWait(c, b)
  PROVE  IInv'
  <1> DEFINE d == Drain(c, {})
             r == [d EXCEPT !.touches = @ \cup (IF Adopting(b) THEN {b} ELSE {})]
  <1>1. /\ status' \in [Round -> {"none", "open", "sent", "abandoned"}]
        /\ asks' \subseteq Round /\ asks \subseteq asks'
        /\ \A k \in Round : status[k] = "sent" => status'[k] = "sent"
        /\ \A k \in asks' : status'[k] # "none"
        /\ UNCHANGED <<remark, ledger, ledgered, history>>
    BY PostLands DEF PostNoWait
  <1>2. /\ d \in Call
        /\ \A k \in d.takes : ~HeldByOther(c, k)
        /\ d.body \subseteq {k \in Round : status[k] = "sent"}
        /\ d.marks \subseteq {k \in asks : status[k] = "sent"}
        /\ d.marks \cap born \subseteq d.body
        /\ \A k \in d.marks : k[1] \in d.touches
        /\ d.remarks \subseteq d.says
        /\ d.owes \subseteq d.takes \cap d.marks \cap d.body
        /\ \A k \in d.owes : k \notin ledger
        /\ d.phase = "flying"
    BY DrainCarries
  <1>3. calls' = [calls EXCEPT ![c] = r]
    BY DEF PostNoWait
  <1> HIDE DEF d
  <1>4. /\ r \in Call
        /\ r.phase = d.phase /\ r.takes = d.takes /\ r.body = d.body
        /\ r.owes = d.owes /\ r.says = d.says /\ r.marks = d.marks
        /\ r.remarks = d.remarks /\ d.touches \subseteq r.touches
    BY <1>2 DEF Call
  <1> HIDE DEF r
  <1>5. /\ r.body \subseteq {k \in Round : status'[k] = "sent"}
        /\ r.marks \subseteq {k \in asks' : status'[k] = "sent"}
    BY <1>1, <1>2, <1>4 DEF IInv, TypeOK
  <1>6. \A k \in r.marks : k[1] \in r.touches
    BY <1>2, <1>4
  <1> QED BY <1>1, <1>2, <1>3, <1>4, <1>5, <1>6, NewCall

LEMMA WaitIInv ==
  ASSUME IInv, NEW c \in Calls, NEW k \in Round, Wait(c, k)
  PROVE  IInv'
  <1> DEFINE r == Drain(c, {k})
  <1>1. /\ status' \in [Round -> {"none", "open", "sent", "abandoned"}]
        /\ asks' \subseteq Round /\ asks \subseteq asks'
        /\ \A j \in Round : status[j] = "sent" => status'[j] = "sent"
        /\ \A j \in asks' : status'[j] # "none"
        /\ UNCHANGED <<status, asks, remark, ledger, ledgered, history>>
    BY DEF Wait, disk, IInv, TypeOK, DiskAgrees
  <1>2. /\ r \in Call
        /\ \A j \in r.takes : ~HeldByOther(c, j)
        /\ r.body \subseteq {j \in Round : status[j] = "sent"}
        /\ r.marks \subseteq {j \in asks : status[j] = "sent"}
        /\ r.marks \cap born \subseteq r.body
        /\ \A j \in r.marks : j[1] \in r.touches
        /\ r.remarks \subseteq r.says
        /\ r.owes \subseteq r.takes \cap r.marks \cap r.body
        /\ \A j \in r.owes : j \notin ledger
        /\ r.phase = "flying"
    BY DrainCarries
  <1>3. calls' = [calls EXCEPT ![c] = r]
    BY DEF Wait
  <1> HIDE DEF r
  <1>4. /\ r.body \subseteq {j \in Round : status'[j] = "sent"}
        /\ r.marks \subseteq {j \in asks' : status'[j] = "sent"}
    BY <1>1, <1>2
  <1> QED BY <1>1, <1>2, <1>3, <1>4, NewCall

(* An adopting collect marks whatever its board has sent, which is none of *)
(* the rounds born under the ledger; any other marks the round it carries. *)
LEMMA CollectIInv ==
  ASSUME IInv, NEW c \in Calls, NEW k \in Round, Collect(c, k)
  PROVE  IInv'
  <1> DEFINE M == CollectMarks(c, k)
             fresh == IF CollectDelivered(k) THEN {} ELSE {k}
             talk == IF remark[k] # "none" THEN {k} ELSE {}
             r == [phase |-> "flying", takes |-> {k} \cup M, body |-> {k},
                   owes |-> fresh \cap asks, says |-> talk, marks |-> M, remarks |-> talk,
                   touches |-> IF k \in asks THEN {k[1]} ELSE {}]
  <1>1. /\ status' \in [Round -> {"none", "open", "sent", "abandoned"}]
        /\ asks' \subseteq Round /\ asks \subseteq asks'
        /\ \A j \in Round : status[j] = "sent" => status'[j] = "sent"
        /\ \A j \in asks' : status'[j] # "none"
        /\ UNCHANGED <<status, asks, remark, ledger, ledgered, history>>
    BY DEF Collect, disk, IInv, TypeOK, DiskAgrees
  <1>2. calls' = [calls EXCEPT ![c] = r] /\ status[k] = "sent" /\ ~HeldByOther(c, k)
    BY DEF Collect
  <1>3. /\ M \subseteq {j \in asks : status[j] = "sent"}
        /\ M \subseteq Round
        /\ \A j \in M : ~HeldByOther(c, j)
        /\ \A j \in M : j[1] = k[1] /\ k \in asks
    BY <1>2 DEF CollectMarks, Claims, Unspent, IInv, TypeOK
  <1>4. M \cap born \subseteq {k}
    <2>1. CASE Adopting(k[1])
      <3> SUFFICES ASSUME NEW j \in M, j \in born PROVE FALSE
        OBVIOUS
      <3>1. j[1] \in ledgered
        BY DEF IInv, DiskAgrees
      <3> QED BY <2>1, <3>1, <1>3 DEF Adopting
    <2>2. CASE ~Adopting(k[1])
      BY <2>2 DEF CollectMarks
    <2> QED BY <2>1, <2>2
  <1>5. fresh \cap asks \subseteq M /\ \A j \in fresh \cap asks : j \notin ledger
    <2> SUFFICES ASSUME k \in asks, k \notin ledger PROVE k \in M
      BY DEF CollectDelivered
    <2> QED BY <1>2 DEF CollectMarks, Claims, Unspent
  <1>6. r \in Call
    BY <1>3, RoundHasBoard DEF Call
  <1>7. /\ r.phase = "flying" /\ r.takes = {k} \cup M /\ r.body = {k}
        /\ r.owes = fresh \cap asks /\ r.says = talk /\ r.marks = M /\ r.remarks = talk
        /\ r.touches = IF k \in asks THEN {k[1]} ELSE {}
    OBVIOUS
  <1> HIDE DEF r, M
  <1>8. /\ \A j \in r.takes : ~HeldByOther(c, j)
        /\ r.body \subseteq {j \in Round : status'[j] = "sent"}
        /\ r.marks \subseteq {j \in asks' : status'[j] = "sent"}
        /\ r.marks \cap born \subseteq r.body
        /\ \A j \in r.marks : j[1] \in r.touches
    BY <1>1, <1>2, <1>3, <1>4, <1>7
  <1>9. /\ r.remarks \subseteq r.says
        /\ r.owes \subseteq r.takes \cap r.marks \cap r.body
        /\ \A j \in r.owes : j \notin ledger
    BY <1>5, <1>7
  <1> QED BY <1>1, <1>2, <1>6, <1>7, <1>8, <1>9, NewCall

(* A submit and a relay alike: the round was in no packet, on no ledger. *)
LEMMA AnswerIInv ==
  ASSUME IInv, NEW k \in Round, NEW comments \in BOOLEAN,
         status[k] \in {"open", "abandoned"}, Answer(k, comments)
  PROVE  IInv'
  <1> USE DEF IInv, Answer
  <1>1. TypeOK' /\ HoldExclusive'
    BY DEF TypeOK, HoldExclusive
  <1>2. k \notin got \cup ledger \cup born
    BY DEF DiskAgrees, TypeOK
  <1>3. /\ \A j \in Round : status[j] = "sent" => status'[j] = "sent"
        /\ status'[k] = "sent"
        /\ \A j \in Round : status[j] # "none" => status'[j] # "none"
    BY DEF TypeOK
  <1>4. CallCarries'
    <2> SUFFICES ASSUME NEW d \in Calls
                 PROVE  /\ calls[d].body \subseteq {j \in Round : status'[j] = "sent"}
                        /\ calls[d].marks \subseteq {j \in asks : status'[j] = "sent"}
                        /\ calls[d].marks \cap born' \subseteq calls[d].body
      BY DEF CallCarries
    <2>1. k \notin calls[d].marks
      BY DEF CallCarries, TypeOK
    <2> QED BY <1>3, <2>1 DEF CallCarries, TypeOK
  <1>5. DiskAgrees'
    BY <1>3 DEF DiskAgrees, TypeOK
  <1>6. NothingLost' /\ RemarksNeverLost' /\ PaidOnlyByFault'
    BY <1>2 DEF NothingLost, RemarksNeverLost, PaidOnlyByFault, TypeOK
  <1> QED BY <1>1, <1>4, <1>5, <1>6

LEMMA AbandonIInv ==
  ASSUME IInv, NEW b \in Boards, Abandon(b)
  PROVE  IInv'
  <1> USE DEF IInv, Abandon, history
  <1>1. /\ \A k \in Round : status[k] = "sent" => status'[k] = "sent"
        /\ \A k \in Round : status[k] # "none" => status'[k] # "none"
        /\ status' \in [Round -> {"none", "open", "sent", "abandoned"}]
    BY DEF TypeOK
  <1>2. TypeOK' /\ HoldExclusive'
    BY <1>1 DEF TypeOK, HoldExclusive
  <1>3. CallCarries'
    BY <1>1 DEF CallCarries, TypeOK, Idle
  <1>4. DiskAgrees'
    BY <1>1 DEF DiskAgrees, TypeOK
  <1>5. NothingLost' /\ RemarksNeverLost' /\ PaidOnlyByFault'
    BY DEF NothingLost, RemarksNeverLost, PaidOnlyByFault
  <1> QED BY <1>2, <1>3, <1>4, <1>5

(* A response leaves and marks M on the ledgers of T and the comments R:   *)
(* all it meant to, or less by one failed write.                           *)
LEMMA MarkLands ==
  ASSUME IInv, NEW c \in Calls,
         NEW M \in SUBSET calls[c].marks, NEW T \in SUBSET calls[c].touches,
         NEW R \in SUBSET calls[c].remarks,
         \A k \in M : k[1] \in T,
         Leaves(c), MarkDelivered(M, T, R), calls' = [calls EXCEPT ![c] = Idle],
         \/ faults' = faults /\ M = calls[c].marks
         \/ faults' = faults + 1
  PROVE  IInv'
  <1> USE DEF IInv
  <1>1. calls[c] \in Call /\ faults \in Nat /\ faults' \in Nat
    BY DEF TypeOK
  <1>2. TypeOK'
    <2>1. calls' \in [Calls -> Call]
      BY DEF TypeOK, Idle, Call
    <2>2. ledger' \subseteq Round /\ ledgered' \subseteq Boards /\ got' \subseteq Round
          /\ heard' \subseteq Round
      BY <1>1 DEF TypeOK, Call, Leaves, MarkDelivered
    <2>3. paid' \in [Round -> Nat] /\ remark' \in [Round -> {"none", "owed", "delivered"}]
      BY DEF TypeOK, Leaves, MarkDelivered
    <2> QED BY <1>1, <2>1, <2>2, <2>3 DEF TypeOK, Leaves, MarkDelivered
  <1>3. \A d \in Calls : calls'[d] = IF d = c THEN Idle ELSE calls[d]
    BY DEF TypeOK
  <1>4. HoldExclusive'
    BY <1>3 DEF HoldExclusive, Idle
  <1>5. CallCarries'
    <2> SUFFICES ASSUME NEW d \in Calls
                 PROVE  /\ calls'[d].body \subseteq {k \in Round : status'[k] = "sent"}
                        /\ calls'[d].marks \subseteq {k \in asks' : status'[k] = "sent"}
                        /\ calls'[d].marks \cap born' \subseteq calls'[d].body
                        /\ \A k \in calls'[d].marks : k[1] \in calls'[d].touches
                        /\ calls'[d].remarks \subseteq calls'[d].says
                        /\ calls'[d].owes \subseteq
                               calls'[d].takes \cap calls'[d].marks \cap calls'[d].body
                        /\ calls'[d].phase = "idle" => calls'[d] = Idle
      BY DEF CallCarries
    <2>1. CASE d = c
      BY <1>3, <2>1 DEF Idle
    <2>2. CASE d # c
      BY <1>3, <2>2 DEF CallCarries, Leaves, MarkDelivered
    <2> QED BY <2>1, <2>2
  <1>6. DiskAgrees'
    BY <1>1 DEF DiskAgrees, CallCarries, TypeOK, Leaves, MarkDelivered
  <1>7. NothingLost'
    BY DEF NothingLost, CallCarries, Leaves, MarkDelivered
  <1>8. RemarksNeverLost'
    BY <1>1 DEF RemarksNeverLost, CallCarries, TypeOK, Leaves, MarkDelivered
  <1>9. PaidOnlyByFault'
    <2> SUFFICES ASSUME NEW k \in Round
                 PROVE  /\ paid'[k] <= 1 + faults'
                        /\ k \notin ledger' => paid'[k] <= faults'
                        /\ \A d \in Calls : k \in calls'[d].owes => paid'[k] <= faults'
      BY DEF PaidOnlyByFault
    <2>1. paid'[k] = (IF k \in calls[c].owes THEN paid[k] + 1 ELSE paid[k]) /\ paid[k] \in Nat
      BY DEF Leaves, TypeOK
    <2>2. CASE k \in calls[c].owes
      <3>1. paid[k] <= faults
        BY <2>2 DEF PaidOnlyByFault
      <3>2. \A d \in Calls : k \notin calls[d].owes \/ d = c
        BY <2>2 DEF HoldExclusive, CallCarries
      <3>3. \A d \in Calls : k \notin calls'[d].owes
        BY <1>3, <3>2 DEF Idle
      <3>4. faults' = faults => k \in ledger'
        BY <1>1, <2>2 DEF CallCarries, MarkDelivered
      <3> QED BY <1>1, <2>1, <2>2, <3>1, <3>3, <3>4
    <2>3. CASE k \notin calls[c].owes
      <3>1. k \notin ledger' => k \notin ledger
        BY DEF MarkDelivered
      <3>2. \A d \in Calls : k \in calls'[d].owes => k \in calls[d].owes
        BY <1>3 DEF Idle
      <3> QED BY <1>1, <2>1, <2>3, <3>1, <3>2 DEF PaidOnlyByFault
    <2> QED BY <2>2, <2>3
  <1> QED BY <1>2, <1>4, <1>5, <1>6, <1>7, <1>8, <1>9

LEMMA FinishIInv ==
  ASSUME IInv, NEW c \in Calls, Finish(c)
  PROVE  IInv'
  <1>1. /\ \A k \in calls[c].marks : k[1] \in calls[c].touches
        /\ MarkDelivered(calls[c].marks, calls[c].touches, calls[c].remarks)
        /\ Leaves(c) /\ faults' = faults /\ calls' = [calls EXCEPT ![c] = Idle]
    BY DEF Finish, IInv, CallCarries
  <1> QED BY <1>1, MarkLands

LEMMA FinishUnmarkedIInv ==
  ASSUME IInv, NEW c \in Calls, NEW b \in Boards, NEW comments \in BOOLEAN,
         FinishUnmarked(c, b, comments)
  PROVE  IInv'
  <1>1. Leaves(c) /\ faults' = faults + 1 /\ calls' = [calls EXCEPT ![c] = Idle]
    BY DEF FinishUnmarked
  <1>2. CASE comments
    <2> DEFINE R == {k \in calls[c].remarks : k[1] # b}
    <2>1. /\ \A k \in calls[c].marks : k[1] \in calls[c].touches
          /\ MarkDelivered(calls[c].marks, calls[c].touches, R)
          /\ R \in SUBSET calls[c].remarks
      BY <1>2 DEF FinishUnmarked, IInv, CallCarries
    <2> QED BY <1>1, <2>1, MarkLands
  <1>3. CASE ~comments
    <2> DEFINE M == {k \in calls[c].marks : k[1] # b}
               T == calls[c].touches \ {b}
    <2>1. /\ \A k \in M : k[1] \in T
          /\ MarkDelivered(M, T, calls[c].remarks)
          /\ M \in SUBSET calls[c].marks /\ T \in SUBSET calls[c].touches
      BY <1>3 DEF FinishUnmarked, IInv, CallCarries
    <2> HIDE DEF M, T
    <2> QED BY <1>1, <2>1, MarkLands
  <1> QED BY <1>2, <1>3

LEMMA CloseIInv ==
  ASSUME IInv, NEW c \in Calls, Close(c)
  PROVE  IInv'
  <1> USE DEF IInv, Close, disk, history
  <1>1. \A d \in Calls : calls'[d] = IF d = c THEN Idle ELSE calls[d]
    BY DEF TypeOK
  <1>2. TypeOK'
    BY DEF TypeOK, Idle, Call
  <1>3. HoldExclusive'
    BY <1>1 DEF HoldExclusive, Idle
  <1>4. CallCarries'
    BY <1>1 DEF CallCarries, Idle
  <1>5. DiskAgrees' /\ NothingLost' /\ RemarksNeverLost'
    BY DEF DiskAgrees, NothingLost, RemarksNeverLost
  <1>6. PaidOnlyByFault'
    BY <1>1 DEF PaidOnlyByFault, Idle
  <1> QED BY <1>2, <1>3, <1>4, <1>5, <1>6

LEMMA RestartIInv ==
  ASSUME IInv, Restart
  PROVE  IInv'
  <1> USE DEF IInv, disk
  <1>1. UNCHANGED disk /\ \A d \in Calls : calls'[d] = Idle
    BY DEF Restart
  <1>2. calls' \in [Calls -> Call]
    BY DEF Restart, Idle, Call
  <1>3. HoldExclusive' /\ CallCarries'
    BY <1>1 DEF HoldExclusive, CallCarries, Idle
  <1>4. CASE UNCHANGED history
    BY <1>1, <1>2, <1>3, <1>4
       DEF history, TypeOK, DiskAgrees, NothingLost, RemarksNeverLost, PaidOnlyByFault, Idle
  <1>5. ASSUME NEW c \in Calls, Leaves(c), faults' = faults + 1
        PROVE  IInv'
    <2>1. calls[c] \in Call /\ calls[c].body \subseteq {k \in Round : status[k] = "sent"}
      BY DEF TypeOK, CallCarries
    <2>2. TypeOK'
      BY <1>1, <1>2, <1>5, <2>1 DEF TypeOK, Leaves, Call
    <2>3. DiskAgrees' /\ NothingLost' /\ RemarksNeverLost'
      BY <1>1, <1>5, <2>1 DEF DiskAgrees, NothingLost, RemarksNeverLost, Leaves
    <2>4. PaidOnlyByFault'
      <3> SUFFICES ASSUME NEW k \in Round
                   PROVE  /\ paid'[k] <= 1 + faults'
                          /\ k \notin ledger' => paid'[k] <= faults'
        BY <1>1 DEF PaidOnlyByFault, Idle
      <3>1. /\ paid'[k] = (IF k \in calls[c].owes THEN paid[k] + 1 ELSE paid[k])
            /\ paid[k] \in Nat /\ faults \in Nat
        BY <1>5 DEF Leaves, TypeOK
      <3>2. k \in calls[c].owes => paid[k] <= faults
        BY DEF PaidOnlyByFault
      <3> QED BY <1>1, <1>5, <3>1, <3>2 DEF PaidOnlyByFault
    <2> QED BY <1>3, <2>2, <2>3, <2>4
  <1> QED BY <1>4, <1>5 DEF Restart

LEMMA StutterIInv == IInv /\ UNCHANGED vars => IInv'
  BY DEF IInv, vars, disk, history, TypeOK, HoldExclusive, CallCarries, DiskAgrees,
         NothingLost, RemarksNeverLost, PaidOnlyByFault, Idle

LEMMA StepIInv == IInv /\ [Next]_vars => IInv'
  <1> SUFFICES ASSUME IInv, [Next]_vars PROVE IInv'
    OBVIOUS
  <1>1. ASSUME NEW b \in Boards, NEW question \in BOOLEAN, PostToWait(b, question)
        PROVE  IInv'
    BY <1>1, PostToWaitIInv
  <1>2. ASSUME NEW b \in Boards, Abandon(b) PROVE IInv'
    BY <1>2, AbandonIInv
  <1>3. ASSUME NEW k \in Round, NEW comments \in BOOLEAN, Submit(k, comments) PROVE IInv'
    BY <1>3, AnswerIInv DEF Submit
  <1>4. ASSUME NEW k \in Round, Relay(k) PROVE IInv'
    BY <1>4, AnswerIInv DEF Relay
  <1>5. ASSUME NEW c \in Calls, NEW b \in Boards, PostNoWait(c, b) PROVE IInv'
    BY <1>5, PostNoWaitIInv
  <1>6. ASSUME NEW c \in Calls, NEW k \in Round, Wait(c, k) PROVE IInv'
    BY <1>6, WaitIInv
  <1>7. ASSUME NEW c \in Calls, NEW k \in Round, Collect(c, k) PROVE IInv'
    BY <1>7, CollectIInv
  <1>8. ASSUME NEW c \in Calls, Finish(c) PROVE IInv'
    BY <1>8, FinishIInv
  <1>9. ASSUME NEW c \in Calls, NEW b \in Boards, NEW comments \in BOOLEAN,
               FinishUnmarked(c, b, comments)
        PROVE  IInv'
    BY <1>9, FinishUnmarkedIInv
  <1>10. ASSUME NEW c \in Calls, Close(c) PROVE IInv'
    BY <1>10, CloseIInv
  <1>11. CASE Restart
    BY <1>11, RestartIInv
  <1>12. CASE UNCHANGED vars
    BY <1>12, StutterIInv
  <1> QED
    BY <1>1, <1>2, <1>3, <1>4, <1>5, <1>6, <1>7, <1>8, <1>9, <1>10, <1>11, <1>12 DEF Next

-----------------------------------------------------------------------------
(* Every reachable state satisfies the inductive invariant. *)
THEOREM Invariance == Spec => []IInv
  <1>1. Init => IInv
    BY InitIInv
  <1>2. IInv /\ [Next]_vars => IInv'
    BY StepIInv
  <1> QED BY <1>1, <1>2, PTL DEF Spec

(* The state of the delivery half keeps its shape: every call a record of  *)
(* round sets, every round in a status the code writes.                    *)
THEOREM TypeCorrect == Spec => []TypeOK
  BY Invariance, PTL DEF IInv

(* For any number of responses on the wire, createHold keeps each round in *)
(* one of them.                                                            *)
THEOREM HoldsAreExclusive == Spec => []HoldExclusive
  BY Invariance, PTL DEF IInv

(* Whatever fails, closes or restarts, a round answered under the ledger   *)
(* is spent only after a caller received it.                               *)
THEOREM AnswersAreNotLost == Spec => []NothingLost
  BY Invariance, PTL DEF IInv

(* A comment is marked delivered only after a caller received it. *)
THEOREM CommentsAreNotLost == Spec => []RemarksNeverLost
  BY Invariance, PTL DEF IInv

(* A round's answers are paid out once, and once more for each mark that   *)
(* failed to reach the disk, for any number of faults.                     *)
THEOREM PaidOnce == Spec => []OwedPaidOnce
  <1>1. IInv => OwedPaidOnce
    BY DEF IInv, PaidOnlyByFault, OwedPaidOnce
  <1> QED BY Invariance, <1>1, PTL

-----------------------------------------------------------------------------
(* The delivery half implements OwedAnswers.                               *)

(* A response leaving is one Give, whether all its marks land or fewer.    *)
LEMMA LeavingGives ==
  ASSUME IInv, NEW c \in Calls, NEW M \in SUBSET calls[c].marks,
         Leaves(c), ledger' = ledger \cup M, UNCHANGED asks
  PROVE  Promise!Next
  <1> DEFINE K == calls[c].body \cap born \cap asks
             L == M \cap born
  <1>1. K \in SUBSET Round /\ L \in SUBSET Round
    BY DEF IInv, TypeOK
  <1>2. K \subseteq born \cap asks
    OBVIOUS
  <1>3. L \subseteq K
    BY DEF IInv, CallCarries
  <1>4. /\ (got \cap born \cap asks)' = (got \cap born \cap asks) \cup K
        /\ (ledger \cap born)' = (ledger \cap born) \cup L
        /\ UNCHANGED (born \cap asks)
    BY DEF Leaves
  <1>5. Promise!Give(K, L)
    BY <1>2, <1>3, <1>4 DEF Promise!Give
  <1> QED BY <1>1, <1>5 DEF Promise!Next

(* A post adds rounds nobody answered, so the promise does not move. *)
LEMMA PostKeepsPromise ==
  ASSUME IInv, NEW b \in Boards, NEW question \in BOOLEAN,
         Lands(b, question), UNCHANGED history
  PROVE  UNCHANGED Promise!vars
  <1>1. \A k \in asks' \ asks : k \notin born
    BY PostLands DEF IInv, DiskAgrees, TypeOK
  <1>2. asks \subseteq asks' /\ UNCHANGED <<ledger, got, born>>
    BY PostLands DEF history
  <1> QED BY <1>1, <1>2 DEF Promise!vars

LEMMA AnswerKeepsPromise ==
  ASSUME IInv, NEW k \in Round, NEW comments \in BOOLEAN,
         status[k] \in {"open", "abandoned"}, Answer(k, comments)
  PROVE  [Promise!Next]_(Promise!vars)
  <1>1. k \notin got \cup ledger
    BY DEF IInv, DiskAgrees, TypeOK
  <1>2. /\ UNCHANGED <<asks, got, ledger>>
        /\ born' = born \/ born' = born \cup {k}
    BY DEF Answer
  <1>3. UNCHANGED <<got \cap born \cap asks, ledger \cap born>>
    BY <1>1, <1>2
  <1>4. CASE k \in asks /\ born' = born \cup {k}
    <2>1. Promise!Submit(k)
      BY <1>2, <1>3, <1>4 DEF Promise!Submit
    <2> QED BY <2>1 DEF Promise!Next
  <1>5. CASE k \notin asks \/ born' = born
    BY <1>2, <1>3, <1>5 DEF Promise!vars
  <1> QED BY <1>2, <1>4, <1>5

LEMMA QuietKeepsPromise ==
  UNCHANGED <<asks, ledger, got, born>> => UNCHANGED Promise!vars
  BY DEF Promise!vars

LEMMA StepKeepsPromise == IInv /\ [Next]_vars => [Promise!Next]_(Promise!vars)
  <1> SUFFICES ASSUME IInv, [Next]_vars PROVE [Promise!Next]_(Promise!vars)
    OBVIOUS
  <1>1. ASSUME NEW b \in Boards, NEW question \in BOOLEAN, PostToWait(b, question)
        PROVE  UNCHANGED Promise!vars
    BY <1>1, PostKeepsPromise DEF PostToWait
  <1>2. ASSUME NEW b \in Boards, Abandon(b) PROVE UNCHANGED Promise!vars
    BY <1>2, QuietKeepsPromise DEF Abandon, history
  <1>3. ASSUME NEW k \in Round, NEW comments \in BOOLEAN, Submit(k, comments)
        PROVE  [Promise!Next]_(Promise!vars)
    BY <1>3, AnswerKeepsPromise DEF Submit
  <1>4. ASSUME NEW k \in Round, Relay(k) PROVE [Promise!Next]_(Promise!vars)
    BY <1>4, AnswerKeepsPromise DEF Relay
  <1>5. ASSUME NEW c \in Calls, NEW b \in Boards, PostNoWait(c, b)
        PROVE  UNCHANGED Promise!vars
    BY <1>5, PostKeepsPromise DEF PostNoWait
  <1>6. ASSUME NEW c \in Calls, NEW k \in Round, Wait(c, k) \/ Collect(c, k)
        PROVE  UNCHANGED Promise!vars
    BY <1>6, QuietKeepsPromise DEF Wait, Collect, disk, history
  <1>7. ASSUME NEW c \in Calls, Finish(c) PROVE Promise!Next
    BY <1>7, LeavingGives DEF Finish, MarkDelivered
  <1>8. ASSUME NEW c \in Calls, NEW b \in Boards, NEW comments \in BOOLEAN,
               FinishUnmarked(c, b, comments)
        PROVE  Promise!Next
    <2>1. PICK M \in SUBSET calls[c].marks : ledger' = ledger \cup M
      <3>1. CASE comments
        BY <1>8, <3>1 DEF FinishUnmarked, MarkDelivered
      <3>2. CASE ~comments
        BY <1>8, <3>2 DEF FinishUnmarked, MarkDelivered
      <3> QED BY <3>1, <3>2
    <2> QED BY <1>8, <2>1, LeavingGives DEF FinishUnmarked, MarkDelivered
  <1>9. ASSUME NEW c \in Calls, Close(c) PROVE UNCHANGED Promise!vars
    BY <1>9, QuietKeepsPromise DEF Close, disk, history
  <1>10. CASE Restart
    <2>1. CASE UNCHANGED history
      BY <1>10, <2>1, QuietKeepsPromise DEF Restart, disk, history
    <2>2. ASSUME NEW c \in Calls, Leaves(c) PROVE Promise!Next
      <3>1. UNCHANGED asks /\ ledger' = ledger \cup {}
        BY <1>10 DEF Restart, disk
      <3>2. {} \in SUBSET calls[c].marks
        OBVIOUS
      <3> QED BY <2>2, <3>1, <3>2, LeavingGives
    <2> QED BY <1>10, <2>1, <2>2 DEF Restart
  <1>11. CASE UNCHANGED vars
    BY <1>11, QuietKeepsPromise DEF vars, disk, history
  <1> QED
    BY <1>1, <1>2, <1>3, <1>4, <1>5, <1>6, <1>7, <1>8, <1>9, <1>10, <1>11 DEF Next

(* Whatever mix of waits, collects and noWait posts carries the answers    *)
(* out, and whatever fails, the rounds answered under the ledger are given *)
(* before they are settled, as OwedAnswers promises.                       *)
THEOREM KeepsThePromise == Spec => KeepsPromise
  <1>1. Init => Promise!Init
    BY DEF Init, Promise!Init
  <1>2. IInv /\ [Next]_vars => [Promise!Next]_(Promise!vars)
    BY StepKeepsPromise
  <1> QED BY <1>1, <1>2, Invariance, PTL DEF Spec, KeepsPromise, Promise!Spec

=============================================================================
