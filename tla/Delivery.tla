------------------------------ MODULE Delivery ------------------------------
(***************************************************************************)
(* How a round's answers and comments reach the agent: the delivery half   *)
(* of src/server.mjs over one thread's boards.                             *)
(*                                                                         *)
(* A reviewer answers a round once (POST /submit or /relay).  The answers  *)
(* leave the daemon in a response: the packet of a GET /wait, the reply to *)
(* a POST /collect (the answer watch), or the reply to a post that said    *)
(* noWait.  What a response carried is written down (the answersDelivered  *)
(* ledger, and `delivered` on a comment) only when its last byte has left, *)
(* and until then the rounds it carries are held, so that no other         *)
(* response hands them out.  The daemon may stop between any two steps;    *)
(* the boards are on disk, the holds and the responses are not.            *)
(*                                                                         *)
(* A round is the pair <<board, n>>.  Wall clock is abstracted here: a     *)
(* wait on an unanswered round may end in a timeout at any moment, and a   *)
(* round may have lapsed at any moment.  Rounds.tla models the clock.      *)
(***************************************************************************)
EXTENDS Naturals, FiniteSets

CONSTANTS
    Boards,     \* the boards of one thread
    Cap,        \* Cap[b] bounds how many rounds are posted on board b
    Legacy,     \* boards written by a daemon from before the ledger
    Calls,      \* slots for the HTTP calls outstanding at once
    MaxFaults   \* how many times a mark may fail to reach the disk

ASSUME DeliveryAssumption ==
    /\ Cap \in [Boards -> Nat]
    /\ Legacy \subseteq Boards
    /\ MaxFaults \in Nat

Round == UNION {{b} \X (1 .. Cap[b]) : b \in Boards}

VARIABLES
    (***********************************************************************)
    (* On disk: the board documents.                                       *)
    (***********************************************************************)
    status,     \* status[k]: "none" before round k is posted
    asks,       \* the rounds that carry a question
    remark,     \* remark[k]: the comments sent with round k
    ledger,     \* the rounds on their board's answersDelivered
    ledgered,   \* the boards that have an answersDelivered at all
    (***********************************************************************)
    (* In the daemon's memory: one record per call outstanding.            *)
    (***********************************************************************)
    calls,
    (***********************************************************************)
    (* History: what callers were given, and what went wrong.              *)
    (***********************************************************************)
    got,        \* rounds whose answers some caller received
    paid,       \* how often a round's answers were handed out as owed
    heard,      \* rounds whose comments some caller received
    born,       \* rounds answered while their board had a ledger
    faults

disk == <<status, asks, remark, ledger, ledgered>>
history == <<got, paid, heard, born, faults>>
vars == <<disk, calls, history>>

-----------------------------------------------------------------------------
(* One call.  `takes` is its hold on the rounds it carries; `body` and     *)
(* `says` are the rounds whose answers and comments its response carries,  *)
(* `owes` those handed out as owed; `marks` and `remarks` are what         *)
(* commit will write down; `touches` the boards whose ledger it writes.    *)

Call == [phase : {"idle", "flying"},
         takes : SUBSET Round,
         body : SUBSET Round,
         owes : SUBSET Round,
         says : SUBSET Round,
         marks : SUBSET Round,
         remarks : SUBSET Round,
         touches : SUBSET Boards]

Idle == [phase |-> "idle", takes |-> {}, body |-> {}, owes |-> {},
         says |-> {}, marks |-> {}, remarks |-> {}, touches |-> {}]

TypeOK ==
    /\ status \in [Round -> {"none", "open", "sent", "abandoned"}]
    /\ asks \subseteq Round
    /\ remark \in [Round -> {"none", "owed", "delivered"}]
    /\ ledger \subseteq Round
    /\ ledgered \subseteq Boards
    /\ calls \in [Calls -> Call]
    /\ got \subseteq Round
    /\ paid \in [Round -> Nat]
    /\ heard \subseteq Round
    /\ born \subseteq Round
    /\ faults \in Nat

(* A legacy board holds one answered round and no ledger; its answers went *)
(* out under the older daemon.                                             *)
History == {k \in Round : k[1] \in Legacy /\ k[2] = 1}

Init ==
    /\ status = [k \in Round |-> IF k \in History THEN "sent" ELSE "none"]
    /\ asks = History
    /\ remark = [k \in Round |-> "none"]
    /\ ledger = {}
    /\ ledgered = {}
    /\ calls = [c \in Calls |-> Idle]
    /\ got = {}
    /\ paid = [k \in Round |-> 0]
    /\ heard = {}
    /\ born = {}
    /\ faults = 0

-----------------------------------------------------------------------------
(* Reading the boards.                                                     *)

Posted(b) == {n \in 1 .. Cap[b] : status[<<b, n>>] # "none"}

Latest(b) == CHOOSE n \in Posted(b) : \A m \in Posted(b) : m <= n

(* carrying: some other response on the wire holds the round. *)
HeldByOther(c, k) == \E d \in Calls \ {c} : k \in calls[d].takes

(* A board with no ledger adopts what it has sent instead of owing it. *)
Adopting(b) == b \notin ledgered

(* Mutant: the ledger is not consulted. *)
UnspentOffLedger == {k \in Round : status[k] = "sent" /\ k \in asks}

Unspent == {k \in Round : status[k] = "sent" /\ k \in asks /\ k \notin ledger}

OwedRemarks == {k \in Round : remark[k] = "owed"}

Threaded == {b \in Boards : Posted(b) # {}}

(* What a response built now for call c drains: hold first, comments then  *)
(* answers.  `own` is the round a packet's own body carries, {} for a post *)
(* response, which has no such body.                                       *)
(* Mutant: a claim does not look at who else holds the round. *)
ClaimsAll(c, K) == K

Claims(c, K) == {k \in K : ~HeldByOther(c, k)}

(* Mutants: only the packet's own round is drained. *)
DrainMarksOwn(c, own) == own \cap Unspent

DrainRemarksOwn(c, own) == own \cap OwedRemarks

DrainMarks(c, own) == Claims(c, Unspent) \cup (own \cap Unspent)

DrainRemarks(c, own) == Claims(c, OwedRemarks) \cup (own \cap OwedRemarks)

Drain(c, own) ==
    LET marks == DrainMarks(c, own)
        owes == {k \in marks \ own : ~Adopting(k[1])}
        remarks == DrainRemarks(c, own)
    IN  [phase |-> "flying",
         takes |-> Claims(c, Unspent \cup OwedRemarks),
         body |-> owes \cup {k \in own : status[k] = "sent"},
         owes |-> owes,
         says |-> remarks \cup {k \in own : remark[k] # "none"},
         marks |-> marks,
         remarks |-> remarks,
         touches |-> {b \in Threaded : Adopting(b) \/ \E k \in marks : k[1] = b}]

-----------------------------------------------------------------------------
(* What the agent's side and the reviewer do to a board.                   *)

(* createBoard, addRound or amendRound, decided by handlePostBoard: a post *)
(* joins the latest round while it is open, asks and has not lapsed, and   *)
(* is a round of its own otherwise.  `noWait` makes the response the       *)
(* thread's next packet.                                                   *)
Lands(b, question) ==
    \/ /\ Posted(b) # {}
       /\ status[<<b, Latest(b)>>] = "open"
       /\ <<b, Latest(b)>> \in asks
       /\ UNCHANGED disk
    \/ \E n \in 1 .. Cap[b] :
         /\ n \notin Posted(b)
         /\ n = 1 \/ n - 1 \in Posted(b)
         /\ status' = [status EXCEPT ![<<b, n>>] = "open"]
         /\ asks' = IF question THEN asks \cup {<<b, n>>} ELSE asks
         /\ UNCHANGED <<remark, ledger, ledgered>>

PostToWait(b, question) ==
    /\ Lands(b, question)
    /\ UNCHANGED <<calls, history>>

(* The drain reads the boards with this post already on them; what is owed *)
(* is the same on either side of it, and only the new board joins the      *)
(* thread's walk.                                                          *)
PostNoWait(c, b) ==
    /\ calls[c].phase = "idle"
    /\ Lands(b, FALSE)
    /\ calls' = [calls EXCEPT ![c] =
                    [Drain(c, {}) EXCEPT
                        !.touches = @ \cup (IF Adopting(b) THEN {b} ELSE {})]]
    /\ UNCHANGED history

(* Mutant: the round is left with a status no reader knows. *)
AnswerSubmitted(k, comments) ==
    /\ status' = [status EXCEPT ![k] = "submitted"]
    /\ remark' = IF comments THEN [remark EXCEPT ![k] = "owed"] ELSE remark
    /\ born' = IF k[1] \in ledgered THEN born \cup {k} ELSE born
    /\ UNCHANGED <<asks, ledger, ledgered, calls, got, paid, heard, faults>>

(* A submit lands on any round not yet sent, lapsed and abandoned ones     *)
(* included.                                                               *)
Answer(k, comments) ==
    /\ status' = [status EXCEPT ![k] = "sent"]
    /\ remark' = IF comments THEN [remark EXCEPT ![k] = "owed"] ELSE remark
    /\ born' = IF k[1] \in ledgered THEN born \cup {k} ELSE born
    /\ UNCHANGED <<asks, ledger, ledgered, calls, got, paid, heard, faults>>

Submit(k, comments) ==
    /\ status[k] \in {"open", "abandoned"}
    /\ Answer(k, comments)

(* A relay answers on the person's words, carries no comments and is       *)
(* refused on an abandoned round.                                          *)
Relay(k) ==
    /\ status[k] = "open"
    /\ Answer(k, FALSE)

Abandon(b) ==
    /\ \E n \in 1 .. Cap[b] : status[<<b, n>>] = "open"
    /\ status' = [k \in Round |->
                    IF k[1] = b /\ status[k] = "open" THEN "abandoned" ELSE status[k]]
    /\ UNCHANGED <<asks, remark, ledger, ledgered, calls, history>>

-----------------------------------------------------------------------------
(* The calls that carry answers out.                                       *)

(* Mutant: what a packet carries is marked as it is built. *)
WaitMarksEarly(c, k) ==
    /\ calls[c].phase = "idle"
    /\ status[k] # "none"
    /\ calls' = [calls EXCEPT ![c] = Drain(c, {k})]
    /\ ledger' = ledger \cup DrainMarks(c, {k})
    /\ ledgered' = ledgered \cup Threaded
    /\ UNCHANGED <<status, asks, remark, history>>

(* A wait holds nothing while it polls, so it enters when its poll ends:   *)
(* the round sent, abandoned or timed out, each way out a packet with what *)
(* the thread is owed appended.                                            *)
Wait(c, k) ==
    /\ calls[c].phase = "idle"
    /\ status[k] # "none"
    /\ calls' = [calls EXCEPT ![c] = Drain(c, {k})]
    /\ UNCHANGED <<disk, history>>

(* The answer watch: nothing to spend unless the round is sent and no      *)
(* response on the wire already has it.                                    *)
CollectMarks(c, k) ==
    IF k \notin asks THEN {}
    ELSE IF Adopting(k[1])
         THEN Claims(c, {j \in Unspent : j[1] = k[1]})
         ELSE {k}

CollectDelivered(k) ==
    IF k \in asks THEN k \in ledger ELSE remark[k] = "delivered"

Collect(c, k) ==
    /\ calls[c].phase = "idle"
    /\ status[k] = "sent"
    /\ ~HeldByOther(c, k)
    /\ LET fresh == IF CollectDelivered(k) THEN {} ELSE {k}
           talk == IF remark[k] # "none" THEN {k} ELSE {}
       IN  calls' = [calls EXCEPT ![c] =
             [phase |-> "flying",
              takes |-> {k} \cup CollectMarks(c, k),
              body |-> {k},
              owes |-> fresh \cap asks,
              says |-> talk,
              marks |-> CollectMarks(c, k),
              remarks |-> talk,
              touches |-> IF k \in asks THEN {k[1]} ELSE {}]]
    /\ UNCHANGED <<disk, history>>

(* The last byte of c's response is handed over: its caller has it. *)
Leaves(c) ==
    /\ got' = got \cup calls[c].body
    /\ paid' = [k \in Round |-> IF k \in calls[c].owes THEN paid[k] + 1 ELSE paid[k]]
    /\ heard' = heard \cup calls[c].says
    /\ UNCHANGED born

(* Mutant: every comment of a board it writes is marked. *)
MarkDeliveredWholeBoard(marks, touches, remarks) ==
    /\ ledger' = ledger \cup marks
    /\ ledgered' = ledgered \cup touches
    /\ remark' = [k \in Round |->
                    IF k[1] \in touches /\ remark[k] = "owed" THEN "delivered" ELSE remark[k]]
    /\ UNCHANGED <<status, asks>>

(* markDelivered: merge the marks into a fresh read of each board. *)
MarkDelivered(marks, touches, remarks) ==
    /\ ledger' = ledger \cup marks
    /\ ledgered' = ledgered \cup touches
    /\ remark' = [k \in Round |->
                    IF k \in remarks /\ remark[k] = "owed" THEN "delivered" ELSE remark[k]]
    /\ UNCHANGED <<status, asks>>

(* The response finished and its commit ran.  Another handler may run      *)
(* between the two, but it finds the rounds held and unmarked either way.  *)
Finish(c) ==
    /\ calls[c].phase = "flying"
    /\ Leaves(c)
    /\ MarkDelivered(calls[c].marks, calls[c].touches, calls[c].remarks)
    /\ calls' = [calls EXCEPT ![c] = Idle]
    /\ UNCHANGED faults

(* The same, with one write of the commit failing: a board's ledger or its *)
(* comments.  The error is swallowed and that board stays unmarked.        *)
FinishUnmarked(c, b, comments) ==
    /\ calls[c].phase = "flying"
    /\ faults < MaxFaults
    /\ faults' = faults + 1
    /\ Leaves(c)
    /\ IF comments
       THEN MarkDelivered(calls[c].marks, calls[c].touches,
                          {k \in calls[c].remarks : k[1] # b})
       ELSE MarkDelivered({k \in calls[c].marks : k[1] # b}, calls[c].touches \ {b},
                          calls[c].remarks)
    /\ calls' = [calls EXCEPT ![c] = Idle]

(* Mutant: the commit runs on close as well as on finish. *)
CloseCommits(c) ==
    /\ calls[c].phase = "flying"
    /\ MarkDelivered(calls[c].marks, calls[c].touches, calls[c].remarks)
    /\ calls' = [calls EXCEPT ![c] = Idle]
    /\ UNCHANGED history

(* The client goes: the response closes unsent and lets go of its rounds   *)
(* unmarked.                                                               *)
Close(c) ==
    /\ calls[c].phase = "flying"
    /\ calls' = [calls EXCEPT ![c] = Idle]
    /\ UNCHANGED <<disk, history>>

(* The daemon stops and starts again: every call is cut and every hold is  *)
(* gone.  One response may have left with its commit still to run.         *)
Restart ==
    /\ \E c \in Calls : calls[c].phase = "flying"
    /\ calls' = [c \in Calls |-> Idle]
    /\ UNCHANGED disk
    /\ \/ UNCHANGED history
       \/ \E c \in Calls :
            /\ calls[c].phase = "flying"
            /\ faults < MaxFaults
            /\ faults' = faults + 1
            /\ Leaves(c)

-----------------------------------------------------------------------------
Next ==
    \/ \E b \in Boards :
         \/ \E question \in BOOLEAN : PostToWait(b, question)
         \/ Abandon(b)
    \/ \E k \in Round :
         \/ \E comments \in BOOLEAN : Submit(k, comments)
         \/ Relay(k)
    \/ \E c \in Calls :
         \/ \E b \in Boards : PostNoWait(c, b)
         \/ \E k \in Round : Wait(c, k) \/ Collect(c, k)
         \/ Finish(c)
         \/ \E b \in Boards, comments \in BOOLEAN : FinishUnmarked(c, b, comments)
         \/ Close(c)
    \/ Restart

Spec == Init /\ [][Next]_vars

(***************************************************************************)
(* The thread goes on asking; a response leaves or its socket closes; and  *)
(* a round carried out again and again gets through in the end.  Nothing   *)
(* is assumed of the reviewer or of the answer watch, which may collect    *)
(* and be cut off for ever.                                                *)
(***************************************************************************)
FinishCarrying(k) ==
    \E c \in Calls : k \in calls[c].body \cup calls[c].says /\ Finish(c)

Fairness ==
    /\ SF_vars(\E c \in Calls, k \in Round : Wait(c, k))
    /\ \A c \in Calls : WF_vars(Finish(c) \/ Close(c))
    /\ \A k \in Round : SF_vars(FinishCarrying(k))

-----------------------------------------------------------------------------
(* No two responses on the wire hold one round, whatever mix of waits,     *)
(* collects and noWait posts built them (createHold's claim and release).  *)
HoldExclusive ==
    \A c, d \in Calls : c # d => calls[c].takes \cap calls[d].takes = {}

(* A round answered on a board that has a ledger is never put on it before *)
(* some caller received its answers, across failed writes, closed sockets  *)
(* and restarts (markDelivered only on a response's finish).               *)
NothingLost == ledger \cap born \subseteq got

(* A comment is marked delivered only when a response that carried it has  *)
(* left, ledger or no ledger (drainUndeliveredComments' commit).           *)
RemarksNeverLost == \A k \in Round : remark[k] = "delivered" => k \in heard

(* Answers are handed out as owed at most once, plus once for every mark   *)
(* that failed to reach the disk: two responses in flight together, or a   *)
(* packet and the answer watch, never both pay a round out.                *)
OwedPaidOnce == \A k \in Round : paid[k] <= 1 + faults

(* Once the thread waits again, an answered round reaches it, whatever     *)
(* other response holds the round meanwhile.                               *)
OwedReachesAgent ==
    \A k \in Round : (k \in Unspent /\ k \in born) ~> k \in got

(* Same for a comment. *)
RemarkReachesAgent ==
    \A k \in Round : remark[k] = "owed" ~> k \in heard

(* The delivery half implements the promise, for the rounds answered while *)
(* their board had a ledger.                                               *)
Promise == INSTANCE OwedAnswers WITH
    owed <- born \cap asks,
    given <- got \cap born \cap asks,
    settled <- ledger \cap born

KeepsPromise == Promise!Spec

(* ADR 107 as the code states it: `a SUBMITTED round whose answers no      *)
(* packet ever carried has them owed to the next packet`.  The daemon's    *)
(* own boards start with no ledger, and the first packet to touch one      *)
(* adopts what it has sent.                                                *)
EveryAnswerCarried == ledger \ History \subseteq got

(* The migration as the code states it: the first commit that touches a    *)
(* board with no ledger adopts whatever it has already sent, so a round of *)
(* a board that has joined the ledger is on it, or on a response that will *)
(* put it there.                                                           *)
AdoptionComplete ==
    \A k \in History :
        k[1] \in ledgered => k \in ledger \/ \E c \in Calls : k \in calls[c].marks

=============================================================================
