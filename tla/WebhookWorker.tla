--------------------------- MODULE WebhookWorker ---------------------------
(***************************************************************************)
(* The processes that deliver the outbox (helpdesktool/webhook_worker.py). *)
(* A worker locks a batch of due deliveries (FOR UPDATE SKIP LOCKED), posts*)
(* each to its subscriber, and commits the outcome of all of them at the   *)
(* end.  The posts are out when the commit fails or the worker dies: the   *)
(* batch is then due again as if it had not been tried.                    *)
(***************************************************************************)
EXTENDS AuditOutbox

CONSTANTS
    Workers,
    BatchLimit,         \* deliveries of one batch
    MaxTries,           \* Settings.webhook_max_attempts
    MaxBreakdowns       \* bound of the model: batches that are not committed

ASSUME WorkerAssumption ==
    /\ BatchLimit \in Nat \ {0}
    /\ MaxTries \in Nat \ {0}
    /\ MaxBreakdowns \in Nat

Outcomes == {"pending", "delivered", "dead_letter", "cancelled"}
(* What the columns of a delivery say.                                     *)
Columns == [status : Outcomes, tries : 0..MaxTries]
Fresh == [status |-> "pending", tries |-> 0]
Unwritten == [d \in Deliveries |-> Fresh]

(* What becomes of a post: accepted, refused for good, refused for now;    *)
(* "unheard" was accepted and the answer lost, "unsent" never got through. *)
Answers == {"accepted", "refused", "busy", "unheard", "unsent"}

VARIABLES
    delivery,       \* columns of the delivery rows, Fresh until they are written
    backoff,        \* deliveries whose next_attempt_at lies in the future
    batch,          \* the deliveries a worker has locked
    todo,           \* those of its batch it has still to deliver
    written,        \* columns a worker has written and not committed
    loaded,         \* subscriptions as the worker's session has them, or "none"
    posts,          \* how often the subscriber has received a delivery
    accepted,       \* how often it has accepted it
    breakdowns      \* batches lost so far

workerVars == <<delivery, backoff, batch, todo, written, loaded, posts, accepted,
                breakdowns>>

WorkerTypeOK ==
    /\ delivery \in [Deliveries -> Columns]
    /\ backoff \subseteq Deliveries
    /\ batch \in [Workers -> SUBSET Deliveries]
    /\ todo \in [Workers -> SUBSET Deliveries]
    /\ written \in [Workers -> [Deliveries -> Columns]]
    /\ loaded \in [Workers -> Changes]
    /\ posts \in [Deliveries -> Nat]
    /\ accepted \in [Deliveries -> Nat]
    /\ breakdowns \in 0..MaxBreakdowns

WorkerInit ==
    /\ delivery = Unwritten
    /\ backoff = {}
    /\ batch = [w \in Workers |-> {}]
    /\ todo = [w \in Workers |-> {}]
    /\ written = [w \in Workers |-> Unwritten]
    /\ loaded = [w \in Workers |-> NoChange]
    /\ posts = [d \in Deliveries |-> 0]
    /\ accepted = [d \in Deliveries |-> 0]
    /\ breakdowns = 0

-----------------------------------------------------------------------------
(* Mutation: only what has never been tried is due.                        *)
DueUntried == {d \in deliveries : delivery[d] = Fresh}

Due == {d \in deliveries \ backoff : delivery[d].status = "pending"}

(* Mutation: the rows are read without a lock.                             *)
SelectableUnlocked(w) == Due

Selectable(w) == Due \ UNION {batch[v] : v \in Workers}

Select(w) ==
    /\ batch[w] = {}
    /\ \E B \in SUBSET Selectable(w) :
          /\ B # {}
          /\ \/ Cardinality(B) = BatchLimit
             \/ Cardinality(B) < BatchLimit /\ B = Selectable(w)
          /\ batch' = [batch EXCEPT ![w] = B]
          /\ todo' = [todo EXCEPT ![w] = B]
    /\ written' = [written EXCEPT ![w] = delivery]
    /\ UNCHANGED <<delivery, backoff, loaded, posts, accepted, breakdowns>>

(* The session keeps the subscription it has loaded first for the batch.   *)
Loaded(w, s) == IF loaded[w][s] # "none" THEN loaded[w][s] ELSE subscribed[s]

(* Mutation: one try too many.                                             *)
GivenUpLate(tries) == tries > MaxTries

(* Mutation: one try too few.                                              *)
GivenUpEarly(tries) == tries >= MaxTries - 1

GivenUp(tries) == tries >= MaxTries

(* _deliver and _fail: the status after one more try.                      *)
StatusAfter(answer, tries) ==
    CASE answer = "accepted" -> "delivered"
      [] answer = "refused" -> "dead_letter"
      [] OTHER -> IF GivenUp(tries) THEN "dead_letter" ELSE "pending"

Write(w, d, status) ==
    /\ todo' = [todo EXCEPT ![w] = @ \ {d}]
    /\ loaded' = [loaded EXCEPT ![w][d.subscription] = Loaded(w, d.subscription)]
    /\ written' = [written EXCEPT ![w][d] = [status |-> status, tries |-> @.tries + 1]]
    /\ UNCHANGED <<delivery, backoff, batch, breakdowns>>

Cancel(w, d) ==
    /\ d \in todo[w]
    /\ Loaded(w, d.subscription) # "active"
    /\ Write(w, d, "cancelled")
    /\ UNCHANGED <<posts, accepted>>

Deliver(w, d, answer) ==
    /\ d \in todo[w]
    /\ Loaded(w, d.subscription) = "active"
    /\ Write(w, d, StatusAfter(answer, written[w][d].tries + 1))
    /\ posts' = [posts EXCEPT ![d] = IF answer = "unsent" THEN @ ELSE @ + 1]
    /\ accepted' = [accepted EXCEPT ![d] =
                       IF answer \in {"accepted", "unheard"} THEN @ + 1 ELSE @]

(* The transaction is over: the locks go, and the session's rows with it.  *)
End(w) ==
    /\ batch' = [batch EXCEPT ![w] = {}]
    /\ todo' = [todo EXCEPT ![w] = {}]
    /\ written' = [written EXCEPT ![w] = Unwritten]
    /\ loaded' = [loaded EXCEPT ![w] = NoChange]
    /\ UNCHANGED <<posts, accepted>>

(* The commit: the columns become visible, and what failed waits for its   *)
(* next_attempt_at.                                                        *)
CommitBatch(w) ==
    /\ batch[w] # {}
    /\ todo[w] = {}
    /\ delivery' = [d \in Deliveries |-> IF d \in batch[w] THEN written[w][d] ELSE delivery[d]]
    /\ backoff' = backoff \cup {d \in batch[w] : written[w][d].status = "pending"}
    /\ End(w)
    /\ UNCHANGED breakdowns

(* The worker dies, loses its connection, or its commit fails.             *)
Breakdown(w) ==
    /\ batch[w] # {}
    /\ breakdowns < MaxBreakdowns
    /\ breakdowns' = breakdowns + 1
    /\ End(w)
    /\ UNCHANGED <<delivery, backoff>>

(* The delay of a failed delivery is over; it is at most an hour.          *)
ComeDue(d) ==
    /\ d \in backoff
    /\ backoff' = backoff \ {d}
    /\ UNCHANGED <<delivery, batch, todo, written, loaded, posts, accepted, breakdowns>>

WorkerStep(w) ==
    \/ Select(w) \/ CommitBatch(w)
    \/ \E d \in todo[w] : Cancel(w, d) \/ \E answer \in Answers : Deliver(w, d, answer)

WorkerNext ==
    \/ \E w \in Workers : WorkerStep(w) \/ Breakdown(w)
    \/ \E d \in backoff : ComeDue(d)
=============================================================================
