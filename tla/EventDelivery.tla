--------------------------- MODULE EventDelivery ---------------------------
(***************************************************************************)
(* The audit log, the outbox and the webhook workers together: from an     *)
(* audited change to the subscriber that hears of it.                      *)
(***************************************************************************)
EXTENDS WebhookWorker

vars == <<outboxVars, workerVars>>

TypeOK == OutboxTypeOK /\ WorkerTypeOK

Init == OutboxInit /\ WorkerInit

Next ==
    \/ OutboxNext /\ UNCHANGED workerVars
    \/ WorkerNext /\ UNCHANGED outboxVars

Spec == Init /\ [][Next]_vars

(***************************************************************************)
(* Fairness: a transaction that has begun goes on to its end or fails, the *)
(* database gives a free lock to who waits for it and ends a deadlock by   *)
(* rolling back one of its members, time passes, and a worker is an        *)
(* endless loop.                                                           *)
(***************************************************************************)
Fairness ==
    /\ \A t \in Transactions :
          /\ WF_vars((Commit(t) \/ Obtain(t)) /\ UNCHANGED workerVars)
          /\ WF_vars(Deadlocked(t) /\ RollBack(t) /\ UNCHANGED workerVars)
    /\ \A w \in Workers : WF_vars(WorkerStep(w) /\ UNCHANGED outboxVars)
    /\ \A d \in Deliveries : WF_vars(ComeDue(d) /\ UNCHANGED outboxVars)

FairSpec == Spec /\ Fairness

-----------------------------------------------------------------------------
(* The audit log.                                                          *)

(* No two rows of a tenant have the same number, and each row carries the  *)
(* hash of the one before it.                                              *)
Chained(rows) ==
    \A r \in rows :
        /\ \A q \in rows :
              q.tenant = r.tenant /\ q.sequence = r.sequence => q = r
        /\ IF r.sequence = 1
           THEN r.previous = Genesis
           ELSE \E q \in rows :
                   /\ q.tenant = r.tenant
                   /\ q.sequence = r.sequence - 1
                   /\ r.previous = HashOf(q)

(* A tenant's committed events form one chain without gap or fork: no      *)
(* sequence number is given twice, and each row carries the hash of the    *)
(* row before it, however transactions interleave and whichever roll back  *)
(* (SqlAuditLog.append, pg_advisory_xact_lock).                            *)
ChainIntact == Chained(audit)

(* The events of one transaction follow each other in the tenant's chain:  *)
(* nobody gets in between, since the lock is kept until the commit.        *)
TransactionsUnbroken ==
    \A p, q, r \in audit :
        /\ p.tenant = q.tenant /\ q.tenant = r.tenant
        /\ p.sequence < q.sequence /\ q.sequence < r.sequence
        /\ p.content[1] = r.content[1]
        => q.content[1] = p.content[1]

(* An event reaches the outbox of exactly the subscriptions that are       *)
(* active, in the committed state, at the moment the event itself is       *)
(* committed: a subscription made or disabled in between would show        *)
(* (SqlAuditLog._publish, create_ and disable_webhook_subscription).       *)
FanOutFollowsChain ==
    [][\A e \in events' \ events :
          {d.subscription : d \in {x \in deliveries' : x.event = e}} =
              {s \in Subscriptions : Owner[s] = e.tenant /\ subscribed[s] = "active"}]_vars

(* No transaction waits for ever: the reapers take the locks of several    *)
(* tenants in the order of their rows and may wait for each other.         *)
TransactionsEnd == \A t \in Transactions : phase[t] = "open" ~> phase[t] # "open"

-----------------------------------------------------------------------------
(* The deliveries.                                                         *)

(* What is settled stays settled, and is not posted again by anybody       *)
(* (process_batch, SKIP LOCKED).                                           *)
SettledIsFinal ==
    [][\A d \in Deliveries :
          delivery[d].status # "pending" =>
              delivery'[d] = delivery[d] /\ posts'[d] = posts[d]]_vars

(* A subscriber receives a delivery at most webhook_max_attempts times,    *)
(* and once more for each batch that broke down after its posts            *)
(* (WebhookWorker._fail).                                                  *)
PostsBounded == \A d \in Deliveries : posts[d] <= MaxTries + breakdowns

(* A delivery is settled for a reason: delivered if the subscriber         *)
(* accepted it, dead after a refusal or all its tries, cancelled if the    *)
(* subscription is disabled; a batch that broke down leaves no verdict     *)
(* behind (WebhookWorker._deliver).                                        *)
SettledForReason ==
    \A d \in Deliveries :
        /\ delivery[d].status = "delivered" => accepted[d] > 0
        /\ delivery[d].status = "dead_letter" =>
              posts[d] > accepted[d] \/ delivery[d].tries = MaxTries
        /\ delivery[d].status = "cancelled" => subscribed[d.subscription] = "disabled"

(***************************************************************************)
(* The implementation of OutboxPromise: a tenant's history is what its     *)
(* newest committed row stands for, and the fate of a delivery is its      *)
(* committed status.                                                       *)
(***************************************************************************)
Past(rows) == IF rows = {} THEN Genesis ELSE HashOf(CHOOSE r \in Newest(rows) : TRUE)
History(tn) == Past({r \in audit : r.tenant = tn})

Promise == INSTANCE OutboxPromise WITH
    Entries <- Contents,
    Fates <- Outcomes,
    history <- [tn \in Tenants |-> History(tn)],
    published <- events,
    owed <- deliveries,
    active <- subscribed,
    fate <- [d \in Deliveries |-> delivery[d].status]

(* A tenant's history is never rewritten, whatever rolls back or breaks    *)
(* down: it grows by whole transactions, nothing is published or subscribed*)
(* without an entry, events go to whom is subscribed, and what is settled  *)
(* is neither settled again nor posted (SqlAuditLog, WebhookWorker).       *)
KeepsOutboxPromise == Promise!PromiseSpec

(* Every event in the outbox is delivered, given up or cancelled some day. *)
DeliveriesSettle ==
    \A d \in Deliveries : d \in deliveries ~> delivery[d].status # "pending"
=============================================================================
