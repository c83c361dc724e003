---------------------------- MODULE AuditOutbox ----------------------------
(***************************************************************************)
(* The tenant's hash-chained audit log and the outbox of domain events     *)
(* (SqlAuditLog in helpdesktool/persistence.py), as the database           *)
(* transactions that append to them: request handlers, which belong to one *)
(* tenant, and the background reapers, which work for all.                 *)
(*                                                                         *)
(* A transaction takes the tenant's advisory lock before it reads the head *)
(* of the chain and holds it until it ends; what it writes is seen by      *)
(* itself at once and by the others when it commits.  Statements read what *)
(* is committed when they start (READ COMMITTED).  The hash of a row is    *)
(* the row's whole past: equal hashes mean equal pasts, as SHA-256 is      *)
(* taken to be free of collisions.                                         *)
(***************************************************************************)
EXTENDS Integers, Sequences, FiniteSets

CONSTANTS
    Tenants,
    Transactions,   \* every transaction of the instance; each happens once
    Subscriptions,  \* webhook subscriptions
    Owner,          \* Owner[s]: the tenant of subscription s
    Kinds,          \* kinds of audit events that happen in the instance
    MaxAppends,     \* bound of the model: audit events of one transaction
    NoTransaction, NoTenant

ASSUME OutboxAssumption ==
    /\ Owner \in [Subscriptions -> Tenants]
    /\ MaxAppends \in Nat \ {0}
    /\ NoTransaction \notin Transactions
    /\ NoTenant \notin Tenants

(* Audit events by what they publish: nothing, one domain event, or (an    *)
(* evaluation that asks for an approval) two.                              *)
Published == [unmapped |-> {}, mapped |-> {1}, approval |-> {1, 2}]

ASSUME KindsAssumption == Kinds \subseteq DOMAIN Published

(* The content of an audit event: the transaction that wrote it, and which *)
(* of its events it is.                                                    *)
Contents == Transactions \X (1..MaxAppends)
Genesis == <<>>
Rows == [tenant : Tenants, sequence : Nat \ {0}, previous : Seq(Contents),
         content : Contents]
Events == [tenant : Tenants, cause : Contents, n : {1, 2}]
Deliveries == [event : Events, subscription : Subscriptions]
Changes == [Subscriptions -> {"none", "active", "disabled"}]

VARIABLES
    audit,          \* committed AuditEventRows
    events,         \* committed DomainEventRows
    deliveries,     \* committed WebhookDelivery rows
    subscribed,     \* WebhookSubscription.active, or "none"
    lock,           \* who holds the advisory lock of a tenant
    phase,          \* how far a transaction is
    waiting,        \* the tenant whose lock a transaction waits for
    draft           \* what a transaction has written and not committed

committedVars == <<audit, events, deliveries, subscribed>>
outboxVars == <<committedVars, lock, phase, waiting, draft>>

(* A draft's "change" is what becomes of the subscriptions; "none" leaves  *)
(* one as it is.                                                           *)
NoChange == [s \in Subscriptions |-> "none"]
EmptyDraft == [rows |-> {}, events |-> {}, deliveries |-> {}, change |-> NoChange]
Drafts == [rows : SUBSET Rows, events : SUBSET Events,
           deliveries : SUBSET Deliveries, change : Changes]

OutboxTypeOK ==
    /\ audit \subseteq Rows
    /\ events \subseteq Events
    /\ deliveries \subseteq Deliveries
    /\ subscribed \in Changes
    /\ lock \in [Tenants -> Transactions \cup {NoTransaction}]
    /\ phase \in [Transactions -> {"new", "open", "committed", "rolled back"}]
    /\ waiting \in [Transactions -> Tenants \cup {NoTenant}]
    /\ draft \in [Transactions -> Drafts]

OutboxInit ==
    /\ audit = {} /\ events = {} /\ deliveries = {}
    /\ subscribed = NoChange
    /\ lock = [tn \in Tenants |-> NoTransaction]
    /\ phase = [t \in Transactions |-> "new"]
    /\ waiting = [t \in Transactions |-> NoTenant]
    /\ draft = [t \in Transactions |-> EmptyDraft]

-----------------------------------------------------------------------------
(* What a handler or reaper has still to append: a change of a subscription*)
(* is the only event of its handler.                                       *)
MayAppend(t) ==
    /\ Cardinality(draft[t].rows) < MaxAppends
    /\ draft[t].change = NoChange

(* The call of pg_advisory_xact_lock in append, which returns at once if   *)
(* the transaction has the lock already.  What a handler does before its   *)
(* first audit event does not show here.                                   *)
Call(t, tn) ==
    /\ phase[t] \in {"new", "open"}
    /\ phase' = [phase EXCEPT ![t] = "open"]
    /\ waiting[t] = NoTenant
    /\ lock[tn] # t
    /\ MayAppend(t)
    /\ waiting' = [waiting EXCEPT ![t] = tn]
    /\ UNCHANGED <<committedVars, lock, draft>>

Obtain(t) ==
    /\ waiting[t] # NoTenant
    /\ lock[waiting[t]] = NoTransaction
    /\ lock' = [lock EXCEPT ![waiting[t]] = t]
    /\ waiting' = [waiting EXCEPT ![t] = NoTenant]
    /\ UNCHANGED <<committedVars, phase, draft>>

(* Mutation: the advisory lock is not taken.                               *)
HoldsAnything(t, tn) == TRUE

Holds(t, tn) == lock[tn] = t

(* What the SELECT in append sees of a tenant's chain: committed rows and  *)
(* the transaction's own.                                                  *)
Visible(t, tn) == {r \in audit \cup draft[t].rows : r.tenant = tn}

HashOf(r) == Append(r.previous, r.content)

(* The row append writes after "last", the newest it sees, if there is one.*)
NextRow(t, tn, last) ==
    LET content == <<t, Cardinality(draft[t].rows) + 1>>
    IN  IF last = {}
        THEN [tenant |-> tn, sequence |-> 1, previous |-> Genesis, content |-> content]
        ELSE LET r == CHOOSE r \in last : TRUE
             IN  [tenant |-> tn, sequence |-> r.sequence + 1, previous |-> HashOf(r),
                  content |-> content]

(* ORDER BY sequence DESC LIMIT 1                                          *)
Newest(rows) == {r \in rows : \A q \in rows : q.sequence <= r.sequence}

(* The subscriptions _publish fans an event out to.                        *)
Targets(tn) == {s \in Subscriptions : Owner[s] = tn /\ subscribed[s] = "active"}

(* SqlAuditLog.append once the lock is held: the row, the domain events of *)
(* its kind, and a delivery to each subscription that is active (and wants *)
(* the event: the subscriptions of the model want every kind).             *)
AppendEvent(t, tn, kind, change) ==
    LET row == NextRow(t, tn, Newest(Visible(t, tn)))
        published == {[tenant |-> tn, cause |-> row.content, n |-> n] : n \in Published[kind]}
    IN  /\ phase[t] = "open"
        /\ waiting[t] = NoTenant
        /\ Holds(t, tn)
        /\ MayAppend(t)
        /\ draft' = [draft EXCEPT ![t] =
              [rows |-> @.rows \cup {row},
               events |-> @.events \cup published,
               deliveries |-> @.deliveries \cup
                   {[event |-> e, subscription |-> s] : e \in published, s \in Targets(tn)},
               change |-> change]]
        /\ UNCHANGED <<committedVars, lock, phase, waiting>>

(* An audited change of something the outbox does not look at.             *)
Record(t, tn, kind) == AppendEvent(t, tn, kind, NoChange)

(* POST /v1/integrations/webhooks: the first and only event of its handler.*)
Subscribe(t, s) ==
    /\ draft[t].rows = {}
    /\ subscribed[s] = "none"
    /\ AppendEvent(t, Owner[s], "unmapped", [NoChange EXCEPT ![s] = "active"])

(* DELETE /v1/integrations/webhooks/{id}                                   *)
Disable(t, s) ==
    /\ draft[t].rows = {}
    /\ subscribed[s] # "none"
    /\ AppendEvent(t, Owner[s], "unmapped", [NoChange EXCEPT ![s] = "disabled"])

(* Mutation: a lock of the session instead of one of the transaction.      *)
ReleaseNothing(t) ==
    /\ waiting' = [waiting EXCEPT ![t] = NoTenant]
    /\ draft' = [draft EXCEPT ![t] = EmptyDraft]
    /\ UNCHANGED lock

(* The transaction's locks go with it, and so does its wait.               *)
Release(t) ==
    /\ lock' = [tn \in Tenants |-> IF lock[tn] = t THEN NoTransaction ELSE lock[tn]]
    /\ waiting' = [waiting EXCEPT ![t] = NoTenant]
    /\ draft' = [draft EXCEPT ![t] = EmptyDraft]

Commit(t) ==
    /\ phase[t] = "open"
    /\ waiting[t] = NoTenant
    /\ phase' = [phase EXCEPT ![t] = "committed"]
    /\ audit' = audit \cup draft[t].rows
    /\ events' = events \cup draft[t].events
    /\ deliveries' = deliveries \cup draft[t].deliveries
    /\ subscribed' = [s \in Subscriptions |->
                         IF draft[t].change[s] # "none"
                         THEN draft[t].change[s] ELSE subscribed[s]]
    /\ Release(t)

(* An error in the handler, a lost connection, or the database's choice of *)
(* a victim.                                                               *)
RollBack(t) ==
    /\ phase[t] = "open"
    /\ phase' = [phase EXCEPT ![t] = "rolled back"]
    /\ Release(t)
    /\ UNCHANGED committedVars

(* t is on a cycle of transactions each waiting for the next: a set in     *)
(* which everybody waits for a member and is waited for by a member.       *)
Deadlocked(t) ==
    \E S \in SUBSET Transactions :
        /\ t \in S
        /\ \A x \in S :
              /\ waiting[x] # NoTenant /\ lock[waiting[x]] \in S
              /\ \E y \in S : waiting[y] # NoTenant /\ lock[waiting[y]] = x

OutboxNext ==
    \E t \in Transactions :
        \/ Obtain(t) \/ Commit(t) \/ RollBack(t)
        \/ \E tn \in Tenants : Call(t, tn)
        \/ \E tn \in Tenants, kind \in Kinds : Record(t, tn, kind)
        \/ \E s \in Subscriptions : Subscribe(t, s) \/ Disable(t, s)
=============================================================================
