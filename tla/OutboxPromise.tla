--------------------------- MODULE OutboxPromise ---------------------------
(***************************************************************************)
(* What the audit log and its outbox promise a tenant and its subscribers, *)
(* with no lock, draft or batch in sight.  A tenant has one history, which *)
(* only ever grows at its end, and a transaction adds to the histories all *)
(* it has to add at once.  Subscriptions change, and domain events are     *)
(* published, only with an entry that is added; an event goes to exactly   *)
(* the subscriptions that are active then.  What a subscriber is owed is   *)
(* posted to it until its fate is settled, for good.                       *)
(***************************************************************************)
EXTENDS Integers, Sequences

CONSTANTS Tenants, Transactions, Subscriptions, Owner,
          Entries,      \* <<t, n>>: the n-th audit event of transaction t
          Events, Deliveries, Fates

VARIABLES
    history,    \* history[tn]: the entries of tenant tn, the oldest first
    published,  \* domain events
    owed,       \* deliveries of events to subscriptions
    active,     \* active[s]: "none" before s is made, "active" or "disabled"
    fate,       \* "pending" until a delivery is settled
    posts,      \* how often a delivery has been posted
    accepted    \* how often the subscriber has accepted it

promiseVars == <<history, published, owed, active, fate, posts, accepted>>

PromiseInit ==
    /\ history = [tn \in Tenants |-> <<>>]
    /\ published = {} /\ owed = {}
    /\ active = [s \in Subscriptions |-> "none"]
    /\ fate = [d \in Deliveries |-> "pending"]
    /\ posts = [d \in Deliveries |-> 0]
    /\ accepted = [d \in Deliveries |-> 0]

(* "after" is "before" with entries of t, if any, at its end.              *)
Continues(after, before, t) ==
    /\ Len(before) <= Len(after)
    /\ \A i \in 1..Len(before) : after[i] = before[i]
    /\ \A i \in (Len(before) + 1)..Len(after) : after[i][1] = t

(* Entry x is one of those a step adds to the history of tn.               *)
Added(tn, x) == \E i \in (Len(history[tn]) + 1)..Len(history'[tn]) : history'[tn][i] = x

Extend(t) ==
    /\ \A tn \in Tenants : \A i \in 1..Len(history[tn]) : history[tn][i][1] # t
    /\ history' \in [Tenants -> Seq(Entries)]
    /\ \A tn \in Tenants : Continues(history'[tn], history[tn], t)
    /\ published \subseteq published' /\ published' \subseteq Events
    /\ \A e \in published' \ published : Added(e.tenant, e.cause)
    /\ owed' = owed \cup
          {d \in Deliveries : /\ d.event \in published' \ published
                              /\ Owner[d.subscription] = d.event.tenant
                              /\ active[d.subscription] = "active"}
    /\ \A s \in Subscriptions : active'[s] # active[s] =>
          /\ <<active[s], active'[s]>> \in {<<"none", "active">>, <<"active", "disabled">>}
          /\ \E x \in Entries : Added(Owner[s], x)
    /\ UNCHANGED <<fate, posts, accepted>>

Post(d) ==
    /\ d \in owed
    /\ fate[d] = "pending"
    /\ posts' = [posts EXCEPT ![d] = @ + 1]
    /\ \E n \in {0, 1} : accepted' = [accepted EXCEPT ![d] = @ + n]
    /\ UNCHANGED <<history, published, owed, active, fate>>

Settle ==
    /\ fate' \in [Deliveries -> Fates]
    /\ \A d \in Deliveries : fate'[d] # fate[d] =>
          /\ d \in owed
          /\ fate[d] = "pending"
          /\ fate'[d] = "delivered" => accepted[d] > 0
          /\ fate'[d] = "cancelled" => active[d.subscription] = "disabled"
    /\ UNCHANGED <<history, published, owed, active, posts, accepted>>

PromiseNext ==
    \/ \E t \in Transactions : Extend(t)
    \/ \E d \in Deliveries : Post(d)
    \/ Settle

PromiseSpec == PromiseInit /\ [][PromiseNext]_promiseVars
=============================================================================
