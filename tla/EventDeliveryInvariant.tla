----------------------- MODULE EventDeliveryInvariant -----------------------
(***************************************************************************)
(* The inductive invariant of EventDelivery: why the advisory lock keeps   *)
(* the chain, and why the row locks of the workers keep the count of posts.*)
(***************************************************************************)
EXTENDS EventDelivery

Of(rows, tn) == {r \in rows : r.tenant = tn}

(* There is a newest row, unless there is none.                            *)
HasHead(rows) == rows = {} \/ Newest(rows) # {}

(* What a transaction has not committed is of the tenants whose locks it   *)
(* holds, is its own, and is numbered by its appends.                      *)
DraftsLocked ==
    \A t \in Transactions :
        /\ IsFiniteSet(draft[t].rows)
        /\ draft[t] # EmptyDraft => phase[t] = "open"
        /\ \A r \in draft[t].rows : lock[r.tenant] = t /\ r.content[1] = t
        /\ \A e \in draft[t].events :
              /\ lock[e.tenant] = t
              /\ e.cause[1] = t
              /\ e.cause[2] <= Cardinality(draft[t].rows)
        /\ \A d \in draft[t].deliveries : d.event \in draft[t].events
        /\ \A s \in Subscriptions : draft[t].change[s] # "none" => lock[Owner[s]] = t

(* Every transaction sees an intact chain with a newest row, and its drafts*)
(* come after everything committed.                                        *)
ViewsChained ==
    /\ \A tn \in Tenants : Chained(Of(audit, tn)) /\ HasHead(Of(audit, tn))
    /\ \A t \in Transactions, tn \in Tenants :
          Chained(Visible(t, tn)) /\ HasHead(Visible(t, tn))
    /\ \A t \in Transactions : \A r \in draft[t].rows, q \in audit :
          q.tenant = r.tenant => q.sequence < r.sequence

(* What is committed is of transactions that have committed.               *)
CommittedCauses ==
    /\ \A r \in audit : phase[r.content[1]] = "committed"
    /\ \A e \in events : phase[e.cause[1]] = "committed"
    /\ \A d \in deliveries : d.event \in events

(* A draft event goes to the subscriptions that are active now, and a      *)
(* subscription is made once.                                              *)
FanOutCurrent ==
    /\ \A t \in Transactions :
          /\ \A e \in draft[t].events :
                {d.subscription : d \in {x \in draft[t].deliveries : x.event = e}} =
                    Targets(e.tenant)
          /\ draft[t].change # NoChange => draft[t].events = {}
          /\ \A s \in Subscriptions :
                draft[t].change[s] = "active" => subscribed[s] = "none"
    /\ \A d \in deliveries : subscribed[d.subscription] # "none"

ChainInvariant ==
    /\ OutboxTypeOK
    /\ DraftsLocked
    /\ ViewsChained
    /\ CommittedCauses
    /\ TransactionsUnbroken
    /\ FanOutCurrent

(* What OutboxPromise rests on besides: a draft continues the history that *)
(* is committed, with entries of its own transaction ...                   *)
DraftsContinue ==
    \A t \in Transactions : \A r \in draft[t].rows :
        Promise!Continues(r.previous, History(r.tenant), t)

(* ... a row's number is its place in history, and a draft knows those     *)
(* before it ...                                                           *)
RowsPlaced ==
    /\ \A r \in audit : Len(r.previous) = r.sequence - 1
    /\ \A t \in Transactions :
          /\ \A r \in draft[t].rows : Len(r.previous) = r.sequence - 1
          /\ \A q, r \in draft[t].rows :
                q.tenant = r.tenant /\ q.sequence < r.sequence =>
                    r.previous[q.sequence] = q.content

(* ... history is of transactions that have committed ...                  *)
HistoryCommitted ==
    \A tn \in Tenants : \A i \in 1..Len(History(tn)) :
        phase[History(tn)[i][1]] = "committed"

(* ... and what a draft publishes, or makes of a subscription, it records. *)
DraftsRecorded ==
    \A t \in Transactions :
        /\ \A e \in draft[t].events :
              \E r \in draft[t].rows : r.tenant = e.tenant /\ r.content = e.cause
        /\ \A s \in Subscriptions : draft[t].change[s] # "none" =>
              /\ \E r \in draft[t].rows : r.tenant = Owner[s]
              /\ draft[t].change[s] = "disabled" => subscribed[s] # "none"

HistoryInvariant == DraftsContinue /\ RowsPlaced /\ HistoryCommitted /\ DraftsRecorded

-----------------------------------------------------------------------------
(* Batches are disjoint, and hold nothing that is settled.                 *)
BatchesLocked ==
    /\ \A w \in Workers :
          /\ todo[w] \subseteq batch[w]
          /\ batch[w] \subseteq deliveries
          /\ \A d \in batch[w] : delivery[d].status = "pending"
    /\ \A w, v \in Workers : w # v => batch[w] \cap batch[v] = {}

(* A try is left while a delivery is pending; a worker has tried what is   *)
(* no longer to do exactly once.                                           *)
TriesCounted ==
    /\ \A d \in Deliveries : delivery[d].status = "pending" => delivery[d].tries < MaxTries
    /\ \A w \in Workers :
          /\ \A d \in todo[w] : written[w][d] = delivery[d]
          /\ \A d \in batch[w] \ todo[w] :
                /\ written[w][d].tries = delivery[d].tries + 1
                /\ written[w][d].status = "pending" => written[w][d].tries < MaxTries

(* A post is a try somebody has counted, or was lost with its batch.       *)
PostsCounted ==
    /\ \A d \in Deliveries : accepted[d] <= posts[d]
    /\ \A d \in Deliveries :
          (\A w \in Workers : d \notin batch[w]) =>
              posts[d] <= delivery[d].tries + breakdowns
    /\ \A w \in Workers : \A d \in batch[w] :
          posts[d] <= written[w][d].tries + breakdowns

(* The verdict "status" about d after "tries" tries has its reason.        *)
Reasoned(d, status, tries) ==
    /\ status = "delivered" => accepted[d] > 0
    /\ status = "dead_letter" => posts[d] > accepted[d] \/ tries = MaxTries
    /\ status = "cancelled" => subscribed[d.subscription] = "disabled"

VerdictsReasoned ==
    /\ \A d \in Deliveries : Reasoned(d, delivery[d].status, delivery[d].tries)
    /\ \A w \in Workers :
          /\ \A d \in batch[w] \ todo[w] :
                Reasoned(d, written[w][d].status, written[w][d].tries)
          /\ \A s \in Subscriptions :
                loaded[w][s] = "disabled" => subscribed[s] = "disabled"

DeliveryInvariant ==
    /\ WorkerTypeOK
    /\ BatchesLocked
    /\ TriesCounted
    /\ PostsCounted
    /\ VerdictsReasoned
=============================================================================
