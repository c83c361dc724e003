------------------------ MODULE EventDelivery_proofs ------------------------
(***************************************************************************)
(* ChainInvariant and DeliveryInvariant are inductive - first the steps of *)
(* the audit log and the outbox, then those of the workers - and the       *)
(* theorems about EventDelivery.                                           *)
(***************************************************************************)
EXTENDS EventDeliveryInvariant, FiniteSetTheorems, TLAPS


(* The newest of a tenant's rows, if there are any (ORDER BY sequence DESC *)
(* LIMIT 1).                                                               *)
LEMMA HeadRow ==
    ASSUME NEW R \in SUBSET Rows, HasHead(R), R # {}
    PROVE  LET r == CHOOSE r \in Newest(R) : TRUE
           IN  r \in R /\ \A q \in R : q.sequence <= r.sequence
BY DEF HasHead, Newest

(* A row appended after the newest keeps the chain, and is the newest      *)
(* (SqlAuditLog.append).                                                   *)
LEMMA ChainGrows ==
    ASSUME NEW t \in Transactions, NEW tn \in Tenants, NEW R \in SUBSET Rows,
           \A r \in R : r.tenant = tn,
           Chained(R), HasHead(R),
           <<t, Cardinality(draft[t].rows) + 1>> \in Contents,
           NEW row, row = NextRow(t, tn, Newest(R))
    PROVE  /\ row \in Rows
           /\ row.tenant = tn
           /\ row.content = <<t, Cardinality(draft[t].rows) + 1>>
           /\ \A q \in R : q.sequence < row.sequence
           /\ Chained(R \cup {row})
           /\ HasHead(R \cup {row})
<1> DEFINE c == <<t, Cardinality(draft[t].rows) + 1>>
<1> HIDE DEF c
<1>c. c \in Contents
  BY DEF c
<1>1. CASE R = {}
  <2>1. row = [tenant |-> tn, sequence |-> 1, previous |-> Genesis, content |-> c]
    BY <1>1 DEF NextRow, Newest, c
  <2>2. row \in Rows
    BY <2>1, <1>c DEF Rows, Genesis
  <2>3. Chained(R \cup {row}) /\ HasHead(R \cup {row})
    BY <1>1, <2>1 DEF Chained, HasHead, Newest
  <2> QED
    BY <1>1, <2>1, <2>2, <2>3 DEF c
<1>2. CASE R # {}
  <2> DEFINE r == CHOOSE r \in Newest(R) : TRUE
  <2>1. r \in R /\ \A q \in R : q.sequence <= r.sequence
    BY <1>2, HeadRow
  <2>2. Newest(R) # {}
    BY <1>2 DEF HasHead
  <2>3. row = [tenant |-> tn, sequence |-> r.sequence + 1, previous |-> HashOf(r), content |-> c]
    BY <2>2 DEF NextRow, c
  <2> HIDE DEF r
  <2>4. r \in Rows /\ r.sequence \in Nat \ {0} /\ r.tenant = tn
    BY <2>1 DEF Rows
  <2>5. HashOf(r) \in Seq(Contents)
    BY <2>4 DEF Rows, HashOf
  <2>6. row \in Rows
    BY <2>3, <2>4, <2>5, <1>c DEF Rows
  <2>7. \A q \in R : q.sequence \in Nat /\ q.sequence < row.sequence
    BY <2>1, <2>3, <2>4 DEF Rows
  <2>8. Chained(R \cup {row})
    <3> SUFFICES ASSUME NEW p \in R \cup {row}
                 PROVE  /\ \A q \in R \cup {row} :
                              q.tenant = p.tenant /\ q.sequence = p.sequence => q = p
                        /\ IF p.sequence = 1
                           THEN p.previous = Genesis
                           ELSE \E q \in R \cup {row} :
                                   /\ q.tenant = p.tenant
                                   /\ q.sequence = p.sequence - 1
                                   /\ p.previous = HashOf(q)
      BY DEF Chained
    <3>1. CASE p \in R
      BY <3>1, <2>7, <2>3 DEF Chained
    <3>2. CASE p = row
      <4>1. row.sequence # 1 /\ row.sequence - 1 = r.sequence /\ row.previous = HashOf(r)
            /\ row.tenant = r.tenant
        BY <2>3, <2>4
      <4>2. \A q \in R \cup {row} : q.sequence = row.sequence => q = row
        BY <2>7
      <4> QED
        BY <3>2, <4>1, <4>2, <2>1
    <3> QED
      BY <3>1, <3>2
  <2>9. HasHead(R \cup {row})
    <3>1. row.sequence \in Nat
      BY <2>3, <2>4
    <3>2. \A q \in R \cup {row} : q.sequence <= row.sequence
      BY <2>7, <3>1
    <3>3. row \in Newest(R \cup {row})
      BY <3>2 DEF Newest
    <3> QED
      BY <3>3 DEF HasHead
  <2> QED
    BY <2>3, <2>6, <2>7, <2>8, <2>9 DEF c
<1> QED
  BY <1>1, <1>2
-----------------------------------------------------------------------------
(* What an append writes.                                                  *)
NewRow(t, tn) == NextRow(t, tn, Newest(Visible(t, tn)))

NewEvents(t, tn, kind) ==
    {[tenant |-> tn, cause |-> NewRow(t, tn).content, n |-> n] : n \in Published[kind]}

NewDeliveries(t, tn, kind) ==
    {[event |-> e, subscription |-> s] : e \in NewEvents(t, tn, kind), s \in Targets(tn)}

(* The row an append adds to the transaction's draft (SqlAuditLog.append). *)
LEMMA RowAppended ==
    ASSUME ChainInvariant,
           NEW t \in Transactions, NEW tn \in Tenants, MayAppend(t)
    PROVE  LET row == NewRow(t, tn) IN
           /\ row \in Rows /\ row.tenant = tn /\ row.content[1] = t
           /\ row.content[2] = Cardinality(draft[t].rows) + 1
           /\ \A q \in Visible(t, tn) : q.sequence < row.sequence
           /\ Chained(Visible(t, tn) \cup {row}) /\ HasHead(Visible(t, tn) \cup {row})
           /\ IsFiniteSet(draft[t].rows \cup {row})
           /\ Cardinality(draft[t].rows \cup {row}) = Cardinality(draft[t].rows) + 1
           /\ Cardinality(draft[t].rows) \in Nat
<1> DEFINE row == NewRow(t, tn)
<1>1. IsFiniteSet(draft[t].rows) /\ Cardinality(draft[t].rows) < MaxAppends
  BY DEF ChainInvariant, DraftsLocked, MayAppend
<1>2. Cardinality(draft[t].rows) \in Nat
  BY <1>1, FS_CardinalityType
<1>3. <<t, Cardinality(draft[t].rows) + 1>> \in Contents
  BY <1>1, <1>2, OutboxAssumption DEF Contents
<1>4. Visible(t, tn) \in SUBSET Rows /\ \A r \in Visible(t, tn) : r.tenant = tn
  BY DEF ChainInvariant, OutboxTypeOK, Drafts, Visible
<1>5. Chained(Visible(t, tn)) /\ HasHead(Visible(t, tn))
  BY DEF ChainInvariant, ViewsChained
<1>6. /\ row \in Rows /\ row.tenant = tn
      /\ row.content = <<t, Cardinality(draft[t].rows) + 1>>
      /\ \A q \in Visible(t, tn) : q.sequence < row.sequence
      /\ Chained(Visible(t, tn) \cup {row}) /\ HasHead(Visible(t, tn) \cup {row})
  <2> DEFINE V == Visible(t, tn)
  <2>1. /\ V \in SUBSET Rows /\ (\A r \in V : r.tenant = tn) /\ Chained(V) /\ HasHead(V)
        /\ row = NextRow(t, tn, Newest(V))
    BY <1>4, <1>5 DEF NewRow
  <2> HIDE DEF V, row
  <2>2. /\ row \in Rows /\ row.tenant = tn
        /\ row.content = <<t, Cardinality(draft[t].rows) + 1>>
        /\ \A q \in V : q.sequence < row.sequence
        /\ Chained(V \cup {row}) /\ HasHead(V \cup {row})
    BY <1>3, <2>1, ChainGrows
  <2> QED
    BY <2>2 DEF V
<1> HIDE DEF row
<1>7. row \notin draft[t].rows
  <2>1. row.sequence \in Nat
    BY <1>6 DEF Rows
  <2> QED
    BY <1>6, <2>1 DEF Visible
<1>8. /\ IsFiniteSet(draft[t].rows \cup {row})
      /\ Cardinality(draft[t].rows \cup {row}) = Cardinality(draft[t].rows) + 1
  BY <1>1, <1>7, FS_AddElement
<1>9. row.content[1] = t /\ row.content[2] = Cardinality(draft[t].rows) + 1
  BY <1>6
<1> QED
  BY <1>2, <1>6, <1>8, <1>9 DEF row

(* The draft after an append (SqlAuditLog.append, SqlAuditLog._publish).   *)
LEMMA DraftAppended ==
    ASSUME ChainInvariant,
           NEW t \in Transactions, NEW tn \in Tenants, NEW kind \in DOMAIN Published,
           NEW change \in Changes, AppendEvent(t, tn, kind, change),
           NewRow(t, tn) \in Rows
    PROVE  LET row == NewRow(t, tn)
               P == NewEvents(t, tn, kind)
           IN
           /\ P \in SUBSET Events
           /\ \A e \in P : e.tenant = tn /\ e.cause = row.content
           /\ draft'[t].rows = draft[t].rows \cup {row}
           /\ draft'[t].events = draft[t].events \cup P
           /\ draft'[t].deliveries = draft[t].deliveries \cup
                 NewDeliveries(t, tn, kind)
           /\ draft'[t].change = change
           /\ \A u \in Transactions \ {t} : draft'[u] = draft[u]
           /\ draft' \in [Transactions -> Drafts]
<1> DEFINE row == NewRow(t, tn)
           P == NewEvents(t, tn, kind)
           fan == NewDeliveries(t, tn, kind)
<1>1. Published[kind] \subseteq {1, 2}
  BY DEF Published
<1>2. P \in SUBSET Events
  BY <1>1 DEF Events, Rows, NewEvents
<1>3. \A e \in P : e.tenant = tn /\ e.cause = row.content
  BY DEF NewEvents
<1> DEFINE D == [rows |-> draft[t].rows \cup {row}, events |-> draft[t].events \cup P,
                 deliveries |-> draft[t].deliveries \cup fan,
                 change |-> change]
<1>4. draft \in [Transactions -> Drafts]
  BY DEF ChainInvariant, OutboxTypeOK
<1>5. draft' = [draft EXCEPT ![t] = D]
  BY <1>4 DEF AppendEvent, NewRow, NewEvents, NewDeliveries
<1>6. D \in Drafts
  <2>1. draft[t] \in Drafts
    BY <1>4
  <2>2. fan \in SUBSET Deliveries
    BY <1>2 DEF Deliveries, Targets, NewDeliveries
  <2> QED
    BY <2>1, <2>2, <1>2 DEF Drafts
<1>7. draft' \in [Transactions -> Drafts]
  BY <1>4, <1>5, <1>6
<1>8. draft'[t] = D /\ \A u \in Transactions \ {t} : draft'[u] = draft[u]
  BY <1>4, <1>5
<1>9. /\ D.rows = draft[t].rows \cup {row}
      /\ D.events = draft[t].events \cup P
      /\ D.deliveries = draft[t].deliveries \cup fan
      /\ D.change = change
  OBVIOUS
<1> HIDE DEF D
<1> QED
  BY <1>2, <1>3, <1>7, <1>8, <1>9

(* What an append leaves as it was, and what transactions see after it.    *)
LEMMA AppendedView ==
    ASSUME ChainInvariant,
           NEW t \in Transactions, NEW tn \in Tenants,
           NEW row, row.tenant = tn,
           UNCHANGED audit,
           draft'[t].rows = draft[t].rows \cup {row},
           \A u \in Transactions \ {t} : draft'[u] = draft[u]
    PROVE  /\ Visible(t, tn)' = Visible(t, tn) \cup {row}
           /\ \A x \in Tenants \ {tn} : Visible(t, x)' = Visible(t, x)
           /\ \A u \in Transactions \ {t}, x \in Tenants : Visible(u, x)' = Visible(u, x)
BY DEF Visible
-----------------------------------------------------------------------------
(* The empty database (db_models.py).                                      *)
LEMMA ChainInit == OutboxInit => ChainInvariant
<1> SUFFICES ASSUME OutboxInit PROVE ChainInvariant
  OBVIOUS
<1> USE DEF OutboxInit
<1>1. EmptyDraft \in Drafts
  BY DEF EmptyDraft, Drafts, NoChange, Changes
<1>2. OutboxTypeOK
  BY <1>1, OutboxAssumption DEF OutboxTypeOK, Changes, NoChange
<1>3. DraftsLocked
  BY FS_EmptySet DEF DraftsLocked, EmptyDraft, NoChange
<1>4. ViewsChained
  BY DEF ViewsChained, EmptyDraft, Of, Visible, Chained, HasHead
<1>5. CommittedCauses /\ TransactionsUnbroken
  BY DEF CommittedCauses, TransactionsUnbroken
<1>6. FanOutCurrent
  BY DEF FanOutCurrent, EmptyDraft, NoChange
<1> QED
  BY <1>2, <1>3, <1>4, <1>5, <1>6 DEF ChainInvariant

(* Waiting for and getting a lock (pg_advisory_xact_lock).                 *)
LEMMA ChainLock ==
    ASSUME ChainInvariant, NEW t \in Transactions,
           (\E tn \in Tenants : Call(t, tn)) \/ Obtain(t)
    PROVE  ChainInvariant'
<1> USE DEF ChainInvariant
<1>1. UNCHANGED committedVars /\ UNCHANGED draft
  BY DEF Call, Obtain
<1>2. OutboxTypeOK'
  BY DEF OutboxTypeOK, Call, Obtain, committedVars
<1>3. \A tn \in Tenants : lock[tn] \in Transactions => lock'[tn] = lock[tn]
  BY OutboxAssumption DEF OutboxTypeOK, Call, Obtain
<1>4. \A u \in Transactions :
         /\ phase[u] = "open" => phase'[u] = "open"
         /\ phase[u] = "committed" => phase'[u] = "committed"
  BY DEF OutboxTypeOK, Call, Obtain
<1>5. DraftsLocked'
  <2> SUFFICES ASSUME NEW u \in Transactions
               PROVE  /\ draft[u] # EmptyDraft => phase'[u] = "open"
                      /\ \A r \in draft[u].rows : lock'[r.tenant] = u
                      /\ \A e \in draft[u].events : lock'[e.tenant] = u
                      /\ \A s \in Subscriptions :
                            draft[u].change[s] # "none" => lock'[Owner[s]] = u
    BY <1>1 DEF DraftsLocked
  <2>1. draft[u] \in Drafts
    BY DEF OutboxTypeOK
  <2>2. /\ \A r \in draft[u].rows : r.tenant \in Tenants
        /\ \A e \in draft[u].events : e.tenant \in Tenants
        /\ \A s \in Subscriptions : Owner[s] \in Tenants
    BY <2>1, OutboxAssumption DEF Drafts, Rows, Events
  <2> QED
    BY <2>2, <1>3, <1>4 DEF DraftsLocked
<1>6. ViewsChained'
  BY <1>1 DEF ViewsChained, Of, Visible, committedVars
<1>7. CommittedCauses'
  <2>1. /\ \A r \in audit : r.content[1] \in Transactions
        /\ \A e \in events : e.cause[1] \in Transactions
    BY DEF OutboxTypeOK, Rows, Events, Contents
  <2> QED
    BY <1>1, <1>4, <2>1 DEF CommittedCauses, committedVars
<1>8. TransactionsUnbroken'
  BY <1>1 DEF TransactionsUnbroken, committedVars
<1>9. FanOutCurrent'
  BY <1>1 DEF FanOutCurrent, Targets, committedVars
<1> QED
  BY <1>2, <1>5, <1>6, <1>7, <1>8, <1>9

(* An append keeps the invariant: the lock makes the row it reads the last *)
(* of the chain, and the subscriptions it reads those of its commit.       *)
LEMMA ChainAppend ==
    ASSUME ChainInvariant,
           NEW t \in Transactions, NEW tn \in Tenants, NEW kind \in DOMAIN Published,
           NEW change \in Changes, AppendEvent(t, tn, kind, change),
           \A s \in Subscriptions : change[s] # "none" => Owner[s] = tn,
           \A s \in Subscriptions : change[s] = "active" => subscribed[s] = "none",
           change # NoChange => Published[kind] = {} /\ draft[t].rows = {}
    PROVE  ChainInvariant'
<1> DEFINE row == NewRow(t, tn)
           P == NewEvents(t, tn, kind)
           fan == NewDeliveries(t, tn, kind)
<1>1. /\ UNCHANGED <<audit, events, deliveries, subscribed, lock, phase, waiting>>
      /\ phase[t] = "open" /\ lock[tn] = t /\ MayAppend(t)
  BY DEF AppendEvent, Holds, committedVars
<1>2. /\ row \in Rows /\ row.tenant = tn /\ row.content[1] = t
      /\ row.content[2] = Cardinality(draft[t].rows) + 1
      /\ \A q \in Visible(t, tn) : q.sequence < row.sequence
      /\ Chained(Visible(t, tn) \cup {row}) /\ HasHead(Visible(t, tn) \cup {row})
      /\ IsFiniteSet(draft[t].rows \cup {row})
      /\ Cardinality(draft[t].rows \cup {row}) = Cardinality(draft[t].rows) + 1
      /\ Cardinality(draft[t].rows) \in Nat
  <2>1. MayAppend(t)
    BY <1>1
  <2> QED
    BY <2>1, RowAppended
<1>3. /\ P \in SUBSET Events
      /\ \A e \in P : e.tenant = tn /\ e.cause = row.content
      /\ draft'[t].rows = draft[t].rows \cup {row}
      /\ draft'[t].events = draft[t].events \cup P
      /\ draft'[t].deliveries = draft[t].deliveries \cup fan
      /\ draft'[t].change = change
      /\ \A u \in Transactions \ {t} : draft'[u] = draft[u]
      /\ draft' \in [Transactions -> Drafts]
  BY <1>2, DraftAppended
<1>p. Published[kind] = {} => P = {}
  BY DEF NewEvents
<1>f. \A d : d \in fan <=> \E e \in P, s \in Targets(tn) : d = [event |-> e, subscription |-> s]
  BY DEF NewDeliveries
<1> HIDE DEF row, P, fan
<1>4. draft[t].change = NoChange
  BY <1>1 DEF MayAppend
<1>5. \A u \in Transactions : draft[u] \in Drafts
  BY DEF ChainInvariant, OutboxTypeOK
<1>6. OutboxTypeOK'
  BY <1>1, <1>3 DEF ChainInvariant, OutboxTypeOK
<1>7. DraftsLocked'
  <2> SUFFICES ASSUME NEW u \in Transactions
               PROVE  /\ IsFiniteSet(draft'[u].rows)
                      /\ draft'[u] # EmptyDraft => phase[u] = "open"
                      /\ \A r \in draft'[u].rows : lock[r.tenant] = u /\ r.content[1] = u
                      /\ \A e \in draft'[u].events :
                            /\ lock[e.tenant] = u
                            /\ e.cause[1] = u
                            /\ e.cause[2] <= Cardinality(draft'[u].rows)
                      /\ \A d \in draft'[u].deliveries : d.event \in draft'[u].events
                      /\ \A s \in Subscriptions :
                            draft'[u].change[s] # "none" => lock[Owner[s]] = u
    BY <1>1 DEF DraftsLocked
  <2>1. CASE u # t
    BY <2>1, <1>3 DEF ChainInvariant, DraftsLocked
  <2>2. CASE u = t
    <3>1. \A r \in draft'[t].rows : lock[r.tenant] = t /\ r.content[1] = t
      BY <1>1, <1>2, <1>3 DEF ChainInvariant, DraftsLocked
    <3>2. \A e \in draft'[t].events :
             /\ lock[e.tenant] = t
             /\ e.cause[1] = t
             /\ e.cause[2] <= Cardinality(draft'[t].rows)
      <4>1. \A e \in P : /\ lock[e.tenant] = t
                         /\ e.cause[1] = t
                         /\ e.cause[2] <= Cardinality(draft'[t].rows)
        BY <1>1, <1>2, <1>3
      <4>2. \A e \in draft[t].events : e.cause[2] \in Nat
        BY <1>5 DEF Drafts, Events, Contents
      <4>3. \A e \in draft[t].events :
               /\ lock[e.tenant] = t
               /\ e.cause[1] = t
               /\ e.cause[2] <= Cardinality(draft[t].rows)
        BY DEF ChainInvariant, DraftsLocked
      <4> QED
        BY <4>1, <4>2, <4>3, <1>2, <1>3
    <3>3. \A d \in draft'[t].deliveries : d.event \in draft'[t].events
      BY <1>3, <1>f DEF ChainInvariant, DraftsLocked
    <3> QED
      BY <2>2, <3>1, <3>2, <3>3, <1>1, <1>2, <1>3
  <2> QED
    BY <2>1, <2>2
<1>8. ViewsChained'
  <2>1. /\ Visible(t, tn)' = Visible(t, tn) \cup {row}
        /\ \A x \in Tenants \ {tn} : Visible(t, x)' = Visible(t, x)
        /\ \A u \in Transactions \ {t}, x \in Tenants : Visible(u, x)' = Visible(u, x)
    BY <1>1, <1>2, <1>3, AppendedView
  <2>2. \A u \in Transactions, x \in Tenants : Chained(Visible(u, x)') /\ HasHead(Visible(u, x)')
    <3> SUFFICES ASSUME NEW u \in Transactions, NEW x \in Tenants
                 PROVE  Chained(Visible(u, x)') /\ HasHead(Visible(u, x)')
      OBVIOUS
    <3>1. CASE u = t /\ x = tn
      BY <3>1, <2>1, <1>2
    <3>2. CASE u # t \/ x # tn
      BY <3>2, <2>1 DEF ChainInvariant, ViewsChained
    <3> QED
      BY <3>1, <3>2
  <2>3. \A x \in Tenants : Chained(Of(audit, x)') /\ HasHead(Of(audit, x)')
    BY <1>1 DEF ChainInvariant, ViewsChained, Of
  <2>4. \A u \in Transactions : \A r \in draft'[u].rows, q \in audit :
           q.tenant = r.tenant => q.sequence < r.sequence
    BY <1>2, <1>3 DEF ChainInvariant, ViewsChained, Visible
  <2> QED
    BY <2>2, <2>3, <2>4, <1>1 DEF ViewsChained, Chained, HasHead, Newest
<1>9. CommittedCauses' /\ TransactionsUnbroken'
  BY <1>1 DEF ChainInvariant, CommittedCauses, TransactionsUnbroken
<1>10. FanOutCurrent'
  <2>1. \A u \in Transactions : \A e \in draft'[u].events :
           {d.subscription : d \in {x \in draft'[u].deliveries : x.event = e}} = Targets(e.tenant)
    <3> SUFFICES ASSUME NEW u \in Transactions, NEW e \in draft'[u].events
                 PROVE  {d.subscription : d \in {x \in draft'[u].deliveries : x.event = e}}
                            = Targets(e.tenant)
      OBVIOUS
    <3>1. CASE u # t
      BY <3>1, <1>3 DEF ChainInvariant, FanOutCurrent
    <3>2. CASE u = t /\ e \in P
      <4>1. e \notin draft[t].events
        <5>1. e.cause[2] = Cardinality(draft[t].rows) + 1
          BY <3>2, <1>2, <1>3
        <5> QED
          BY <5>1, <1>2 DEF ChainInvariant, DraftsLocked
      <4>2. \A d \in draft[t].deliveries : d.event # e
        BY <4>1 DEF ChainInvariant, DraftsLocked
      <4>3. {x \in draft'[t].deliveries : x.event = e} =
                {[event |-> e, subscription |-> s] : s \in Targets(tn)}
        BY <4>2, <3>2, <1>3, <1>f
      <4>4. e.tenant = tn
        BY <3>2, <1>3
      <4>5. {d.subscription : d \in {[event |-> e, subscription |-> s] : s \in Targets(tn)}}
                = Targets(tn)
        <5>1. \A d : d \in {[event |-> e, subscription |-> s] : s \in Targets(tn)}
                  <=> \E s \in Targets(tn) : d = [event |-> e, subscription |-> s]
          OBVIOUS
        <5>2. \A s \in Targets(tn) : [event |-> e, subscription |-> s].subscription = s
          OBVIOUS
        <5> DEFINE made == {[event |-> e, subscription |-> s] : s \in Targets(tn)}
        <5>3. \A d \in made : d.subscription \in Targets(tn)
          BY <5>1, <5>2
        <5>4. \A s \in Targets(tn) : \E d \in made : d.subscription = s
          BY <5>1, <5>2
        <5> HIDE DEF made
        <5>5. {d.subscription : d \in made} = Targets(tn)
          BY <5>3, <5>4
        <5> QED
          BY <5>5 DEF made
      <4> QED
        BY <3>2, <4>3, <4>4, <4>5
    <3>3. CASE u = t /\ e \notin P
      <4>1. e \in draft[t].events
        BY <3>3, <1>3
      <4>2. {x \in draft'[t].deliveries : x.event = e} = {x \in draft[t].deliveries : x.event = e}
        BY <3>3, <1>3, <1>f
      <4> QED
        BY <3>3, <4>1, <4>2 DEF ChainInvariant, FanOutCurrent
    <3> QED
      BY <3>1, <3>2, <3>3
  <2>2. \A u \in Transactions : draft'[u].change # NoChange => draft'[u].events = {}
    <3>1. CASE change # NoChange
      <4>1. draft[t].rows = {} /\ P = {}
        BY <3>1, <1>p
      <4>2. draft[t].events = {}
        <5>1. \A e \in draft[t].events : e.cause[2] <= 0 /\ e.cause[2] \in Nat \ {0}
          BY <4>1, <1>5, FS_EmptySet, OutboxAssumption
          DEF ChainInvariant, DraftsLocked, Drafts, Events, Contents
        <5> QED
          BY <5>1
      <4> QED
        BY <4>1, <4>2, <1>3 DEF ChainInvariant, FanOutCurrent
    <3>2. CASE change = NoChange
      BY <3>2, <1>3 DEF ChainInvariant, FanOutCurrent
    <3> QED
      BY <3>1, <3>2
  <2>3. \A u \in Transactions, s \in Subscriptions :
           draft'[u].change[s] = "active" => subscribed[s] = "none"
    BY <1>3 DEF ChainInvariant, FanOutCurrent
  <2>4. \A d \in deliveries : subscribed[d.subscription] # "none"
    BY DEF ChainInvariant, FanOutCurrent
  <2>5. \A x : Targets(x)' = Targets(x)
    BY <1>1 DEF Targets
  <2> QED
    BY <1>1, <2>1, <2>2, <2>3, <2>4, <2>5 DEF FanOutCurrent
<1> QED
  BY <1>6, <1>7, <1>8, <1>9, <1>10 DEF ChainInvariant

(* The handlers and reapers that append (audit, _reap,                     *)
(* create_webhook_subscription, disable_webhook_subscription).             *)
LEMMA ChainHandlers ==
    ASSUME ChainInvariant, NEW t \in Transactions,
           \/ \E tn \in Tenants, kind \in Kinds : Record(t, tn, kind)
           \/ \E s \in Subscriptions : Subscribe(t, s) \/ Disable(t, s)
    PROVE  ChainInvariant'
<1>1. NoChange \in Changes /\ \A s \in Subscriptions : NoChange[s] = "none"
  BY DEF NoChange, Changes
<1>2. "unmapped" \in DOMAIN Published /\ Published["unmapped"] = {}
  BY DEF Published
<1>3. ASSUME NEW tn \in Tenants, NEW kind \in Kinds, Record(t, tn, kind)
      PROVE  ChainInvariant'
  <2>1. kind \in DOMAIN Published
    BY KindsAssumption
  <2>2. AppendEvent(t, tn, kind, NoChange)
    BY <1>3 DEF Record
  <2> QED
    BY <2>1, <2>2, <1>1, ChainAppend
<1>4. ASSUME NEW s \in Subscriptions, Subscribe(t, s)
      PROVE  ChainInvariant'
  <2> DEFINE change == [NoChange EXCEPT ![s] = "active"]
  <2>1. /\ change \in Changes
        /\ \A x \in Subscriptions : change[x] # "none" => Owner[x] = Owner[s]
        /\ \A x \in Subscriptions : change[x] = "active" => subscribed[x] = "none"
    BY <1>1, <1>4 DEF Changes, Subscribe
  <2>2. AppendEvent(t, Owner[s], "unmapped", change) /\ draft[t].rows = {}
    BY <1>4 DEF Subscribe
  <2>3. Owner[s] \in Tenants
    BY OutboxAssumption
  <2> HIDE DEF change
  <2> QED
    BY <2>1, <2>2, <2>3, <1>2, ChainAppend
<1>5. ASSUME NEW s \in Subscriptions, Disable(t, s)
      PROVE  ChainInvariant'
  <2> DEFINE change == [NoChange EXCEPT ![s] = "disabled"]
  <2>1. /\ change \in Changes
        /\ \A x \in Subscriptions : change[x] # "none" => Owner[x] = Owner[s]
        /\ \A x \in Subscriptions : change[x] = "active" => subscribed[x] = "none"
    BY <1>1 DEF Changes
  <2>2. AppendEvent(t, Owner[s], "unmapped", change) /\ draft[t].rows = {}
    BY <1>5 DEF Disable
  <2>3. Owner[s] \in Tenants
    BY OutboxAssumption
  <2> HIDE DEF change
  <2> QED
    BY <2>1, <2>2, <2>3, <1>2, ChainAppend
<1> QED
  BY <1>3, <1>4, <1>5

(* The draft of a transaction that has written nothing.                    *)
LEMMA NothingDrafted ==
    /\ EmptyDraft \in Drafts
    /\ EmptyDraft.rows = {} /\ EmptyDraft.events = {} /\ EmptyDraft.deliveries = {}
    /\ EmptyDraft.change = NoChange
    /\ \A s \in Subscriptions : NoChange[s] = "none"
BY DEF EmptyDraft, Drafts, NoChange, Changes

(* What the end of a transaction does to locks and drafts                  *)
(* (reset_tenant_context, Session.commit).                                 *)
LEMMA Released ==
    ASSUME ChainInvariant, NEW t \in Transactions, Release(t),
           NEW end \in {"committed", "rolled back"}, phase' = [phase EXCEPT ![t] = end]
    PROVE  /\ draft' \in [Transactions -> Drafts]
           /\ waiting' \in [Transactions -> Tenants \cup {NoTenant}]
           /\ lock' \in [Tenants -> Transactions \cup {NoTransaction}]
           /\ phase' \in [Transactions -> {"new", "open", "committed", "rolled back"}]
           /\ draft'[t] = EmptyDraft
           /\ \A u \in Transactions \ {t} : draft'[u] = draft[u] /\ phase'[u] = phase[u]
           /\ \A tn \in Tenants : lock[tn] # t => lock'[tn] = lock[tn]
           /\ DraftsLocked'
<1>1. EmptyDraft \in Drafts
  BY NothingDrafted
<1>2. /\ draft' \in [Transactions -> Drafts]
      /\ draft'[t] = EmptyDraft
      /\ \A u \in Transactions \ {t} : draft'[u] = draft[u] /\ phase'[u] = phase[u]
  BY <1>1 DEF ChainInvariant, OutboxTypeOK, Release
<1>3. /\ waiting' \in [Transactions -> Tenants \cup {NoTenant}]
      /\ lock' \in [Tenants -> Transactions \cup {NoTransaction}]
      /\ phase' \in [Transactions -> {"new", "open", "committed", "rolled back"}]
      /\ \A tn \in Tenants : lock[tn] # t => lock'[tn] = lock[tn]
  BY DEF ChainInvariant, OutboxTypeOK, Release
<1>4. DraftsLocked'
  <2> SUFFICES ASSUME NEW u \in Transactions
               PROVE  /\ IsFiniteSet(draft'[u].rows)
                      /\ draft'[u] # EmptyDraft => phase'[u] = "open"
                      /\ \A r \in draft'[u].rows : lock'[r.tenant] = u /\ r.content[1] = u
                      /\ \A e \in draft'[u].events :
                            /\ lock'[e.tenant] = u
                            /\ e.cause[1] = u
                            /\ e.cause[2] <= Cardinality(draft'[u].rows)
                      /\ \A d \in draft'[u].deliveries : d.event \in draft'[u].events
                      /\ \A s \in Subscriptions :
                            draft'[u].change[s] # "none" => lock'[Owner[s]] = u
    BY DEF DraftsLocked
  <2>1. CASE u = t
    BY <2>1, <1>2, NothingDrafted, FS_EmptySet
  <2>2. CASE u # t
    <3>1. draft'[u] = draft[u] /\ phase'[u] = phase[u] /\ draft[u] \in Drafts
      BY <2>2, <1>2 DEF ChainInvariant, OutboxTypeOK
    <3>2. /\ \A r \in draft[u].rows : r.tenant \in Tenants
          /\ \A e \in draft[u].events : e.tenant \in Tenants
          /\ \A s \in Subscriptions : Owner[s] \in Tenants
      BY <3>1, OutboxAssumption DEF Drafts, Rows, Events
    <3> QED
      <4>1. /\ IsFiniteSet(draft[u].rows)
            /\ draft[u] # EmptyDraft => phase[u] = "open"
            /\ \A r \in draft[u].rows : lock[r.tenant] = u /\ r.content[1] = u
            /\ \A e \in draft[u].events :
                  /\ lock[e.tenant] = u
                  /\ e.cause[1] = u
                  /\ e.cause[2] <= Cardinality(draft[u].rows)
            /\ \A d \in draft[u].deliveries : d.event \in draft[u].events
            /\ \A s \in Subscriptions :
                  draft[u].change[s] # "none" => lock[Owner[s]] = u
        BY DEF ChainInvariant, DraftsLocked
      <4>2. \A x \in Tenants : lock[x] = u => lock'[x] = u
        BY <2>2, <1>3
      <4> QED
        BY <3>1, <3>2, <4>1, <4>2
  <2> QED
    BY <2>1, <2>2
<1> QED
  BY <1>2, <1>3, <1>4

(* A rollback leaves the committed chain to everybody (Session.rollback).  *)
LEMMA ChainRollBack ==
    ASSUME ChainInvariant, NEW t \in Transactions, RollBack(t)
    PROVE  ChainInvariant'
<1>1. /\ UNCHANGED <<audit, events, deliveries, subscribed>>
      /\ phase[t] = "open" /\ Release(t) /\ phase' = [phase EXCEPT ![t] = "rolled back"]
  BY DEF RollBack, committedVars
<1>2. /\ draft' \in [Transactions -> Drafts]
      /\ waiting' \in [Transactions -> Tenants \cup {NoTenant}]
      /\ lock' \in [Tenants -> Transactions \cup {NoTransaction}]
      /\ phase' \in [Transactions -> {"new", "open", "committed", "rolled back"}]
      /\ draft'[t] = EmptyDraft
      /\ \A u \in Transactions \ {t} : draft'[u] = draft[u] /\ phase'[u] = phase[u]
      /\ DraftsLocked'
  BY <1>1, Released
<1>3. OutboxTypeOK'
  BY <1>1, <1>2 DEF ChainInvariant, OutboxTypeOK
<1>4. ViewsChained'
  <2>1. \A x \in Tenants : Of(audit, x)' = Of(audit, x) /\ Visible(t, x)' = Of(audit, x)
    BY <1>1, <1>2, NothingDrafted DEF Of, Visible
  <2>2. \A u \in Transactions \ {t}, x \in Tenants : Visible(u, x)' = Visible(u, x)
    BY <1>1, <1>2 DEF Visible
  <2>3. \A u \in Transactions : \A r \in draft'[u].rows, q \in audit :
           q.tenant = r.tenant => q.sequence < r.sequence
    BY <1>2, NothingDrafted DEF ChainInvariant, ViewsChained
  <2>4. \A x \in Tenants : Chained(Of(audit, x)') /\ HasHead(Of(audit, x)')
    BY <2>1 DEF ChainInvariant, ViewsChained
  <2>5. \A u \in Transactions, x \in Tenants : Chained(Visible(u, x)') /\ HasHead(Visible(u, x)')
    <3> SUFFICES ASSUME NEW u \in Transactions, NEW x \in Tenants
                 PROVE  Chained(Visible(u, x)') /\ HasHead(Visible(u, x)')
      OBVIOUS
    <3>1. CASE u = t
      BY <3>1, <2>1 DEF ChainInvariant, ViewsChained
    <3>2. CASE u # t
      BY <3>2, <2>2 DEF ChainInvariant, ViewsChained
    <3> QED
      BY <3>1, <3>2
  <2> QED
    BY <2>3, <2>4, <2>5, <1>1 DEF ViewsChained, Chained, HasHead, Newest
<1>5. CommittedCauses'
  <2>1. /\ \A r \in audit : r.content[1] \in Transactions
        /\ \A e \in events : e.cause[1] \in Transactions
    BY DEF ChainInvariant, OutboxTypeOK, Rows, Events, Contents
  <2> QED
    BY <1>1, <1>2, <2>1 DEF ChainInvariant, CommittedCauses
<1>6. TransactionsUnbroken'
  BY <1>1 DEF ChainInvariant, TransactionsUnbroken
<1>7. FanOutCurrent'
  <2>1. \A x : Targets(x)' = Targets(x)
    BY <1>1 DEF Targets
  <2>2. \A u \in Transactions : \A e \in draft'[u].events :
           {d.subscription : d \in {x \in draft'[u].deliveries : x.event = e}} = Targets(e.tenant)
    <3> SUFFICES ASSUME NEW u \in Transactions, NEW e \in draft'[u].events
                 PROVE  {d.subscription : d \in {x \in draft'[u].deliveries : x.event = e}}
                            = Targets(e.tenant)
      OBVIOUS
    <3>1. u # t /\ draft'[u] = draft[u]
      BY <1>2, NothingDrafted
    <3>2. {d.subscription : d \in {x \in draft[u].deliveries : x.event = e}} = Targets(e.tenant)
      BY <3>1 DEF ChainInvariant, FanOutCurrent
    <3> QED
      BY <3>1, <3>2
  <2>3. \A u \in Transactions :
           /\ draft'[u].change # NoChange => draft'[u].events = {}
           /\ \A s \in Subscriptions : draft'[u].change[s] = "active" => subscribed[s] = "none"
    <3> SUFFICES ASSUME NEW u \in Transactions
                 PROVE  /\ draft'[u].change # NoChange => draft'[u].events = {}
                        /\ \A s \in Subscriptions :
                              draft'[u].change[s] = "active" => subscribed[s] = "none"
      OBVIOUS
    <3>1. CASE u = t
      BY <3>1, <1>2, NothingDrafted
    <3>2. CASE u # t
      <4>1. draft'[u] = draft[u]
        BY <3>2, <1>2
      <4> QED
        BY <4>1 DEF ChainInvariant, FanOutCurrent
    <3> QED
      BY <3>1, <3>2
  <2>4. \A d \in deliveries : subscribed[d.subscription] # "none"
    BY DEF ChainInvariant, FanOutCurrent
  <2> QED
    BY <1>1, <2>1, <2>2, <2>3, <2>4 DEF FanOutCurrent
<1> QED
  BY <1>2, <1>3, <1>4, <1>5, <1>6, <1>7 DEF ChainInvariant

(* A commit makes the drafts of the lock's holder the end of the chain     *)
(* (Session.commit).                                                       *)
LEMMA ChainCommit ==
    ASSUME ChainInvariant, NEW t \in Transactions, Commit(t)
    PROVE  ChainInvariant'
<1>1. /\ audit' = audit \cup draft[t].rows
      /\ events' = events \cup draft[t].events
      /\ deliveries' = deliveries \cup draft[t].deliveries
      /\ subscribed' = [s \in Subscriptions |->
             IF draft[t].change[s] # "none" THEN draft[t].change[s] ELSE subscribed[s]]
      /\ phase[t] = "open" /\ Release(t) /\ phase' = [phase EXCEPT ![t] = "committed"]
  BY DEF Commit
<1>2. /\ draft' \in [Transactions -> Drafts]
      /\ waiting' \in [Transactions -> Tenants \cup {NoTenant}]
      /\ lock' \in [Tenants -> Transactions \cup {NoTransaction}]
      /\ phase' \in [Transactions -> {"new", "open", "committed", "rolled back"}]
      /\ draft'[t] = EmptyDraft
      /\ \A u \in Transactions \ {t} : draft'[u] = draft[u] /\ phase'[u] = phase[u]
      /\ DraftsLocked'
  BY <1>1, Released
<1>3. \A u \in Transactions : draft[u] \in Drafts
  BY DEF ChainInvariant, OutboxTypeOK
<1>4. /\ \A r \in draft[t].rows : r \in Rows /\ lock[r.tenant] = t /\ r.content[1] = t
      /\ \A e \in draft[t].events : e \in Events /\ lock[e.tenant] = t /\ e.cause[1] = t
      /\ \A d \in draft[t].deliveries : d.event \in draft[t].events /\ d \in Deliveries
      /\ \A s \in Subscriptions : draft[t].change[s] # "none" => lock[Owner[s]] = t
  BY <1>3 DEF ChainInvariant, DraftsLocked, Drafts
<1>5. OutboxTypeOK'
  <2>1. draft[t] \in Drafts
    BY <1>3
  <2>2. audit' \subseteq Rows /\ events' \subseteq Events /\ deliveries' \subseteq Deliveries
    BY <1>1, <2>1 DEF ChainInvariant, OutboxTypeOK, Drafts
  <2>3. subscribed' \in Changes
    BY <1>1, <2>1 DEF ChainInvariant, OutboxTypeOK, Drafts, Changes
  <2> QED
    BY <2>2, <2>3, <1>2 DEF OutboxTypeOK
<1>6. ViewsChained'
  <2>1. \A x \in Tenants : Of(audit, x)' = Visible(t, x) /\ Visible(t, x)' = Visible(t, x)
    BY <1>1, <1>2, NothingDrafted DEF Of, Visible
  <2>2. \A u \in Transactions \ {t}, x \in Tenants :
           Visible(u, x)' \in {Visible(t, x), Visible(u, x)}
    <3> SUFFICES ASSUME NEW u \in Transactions \ {t}, NEW x \in Tenants
                 PROVE  Visible(u, x)' \in {Visible(t, x), Visible(u, x)}
      OBVIOUS
    <3>1. draft'[u] = draft[u]
      BY <1>2
    <3>2. CASE lock[x] = t
      <4>1. \A r \in draft[u].rows : r.tenant # x
        BY <3>2 DEF ChainInvariant, DraftsLocked
      <4> QED
        BY <3>1, <4>1, <1>1 DEF Visible
    <3>3. CASE lock[x] # t
      <4>1. \A r \in draft[t].rows : r.tenant # x
        BY <3>3, <1>4
      <4> QED
        BY <3>1, <4>1, <1>1 DEF Visible
    <3> QED
      BY <3>2, <3>3
  <2>3. \A u \in Transactions, x \in Tenants : Chained(Visible(u, x)') /\ HasHead(Visible(u, x)')
    <3> SUFFICES ASSUME NEW u \in Transactions, NEW x \in Tenants
                 PROVE  Chained(Visible(u, x)') /\ HasHead(Visible(u, x)')
      OBVIOUS
    <3>1. Visible(u, x)' = Visible(t, x) \/ Visible(u, x)' = Visible(u, x)
      BY <2>1, <2>2
    <3> QED
      BY <3>1 DEF ChainInvariant, ViewsChained
  <2>4. \A x \in Tenants : Chained(Of(audit, x)') /\ HasHead(Of(audit, x)')
    BY <2>1 DEF ChainInvariant, ViewsChained
  <2>5. \A u \in Transactions : \A r \in draft'[u].rows, q \in audit' :
           q.tenant = r.tenant => q.sequence < r.sequence
    <3> SUFFICES ASSUME NEW u \in Transactions, NEW r \in draft'[u].rows, NEW q \in audit',
                        q.tenant = r.tenant
                 PROVE  q.sequence < r.sequence
      OBVIOUS
    <3>1. u # t /\ draft'[u] = draft[u]
      BY <1>2, NothingDrafted
    <3>2. lock[r.tenant] = u
      BY <3>1 DEF ChainInvariant, DraftsLocked
    <3>3. q \in audit
      BY <3>1, <3>2, <1>1, <1>4
    <3> QED
      BY <3>1, <3>3 DEF ChainInvariant, ViewsChained
  <2> QED
    BY <2>3, <2>4, <2>5 DEF ViewsChained, Chained, HasHead, Newest
<1>7. CommittedCauses'
  <2>1. /\ \A r \in audit : r.content[1] \in Transactions
        /\ \A e \in events : e.cause[1] \in Transactions
    BY DEF ChainInvariant, OutboxTypeOK, Rows, Events, Contents
  <2>2. phase'[t] = "committed"
    BY <1>1 DEF ChainInvariant, OutboxTypeOK
  <2> QED
    BY <1>1, <1>2, <1>4, <2>1, <2>2 DEF ChainInvariant, CommittedCauses
<1>8. TransactionsUnbroken'
  <2> SUFFICES ASSUME NEW p \in audit', NEW q \in audit', NEW r \in audit',
                      p.tenant = q.tenant, q.tenant = r.tenant,
                      p.sequence < q.sequence, q.sequence < r.sequence,
                      p.content[1] = r.content[1]
               PROVE  q.content[1] = p.content[1]
    BY DEF TransactionsUnbroken
  <2>1. \A x \in audit : x.content[1] # t
    BY <1>1 DEF ChainInvariant, CommittedCauses
  <2>2. \A x \in audit', y \in audit : /\ x.sequence \in Nat
                                       /\ x \notin audit /\ x.tenant = y.tenant =>
                                              y.sequence < x.sequence
    BY <1>1, <1>5 DEF ChainInvariant, ViewsChained, OutboxTypeOK, Rows
  <2>3. CASE p \in audit /\ r \in audit
    <3>1. q \in audit
      BY <2>2, <2>3
    <3> QED
      BY <3>1, <2>3 DEF ChainInvariant, TransactionsUnbroken
  <2>4. CASE p \notin audit /\ r \notin audit
    <3>1. q \notin audit
      BY <2>2, <2>4
    <3> QED
      BY <3>1, <2>4, <1>1, <1>4
  <2> QED
    BY <2>1, <2>3, <2>4, <1>1, <1>4
<1>9. FanOutCurrent'
  <2>1. \A u \in Transactions \ {t}, s \in Subscriptions :
           lock[Owner[s]] = u => subscribed'[s] = subscribed[s]
    BY <1>1, <1>4
  <2>2. \A u \in Transactions \ {t} : \A e \in draft[u].events :
           Targets(e.tenant)' = Targets(e.tenant)
    <3> SUFFICES ASSUME NEW u \in Transactions \ {t}, NEW e \in draft[u].events
                 PROVE  Targets(e.tenant)' = Targets(e.tenant)
      OBVIOUS
    <3>1. lock[e.tenant] = u
      BY DEF ChainInvariant, DraftsLocked
    <3> QED
      BY <3>1, <2>1 DEF Targets
  <2>3. \A u \in Transactions : \A e \in draft'[u].events :
           {d.subscription : d \in {x \in draft'[u].deliveries : x.event = e}} = Targets(e.tenant)'
    <3> SUFFICES ASSUME NEW u \in Transactions, NEW e \in draft'[u].events
                 PROVE  {d.subscription : d \in {x \in draft'[u].deliveries : x.event = e}}
                            = Targets(e.tenant)'
      OBVIOUS
    <3>1. u # t /\ draft'[u] = draft[u]
      BY <1>2, NothingDrafted
    <3>2. Targets(e.tenant)' = Targets(e.tenant)
      BY <3>1, <2>2
    <3>3. {d.subscription : d \in {x \in draft[u].deliveries : x.event = e}} = Targets(e.tenant)
      BY <3>1 DEF ChainInvariant, FanOutCurrent
    <3> QED
      BY <3>1, <3>2, <3>3
  <2>4. \A u \in Transactions :
           /\ draft'[u].change # NoChange => draft'[u].events = {}
           /\ \A s \in Subscriptions : draft'[u].change[s] = "active" => subscribed'[s] = "none"
    <3> SUFFICES ASSUME NEW u \in Transactions
                 PROVE  /\ draft'[u].change # NoChange => draft'[u].events = {}
                        /\ \A s \in Subscriptions :
                              draft'[u].change[s] = "active" => subscribed'[s] = "none"
      OBVIOUS
    <3>1. CASE u = t
      BY <3>1, <1>2, NothingDrafted
    <3>2. CASE u # t
      <4>1. draft'[u] = draft[u]
        BY <3>2, <1>2
      <4>2. /\ draft[u].change # NoChange => draft[u].events = {}
            /\ \A s \in Subscriptions :
                  draft[u].change[s] = "active" => subscribed[s] = "none" /\ lock[Owner[s]] = u
        BY DEF ChainInvariant, FanOutCurrent, DraftsLocked
      <4> QED
        BY <3>2, <4>1, <4>2, <2>1
    <3> QED
      BY <3>1, <3>2
  <2>5. \A d \in deliveries' : subscribed'[d.subscription] # "none"
    <3> SUFFICES ASSUME NEW d \in deliveries', subscribed'[d.subscription] = "none"
                 PROVE  FALSE
      OBVIOUS
    <3>1. d.subscription \in Subscriptions
      BY <1>5 DEF OutboxTypeOK, Deliveries
    <3>2. subscribed[d.subscription] = "none"
      BY <3>1, <1>1
    <3>3. d \in draft[t].deliveries
      BY <3>2, <1>1 DEF ChainInvariant, FanOutCurrent
    <3>4. d.subscription \in Targets(d.event.tenant)
      BY <3>3, <1>4 DEF ChainInvariant, FanOutCurrent
    <3> QED
      BY <3>2, <3>4 DEF Targets
  <2> QED
    BY <2>3, <2>4, <2>5 DEF FanOutCurrent
<1> QED
  BY <1>2, <1>5, <1>6, <1>7, <1>8, <1>9 DEF ChainInvariant

(* Every step of the log and the outbox keeps the invariant (SqlAuditLog). *)
LEMMA ChainNext == ChainInvariant /\ [OutboxNext]_outboxVars => ChainInvariant'
<1> SUFFICES ASSUME ChainInvariant, [OutboxNext]_outboxVars PROVE ChainInvariant'
  OBVIOUS
<1>1. CASE UNCHANGED outboxVars
  <2> USE <1>1 DEF outboxVars, committedVars, ChainInvariant
  <2>1. OutboxTypeOK'
    BY DEF OutboxTypeOK
  <2>2. DraftsLocked'
    BY DEF DraftsLocked
  <2>3. ViewsChained'
    BY DEF ViewsChained, Of, Visible
  <2>4. CommittedCauses' /\ TransactionsUnbroken'
    BY DEF CommittedCauses, TransactionsUnbroken
  <2>5. FanOutCurrent'
    BY DEF FanOutCurrent, Targets
  <2> QED
    BY <2>1, <2>2, <2>3, <2>4, <2>5
<1>2. CASE OutboxNext
  BY <1>2, ChainLock, ChainHandlers, ChainCommit, ChainRollBack DEF OutboxNext
<1> QED
  BY <1>1, <1>2

-----------------------------------------------------------------------------

(* The audit log and the outbox only add deliveries, and a subscription    *)
(* that is disabled stays so (disable_webhook_subscription).               *)
LEMMA OutboxGrows ==
    ASSUME ChainInvariant, [OutboxNext]_outboxVars
    PROVE  /\ deliveries \subseteq deliveries'
           /\ \A s \in Subscriptions : subscribed[s] = "disabled" => subscribed'[s] = "disabled"
<1>1. CASE UNCHANGED <<deliveries, subscribed>>
  BY <1>1
<1>2. ASSUME NEW t \in Transactions, Commit(t)
      PROVE  /\ deliveries \subseteq deliveries'
             /\ \A s \in Subscriptions : subscribed[s] = "disabled" => subscribed'[s] = "disabled"
  <2>1. draft[t].change \in Changes
    BY DEF ChainInvariant, OutboxTypeOK, Drafts
  <2>2. \A s \in Subscriptions : draft[t].change[s] = "active" => subscribed[s] = "none"
    BY DEF ChainInvariant, FanOutCurrent
  <2> QED
    BY <1>2, <2>1, <2>2 DEF Commit, Changes
<1>3. CASE UNCHANGED outboxVars
  BY <1>1, <1>3 DEF outboxVars, committedVars
<1>4. CASE OutboxNext
  <2>1. PICK t \in Transactions :
           \/ Obtain(t) \/ Commit(t) \/ RollBack(t)
           \/ \E tn \in Tenants : Call(t, tn)
           \/ \E tn \in Tenants, kind \in Kinds : Record(t, tn, kind)
           \/ \E s \in Subscriptions : Subscribe(t, s) \/ Disable(t, s)
    BY <1>4 DEF OutboxNext
  <2>2. Commit(t) \/ UNCHANGED <<deliveries, subscribed>>
    <3>1. CASE Obtain(t) \/ RollBack(t)
      BY <3>1 DEF Obtain, RollBack, committedVars
    <3>2. CASE \E tn \in Tenants : Call(t, tn)
      BY <3>2 DEF Call, committedVars
    <3>3. CASE \E tn \in Tenants, kind \in Kinds : Record(t, tn, kind)
      BY <3>3 DEF Record, AppendEvent, committedVars
    <3>4. CASE \E s \in Subscriptions : Subscribe(t, s) \/ Disable(t, s)
      BY <3>4 DEF Subscribe, Disable, AppendEvent, committedVars
    <3> QED
      BY <2>1, <3>1, <3>2, <3>3, <3>4
  <2> QED
    BY <2>2, <1>1, <1>2
<1> QED
  BY <1>3, <1>4

(* A step of the outbox disturbs no batch.                                 *)
LEMMA DeliveryOutbox ==
    ASSUME ChainInvariant, DeliveryInvariant, [OutboxNext]_outboxVars, UNCHANGED workerVars
    PROVE  DeliveryInvariant'
<1>1. /\ deliveries \subseteq deliveries'
      /\ \A s \in Subscriptions : subscribed[s] = "disabled" => subscribed'[s] = "disabled"
  BY OutboxGrows
<1>2. UNCHANGED <<delivery, backoff, batch, todo, written, loaded, posts, accepted, breakdowns>>
  BY DEF workerVars
<1>3. WorkerTypeOK' /\ TriesCounted' /\ PostsCounted'
  BY <1>2 DEF DeliveryInvariant, WorkerTypeOK, TriesCounted, PostsCounted
<1>4. BatchesLocked'
  BY <1>1, <1>2 DEF DeliveryInvariant, BatchesLocked
<1>5. VerdictsReasoned'
  <2>1. \A d \in Deliveries : d.subscription \in Subscriptions
    BY DEF Deliveries
  <2>2. \A d \in Deliveries : \A status, tries :
           Reasoned(d, status, tries) => Reasoned(d, status, tries)'
    BY <2>1, <1>1, <1>2 DEF Reasoned
  <2>3. \A w \in Workers : \A d \in batch[w] \ todo[w] : d \in Deliveries
    BY DEF DeliveryInvariant, WorkerTypeOK
  <2> QED
    BY <2>2, <2>3, <1>1, <1>2 DEF DeliveryInvariant, VerdictsReasoned
<1> QED
  BY <1>3, <1>4, <1>5 DEF DeliveryInvariant

(* No worker has a batch yet, nothing is posted.                           *)
LEMMA DeliveryInit == OutboxInit /\ WorkerInit => DeliveryInvariant
<1> SUFFICES ASSUME OutboxInit, WorkerInit PROVE DeliveryInvariant
  OBVIOUS
<1>1. Fresh \in Columns /\ Fresh.status = "pending" /\ Fresh.tries = 0
  BY WorkerAssumption DEF Fresh, Columns, Outcomes
<1>2. Unwritten \in [Deliveries -> Columns] /\ \A d \in Deliveries : Unwritten[d] = Fresh
  BY <1>1 DEF Unwritten
<1>3. NoChange \in Changes /\ \A s \in Subscriptions : NoChange[s] = "none"
  BY DEF NoChange, Changes
<1> USE DEF WorkerInit
<1>4. WorkerTypeOK
  BY <1>2, <1>3, WorkerAssumption DEF WorkerTypeOK
<1>5. BatchesLocked /\ TriesCounted
  BY <1>1, <1>2, WorkerAssumption DEF BatchesLocked, TriesCounted
<1>6. PostsCounted
  BY <1>1, <1>2 DEF PostsCounted
<1>7. VerdictsReasoned
  BY <1>1, <1>2, <1>3 DEF VerdictsReasoned, Reasoned
<1> QED
  BY <1>4, <1>5, <1>6, <1>7 DEF DeliveryInvariant
-----------------------------------------------------------------------------
(* A worker that selects a batch takes what nobody has and nothing settled *)
(* (WebhookWorker.process_batch).                                          *)
LEMMA DeliverySelect ==
    ASSUME OutboxTypeOK, DeliveryInvariant, NEW w \in Workers, Select(w), UNCHANGED outboxVars
    PROVE  DeliveryInvariant'
<1>1. PICK B \in SUBSET Selectable(w) :
         batch' = [batch EXCEPT ![w] = B] /\ todo' = [todo EXCEPT ![w] = B]
  BY DEF Select
<1>2. /\ batch[w] = {}
      /\ written' = [written EXCEPT ![w] = delivery]
      /\ UNCHANGED <<delivery, backoff, loaded, posts, accepted, breakdowns>>
      /\ UNCHANGED <<deliveries, subscribed>>
  BY DEF Select, outboxVars, committedVars
<1>3. \A d \in B : /\ d \in deliveries /\ d \in Deliveries
                   /\ delivery[d].status = "pending"
                   /\ \A v \in Workers : d \notin batch[v]
  <2>1. B \subseteq Due \ UNION {batch[v] : v \in Workers}
    BY <1>1 DEF Selectable
  <2>2. \A v \in Workers : batch[v] \subseteq UNION {batch[x] : x \in Workers}
    OBVIOUS
  <2> QED
    BY <2>1, <2>2 DEF Due, OutboxTypeOK
<1>4. /\ batch'[w] = B /\ todo'[w] = B /\ written'[w] = delivery
      /\ \A v \in Workers \ {w} :
            batch'[v] = batch[v] /\ todo'[v] = todo[v] /\ written'[v] = written[v]
  BY <1>1, <1>2 DEF DeliveryInvariant, WorkerTypeOK
<1>5. WorkerTypeOK'
  BY <1>1, <1>2, <1>3 DEF DeliveryInvariant, WorkerTypeOK
<1>6. BatchesLocked'
  BY <1>2, <1>3, <1>4 DEF DeliveryInvariant, BatchesLocked
<1>7. TriesCounted'
  <2> SUFFICES ASSUME NEW v \in Workers
               PROVE  /\ \A d \in todo'[v] : written'[v][d] = delivery[d]
                      /\ \A d \in batch'[v] \ todo'[v] :
                            /\ written'[v][d].tries = delivery[d].tries + 1
                            /\ written'[v][d].status = "pending" =>
                                  written'[v][d].tries < MaxTries
    BY <1>2 DEF DeliveryInvariant, TriesCounted
  <2>1. CASE v = w
    BY <2>1, <1>4
  <2>2. CASE v # w
    BY <2>2, <1>4 DEF DeliveryInvariant, TriesCounted
  <2> QED
    BY <2>1, <2>2
<1>8. PostsCounted'
  <2>1. \A d \in B : posts[d] <= delivery[d].tries + breakdowns
    BY <1>3 DEF DeliveryInvariant, PostsCounted
  <2>2. \A d \in Deliveries :
           (\A v \in Workers : d \notin batch'[v]) => (\A v \in Workers : d \notin batch[v])
    BY <1>2, <1>4
  <2>3. \A v \in Workers : \A d \in batch'[v] : posts[d] <= written'[v][d].tries + breakdowns
    <3> SUFFICES ASSUME NEW v \in Workers, NEW d \in batch'[v]
                 PROVE  posts[d] <= written'[v][d].tries + breakdowns
      OBVIOUS
    <3>1. CASE v = w
      BY <3>1, <2>1, <1>4
    <3>2. CASE v # w
      BY <3>2, <1>4 DEF DeliveryInvariant, PostsCounted
    <3> QED
      BY <3>1, <3>2
  <2> QED
    BY <2>2, <2>3, <1>2 DEF DeliveryInvariant, PostsCounted
<1>9. VerdictsReasoned'
  <2>1. \A d, status, tries : Reasoned(d, status, tries)' <=> Reasoned(d, status, tries)
    BY <1>2 DEF Reasoned
  <2>2. \A v \in Workers : \A d \in batch'[v] \ todo'[v] :
           Reasoned(d, written'[v][d].status, written'[v][d].tries)
    <3> SUFFICES ASSUME NEW v \in Workers, NEW d \in batch'[v] \ todo'[v]
                 PROVE  Reasoned(d, written'[v][d].status, written'[v][d].tries)
      OBVIOUS
    <3>1. v # w
      BY <1>4
    <3> QED
      BY <3>1, <1>4 DEF DeliveryInvariant, VerdictsReasoned
  <2> QED
    BY <2>1, <2>2, <1>2 DEF DeliveryInvariant, VerdictsReasoned
<1> QED
  BY <1>5, <1>6, <1>7, <1>8, <1>9 DEF DeliveryInvariant

(* One try of a delivery in a worker's batch (WebhookWorker._deliver).     *)
LEMMA DeliveryTried ==
    ASSUME OutboxTypeOK, DeliveryInvariant, NEW w \in Workers, NEW d \in todo[w],
           NEW status \in Outcomes, Write(w, d, status), UNCHANGED outboxVars,
           posts' \in [Deliveries -> Nat], accepted' \in [Deliveries -> Nat],
           \A x \in Deliveries \ {d} : posts'[x] = posts[x] /\ accepted'[x] = accepted[x],
           posts'[d] <= posts[d] + 1, accepted'[d] <= posts'[d],
           status = "pending" => delivery[d].tries + 1 < MaxTries,
           Reasoned(d, status, delivery[d].tries + 1)'
    PROVE  DeliveryInvariant'
<1> DEFINE tried == [status |-> status, tries |-> delivery[d].tries + 1]
<1>1. /\ todo' = [todo EXCEPT ![w] = @ \ {d}]
      /\ UNCHANGED <<delivery, backoff, batch, breakdowns, deliveries, subscribed>>
  BY DEF Write, outboxVars, committedVars
<1>2. /\ d \in batch[w] /\ d \in Deliveries /\ d.subscription \in Subscriptions
      /\ delivery[d].status = "pending" /\ delivery[d].tries < MaxTries
      /\ delivery[d] \in Columns /\ written[w][d] = delivery[d]
      /\ \A v \in Workers \ {w} : d \notin batch[v]
  <2>1. d \in batch[w] /\ delivery[d].status = "pending"
    BY DEF DeliveryInvariant, BatchesLocked
  <2>2. d \in Deliveries /\ d.subscription \in Subscriptions /\ delivery[d] \in Columns
    <3>1. batch[w] \subseteq Deliveries /\ delivery \in [Deliveries -> Columns]
      BY DEF DeliveryInvariant, WorkerTypeOK
    <3>2. d \in Deliveries
      BY <2>1, <3>1
    <3> QED
      BY <3>1, <3>2 DEF Deliveries
  <2>3. delivery[d].tries < MaxTries /\ written[w][d] = delivery[d]
    BY <2>1, <2>2 DEF DeliveryInvariant, TriesCounted
  <2>4. \A v \in Workers \ {w} : d \notin batch[v]
    BY <2>1 DEF DeliveryInvariant, BatchesLocked
  <2> QED
    BY <2>1, <2>2, <2>3, <2>4
<1>3. tried \in Columns
  BY <1>2, WorkerAssumption DEF Columns
<1>4. /\ written'[w][d] = tried
      /\ \A x \in Deliveries \ {d} : written'[w][x] = written[w][x]
      /\ \A v \in Workers \ {w} : written'[v] = written[v]
      /\ written' \in [Workers -> [Deliveries -> Columns]]
  <2>1. written \in [Workers -> [Deliveries -> Columns]]
    BY DEF DeliveryInvariant, WorkerTypeOK
  <2>2. written' = [written EXCEPT ![w][d] = tried]
    BY <1>2, <2>1 DEF Write
  <2> HIDE DEF tried
  <2> QED
    BY <2>1, <2>2, <1>2, <1>3
<1>5. /\ loaded' \in [Workers -> Changes]
      /\ \A v \in Workers, s \in Subscriptions :
            loaded'[v][s] = "disabled" => loaded[v][s] = "disabled" \/ subscribed[s] = "disabled"
  <2>1. loaded \in [Workers -> [Subscriptions -> {"none", "active", "disabled"}]]
    BY DEF DeliveryInvariant, WorkerTypeOK, Changes
  <2>2. subscribed[d.subscription] \in {"none", "active", "disabled"}
    BY <1>2 DEF OutboxTypeOK, Changes
  <2>3. Loaded(w, d.subscription) \in {"none", "active", "disabled"}
    BY <2>1, <2>2, <1>2 DEF Loaded
  <2>4. loaded' = [loaded EXCEPT ![w][d.subscription] = Loaded(w, d.subscription)]
    BY DEF Write
  <2>5. loaded' \in [Workers -> Changes]
    BY <2>1, <2>3, <2>4, <1>2 DEF Changes
  <2>6. \A v \in Workers, s \in Subscriptions :
           \/ loaded'[v][s] = loaded[v][s]
           \/ v = w /\ s = d.subscription /\ loaded'[v][s] = Loaded(w, d.subscription)
    <3> DEFINE now == Loaded(w, d.subscription)
    <3>1. now \in {"none", "active", "disabled"} /\ loaded' = [loaded EXCEPT ![w][d.subscription] = now]
      BY <2>3, <2>4
    <3> HIDE DEF now
    <3>2. \A v \in Workers \ {w} : loaded'[v] = loaded[v]
      BY <2>1, <3>1, <1>2
    <3>3. loaded'[w] = [loaded[w] EXCEPT ![d.subscription] = now]
      BY <2>1, <3>1
    <3>4. \A s \in Subscriptions :
             loaded'[w][s] = IF s = d.subscription THEN now ELSE loaded[w][s]
      BY <2>1, <3>3
    <3>5. ASSUME NEW v \in Workers, NEW s \in Subscriptions
          PROVE  loaded'[v][s] = loaded[v][s] \/ (v = w /\ s = d.subscription /\ loaded'[v][s] = now)
      BY <3>2, <3>4
    <3> QED
      BY <3>5 DEF now
  <2> QED
    BY <2>5, <2>6 DEF Loaded
<1>6. /\ todo'[w] = todo[w] \ {d}
      /\ \A v \in Workers \ {w} : todo'[v] = todo[v]
      /\ todo' \in [Workers -> SUBSET Deliveries]
  BY <1>1 DEF DeliveryInvariant, WorkerTypeOK
<1>7. WorkerTypeOK'
  BY <1>1, <1>4, <1>5, <1>6 DEF DeliveryInvariant, WorkerTypeOK
<1>8. BatchesLocked'
  BY <1>1, <1>6 DEF DeliveryInvariant, BatchesLocked
<1>9. \A v \in Workers : \A x \in batch[v] :
         (v = w /\ x = d) \/ (x # d /\ x \in Deliveries /\ written'[v][x] = written[v][x]
                                /\ posts'[x] = posts[x] /\ accepted'[x] = accepted[x]
                                /\ (x \in todo'[v] <=> x \in todo[v]))
  BY <1>2, <1>4, <1>6 DEF DeliveryInvariant, WorkerTypeOK
<1> HIDE DEF tried
<1>10. tried.status = status /\ tried.tries = delivery[d].tries + 1
  BY DEF tried
<1>11. TriesCounted'
  <2> SUFFICES ASSUME NEW v \in Workers
               PROVE  /\ \A x \in todo'[v] : written'[v][x] = delivery[x]
                      /\ \A x \in batch[v] \ todo'[v] :
                            /\ written'[v][x].tries = delivery[x].tries + 1
                            /\ written'[v][x].status = "pending" =>
                                  written'[v][x].tries < MaxTries
    BY <1>1 DEF DeliveryInvariant, TriesCounted
  <2>1. \A x \in todo'[v] : x \in todo[v] /\ x \in batch[v] /\ (v = w => x # d)
    BY <1>6 DEF DeliveryInvariant, BatchesLocked
  <2> QED
    BY <2>1, <1>4, <1>9, <1>10 DEF DeliveryInvariant, TriesCounted
<1>12. PostsCounted'
  <2>1. \A x \in Deliveries : accepted'[x] <= posts'[x]
    BY DEF DeliveryInvariant, PostsCounted
  <2>2. \A x \in Deliveries : (\A v \in Workers : x \notin batch[v]) =>
           x # d /\ posts'[x] <= delivery[x].tries + breakdowns
    BY <1>2 DEF DeliveryInvariant, PostsCounted
  <2>3. \A v \in Workers : \A x \in batch[v] : posts'[x] <= written'[v][x].tries + breakdowns
    <3> SUFFICES ASSUME NEW v \in Workers, NEW x \in batch[v]
                 PROVE  posts'[x] <= written'[v][x].tries + breakdowns
      OBVIOUS
    <3>1. CASE v = w /\ x = d
      <4>1. posts[d] <= delivery[d].tries + breakdowns
        BY <1>2 DEF DeliveryInvariant, PostsCounted
      <4>2. /\ posts[d] \in Nat /\ posts'[d] \in Nat /\ breakdowns \in Nat
            /\ delivery[d].tries \in Nat
        BY <1>2, WorkerAssumption DEF DeliveryInvariant, WorkerTypeOK, Columns
      <4> QED
        BY <3>1, <4>1, <4>2, <1>4, <1>10
    <3>2. CASE ~(v = w /\ x = d)
      BY <3>2, <1>9 DEF DeliveryInvariant, PostsCounted
    <3> QED
      BY <3>1, <3>2
  <2> QED
    BY <2>1, <2>2, <2>3, <1>1 DEF PostsCounted
<1>13. VerdictsReasoned'
  <2>1. \A x \in Deliveries \ {d} : \A s, n : Reasoned(x, s, n)' <=> Reasoned(x, s, n)
    BY <1>1 DEF Reasoned
  <2>2. \A x \in Deliveries : Reasoned(x, delivery[x].status, delivery[x].tries)'
    <3> SUFFICES ASSUME NEW x \in Deliveries
                 PROVE  Reasoned(x, delivery[x].status, delivery[x].tries)'
      OBVIOUS
    <3>1. CASE x = d
      BY <3>1, <1>1, <1>2 DEF Reasoned
    <3>2. CASE x # d
      BY <3>2, <1>1 DEF DeliveryInvariant, VerdictsReasoned, Reasoned
    <3> QED
      BY <3>1, <3>2
  <2>3. \A v \in Workers : \A x \in batch[v] \ todo'[v] :
           Reasoned(x, written[v][x].status, written[v][x].tries)'
    <3> SUFFICES ASSUME NEW v \in Workers, NEW x \in batch[v] \ todo'[v]
                 PROVE  Reasoned(x, written[v][x].status, written[v][x].tries)'
      OBVIOUS
    <3>1. CASE v = w /\ x = d
      BY <3>1, <1>1, <1>4, <1>10 DEF Reasoned
    <3>2. CASE ~(v = w /\ x = d)
      BY <3>2, <1>1, <1>9 DEF DeliveryInvariant, VerdictsReasoned, Reasoned
    <3> QED
      BY <3>1, <3>2
  <2>4. \A v \in Workers, s \in Subscriptions :
           loaded'[v][s] = "disabled" => subscribed'[s] = "disabled"
    BY <1>1, <1>5 DEF DeliveryInvariant, VerdictsReasoned
  <2> QED
    BY <2>2, <2>3, <2>4, <1>1 DEF VerdictsReasoned
<1> QED
  BY <1>7, <1>8, <1>11, <1>12, <1>13 DEF DeliveryInvariant

(* Cancelled or posted, a try is counted and its verdict has a reason      *)
(* (WebhookWorker._deliver, WebhookWorker._fail).                          *)
LEMMA DeliveryVerdict ==
    ASSUME OutboxTypeOK, FanOutCurrent, DeliveryInvariant, UNCHANGED outboxVars,
           NEW w \in Workers, NEW d \in todo[w],
           Cancel(w, d) \/ \E answer \in Answers : Deliver(w, d, answer)
    PROVE  DeliveryInvariant'
<1>1. /\ d \in batch[w] /\ d \in deliveries /\ d \in Deliveries
      /\ delivery[d].tries \in Nat /\ delivery[d].tries < MaxTries
      /\ written[w][d] = delivery[d]
  <2>1. d \in batch[w] /\ d \in deliveries /\ delivery[d].status = "pending"
    BY DEF DeliveryInvariant, BatchesLocked
  <2>2. d \in Deliveries /\ delivery[d] \in Columns
    BY <2>1 DEF DeliveryInvariant, WorkerTypeOK, OutboxTypeOK
  <2> QED
    BY <2>1, <2>2 DEF DeliveryInvariant, TriesCounted, Columns
<1>2. /\ posts \in [Deliveries -> Nat] /\ accepted \in [Deliveries -> Nat]
      /\ accepted[d] <= posts[d]
  BY <1>1 DEF DeliveryInvariant, WorkerTypeOK, PostsCounted
<1>3. UNCHANGED subscribed
  BY DEF outboxVars, committedVars
<1>4. CASE Cancel(w, d)
  <2>1. subscribed[d.subscription] = "disabled"
    <3>1. d.subscription \in Subscriptions
      BY <1>1 DEF Deliveries
    <3>2. /\ subscribed[d.subscription] \in {"none", "active", "disabled"}
          /\ subscribed[d.subscription] # "none"
      BY <1>1, <3>1 DEF OutboxTypeOK, Changes, FanOutCurrent
    <3>3. loaded[w][d.subscription] \in {"none", "active", "disabled"}
      BY <3>1 DEF DeliveryInvariant, WorkerTypeOK, Changes
    <3>4. loaded[w][d.subscription] = "disabled" => subscribed[d.subscription] = "disabled"
      BY <3>1 DEF DeliveryInvariant, VerdictsReasoned
    <3> QED
      BY <3>2, <3>3, <3>4, <1>4 DEF Cancel, Loaded
  <2>2. Write(w, d, "cancelled") /\ UNCHANGED <<posts, accepted>>
    BY <1>4 DEF Cancel
  <2>3. Reasoned(d, "cancelled", delivery[d].tries + 1)'
    BY <2>1, <1>3 DEF Reasoned
  <2>4. "cancelled" \in Outcomes
    BY DEF Outcomes
  <2> QED
    BY <2>2, <2>3, <2>4, <1>1, <1>2, DeliveryTried
<1>5. ASSUME NEW answer \in Answers, Deliver(w, d, answer)
      PROVE  DeliveryInvariant'
  <2>s. PICK status : status = StatusAfter(answer, delivery[d].tries + 1)
    OBVIOUS
  <2>1. /\ Write(w, d, status)
        /\ posts' = [posts EXCEPT ![d] = IF answer = "unsent" THEN @ ELSE @ + 1]
        /\ accepted' = [accepted EXCEPT ![d] =
                           IF answer \in {"accepted", "unheard"} THEN @ + 1 ELSE @]
    BY <2>s, <1>1, <1>5 DEF Deliver
  <2>2. /\ posts'[d] = IF answer = "unsent" THEN posts[d] ELSE posts[d] + 1
        /\ accepted'[d] = IF answer \in {"accepted", "unheard"}
                          THEN accepted[d] + 1 ELSE accepted[d]
        /\ posts[d] \in Nat /\ accepted[d] \in Nat
        /\ \A x \in Deliveries \ {d} : posts'[x] = posts[x] /\ accepted'[x] = accepted[x]
    BY <2>1, <1>1, <1>2
  <2>3. posts' \in [Deliveries -> Nat] /\ accepted' \in [Deliveries -> Nat]
    BY <2>1, <1>1, <1>2
  <2>4. posts'[d] <= posts[d] + 1 /\ accepted'[d] <= posts'[d]
    BY <2>2, <1>2 DEF Answers
  <2>5. /\ answer = "accepted" => status = "delivered"
        /\ answer = "refused" => status = "dead_letter"
        /\ answer \in {"busy", "unheard", "unsent"} =>
              status = IF delivery[d].tries + 1 >= MaxTries THEN "dead_letter" ELSE "pending"
    BY <2>s DEF StatusAfter, GivenUp
  <2>6. status \in Outcomes
    BY <2>5 DEF Answers, Outcomes
  <2>7. status = "pending" => delivery[d].tries + 1 < MaxTries
    BY <2>5, <1>1, WorkerAssumption DEF Answers
  <2>8. Reasoned(d, status, delivery[d].tries + 1)'
    <3>1. UNCHANGED delivery
      BY <2>1 DEF Write
    <3>2. status = "delivered" => accepted'[d] > 0
      BY <2>2, <2>5 DEF Answers
    <3>3. status = "dead_letter" =>
             posts'[d] > accepted'[d] \/ delivery[d].tries + 1 = MaxTries
      BY <2>2, <2>5, <1>1, <1>2, WorkerAssumption DEF Answers
    <3>4. status # "cancelled"
      BY <2>5 DEF Answers
    <3> QED
      BY <3>1, <3>2, <3>3, <3>4 DEF Reasoned
  <2> QED
    BY <2>1, <2>2, <2>3, <2>4, <2>6, <2>7, <2>8, DeliveryTried
<1> QED
  BY <1>4, <1>5

(* The end of a batch, committed or not, frees what it held                *)
(* (WebhookWorker.process_batch).                                          *)
LEMMA BatchEnded ==
    ASSUME DeliveryInvariant, NEW w \in Workers, End(w)
    PROVE  /\ batch' \in [Workers -> SUBSET Deliveries]
           /\ todo' \in [Workers -> SUBSET Deliveries]
           /\ written' \in [Workers -> [Deliveries -> Columns]]
           /\ loaded' \in [Workers -> Changes]
           /\ batch'[w] = {} /\ todo'[w] = {}
           /\ \A s \in Subscriptions : loaded'[w][s] = "none"
           /\ \A v \in Workers \ {w} : /\ batch'[v] = batch[v] /\ todo'[v] = todo[v]
                                       /\ written'[v] = written[v] /\ loaded'[v] = loaded[v]
           /\ UNCHANGED <<posts, accepted>>
<1>1. Unwritten \in [Deliveries -> Columns]
  BY WorkerAssumption DEF Unwritten, Fresh, Columns, Outcomes
<1>2. NoChange \in Changes /\ \A s \in Subscriptions : NoChange[s] = "none"
  BY DEF NoChange, Changes
<1> QED
  BY <1>1, <1>2 DEF End, DeliveryInvariant, WorkerTypeOK

(* A committed batch makes its verdicts the deliveries' own                *)
(* (WebhookWorker.process_batch).                                          *)
LEMMA DeliveryCommit ==
    ASSUME DeliveryInvariant, NEW w \in Workers, CommitBatch(w), UNCHANGED outboxVars
    PROVE  DeliveryInvariant'
<1>1. /\ todo[w] = {}
      /\ delivery' = [d \in Deliveries |->
             IF d \in batch[w] THEN written[w][d] ELSE delivery[d]]
      /\ backoff' = backoff \cup {d \in batch[w] : written[w][d].status = "pending"}
      /\ End(w)
      /\ UNCHANGED <<breakdowns, deliveries, subscribed>>
  BY DEF CommitBatch, outboxVars, committedVars
<1>2. /\ batch' \in [Workers -> SUBSET Deliveries]
      /\ todo' \in [Workers -> SUBSET Deliveries]
      /\ written' \in [Workers -> [Deliveries -> Columns]]
      /\ loaded' \in [Workers -> Changes]
      /\ batch'[w] = {} /\ todo'[w] = {}
      /\ \A s \in Subscriptions : loaded'[w][s] = "none"
      /\ \A v \in Workers \ {w} : /\ batch'[v] = batch[v] /\ todo'[v] = todo[v]
                                  /\ written'[v] = written[v] /\ loaded'[v] = loaded[v]
      /\ UNCHANGED <<posts, accepted>>
  BY <1>1, BatchEnded
<1>3. WorkerTypeOK'
  <2>1. delivery' \in [Deliveries -> Columns]
    BY <1>1 DEF DeliveryInvariant, WorkerTypeOK
  <2>2. backoff' \subseteq Deliveries
    BY <1>1 DEF DeliveryInvariant, WorkerTypeOK
  <2> QED
    BY <2>1, <2>2, <1>1, <1>2 DEF DeliveryInvariant, WorkerTypeOK
<1>4. \A v \in Workers \ {w} : \A d \in batch[v] : d \in Deliveries /\ delivery'[d] = delivery[d]
  BY <1>1 DEF DeliveryInvariant, WorkerTypeOK, BatchesLocked
<1>5. BatchesLocked'
  BY <1>1, <1>2, <1>4 DEF DeliveryInvariant, BatchesLocked
<1>6. \A d \in batch[w] :
         /\ d \in Deliveries /\ delivery'[d] = written[w][d]
         /\ written[w][d].status = "pending" => written[w][d].tries < MaxTries
         /\ Reasoned(d, written[w][d].status, written[w][d].tries)
         /\ posts[d] <= written[w][d].tries + breakdowns
  <2>1. \A d \in batch[w] : d \in Deliveries /\ d \in batch[w] \ todo[w]
    BY <1>1 DEF DeliveryInvariant, WorkerTypeOK
  <2> QED
    BY <2>1, <1>1 DEF DeliveryInvariant, TriesCounted, PostsCounted, VerdictsReasoned
<1>7. \A d \in Deliveries : d \notin batch[w] => delivery'[d] = delivery[d]
  BY <1>1
<1>8. TriesCounted'
  <2>1. \A d \in Deliveries : delivery'[d].status = "pending" => delivery'[d].tries < MaxTries
    BY <1>6, <1>7 DEF DeliveryInvariant, TriesCounted
  <2>2. \A v \in Workers :
           /\ \A d \in todo'[v] : written'[v][d] = delivery'[d]
           /\ \A d \in batch'[v] \ todo'[v] :
                 /\ written'[v][d].tries = delivery'[d].tries + 1
                 /\ written'[v][d].status = "pending" => written'[v][d].tries < MaxTries
    <3> SUFFICES ASSUME NEW v \in Workers \ {w}
                 PROVE  /\ \A d \in todo'[v] : written'[v][d] = delivery'[d]
                        /\ \A d \in batch'[v] \ todo'[v] :
                              /\ written'[v][d].tries = delivery'[d].tries + 1
                              /\ written'[v][d].status = "pending" =>
                                    written'[v][d].tries < MaxTries
      BY <1>2
    <3>1. todo[v] \subseteq batch[v]
      BY DEF DeliveryInvariant, BatchesLocked
    <3> QED
      BY <3>1, <1>2, <1>4 DEF DeliveryInvariant, TriesCounted
  <2> QED
    BY <2>1, <2>2 DEF TriesCounted
<1>9. PostsCounted'
  <2>1. \A d \in Deliveries : (\A v \in Workers : d \notin batch'[v]) =>
           posts[d] <= delivery'[d].tries + breakdowns
    <3> SUFFICES ASSUME NEW d \in Deliveries, \A v \in Workers : d \notin batch'[v]
                 PROVE  posts[d] <= delivery'[d].tries + breakdowns
      OBVIOUS
    <3>1. CASE d \in batch[w]
      BY <3>1, <1>6
    <3>2. CASE d \notin batch[w]
      BY <3>2, <1>2, <1>7 DEF DeliveryInvariant, PostsCounted
    <3> QED
      BY <3>1, <3>2
  <2>2. \A v \in Workers : \A d \in batch'[v] : posts[d] <= written'[v][d].tries + breakdowns
    BY <1>2 DEF DeliveryInvariant, PostsCounted
  <2> QED
    BY <2>1, <2>2, <1>1, <1>2 DEF DeliveryInvariant, PostsCounted
<1>10. VerdictsReasoned'
  <2>1. \A d, status, tries : Reasoned(d, status, tries)' <=> Reasoned(d, status, tries)
    BY <1>1, <1>2 DEF Reasoned
  <2>2. \A d \in Deliveries : Reasoned(d, delivery'[d].status, delivery'[d].tries)
    BY <1>6, <1>7 DEF DeliveryInvariant, VerdictsReasoned
  <2>3. \A v \in Workers : \A d \in batch'[v] \ todo'[v] :
           Reasoned(d, written'[v][d].status, written'[v][d].tries)
    BY <1>2 DEF DeliveryInvariant, VerdictsReasoned
  <2>4. \A v \in Workers, s \in Subscriptions :
           loaded'[v][s] = "disabled" => subscribed[s] = "disabled"
    BY <1>2 DEF DeliveryInvariant, VerdictsReasoned
  <2> QED
    BY <2>1, <2>2, <2>3, <2>4, <1>1 DEF VerdictsReasoned
<1> QED
  BY <1>3, <1>5, <1>8, <1>9, <1>10 DEF DeliveryInvariant

(* A lost batch leaves the deliveries as they were, one post the richer    *)
(* (main of the webhook worker).                                           *)
LEMMA DeliveryBreakdown ==
    ASSUME DeliveryInvariant, NEW w \in Workers, Breakdown(w), UNCHANGED outboxVars
    PROVE  DeliveryInvariant'
<1>1. /\ breakdowns < MaxBreakdowns /\ breakdowns' = breakdowns + 1
      /\ End(w)
      /\ UNCHANGED <<delivery, backoff, deliveries, subscribed>>
      /\ breakdowns \in Nat
  BY WorkerAssumption DEF Breakdown, outboxVars, committedVars, DeliveryInvariant, WorkerTypeOK
<1>2. /\ batch' \in [Workers -> SUBSET Deliveries]
      /\ todo' \in [Workers -> SUBSET Deliveries]
      /\ written' \in [Workers -> [Deliveries -> Columns]]
      /\ loaded' \in [Workers -> Changes]
      /\ batch'[w] = {} /\ todo'[w] = {}
      /\ \A s \in Subscriptions : loaded'[w][s] = "none"
      /\ \A v \in Workers \ {w} : /\ batch'[v] = batch[v] /\ todo'[v] = todo[v]
                                  /\ written'[v] = written[v] /\ loaded'[v] = loaded[v]
      /\ UNCHANGED <<posts, accepted>>
  BY <1>1, BatchEnded
<1>3. WorkerTypeOK'
  BY <1>1, <1>2, WorkerAssumption DEF DeliveryInvariant, WorkerTypeOK
<1>4. BatchesLocked'
  BY <1>1, <1>2 DEF DeliveryInvariant, BatchesLocked
<1>5. TriesCounted'
  <2> SUFFICES ASSUME NEW v \in Workers
               PROVE  /\ \A d \in todo'[v] : written'[v][d] = delivery[d]
                      /\ \A d \in batch'[v] \ todo'[v] :
                            /\ written'[v][d].tries = delivery[d].tries + 1
                            /\ written'[v][d].status = "pending" =>
                                  written'[v][d].tries < MaxTries
    BY <1>1 DEF DeliveryInvariant, TriesCounted
  <2>1. CASE v = w
    BY <2>1, <1>2
  <2>2. CASE v # w
    BY <2>2, <1>2 DEF DeliveryInvariant, TriesCounted
  <2> QED
    BY <2>1, <2>2
<1>6. PostsCounted'
  <2>1. \A d \in Deliveries :
           posts[d] \in Nat /\ delivery[d].tries \in Nat
    BY WorkerAssumption DEF DeliveryInvariant, WorkerTypeOK, Columns
  <2>2. \A d \in batch[w] : /\ d \in Deliveries
                            /\ posts[d] <= delivery[d].tries + breakdowns + 1
    <3> SUFFICES ASSUME NEW d \in batch[w]
                 PROVE  d \in Deliveries /\ posts[d] <= delivery[d].tries + breakdowns + 1
      OBVIOUS
    <3>1. d \in Deliveries
      BY DEF DeliveryInvariant, WorkerTypeOK
    <3>2. posts[d] <= written[w][d].tries + breakdowns
      BY DEF DeliveryInvariant, PostsCounted
    <3>3. written[w][d].tries \in {delivery[d].tries, delivery[d].tries + 1}
      BY DEF DeliveryInvariant, TriesCounted
    <3> QED
      BY <3>1, <3>2, <3>3, <2>1, <1>1
  <2>3. \A d \in Deliveries : (\A v \in Workers : d \notin batch'[v]) =>
           posts[d] <= delivery[d].tries + breakdowns'
    <3> SUFFICES ASSUME NEW d \in Deliveries, \A v \in Workers : d \notin batch'[v]
                 PROVE  posts[d] <= delivery[d].tries + breakdowns'
      OBVIOUS
    <3>1. CASE d \in batch[w]
      BY <3>1, <2>1, <2>2, <1>1
    <3>2. CASE d \notin batch[w]
      <4>1. posts[d] <= delivery[d].tries + breakdowns
        BY <3>2, <1>2 DEF DeliveryInvariant, PostsCounted
      <4> QED
        BY <4>1, <2>1, <1>1
    <3> QED
      BY <3>1, <3>2
  <2>4. \A v \in Workers : \A d \in batch'[v] : posts[d] <= written'[v][d].tries + breakdowns'
    <3> SUFFICES ASSUME NEW v \in Workers \ {w}, NEW d \in batch[v]
                 PROVE  posts[d] <= written[v][d].tries + breakdowns'
      BY <1>2
    <3>1. d \in Deliveries /\ posts[d] <= written[v][d].tries + breakdowns
      BY DEF DeliveryInvariant, PostsCounted, WorkerTypeOK
    <3>2. written[v][d].tries \in Nat
      BY <3>1, WorkerAssumption DEF DeliveryInvariant, WorkerTypeOK, Columns
    <3> QED
      BY <3>1, <3>2, <2>1, <1>1
  <2> QED
    BY <2>3, <2>4, <1>1, <1>2 DEF DeliveryInvariant, PostsCounted
<1>7. VerdictsReasoned'
  <2>1. \A d, status, tries : Reasoned(d, status, tries)' <=> Reasoned(d, status, tries)
    BY <1>1, <1>2 DEF Reasoned
  <2>2. \A v \in Workers : \A d \in batch'[v] \ todo'[v] :
           Reasoned(d, written'[v][d].status, written'[v][d].tries)
    BY <1>2 DEF DeliveryInvariant, VerdictsReasoned
  <2>3. \A v \in Workers, s \in Subscriptions :
           loaded'[v][s] = "disabled" => subscribed[s] = "disabled"
    BY <1>2 DEF DeliveryInvariant, VerdictsReasoned
  <2> QED
    BY <2>1, <2>2, <2>3, <1>1 DEF DeliveryInvariant, VerdictsReasoned
<1> QED
  BY <1>3, <1>4, <1>5, <1>6, <1>7 DEF DeliveryInvariant

(* Every step of the workers keeps the invariant (webhook_worker.py).      *)
LEMMA DeliveryWorker ==
    ASSUME ChainInvariant, DeliveryInvariant, [WorkerNext]_workerVars, UNCHANGED outboxVars
    PROVE  DeliveryInvariant'
<1>1. OutboxTypeOK /\ FanOutCurrent
  BY DEF ChainInvariant
<1>2. CASE UNCHANGED <<delivery, batch, todo, written, loaded, posts, accepted, breakdowns>>
           /\ backoff' \subseteq Deliveries
  <2>1. UNCHANGED <<deliveries, subscribed>>
    BY DEF outboxVars, committedVars
  <2>2. WorkerTypeOK' /\ BatchesLocked' /\ TriesCounted' /\ PostsCounted'
    BY <1>2, <2>1 DEF DeliveryInvariant, WorkerTypeOK, BatchesLocked, TriesCounted, PostsCounted
  <2>3. VerdictsReasoned'
    BY <1>2, <2>1 DEF DeliveryInvariant, VerdictsReasoned, Reasoned
  <2> QED
    BY <2>2, <2>3 DEF DeliveryInvariant
<1>3. CASE UNCHANGED workerVars \/ \E d \in backoff : ComeDue(d)
  <2>1. backoff \subseteq Deliveries
    BY DEF DeliveryInvariant, WorkerTypeOK
  <2> QED
    BY <2>1, <1>2, <1>3 DEF workerVars, ComeDue
<1>4. ASSUME NEW w \in Workers, WorkerStep(w) \/ Breakdown(w)
      PROVE  DeliveryInvariant'
  BY <1>1, <1>4, DeliverySelect, DeliveryVerdict, DeliveryCommit, DeliveryBreakdown DEF WorkerStep
<1> QED
  BY <1>3, <1>4 DEF WorkerNext
-----------------------------------------------------------------------------
(* The whole invariant is kept by every step of the composition.           *)
LEMMA DeliveryNext ==
    ChainInvariant /\ DeliveryInvariant /\ [Next]_vars => ChainInvariant' /\ DeliveryInvariant'
<1> SUFFICES ASSUME ChainInvariant, DeliveryInvariant, [Next]_vars
             PROVE  ChainInvariant' /\ DeliveryInvariant'
  OBVIOUS
<1>1. \/ [OutboxNext]_outboxVars /\ UNCHANGED workerVars
      \/ [WorkerNext]_workerVars /\ UNCHANGED outboxVars
  BY DEF Next, vars
<1>2. [OutboxNext]_outboxVars
  BY <1>1
<1>3. ChainInvariant'
  BY <1>2, ChainNext
<1>4. DeliveryInvariant'
  BY <1>1, DeliveryOutbox, DeliveryWorker
<1> QED
  BY <1>3, <1>4

(* Both halves of the invariant hold always: the advisory lock keeps the   *)
(* chain (SqlAuditLog), the row locks keep the count of tries              *)
(* (WebhookWorker).                                                        *)
THEOREM DeliveryAlways == Spec => [](ChainInvariant /\ DeliveryInvariant)
<1>1. Init => ChainInvariant /\ DeliveryInvariant
  BY ChainInit, DeliveryInit DEF Init
<1> QED
  BY <1>1, DeliveryNext, PTL DEF Spec

(* The advisory lock that SqlAuditLog.append takes for the rest of its     *)
(* transaction keeps every tenant's chain, and with it the fan-out.        *)
THEOREM LockKeepsChain == Spec => []ChainInvariant
BY DeliveryAlways, PTL

(* The row locks that WebhookWorker.process_batch keeps until its commit   *)
(* keep posts, tries and verdicts in step.                                 *)
THEOREM RowLocksKeepDeliveries == Spec => []DeliveryInvariant
BY DeliveryAlways, PTL

(* Every variable of the outbox and of the workers keeps its type; above   *)
(* all, no delivery is tried more often than webhook_max_attempts.         *)
THEOREM DeliveryTypes == Spec => []TypeOK
<1>1. ChainInvariant /\ DeliveryInvariant => TypeOK
  BY DEF ChainInvariant, DeliveryInvariant, TypeOK
<1> QED
  BY <1>1, DeliveryAlways, PTL

(* The audit log of a tenant is one chain, without gap or fork             *)
(* (SqlAuditLog.append).                                                   *)
THEOREM ChainNeverForks == Spec => []ChainIntact
<1>1. ChainInvariant => ChainIntact
  <2> SUFFICES ASSUME ChainInvariant, NEW r \in audit
               PROVE  /\ \A q \in audit :
                            q.tenant = r.tenant /\ q.sequence = r.sequence => q = r
                      /\ IF r.sequence = 1
                         THEN r.previous = Genesis
                         ELSE \E q \in audit :
                                 /\ q.tenant = r.tenant
                                 /\ q.sequence = r.sequence - 1
                                 /\ r.previous = HashOf(q)
    BY DEF ChainIntact, Chained
  <2>1. r.tenant \in Tenants
    BY DEF ChainInvariant, OutboxTypeOK, Rows
  <2>2. Chained(Of(audit, r.tenant)) /\ r \in Of(audit, r.tenant)
    BY <2>1 DEF ChainInvariant, ViewsChained, Of
  <2> QED
    BY <2>2 DEF Chained, Of
<1> QED
  BY <1>1, DeliveryAlways, PTL

(* A transaction's events follow each other in the chain                   *)
(* (pg_advisory_xact_lock, held until the commit).                         *)
THEOREM EventsFollowEachOther == Spec => []TransactionsUnbroken
<1>1. ChainInvariant => TransactionsUnbroken
  BY DEF ChainInvariant
<1> QED
  BY <1>1, DeliveryAlways, PTL

(* An event is delivered to those that are subscribed when it is committed *)
(* (SqlAuditLog._publish).                                                 *)
THEOREM FanOutIsCurrent == Spec => FanOutFollowsChain
<1> DEFINE Fan == \A e \in events' \ events :
                     {d.subscription : d \in {x \in deliveries' : x.event = e}} =
                         {s \in Subscriptions : Owner[s] = e.tenant /\ subscribed[s] = "active"}
<1>1. ASSUME ChainInvariant, NEW t \in Transactions, Commit(t) PROVE Fan
  <2> SUFFICES ASSUME NEW e \in events' \ events
               PROVE  {d.subscription : d \in {x \in deliveries' : x.event = e}} =
                         {s \in Subscriptions : Owner[s] = e.tenant /\ subscribed[s] = "active"}
    OBVIOUS
  <2>1. /\ events' = events \cup draft[t].events
        /\ deliveries' = deliveries \cup draft[t].deliveries
    BY <1>1 DEF Commit
  <2>2. e \in draft[t].events
    BY <2>1
  <2>3. \A d \in deliveries : d.event # e
    BY <1>1 DEF ChainInvariant, CommittedCauses
  <2>4. {x \in deliveries' : x.event = e} = {x \in draft[t].deliveries : x.event = e}
    BY <2>1, <2>3
  <2>5. {d.subscription : d \in {x \in draft[t].deliveries : x.event = e}} = Targets(e.tenant)
    BY <1>1, <2>2 DEF ChainInvariant, FanOutCurrent
  <2> QED
    BY <2>4, <2>5 DEF Targets
<1>2. ASSUME UNCHANGED events PROVE Fan
  BY <1>2
<1>3. ChainInvariant /\ [Next]_vars => [Fan]_vars
  <2> SUFFICES ASSUME ChainInvariant, Next PROVE Fan
    OBVIOUS
  <2>1. UNCHANGED events \/ \E t \in Transactions : Commit(t)
    <3>1. CASE UNCHANGED outboxVars
      BY <3>1 DEF outboxVars, committedVars
    <3>2. CASE OutboxNext
      <4>1. PICK t \in Transactions :
               \/ Obtain(t) \/ Commit(t) \/ RollBack(t)
               \/ \E tn \in Tenants : Call(t, tn)
               \/ \E tn \in Tenants, kind \in Kinds : Record(t, tn, kind)
               \/ \E s \in Subscriptions : Subscribe(t, s) \/ Disable(t, s)
        BY <3>2 DEF OutboxNext
      <4>2. CASE Obtain(t) \/ RollBack(t)
        BY <4>2 DEF Obtain, RollBack, committedVars
      <4>3. CASE \E tn \in Tenants : Call(t, tn)
        BY <4>3 DEF Call, committedVars
      <4>4. CASE \E tn \in Tenants, kind \in Kinds : Record(t, tn, kind)
        BY <4>4 DEF Record, AppendEvent, committedVars
      <4>5. CASE \E s \in Subscriptions : Subscribe(t, s) \/ Disable(t, s)
        BY <4>5 DEF Subscribe, Disable, AppendEvent, committedVars
      <4> QED
        BY <4>1, <4>2, <4>3, <4>4, <4>5
    <3> QED
      BY <3>1, <3>2 DEF Next
  <2> QED
    BY <2>1, <1>1, <1>2
<1> QED
  BY <1>3, DeliveryAlways, PTL DEF Spec, FanOutFollowsChain

(* A subscriber receives a delivery at most webhook_max_attempts times and *)
(* once more for each lost batch (WebhookWorker._fail).                    *)
THEOREM PostsAreBounded == Spec => []PostsBounded
<1>1. DeliveryInvariant => PostsBounded
  <2> SUFFICES ASSUME DeliveryInvariant, NEW d \in Deliveries
               PROVE  posts[d] <= MaxTries + breakdowns
    BY DEF PostsBounded
  <2>1. /\ posts[d] \in Nat /\ breakdowns \in Nat
        /\ delivery[d].tries \in Nat /\ delivery[d].tries <= MaxTries
        /\ \A w \in Workers : written[w][d].tries \in Nat /\ written[w][d].tries <= MaxTries
    BY WorkerAssumption DEF DeliveryInvariant, WorkerTypeOK, Columns
  <2>2. CASE \A w \in Workers : d \notin batch[w]
    BY <2>1, <2>2, WorkerAssumption DEF DeliveryInvariant, PostsCounted
  <2>3. ASSUME NEW w \in Workers, d \in batch[w]
        PROVE  posts[d] <= MaxTries + breakdowns
    <3>1. posts[d] <= written[w][d].tries + breakdowns
      BY <2>3 DEF DeliveryInvariant, PostsCounted
    <3> QED
      BY <3>1, <2>1, WorkerAssumption
  <2> QED
    BY <2>2, <2>3
<1> QED
  BY <1>1, DeliveryAlways, PTL

(* Delivered means accepted, dead means refused or out of tries, cancelled *)
(* means disabled (WebhookWorker._deliver).                                *)
THEOREM VerdictsHaveReasons == Spec => []SettledForReason
<1>1. DeliveryInvariant => SettledForReason
  BY DEF DeliveryInvariant, VerdictsReasoned, Reasoned, SettledForReason
<1> QED
  BY <1>1, DeliveryAlways, PTL

(* What is settled is neither changed nor posted again (process_batch with *)
(* SKIP LOCKED).                                                           *)
THEOREM SettledStays == Spec => SettledIsFinal
<1> DEFINE Final == \A d \in Deliveries :
                       delivery[d].status # "pending" =>
                           delivery'[d] = delivery[d] /\ posts'[d] = posts[d]
<1>1. ASSUME DeliveryInvariant
      PROVE  \A d \in Deliveries, w \in Workers :
                delivery[d].status # "pending" => d \notin batch[w] /\ d \notin todo[w]
  BY <1>1 DEF DeliveryInvariant, BatchesLocked
<1>2. DeliveryInvariant /\ [Next]_vars => [Final]_vars
  <2> SUFFICES ASSUME DeliveryInvariant, Next, NEW d \in Deliveries,
                      delivery[d].status # "pending"
               PROVE  delivery'[d] = delivery[d] /\ posts'[d] = posts[d]
    OBVIOUS
  <2>1. CASE UNCHANGED <<delivery, posts>>
    BY <2>1
  <2>2. ASSUME NEW w \in Workers, WorkerStep(w) \/ Breakdown(w)
        PROVE  delivery'[d] = delivery[d] /\ posts'[d] = posts[d]
    <3>1. CASE Select(w) \/ Breakdown(w)
      BY <3>1 DEF Select, Breakdown, End
    <3>2. CASE CommitBatch(w)
      BY <3>2, <1>1 DEF CommitBatch, End
    <3>3. ASSUME NEW x \in todo[w], Cancel(w, x)
          PROVE  delivery'[d] = delivery[d] /\ posts'[d] = posts[d]
      BY <3>3 DEF Cancel, Write
    <3>4. ASSUME NEW x \in todo[w], NEW answer \in Answers, Deliver(w, x, answer)
          PROVE  delivery'[d] = delivery[d] /\ posts'[d] = posts[d]
      <4>1. x # d
        BY <1>1
      <4>2. UNCHANGED delivery /\ posts' = [posts EXCEPT ![x] = IF answer = "unsent" THEN @ ELSE @ + 1]
        BY <3>4 DEF Deliver, Write
      <4> QED
        BY <4>1, <4>2 DEF DeliveryInvariant, WorkerTypeOK
    <3> QED
      BY <2>2, <3>1, <3>2, <3>3, <3>4 DEF WorkerStep
  <2>3. CASE UNCHANGED workerVars \/ \E x \in backoff : ComeDue(x)
    BY <2>1, <2>3 DEF workerVars, ComeDue
  <2> QED
    BY <2>2, <2>3 DEF Next, WorkerNext
<1> QED
  BY <1>2, DeliveryAlways, PTL DEF Spec, SettledIsFinal
-----------------------------------------------------------------------------
(***************************************************************************)
(* The history of a tenant.                                                *)
(***************************************************************************)
(* The newest of a set of chained rows stands for all of them.             *)
LEMMA PastOfNewest ==
    ASSUME NEW R \in SUBSET Rows, NEW tn \in Tenants, \A r \in R : r.tenant = tn,
           Chained(R), NEW last \in R, \A q \in R : q.sequence <= last.sequence
    PROVE  Past(R) = HashOf(last)
<1>1. last \in Newest(R)
  BY DEF Newest
<1>2. \A r \in Newest(R) : r = last
  <2> SUFFICES ASSUME NEW r \in Newest(R) PROVE r = last
    OBVIOUS
  <2>1. r \in R /\ last.sequence <= r.sequence /\ r.sequence <= last.sequence
    BY DEF Newest
  <2>2. r.sequence \in Nat /\ last.sequence \in Nat
    BY <2>1 DEF Rows
  <2>3. r.sequence = last.sequence /\ r.tenant = last.tenant
    BY <2>1, <2>2
  <2> QED
    BY <2>1, <2>3 DEF Chained
<1>3. (CHOOSE r \in Newest(R) : TRUE) = last
  BY <1>1, <1>2
<1> QED
  BY <1>3 DEF Past

(* A past is a sequence of entries.                                        *)
LEMMA PastType ==
    ASSUME NEW R \in SUBSET Rows, HasHead(R)
    PROVE  Past(R) \in Seq(Contents)
<1>1. CASE R = {}
  BY <1>1 DEF Past, Genesis
<1>2. CASE R # {}
  <2> DEFINE r == CHOOSE r \in Newest(R) : TRUE
  <2>1. r \in Rows
    BY <1>2, HeadRow
  <2>2. r.previous \in Seq(Contents) /\ r.content \in Contents
    BY <2>1 DEF Rows
  <2>3. Past(R) = HashOf(r)
    BY <1>2 DEF Past
  <2> HIDE DEF r
  <2> QED
    BY <2>2, <2>3 DEF HashOf
<1> QED
  BY <1>1, <1>2

LEMMA ContinuesItself ==
    ASSUME NEW s \in Seq(Contents), NEW t
    PROVE  Promise!Continues(s, s, t)
BY DEF Promise!Continues

(* One more entry of t continues what t has continued.                     *)
LEMMA ContinuesAppended ==
    ASSUME NEW s \in Seq(Contents), NEW before \in Seq(Contents), NEW c \in Contents,
           Promise!Continues(s, before, c[1])
    PROVE  Promise!Continues(Append(s, c), before, c[1])
<1>1. /\ Append(s, c) \in Seq(Contents)
      /\ Len(Append(s, c)) = Len(s) + 1
      /\ \A i \in 1..Len(s) : Append(s, c)[i] = s[i]
      /\ Append(s, c)[Len(s) + 1] = c
      /\ Len(s) \in Nat /\ Len(before) \in Nat
  OBVIOUS
<1>2. /\ Len(before) <= Len(s)
      /\ \A i \in 1..Len(before) : s[i] = before[i]
      /\ \A i \in (Len(before) + 1)..Len(s) : s[i][1] = c[1]
  BY DEF Promise!Continues
<1> DEFINE a == Append(s, c)
<1> HIDE DEF a
<1>3. \A i \in 1..Len(before) : a[i] = before[i]
  BY <1>1, <1>2 DEF a
<1>4. \A i \in (Len(before) + 1)..(Len(s) + 1) : a[i][1] = c[1]
  <2> SUFFICES ASSUME NEW i \in (Len(before) + 1)..(Len(s) + 1)
               PROVE  a[i][1] = c[1]
    OBVIOUS
  <2>1. CASE i = Len(s) + 1
    BY <2>1, <1>1 DEF a
  <2>2. CASE i # Len(s) + 1
    <3>1. i \in (Len(before) + 1)..Len(s) /\ i \in 1..Len(s)
      BY <2>2, <1>1
    <3> QED
      BY <3>1, <1>1, <1>2 DEF a
  <2> QED
    BY <2>1, <2>2
<1>5. Len(before) <= Len(a) /\ Len(a) = Len(s) + 1
  BY <1>1, <1>2 DEF a
<1> QED
  BY <1>3, <1>4, <1>5 DEF Promise!Continues, a

(* The committed rows of a tenant, and the history they stand for.         *)
LEMMA CommittedRows ==
    ASSUME ChainInvariant, NEW tn \in Tenants
    PROVE  /\ Of(audit, tn) \in SUBSET Rows
           /\ \A r \in Of(audit, tn) : r.tenant = tn
           /\ Chained(Of(audit, tn)) /\ HasHead(Of(audit, tn))
           /\ History(tn) = Past(Of(audit, tn))
           /\ History(tn) \in Seq(Contents)
<1>1. Of(audit, tn) \in SUBSET Rows /\ \A r \in Of(audit, tn) : r.tenant = tn
  BY DEF ChainInvariant, OutboxTypeOK, Of
<1>2. Chained(Of(audit, tn)) /\ HasHead(Of(audit, tn))
  BY DEF ChainInvariant, ViewsChained
<1>3. History(tn) = Past(Of(audit, tn))
  BY DEF History, Of
<1> QED
  BY <1>1, <1>2, <1>3, PastType

LEMMA HistoryKept ==
    ASSUME UNCHANGED audit, NEW tn \in Tenants
    PROVE  History(tn)' = History(tn)
BY DEF History

LEMMA HistoryInit == OutboxInit => HistoryInvariant
<1> SUFFICES ASSUME OutboxInit PROVE HistoryInvariant
  OBVIOUS
<1>1. \A t \in Transactions : draft[t] = EmptyDraft
  BY DEF OutboxInit
<1>2. \A tn \in Tenants : History(tn) = <<>>
  BY DEF OutboxInit, History, Past, Genesis
<1>3. DraftsContinue /\ RowsPlaced /\ DraftsRecorded
  BY <1>1, NothingDrafted DEF OutboxInit, DraftsContinue, RowsPlaced, DraftsRecorded
<1>4. HistoryCommitted
  BY <1>2 DEF HistoryCommitted
<1> QED
  BY <1>3, <1>4 DEF HistoryInvariant

(* An append continues the history its transaction sees                    *)
(* (SqlAuditLog.append).                                                   *)
LEMMA HistoryAppend ==
    ASSUME ChainInvariant, HistoryInvariant,
           NEW t \in Transactions, NEW tn \in Tenants, NEW kind \in DOMAIN Published,
           NEW change \in Changes, AppendEvent(t, tn, kind, change),
           \A s \in Subscriptions : change[s] # "none" => Owner[s] = tn,
           \A s \in Subscriptions : change[s] = "disabled" => subscribed[s] # "none"
    PROVE  HistoryInvariant'
<1> DEFINE row == NewRow(t, tn)
           P == NewEvents(t, tn, kind)
           V == Visible(t, tn)
<1>1. UNCHANGED <<audit, subscribed, phase>> /\ MayAppend(t) /\ lock[tn] = t
  BY DEF AppendEvent, committedVars, Holds
<1>2. /\ row \in Rows /\ row.tenant = tn /\ row.content[1] = t
      /\ row.content[2] = Cardinality(draft[t].rows) + 1
  BY <1>1, RowAppended
<1>3. /\ \A e \in P : e.tenant = tn /\ e.cause = row.content
      /\ draft'[t].rows = draft[t].rows \cup {row}
      /\ draft'[t].events = draft[t].events \cup P
      /\ draft'[t].change = change
      /\ \A u \in Transactions \ {t} : draft'[u] = draft[u]
  BY <1>2, DraftAppended
<1>4. \A x \in Tenants : History(x)' = History(x)
  BY <1>1, HistoryKept
<1>5. Promise!Continues(row.previous, History(tn), t)
  <2>1. /\ Of(audit, tn) \in SUBSET Rows /\ \A r \in Of(audit, tn) : r.tenant = tn
        /\ Chained(Of(audit, tn))
        /\ History(tn) = Past(Of(audit, tn)) /\ History(tn) \in Seq(Contents)
    BY CommittedRows
  <2>2. V \in SUBSET Rows /\ HasHead(V)
    BY DEF ChainInvariant, OutboxTypeOK, ViewsChained, Drafts, Visible
  <2>3. CASE V = {}
    <3>1. Of(audit, tn) = {} /\ Newest(V) = {}
      BY <2>3 DEF Of, Visible, Newest
    <3>2. row.previous = <<>> /\ History(tn) = <<>>
      BY <2>1, <3>1 DEF NewRow, NextRow, Past, Genesis
    <3> QED
      BY <3>2 DEF Promise!Continues
  <2>4. CASE V # {}
    <3> DEFINE last == CHOOSE r \in Newest(V) : TRUE
    <3>1. last \in V /\ \A q \in V : q.sequence <= last.sequence
      BY <2>2, <2>4, HeadRow
    <3>2. Newest(V) # {}
      BY <2>2, <2>4 DEF HasHead
    <3>3. row.previous = HashOf(last)
      BY <3>2 DEF NewRow, NextRow
    <3> HIDE DEF last
    <3>4. last \in Rows /\ last.previous \in Seq(Contents) /\ last.content \in Contents
          /\ last.tenant = tn
      BY <2>2, <3>1 DEF Rows, Visible
    <3>5. CASE last \in audit
      <4>1. last \in Of(audit, tn) /\ Of(audit, tn) \subseteq V
        BY <3>4, <3>5 DEF Of, Visible
      <4>2. History(tn) = HashOf(last)
        BY <2>1, <3>1, <4>1, PastOfNewest
      <4> QED
        BY <2>1, <3>3, <4>2, ContinuesItself
    <3>6. CASE last \notin audit
      <4>1. last \in draft[t].rows
        BY <3>1, <3>6 DEF Visible
      <4>2. /\ Promise!Continues(last.previous, History(tn), t)
            /\ last.content[1] = t
        BY <3>4, <4>1 DEF HistoryInvariant, DraftsContinue, ChainInvariant, DraftsLocked
      <4> QED
        BY <2>1, <3>3, <3>4, <4>2, ContinuesAppended DEF HashOf
    <3> QED
      BY <3>5, <3>6
  <2> QED
    BY <2>3, <2>4
<1>10. /\ Len(row.previous) = row.sequence - 1
       /\ \A q \in draft[t].rows : q.tenant = tn => row.previous[q.sequence] = q.content
  <2>1. V \in SUBSET Rows /\ HasHead(V) /\ Chained(V)
    BY DEF ChainInvariant, OutboxTypeOK, ViewsChained, Drafts, Visible
  <2>2. CASE V = {}
    <3>1. Newest(V) = {}
      BY <2>2 DEF Newest
    <3>2. row.previous = <<>> /\ row.sequence = 1
      BY <3>1 DEF NewRow, NextRow, Genesis
    <3> QED
      BY <2>2, <3>2 DEF Visible
  <2>3. CASE V # {}
    <3> DEFINE last == CHOOSE r \in Newest(V) : TRUE
    <3>1. last \in V /\ \A q \in V : q.sequence <= last.sequence
      BY <2>1, <2>3, HeadRow
    <3>2. Newest(V) # {}
      BY <2>1, <2>3 DEF HasHead
    <3>3. row.previous = HashOf(last) /\ row.sequence = last.sequence + 1
      BY <3>2 DEF NewRow, NextRow
    <3> HIDE DEF last
    <3>4. /\ last.previous \in Seq(Contents) /\ last.content \in Contents
          /\ last.sequence \in Nat \ {0} /\ last.tenant = tn
      BY <2>1, <3>1 DEF Rows, Visible
    <3>5. Len(last.previous) = last.sequence - 1
      BY <3>1 DEF Visible, HistoryInvariant, RowsPlaced
    <3>6. /\ Len(HashOf(last)) = last.sequence
          /\ HashOf(last)[last.sequence] = last.content
          /\ \A i \in 1..(last.sequence - 1) : HashOf(last)[i] = last.previous[i]
      BY <3>4, <3>5 DEF HashOf
    <3>7. ASSUME NEW q \in draft[t].rows, q.tenant = tn
          PROVE  HashOf(last)[q.sequence] = q.content
      <4>1. q \in V /\ q \in Rows
        BY <2>1, <3>7 DEF Visible
      <4>2. q.sequence \in Nat \ {0} /\ q.sequence <= last.sequence
        BY <3>1, <4>1 DEF Rows
      <4>3. CASE q.sequence = last.sequence
        <5>1. q = last
          BY <2>1, <3>1, <3>4, <3>7, <4>1, <4>3 DEF Chained
        <5> QED
          BY <3>6, <5>1
      <4>4. CASE q.sequence # last.sequence
        <5>1. last \notin audit
          BY <3>4, <3>7, <4>2 DEF ChainInvariant, ViewsChained
        <5>2. last \in draft[t].rows
          BY <3>1, <5>1 DEF Visible
        <5>3. last.previous[q.sequence] = q.content
          BY <3>4, <3>7, <4>2, <4>4, <5>2 DEF HistoryInvariant, RowsPlaced
        <5> QED
          BY <3>4, <3>6, <4>2, <4>4, <5>3
      <4> QED
        BY <4>3, <4>4
    <3> QED
      BY <3>3, <3>4, <3>6, <3>7
  <2> QED
    BY <2>2, <2>3
<1>11. \A q \in draft[t].rows : q.tenant = tn => q.sequence < row.sequence
  BY <1>1, RowAppended DEF Visible
<1> HIDE DEF row, P, V
<1>6. \A u \in Transactions : draft[u].rows \subseteq Rows
  BY DEF ChainInvariant, OutboxTypeOK, Drafts
<1>7. DraftsContinue'
  <2> SUFFICES ASSUME NEW u \in Transactions, NEW r \in draft'[u].rows
               PROVE  Promise!Continues(r.previous, History(r.tenant)', u)
    BY DEF DraftsContinue, Promise!Continues
  <2>1. r \in Rows /\ r.tenant \in Tenants
    BY <1>2, <1>3, <1>6 DEF Rows
  <2>2. CASE r \in draft[u].rows
    <3>1. Promise!Continues(r.previous, History(r.tenant), u)
      BY <2>2 DEF HistoryInvariant, DraftsContinue
    <3> QED
      BY <2>1, <3>1, <1>4
  <2>3. CASE r \notin draft[u].rows
    <3>1. u = t /\ r = row
      BY <1>3, <2>3
    <3> QED
      BY <1>2, <1>4, <1>5, <3>1
  <2> QED
    BY <2>2, <2>3
<1>8. HistoryCommitted'
  BY <1>1, <1>4 DEF HistoryInvariant, HistoryCommitted
<1>9. DraftsRecorded'
  BY <1>1, <1>2, <1>3 DEF HistoryInvariant, DraftsRecorded
<1>12. RowsPlaced'
  <2>1. \A q \in draft[t].rows : q.sequence \in Nat /\ row.sequence \in Nat
    BY <1>2, <1>6 DEF Rows
  <2>2. \A q \in draft'[t].rows : q.tenant = tn => q = row \/ q.sequence < row.sequence
    BY <1>3, <1>11
  <2>3. ASSUME NEW q \in draft'[t].rows, NEW r \in draft'[t].rows,
               q.tenant = r.tenant, q.sequence < r.sequence
        PROVE  r.previous[q.sequence] = q.content
    <3>1. CASE r = row
      <4>1. q # row /\ q \in draft[t].rows
        BY <1>2, <1>3, <2>3, <3>1 DEF Rows
      <4> QED
        BY <1>2, <1>10, <2>3, <3>1, <4>1
    <3>2. CASE r # row
      <4>1. r \in draft[t].rows
        BY <1>3, <3>2
      <4>2. q # row
        BY <1>2, <1>11, <2>1, <2>3, <4>1
      <4> QED
        BY <1>3, <2>3, <4>1, <4>2 DEF HistoryInvariant, RowsPlaced
    <3> QED
      BY <3>1, <3>2
  <2> QED
    BY <1>1, <1>3, <1>10, <2>3 DEF HistoryInvariant, RowsPlaced
<1> QED
  BY <1>7, <1>8, <1>9, <1>12 DEF HistoryInvariant

(* A commit makes the committer's view the history of every tenant it has  *)
(* written to, and leaves the others alone (Session.commit).               *)
LEMMA HistoryExtended ==
    ASSUME ChainInvariant, HistoryInvariant,
           NEW t \in Transactions, Commit(t), NEW tn \in Tenants
    PROVE  /\ History(tn)' \in Seq(Contents)
           /\ Promise!Continues(History(tn)', History(tn), t)
           /\ (\A r \in draft[t].rows : r.tenant # tn) => History(tn)' = History(tn)
           /\ \A r \in draft[t].rows : r.tenant = tn =>
                 \E i \in (Len(History(tn)) + 1)..Len(History(tn)') :
                    History(tn)'[i] = r.content
<1>1. audit' = audit \cup draft[t].rows
  BY DEF Commit
<1>2. /\ Of(audit, tn) \in SUBSET Rows /\ \A r \in Of(audit, tn) : r.tenant = tn
      /\ Chained(Of(audit, tn))
      /\ History(tn) = Past(Of(audit, tn)) /\ History(tn) \in Seq(Contents)
  BY CommittedRows
<1> DEFINE V == Visible(t, tn)
<1>3. /\ V \in SUBSET Rows /\ \A r \in V : r.tenant = tn
      /\ Chained(V) /\ HasHead(V)
  BY DEF ChainInvariant, OutboxTypeOK, ViewsChained, Drafts, Visible
<1>4. History(tn)' = Past(V)
  <2>1. V = {r \in audit' : r.tenant = tn}
    BY <1>1 DEF Visible
  <2> QED
    BY <2>1 DEF History
<1>5. CASE \A r \in draft[t].rows : r.tenant # tn
  <2>1. V = Of(audit, tn)
    BY <1>5 DEF Of, Visible
  <2>2. History(tn)' = History(tn)
    BY <1>2, <1>4, <2>1
  <2> QED
    BY <1>2, <1>5, <2>2, ContinuesItself
<1>6. ASSUME NEW own \in draft[t].rows, own.tenant = tn
      PROVE  /\ History(tn)' \in Seq(Contents)
             /\ Promise!Continues(History(tn)', History(tn), t)
             /\ \E i \in (Len(History(tn)) + 1)..Len(History(tn)') :
                    History(tn)'[i] = own.content
  <2> DEFINE last == CHOOSE r \in Newest(V) : TRUE
  <2>1. own \in V
    BY <1>6 DEF Visible
  <2>2. last \in V /\ \A q \in V : q.sequence <= last.sequence
    BY <1>3, <2>1, HeadRow
  <2> HIDE DEF last
  <2>3. History(tn)' = HashOf(last)
    BY <1>3, <1>4, <2>2, PastOfNewest
  <2>4. last \in Rows /\ own \in Rows
    BY <1>3, <2>1, <2>2
  <2>5. last \in draft[t].rows
    <3>1. SUFFICES ASSUME last \in audit PROVE FALSE
      BY <2>2 DEF Visible
    <3>2. last.sequence < own.sequence
      BY <1>3, <1>6, <2>2, <3>1 DEF ChainInvariant, ViewsChained
    <3>3. own.sequence <= last.sequence /\ own.sequence \in Nat /\ last.sequence \in Nat
      BY <2>1, <2>2, <2>4 DEF Rows
    <3> QED
      BY <3>2, <3>3
  <2>6. /\ Promise!Continues(last.previous, History(tn), t)
        /\ last.content[1] = t
        /\ last.previous \in Seq(Contents) /\ last.content \in Contents
    BY <1>3, <2>2, <2>4, <2>5
       DEF HistoryInvariant, DraftsContinue, ChainInvariant, DraftsLocked, Rows
  <2>7. /\ History(tn)' \in Seq(Contents)
        /\ Promise!Continues(History(tn)', History(tn), t)
    BY <1>2, <2>3, <2>6, ContinuesAppended DEF HashOf
  <2>8. /\ Len(last.previous) = last.sequence - 1
        /\ own.sequence \in Nat \ {0} /\ last.sequence \in Nat
        /\ own.sequence <= last.sequence
    BY <2>1, <2>2, <2>4, <2>5 DEF Rows, HistoryInvariant, RowsPlaced
  <2>9. /\ Len(History(tn)') = last.sequence
        /\ History(tn)'[last.sequence] = last.content
        /\ \A i \in 1..(last.sequence - 1) : History(tn)'[i] = last.previous[i]
    BY <2>3, <2>6, <2>8 DEF HashOf
  <2>10. History(tn)'[own.sequence] = own.content
    <3>1. CASE own.sequence = last.sequence
      <4>1. own = last
        BY <1>3, <2>1, <2>2, <3>1 DEF Chained
      <4> QED
        BY <2>9, <4>1
    <3>2. CASE own.sequence # last.sequence
      <4>1. last.previous[own.sequence] = own.content
        BY <1>3, <1>6, <2>2, <2>5, <2>8, <3>2 DEF HistoryInvariant, RowsPlaced
      <4> QED
        BY <2>8, <2>9, <3>2, <4>1
    <3> QED
      BY <3>1, <3>2
  <2>11. Len(History(tn)) < own.sequence
    <3>1. CASE Of(audit, tn) = {}
      BY <1>2, <2>8, <3>1 DEF Past, Genesis
    <3>2. CASE Of(audit, tn) # {}
      <4> DEFINE head == CHOOSE r \in Newest(Of(audit, tn)) : TRUE
      <4>1. HasHead(Of(audit, tn))
        BY CommittedRows
      <4>2. head \in Of(audit, tn)
        BY <1>2, <3>2, <4>1, HeadRow
      <4>3. History(tn) = HashOf(head)
        BY <1>2, <3>2 DEF Past
      <4> HIDE DEF head
      <4>4. head \in audit /\ head.tenant = tn
        BY <4>2 DEF Of
      <4>5. /\ head.previous \in Seq(Contents) /\ head.sequence \in Nat
            /\ Len(head.previous) = head.sequence - 1
        BY <1>2, <4>2, <4>4 DEF Rows, HistoryInvariant, RowsPlaced
      <4>6. Len(History(tn)) = head.sequence
        BY <4>3, <4>5 DEF HashOf
      <4>7. head.sequence < own.sequence
        BY <1>6, <4>4 DEF ChainInvariant, ViewsChained
      <4> QED
        BY <4>6, <4>7
    <3> QED
      BY <3>1, <3>2
  <2>12. Len(History(tn)) \in Nat
    BY <1>2
  <2>13. own.sequence \in (Len(History(tn)) + 1)..Len(History(tn)')
    BY <2>8, <2>9, <2>11, <2>12
  <2> QED
    BY <2>7, <2>10, <2>13
<1> QED
  BY <1>5, <1>6

LEMMA HistoryCommit ==
    ASSUME ChainInvariant, HistoryInvariant, NEW t \in Transactions, Commit(t)
    PROVE  HistoryInvariant'
<1>1. /\ audit' = audit \cup draft[t].rows
      /\ subscribed' = [s \in Subscriptions |->
             IF draft[t].change[s] # "none" THEN draft[t].change[s] ELSE subscribed[s]]
      /\ phase' = [phase EXCEPT ![t] = "committed"] /\ Release(t)
  BY DEF Commit
<1>2. /\ draft'[t] = EmptyDraft
      /\ \A u \in Transactions \ {t} : draft'[u] = draft[u] /\ phase'[u] = phase[u]
  BY <1>1, Released
<1>3. \A u \in Transactions : draft[u] \in Drafts /\ draft[u].rows \subseteq Rows
  BY DEF ChainInvariant, OutboxTypeOK, Drafts
<1>4. \A u \in Transactions \ {t} : \A r \in draft[u].rows :
         r.tenant \in Tenants /\ History(r.tenant)' = History(r.tenant)
  <2> SUFFICES ASSUME NEW u \in Transactions \ {t}, NEW r \in draft[u].rows
               PROVE  r.tenant \in Tenants /\ History(r.tenant)' = History(r.tenant)
    OBVIOUS
  <2>1. r.tenant \in Tenants
    BY <1>3 DEF Rows
  <2>2. \A q \in draft[t].rows : q.tenant # r.tenant
    BY DEF ChainInvariant, DraftsLocked
  <2> QED
    BY <2>1, <2>2, HistoryExtended
<1>5. DraftsContinue'
  <2> SUFFICES ASSUME NEW u \in Transactions, NEW r \in draft'[u].rows
               PROVE  Promise!Continues(r.previous, History(r.tenant)', u)
    BY DEF DraftsContinue, Promise!Continues
  <2>1. u # t /\ r \in draft[u].rows
    BY <1>2, NothingDrafted
  <2> QED
    BY <1>4, <2>1 DEF HistoryInvariant, DraftsContinue
<1>6. RowsPlaced'
  <2>1. \A r \in audit' : Len(r.previous) = r.sequence - 1
    BY <1>1 DEF HistoryInvariant, RowsPlaced
  <2>2. \A u \in Transactions : draft'[u].rows = draft[u].rows \/ draft'[u].rows = {}
    BY <1>2, NothingDrafted
  <2> QED
    BY <2>1, <2>2 DEF HistoryInvariant, RowsPlaced
<1>7. HistoryCommitted'
  <2> SUFFICES ASSUME NEW tn \in Tenants, NEW i \in 1..Len(History(tn)')
               PROVE  phase'[History(tn)'[i][1]] = "committed"
    BY DEF HistoryCommitted
  <2>1. /\ History(tn)' \in Seq(Contents) /\ History(tn) \in Seq(Contents)
        /\ Promise!Continues(History(tn)', History(tn), t)
    BY HistoryExtended, CommittedRows
  <2>2. \A c \in Contents : c[1] \in Transactions
    BY DEF Contents
  <2>3. phase'[t] = "committed"
    BY <1>1 DEF ChainInvariant, OutboxTypeOK
  <2>4. CASE i \in 1..Len(History(tn))
    <3>1. History(tn)'[i] = History(tn)[i] /\ History(tn)[i] \in Contents
      BY <2>1, <2>4 DEF Promise!Continues
    <3>2. phase[History(tn)[i][1]] = "committed"
      BY <2>4 DEF HistoryInvariant, HistoryCommitted
    <3> QED
      BY <1>2, <2>2, <2>3, <3>1, <3>2
  <2>5. CASE i \notin 1..Len(History(tn))
    <3>1. i \in (Len(History(tn)) + 1)..Len(History(tn)')
      BY <2>1, <2>5
    <3>2. History(tn)'[i][1] = t
      BY <2>1, <3>1 DEF Promise!Continues
    <3> QED
      BY <2>3, <3>2
  <2> QED
    BY <2>4, <2>5
<1>8. DraftsRecorded'
  <2>1. \A s \in Subscriptions : subscribed[s] # "none" => subscribed'[s] # "none"
    BY <1>1, <1>3 DEF Drafts, Changes
  <2> SUFFICES ASSUME NEW u \in Transactions
               PROVE  /\ \A e \in draft'[u].events :
                            \E r \in draft'[u].rows : r.tenant = e.tenant /\ r.content = e.cause
                      /\ \A s \in Subscriptions : draft'[u].change[s] # "none" =>
                            /\ \E r \in draft'[u].rows : r.tenant = Owner[s]
                            /\ draft'[u].change[s] = "disabled" => subscribed'[s] # "none"
    BY DEF DraftsRecorded
  <2>2. CASE u = t
    BY <1>2, <2>2, NothingDrafted
  <2>3. CASE u # t
    BY <1>2, <2>1, <2>3 DEF HistoryInvariant, DraftsRecorded
  <2> QED
    BY <2>2, <2>3
<1> QED
  BY <1>5, <1>6, <1>7, <1>8 DEF HistoryInvariant

(* Nothing but an append and a commit touches drafts and history.          *)
LEMMA HistoryElse ==
    ASSUME ChainInvariant, HistoryInvariant, UNCHANGED <<audit, subscribed>>,
           \A t \in Transactions :
              /\ draft'[t] = draft[t] \/ draft'[t] = EmptyDraft
              /\ phase[t] = "committed" => phase'[t] = "committed"
    PROVE  HistoryInvariant'
<1>1. \A tn \in Tenants : History(tn)' = History(tn)
  BY HistoryKept
<1>2. \A t \in Transactions : /\ draft[t].rows \subseteq Rows
                               /\ draft'[t].rows \subseteq draft[t].rows
  BY NothingDrafted DEF ChainInvariant, OutboxTypeOK, Drafts
<1>3. DraftsContinue'
  <2> SUFFICES ASSUME NEW t \in Transactions, NEW r \in draft'[t].rows
               PROVE  Promise!Continues(r.previous, History(r.tenant)', t)
    BY DEF DraftsContinue, Promise!Continues
  <2>1. r \in draft[t].rows /\ r.tenant \in Tenants
    BY <1>2 DEF Rows
  <2> QED
    BY <1>1, <2>1 DEF HistoryInvariant, DraftsContinue
<1>4. RowsPlaced'
  BY <1>2 DEF HistoryInvariant, RowsPlaced
<1>5. HistoryCommitted'
  <2> SUFFICES ASSUME NEW tn \in Tenants, NEW i \in 1..Len(History(tn))
               PROVE  phase'[History(tn)[i][1]] = "committed"
    BY <1>1 DEF HistoryCommitted
  <2>1. History(tn)[i] \in Contents
    BY CommittedRows
  <2>2. History(tn)[i][1] \in Transactions
    BY <2>1 DEF Contents
  <2> QED
    BY <2>2 DEF HistoryInvariant, HistoryCommitted
<1>6. DraftsRecorded'
  BY NothingDrafted DEF HistoryInvariant, DraftsRecorded
<1> QED
  BY <1>3, <1>4, <1>5, <1>6 DEF HistoryInvariant

LEMMA HistoryNext ==
    ASSUME ChainInvariant, HistoryInvariant, [OutboxNext]_outboxVars
    PROVE  HistoryInvariant'
<1>1. CASE UNCHANGED outboxVars
  BY <1>1, HistoryElse DEF outboxVars, committedVars
<1>2. ASSUME NEW t \in Transactions, Obtain(t) \/ RollBack(t) \/ \E tn \in Tenants : Call(t, tn)
      PROVE  HistoryInvariant'
  <2>1. UNCHANGED <<audit, subscribed>>
    BY <1>2 DEF Obtain, RollBack, Call, committedVars
  <2>2. \A u \in Transactions : draft'[u] = draft[u] \/ draft'[u] = EmptyDraft
    BY <1>2 DEF Obtain, RollBack, Release, Call, ChainInvariant, OutboxTypeOK
  <2>3. \A u \in Transactions : phase[u] = "committed" => phase'[u] = "committed"
    BY <1>2 DEF Obtain, RollBack, Call, ChainInvariant, OutboxTypeOK
  <2> QED
    BY <2>1, <2>2, <2>3, HistoryElse
<1>3. NoChange \in Changes /\ \A s \in Subscriptions : NoChange[s] = "none"
  BY DEF NoChange, Changes
<1>4. ASSUME NEW t \in Transactions, NEW tn \in Tenants, NEW kind \in Kinds,
             Record(t, tn, kind)
      PROVE  HistoryInvariant'
  <2>1. kind \in DOMAIN Published /\ AppendEvent(t, tn, kind, NoChange)
    BY <1>4, KindsAssumption DEF Record
  <2> QED
    BY <1>3, <2>1, HistoryAppend
<1>5. ASSUME NEW t \in Transactions, NEW s \in Subscriptions, Subscribe(t, s) \/ Disable(t, s)
      PROVE  HistoryInvariant'
  <2>1. PICK to \in {"active", "disabled"} :
           /\ AppendEvent(t, Owner[s], "unmapped", [NoChange EXCEPT ![s] = to])
           /\ to = "disabled" => subscribed[s] # "none"
    BY <1>5 DEF Subscribe, Disable
  <2> DEFINE change == [NoChange EXCEPT ![s] = to]
  <2>2. /\ change \in Changes
        /\ \A x \in Subscriptions : change[x] # "none" => x = s /\ change[x] = to
    BY <1>3 DEF Changes
  <2>3. Owner[s] \in Tenants /\ "unmapped" \in DOMAIN Published
    BY OutboxAssumption DEF Published
  <2> HIDE DEF change
  <2>4. AppendEvent(t, Owner[s], "unmapped", change)
    BY <2>1 DEF change
  <2> QED
    BY <2>1, <2>2, <2>3, <2>4, HistoryAppend
<1>6. ASSUME NEW t \in Transactions, Commit(t) PROVE HistoryInvariant'
  BY <1>6, HistoryCommit
<1> QED
  BY <1>1, <1>2, <1>4, <1>5, <1>6 DEF OutboxNext

(* The inductive invariant of the history, with those it rests on          *)
(* (SqlAuditLog.append, Session.commit).                                   *)
THEOREM HistoryAlways == Spec => [](ChainInvariant /\ DeliveryInvariant /\ HistoryInvariant)
<1>1. Init => HistoryInvariant
  BY HistoryInit DEF Init
<1>2. ChainInvariant /\ HistoryInvariant /\ [Next]_vars => HistoryInvariant'
  <2> SUFFICES ASSUME ChainInvariant, HistoryInvariant, [Next]_vars PROVE HistoryInvariant'
    OBVIOUS
  <2>1. [OutboxNext]_outboxVars
    BY DEF Next, vars
  <2> QED
    BY <2>1, HistoryNext
<1> QED
  BY <1>1, <1>2, DeliveryAlways, PTL DEF Spec

-----------------------------------------------------------------------------
(***************************************************************************)
(* The outbox implements its promise.                                      *)
(***************************************************************************)
(* The empty database keeps the promise (db_models.py).                    *)
LEMMA PromiseBegins == Init => Promise!PromiseInit
<1> SUFFICES ASSUME Init PROVE Promise!PromiseInit
  OBVIOUS
<1>1. \A tn \in Tenants : History(tn) = <<>>
  BY DEF Init, OutboxInit, History, Past, Genesis
<1>2. \A d \in Deliveries : delivery[d].status = "pending"
  BY DEF Init, WorkerInit, Unwritten, Fresh
<1> QED
  BY <1>1, <1>2 DEF Init, OutboxInit, WorkerInit, NoChange, Promise!PromiseInit

(* A commit adds to the histories all its transaction has recorded         *)
(* (Session.commit, SqlAuditLog._publish).                                 *)
LEMMA CommitExtends ==
    ASSUME ChainInvariant, HistoryInvariant, NEW t \in Transactions, Commit(t),
           UNCHANGED workerVars
    PROVE  Promise!Extend(t)
<1> DEFINE H == [tn \in Tenants |-> History(tn)]
<1>1. /\ events' = events \cup draft[t].events
      /\ deliveries' = deliveries \cup draft[t].deliveries
      /\ subscribed' = [s \in Subscriptions |->
             IF draft[t].change[s] # "none" THEN draft[t].change[s] ELSE subscribed[s]]
      /\ phase[t] = "open"
  BY DEF Commit
<1>2. draft[t] \in Drafts
  BY DEF ChainInvariant, OutboxTypeOK
<1>3. \A tn \in Tenants : \A i \in 1..Len(History(tn)) : History(tn)[i][1] # t
  BY <1>1 DEF HistoryInvariant, HistoryCommitted
<1>4. \A tn \in Tenants : /\ History(tn)' \in Seq(Contents)
                          /\ Promise!Continues(History(tn)', History(tn), t)
  BY HistoryExtended
<1>5. \A r \in draft[t].rows :
         /\ r.tenant \in Tenants /\ r.content \in Contents
         /\ Promise!Added(r.tenant, r.content)
  <2> SUFFICES ASSUME NEW r \in draft[t].rows
               PROVE  /\ r.tenant \in Tenants /\ r.content \in Contents
                      /\ Promise!Added(r.tenant, r.content)
    OBVIOUS
  <2>1. r.tenant \in Tenants /\ r.content \in Contents
    BY <1>2 DEF Drafts, Rows
  <2>2. \E i \in (Len(History(r.tenant)) + 1)..Len(History(r.tenant)') :
           History(r.tenant)'[i] = r.content
    BY <2>1, HistoryExtended
  <2> QED
    BY <2>1, <2>2 DEF Promise!Added
<1>6. \A e \in events' \ events : Promise!Added(e.tenant, e.cause)
  <2> SUFFICES ASSUME NEW e \in draft[t].events PROVE Promise!Added(e.tenant, e.cause)
    BY <1>1
  <2>1. PICK r \in draft[t].rows : r.tenant = e.tenant /\ r.content = e.cause
    BY DEF HistoryInvariant, DraftsRecorded
  <2> QED
    BY <1>5, <2>1
<1>7. events \subseteq events' /\ events' \subseteq Events
  BY <1>1, <1>2 DEF ChainInvariant, OutboxTypeOK, Drafts
<1>8. deliveries' = deliveries \cup
         {d \in Deliveries : /\ d.event \in events' \ events
                             /\ Owner[d.subscription] = d.event.tenant
                             /\ subscribed[d.subscription] = "active"}
  <2>1. \A e \in draft[t].events : e \notin events
    BY <1>1 DEF ChainInvariant, DraftsLocked, CommittedCauses
  <2>2. \A d \in draft[t].deliveries : d \in Deliveries /\ d.event \in draft[t].events
    BY <1>2 DEF ChainInvariant, DraftsLocked, Drafts
  <2>3. \A d \in Deliveries : d = [event |-> d.event, subscription |-> d.subscription]
                              /\ d.subscription \in Subscriptions
    BY DEF Deliveries
  <2>4. ASSUME NEW d \in Deliveries, d.event \in draft[t].events
        PROVE  d \in draft[t].deliveries <=>
                  Owner[d.subscription] = d.event.tenant /\ subscribed[d.subscription] = "active"
    <3>1. {x.subscription : x \in {y \in draft[t].deliveries : y.event = d.event}} =
             Targets(d.event.tenant)
      BY <2>4 DEF ChainInvariant, FanOutCurrent
    <3>2. d.subscription \in Targets(d.event.tenant) <=>
             Owner[d.subscription] = d.event.tenant /\ subscribed[d.subscription] = "active"
      BY <2>3 DEF Targets
    <3>3. d \in draft[t].deliveries => d.subscription \in Targets(d.event.tenant)
      BY <3>1
    <3>4. ASSUME d.subscription \in Targets(d.event.tenant) PROVE d \in draft[t].deliveries
      <4>1. PICK x \in draft[t].deliveries :
               x.event = d.event /\ x.subscription = d.subscription
        BY <3>1, <3>4
      <4>2. x = d
        BY <2>2, <2>3, <4>1
      <4> QED
        BY <4>2
    <3> QED
      BY <3>2, <3>3, <3>4
  <2>5. events' \ events = draft[t].events
    BY <1>1, <2>1
  <2> QED
    BY <1>1, <2>2, <2>4, <2>5
<1>9. \A s \in Subscriptions : subscribed'[s] # subscribed[s] =>
         /\ <<subscribed[s], subscribed'[s]>> \in {<<"none", "active">>, <<"active", "disabled">>}
         /\ \E x \in Contents : Promise!Added(Owner[s], x)
  <2> SUFFICES ASSUME NEW s \in Subscriptions, subscribed'[s] # subscribed[s]
               PROVE  /\ <<subscribed[s], subscribed'[s]>> \in
                             {<<"none", "active">>, <<"active", "disabled">>}
                      /\ \E x \in Contents : Promise!Added(Owner[s], x)
    OBVIOUS
  <2>1. draft[t].change[s] # "none" /\ subscribed'[s] = draft[t].change[s]
    BY <1>1
  <2>2. subscribed[s] \in {"none", "active", "disabled"}
        /\ draft[t].change[s] \in {"none", "active", "disabled"}
    BY <1>2 DEF ChainInvariant, OutboxTypeOK, Drafts, Changes
  <2>3. /\ draft[t].change[s] = "active" => subscribed[s] = "none"
        /\ draft[t].change[s] = "disabled" => subscribed[s] # "none"
        /\ \E r \in draft[t].rows : r.tenant = Owner[s]
    BY <2>1 DEF ChainInvariant, FanOutCurrent, HistoryInvariant, DraftsRecorded
  <2>4. \E x \in Contents : Promise!Added(Owner[s], x)
    BY <1>5, <2>3
  <2> QED
    BY <2>1, <2>2, <2>3, <2>4
<1>10. UNCHANGED <<[d \in Deliveries |-> delivery[d].status], posts, accepted>>
  BY DEF workerVars
<1>11. /\ \A tn \in Tenants : H[tn] = History(tn) /\ H'[tn] = History(tn)'
       /\ H' \in [Tenants -> Seq(Contents)]
  BY <1>4
<1> QED
  BY <1>3, <1>4, <1>6, <1>7, <1>8, <1>9, <1>10, <1>11 DEF Promise!Extend

(* What leaves the committed rows and the posts alone does not show.       *)
LEMMA OutboxStutters ==
    ASSUME UNCHANGED <<audit, events, deliveries, subscribed, delivery, posts, accepted>>
    PROVE  UNCHANGED Promise!promiseVars
<1>1. \A tn \in Tenants : History(tn)' = History(tn)
  BY HistoryKept
<1>2. [tn \in Tenants |-> History(tn)]' = [tn \in Tenants |-> History(tn)]
  BY <1>1
<1> QED
  BY <1>2 DEF Promise!promiseVars

(* A worker posts what is pending, and settles it with its commit          *)
(* (WebhookWorker._deliver, process_batch).                                *)
LEMMA WorkerPromised ==
    ASSUME ChainInvariant, DeliveryInvariant, DeliveryInvariant', WorkerNext,
           UNCHANGED outboxVars
    PROVE  [Promise!PromiseNext]_(Promise!promiseVars)
<1>1. UNCHANGED <<audit, events, deliveries, subscribed>>
  BY DEF outboxVars, committedVars
<1>2. CASE UNCHANGED <<delivery, posts, accepted>>
  BY <1>1, <1>2, OutboxStutters
<1>3. [tn \in Tenants |-> History(tn)]' = [tn \in Tenants |-> History(tn)]
  BY <1>1, HistoryKept
<1>4. ASSUME NEW w \in Workers, NEW d \in todo[w], NEW answer \in Answers,
             Deliver(w, d, answer)
      PROVE  [Promise!PromiseNext]_(Promise!promiseVars)
  <2>1. /\ UNCHANGED delivery
        /\ posts' = [posts EXCEPT ![d] = IF answer = "unsent" THEN @ ELSE @ + 1]
        /\ accepted' = [accepted EXCEPT ![d] =
               IF answer \in {"accepted", "unheard"} THEN @ + 1 ELSE @]
    BY <1>4 DEF Deliver, Write
  <2>2. /\ d \in deliveries /\ d \in Deliveries /\ delivery[d].status = "pending"
        /\ accepted \in [Deliveries -> Nat] /\ posts \in [Deliveries -> Nat]
    BY DEF DeliveryInvariant, BatchesLocked, WorkerTypeOK, ChainInvariant, OutboxTypeOK
  <2>3. CASE answer = "unsent"
    BY <1>2, <2>1, <2>2, <2>3
  <2>4. CASE answer # "unsent"
    <3>1. \E n \in {0, 1} : accepted' = [accepted EXCEPT ![d] = @ + n]
      <4>1. CASE answer \in {"accepted", "unheard"}
        BY <2>1, <4>1
      <4>2. CASE answer \notin {"accepted", "unheard"}
        <5>1. accepted[d] + 0 = accepted[d]
          BY <2>2
        <5>2. accepted' = [accepted EXCEPT ![d] = @ + 0]
          BY <2>1, <2>2, <4>2, <5>1
        <5> QED
          BY <5>2
      <4> QED
        BY <4>1, <4>2
    <3>2. posts' = [posts EXCEPT ![d] = @ + 1]
      BY <2>1, <2>4
    <3>3. Promise!Post(d)
      BY <1>1, <1>3, <2>1, <2>2, <3>1, <3>2 DEF Promise!Post
    <3> QED
      BY <2>2, <3>3 DEF Promise!PromiseNext
  <2> QED
    BY <2>3, <2>4
<1>5. ASSUME NEW w \in Workers, CommitBatch(w)
      PROVE  [Promise!PromiseNext]_(Promise!promiseVars)
  <2>1. /\ todo[w] = {}
        /\ delivery' = [d \in Deliveries |->
               IF d \in batch[w] THEN written[w][d] ELSE delivery[d]]
        /\ UNCHANGED <<posts, accepted>>
    BY <1>5 DEF CommitBatch, End
  <2> DEFINE fate == [d \in Deliveries |-> delivery[d].status]
  <2>2. \A d \in Deliveries : fate[d] = delivery[d].status /\ fate'[d] = delivery'[d].status
    OBVIOUS
  <2>3. fate' \in [Deliveries -> Outcomes]
    BY DEF DeliveryInvariant, WorkerTypeOK, Columns
  <2>4. \A d \in Deliveries : fate'[d] # fate[d] =>
           /\ d \in deliveries
           /\ fate[d] = "pending"
           /\ fate'[d] = "delivered" => accepted[d] > 0
           /\ fate'[d] = "cancelled" => subscribed[d.subscription] = "disabled"
    <3> SUFFICES ASSUME NEW d \in Deliveries, fate'[d] # fate[d]
                 PROVE  /\ d \in deliveries
                        /\ fate[d] = "pending"
                        /\ fate'[d] = "delivered" => accepted[d] > 0
                        /\ fate'[d] = "cancelled" => subscribed[d.subscription] = "disabled"
      OBVIOUS
    <3>1. d \in batch[w] \ todo[w] /\ fate'[d] = written[w][d].status
      BY <2>1, <2>2
    <3>2. d \in deliveries /\ delivery[d].status = "pending"
      BY <3>1 DEF DeliveryInvariant, BatchesLocked
    <3>3. Reasoned(d, written[w][d].status, written[w][d].tries)
      BY <3>1 DEF DeliveryInvariant, VerdictsReasoned
    <3> QED
      BY <2>2, <3>1, <3>2, <3>3 DEF Reasoned
  <2> HIDE DEF fate
  <2>5. Promise!Settle
    BY <1>1, <1>3, <2>1, <2>3, <2>4 DEF Promise!Settle, fate
  <2> QED
    BY <2>5 DEF Promise!PromiseNext
<1>6. ASSUME NEW w \in Workers, Select(w) \/ Breakdown(w) \/ \E d \in todo[w] : Cancel(w, d)
      PROVE  UNCHANGED <<delivery, posts, accepted>>
  BY <1>6 DEF Select, Breakdown, Cancel, End, Write
<1>7. ASSUME NEW d \in backoff, ComeDue(d) PROVE UNCHANGED <<delivery, posts, accepted>>
  BY <1>7 DEF ComeDue
<1> QED
  BY <1>2, <1>4, <1>5, <1>6, <1>7 DEF WorkerNext, WorkerStep

(* Locks, drafts, batches, rollbacks and breakdowns are invisible to who   *)
(* reads the committed rows: each step of the outbox and its workers is a  *)
(* step of the promise or none (SqlAuditLog, WebhookWorker).               *)
THEOREM OutboxKeepsPromise == Spec => KeepsOutboxPromise
<1> DEFINE Inv == ChainInvariant /\ DeliveryInvariant /\ HistoryInvariant
<1>1. Inv /\ Inv' /\ [Next]_vars => [Promise!PromiseNext]_(Promise!promiseVars)
  <2> SUFFICES ASSUME Inv, Inv', [Next]_vars
               PROVE  [Promise!PromiseNext]_(Promise!promiseVars)
    OBVIOUS
  <2>1. CASE UNCHANGED vars
    BY <2>1, OutboxStutters DEF vars, outboxVars, committedVars, workerVars
  <2>2. CASE WorkerNext /\ UNCHANGED outboxVars
    BY <2>2, WorkerPromised
  <2>3. ASSUME NEW t \in Transactions, Commit(t), UNCHANGED workerVars
        PROVE  Promise!PromiseNext
    BY <2>3, CommitExtends DEF Promise!PromiseNext
  <2>4. CASE UNCHANGED committedVars /\ UNCHANGED workerVars
    BY <2>4, OutboxStutters DEF committedVars, workerVars
  <2>5. ASSUME OutboxNext
        PROVE  UNCHANGED committedVars \/ \E t \in Transactions : Commit(t)
    <3>1. PICK t \in Transactions :
             \/ Obtain(t) \/ Commit(t) \/ RollBack(t)
             \/ \E tn \in Tenants : Call(t, tn)
             \/ \E tn \in Tenants, kind \in Kinds : Record(t, tn, kind)
             \/ \E s \in Subscriptions : Subscribe(t, s) \/ Disable(t, s)
      BY <2>5 DEF OutboxNext
    <3>2. CASE Obtain(t) \/ RollBack(t) \/ \E tn \in Tenants : Call(t, tn)
      BY <3>2 DEF Obtain, RollBack, Call
    <3>3. CASE \E tn \in Tenants, kind \in Kinds : Record(t, tn, kind)
      BY <3>3 DEF Record, AppendEvent
    <3>4. CASE \E s \in Subscriptions : Subscribe(t, s) \/ Disable(t, s)
      BY <3>4 DEF Subscribe, Disable, AppendEvent
    <3> QED
      BY <3>1, <3>2, <3>3, <3>4
  <2> QED
    BY <2>1, <2>2, <2>3, <2>4, <2>5 DEF Next
<1> QED
  BY <1>1, PromiseBegins, HistoryAlways, PTL DEF Spec, KeepsOutboxPromise, Promise!PromiseSpec
=============================================================================
