---------------------- MODULE ConnectorRequests_proofs ----------------------
(***************************************************************************)
(* Theorems about the connector requests, for any number of messages,      *)
(* handlers, decisions, mintings and reapers.  The invariant is proved one *)
(* part after the other; what changes a row is either an approval or a     *)
(* denial that finds it unlocked by reapers, or the reaper that holds it.  *)
(***************************************************************************)
EXTENDS ConnectorRequests, TLAPS

USE MessagesAssumption, RequestsAssumption DEF Decisions

(***************************************************************************)
(* Audit trails: what one more event does to the last word of a trail.     *)
(***************************************************************************)

(* After an event that settles, the row has to say what that event says.   *)
LEMMA SettlingTold ==
    ASSUME NEW events \in Trails, NEW kind \in Kinds, NEW p \in Processes,
           NEW columns, Settles(kind), Says(<<kind, p>>, columns)
    PROVE  Told(Append(events, <<kind, p>>), columns)
<1> DEFINE s == Append(events, <<kind, p>>)
<1>1. /\ Len(s) = Len(events) + 1
      /\ s[Len(s)] = <<kind, p>>
      /\ Len(s) \in 1..Len(s)
  BY DEF Trails
<1>2. Settles(s[Len(s)][1])
  BY <1>1
<1>3. ASSUME NEW i \in 1..Len(s), LastWord(s, i) PROVE Says(s[i], columns)
  <2>1. Len(s) <= i
    BY <1>1, <1>2, <1>3 DEF LastWord
  <2>2. i = Len(s)
    BY <1>1, <2>1 DEF Trails
  <2> QED BY <1>1, <2>2
<1> HIDE DEF s
<1>4. Told(s, columns)
  BY <1>1, <1>2, <1>3 DEF Told
<1> QED BY <1>4 DEF s

(* Any other event leaves the last word as it was.                         *)
LEMMA OtherTold ==
    ASSUME NEW events \in Trails, NEW kind \in Kinds, NEW p \in Processes,
           NEW before, NEW after, ~Settles(kind), Told(events, before),
           after.status = before.status, after.decider = before.decider
    PROVE  Told(Append(events, <<kind, p>>), after)
<1> DEFINE s == Append(events, <<kind, p>>)
<1>1. /\ Len(events) \in Nat
      /\ Len(s) = Len(events) + 1
      /\ s[Len(s)] = <<kind, p>>
      /\ \A i \in 1..Len(events) : s[i] = events[i] /\ i \in 1..Len(s)
  BY DEF Trails
<1>2. ~Settles(s[Len(s)][1])
  BY <1>1
<1> HIDE DEF s
<1>3. ASSUME NEW i \in 1..Len(s), LastWord(s, i) PROVE Says(s[i], after)
  <2>1. i \in 1..Len(events)
    BY <1>1, <1>2, <1>3 DEF LastWord
  <2>2. LastWord(events, i)
    BY <1>1, <1>3, <2>1 DEF LastWord
  <2>3. Says(events[i], before)
    BY <2>1, <2>2 DEF Told
  <2> QED BY <1>1, <2>1, <2>3 DEF Says
<1>4. (\A i \in 1..Len(s) : ~Settles(s[i][1])) =>
          after.status = "pending_approval" /\ after.decider = {}
  BY <1>1 DEF Told
<1>5. Told(s, after)
  BY <1>3, <1>4 DEF Told
<1> QED BY <1>5 DEF s

(* Columns that say the same of the decision owe the same.                 *)
LEMMA SameTold ==
    ASSUME NEW events, NEW before, NEW after, Told(events, before),
           after.status = before.status, after.decider = before.decider
    PROVE  Told(events, after)
BY DEF Told, Says

-----------------------------------------------------------------------------
(***************************************************************************)
(* The types.                                                              *)
(***************************************************************************)
LEMMA TypesInit == Init => TypeOK
BY DEF Init, TypeOK, NewRow, Columns, Statuses, Outcomes, NoCode, Trails, Free, Phases

LEMMA AppendedType ==
    ASSUME TypeOK, NEW r \in Handlers, NEW kind \in Kinds, NEW p \in Processes
    PROVE  Appended(r, kind, p) \in Trails
BY DEF TypeOK, Appended, Trails

LEMMA HandlerTypes ==
    ASSUME TypeOK, NEW h \in Handlers, LookUp(h) \/ HandlerStep(h), UNCHANGED requestVars
    PROVE  TypeOK'
<1>1. CASE LookUp(h)
  BY <1>1 DEF TypeOK, LookUp, Phases, requestVars
<1>2. CASE Handle(h)
  <2>1. Appended(h, "created", h) \in Trails
    BY AppendedType DEF Kinds
  <2> QED BY <1>2, <2>1 DEF TypeOK, Handle, Phases, requestVars
<1>3. CASE Refuse(h)
  BY <1>3 DEF TypeOK, Refuse, Phases, requestVars
<1> QED BY <1>1, <1>2, <1>3 DEF HandlerStep

LEMMA ApprovedType ==
    ASSUME TypeOK, NEW r \in Handlers, NEW d \in Approvals
    PROVE  Approved(r, d) \in Columns
<1>1. row[r] \in Columns /\ outcome[d] \in Outcomes
  BY DEF TypeOK
<1> QED BY <1>1 DEF Approved, Columns, Statuses, NoCode

LEMMA DecisionTypes ==
    ASSUME TypeOK, NEW d \in Decisions,
           DecisionStep(d) \/ \E r \in Handlers : Decide(d, r)
    PROVE  TypeOK'
<1>1. ASSUME NEW r \in Handlers, Decide(d, r) PROVE TypeOK'
  BY <1>1 DEF TypeOK, Decide, MoveTo, Phases, Columns
<1>2. ASSUME NEW r \in Handlers, WriteApproval(d, r) PROVE TypeOK'
  BY <1>2 DEF TypeOK, WriteApproval, MoveTo, Phases, requestVars
<1>3. ASSUME d \in Approvals, NEW answer \in Outcomes \ {"none"}, RunConnector(d, answer)
      PROVE  TypeOK'
  BY <1>3 DEF TypeOK, RunConnector, MoveTo, Phases
<1>4. ASSUME d \in Approvals, NEW r \in Handlers, CommitApproval(d, r) PROVE TypeOK'
  <2>1. Approved(r, d) \in Columns
    BY <1>4, ApprovedType
  <2>2. \A kind \in Kinds : Appended(r, kind, d) \in Trails
    BY AppendedType
  <2> QED BY <1>4, <2>1, <2>2 DEF TypeOK, CommitApproval, MoveTo, Phases, Kinds
<1>5. ASSUME TakeChain(d) PROVE TypeOK'
  BY <1>5 DEF TypeOK, TakeChain, MoveTo, Phases, requestVars
<1>6. ASSUME NEW r \in Handlers, CommitDenial(d, r) PROVE TypeOK'
  <2>1. Denied(r, d) \in Columns
    <3>1. row[r] \in Columns
      BY DEF TypeOK
    <3> QED BY <3>1 DEF Denied, Columns, Statuses
  <2>2. Appended(r, "denied", d) \in Trails
    BY AppendedType DEF Kinds
  <2> QED BY <1>6, <2>1, <2>2 DEF TypeOK, CommitDenial, MoveTo, Phases, Free
<1> QED BY <1>1, <1>2, <1>3, <1>4, <1>5, <1>6 DEF DecisionStep

LEMMA MintingTypes ==
    ASSUME TypeOK, NEW g \in Mintings,
           MintingStep(g) \/ \E r \in Handlers : StartMinting(g, r)
    PROVE  TypeOK'
<1>1. ASSUME NEW r \in Handlers, StartMinting(g, r) PROVE TypeOK'
  BY <1>1 DEF TypeOK, StartMinting, MoveTo, Phases
<1>2. ASSUME TakeChain(g) PROVE TypeOK'
  BY <1>2 DEF TypeOK, TakeChain, MoveTo, Phases, requestVars
<1>3. ASSUME NEW r \in Handlers, CommitMinting(g, r) PROVE TypeOK'
  <2>1. Appended(r, "code", g) \in Trails
    BY AppendedType DEF Kinds
  <2>2. minted' \in [Handlers -> Nat]
    BY <1>3 DEF TypeOK, CommitMinting
  <2>3. row' \in [Handlers -> Columns]
    <3>1. row[r] \in Columns /\ minted'[r] \in Nat
      BY <2>2 DEF TypeOK
    <3>2. [row[r] EXCEPT !.code = minted'[r], !.live = TRUE] \in Columns
      BY <3>1 DEF Columns
    <3> QED BY <1>3, <3>2 DEF TypeOK, CommitMinting
  <2> QED BY <1>3, <2>1, <2>2, <2>3 DEF TypeOK, CommitMinting, MoveTo, Phases, Free
<1> QED BY <1>1, <1>2, <1>3 DEF MintingStep

LEMMA ReaperTypes ==
    ASSUME TypeOK, NEW w \in Reapers, ReaperStep(w)
    PROVE  TypeOK'
<1>1. CASE SelectStale(w)
  BY <1>1 DEF TypeOK, SelectStale, Due, conversationVars
<1>2. CASE CommitReaped(w)
  <2>1. row' \in [Handlers -> Columns]
    <3>1. ASSUME NEW r \in Handlers PROVE Lapsed(r) \in Columns
      <4>1. row[r] \in Columns
        BY DEF TypeOK
      <4> QED BY <4>1 DEF Lapsed, Columns, Statuses
    <3> QED BY <1>2, <3>1 DEF TypeOK, CommitReaped
  <2>2. \A r \in Handlers : Appended(r, "expired", w) \in Trails
    BY AppendedType DEF Kinds
  <2>3. trail' \in [Handlers -> Trails]
    BY <1>2, <2>2 DEF TypeOK, CommitReaped
  <2> QED BY <1>2, <2>1, <2>3 DEF TypeOK, CommitReaped
<1> QED BY <1>1, <1>2 DEF ReaperStep

LEMMA TimeTypes ==
    ASSUME TypeOK, NEW r \in Handlers, Expire(r) \/ GrowStale(r)
    PROVE  TypeOK'
<1>1. CASE Expire(r)
  <2>1. row[r] \in Columns
    BY DEF TypeOK
  <2>2. [row[r] EXCEPT !.live = FALSE] \in Columns
    BY <2>1 DEF Columns
  <2> QED BY <1>1, <2>2 DEF TypeOK, Expire, conversationVars
<1>2. CASE GrowStale(r)
  BY <1>2 DEF TypeOK, GrowStale, conversationVars
<1> QED BY <1>1, <1>2

LEMMA FaultTypes ==
    ASSUME TypeOK, NEW p \in Processes, Breakdown(p) \/ GiveWay(p)
    PROVE  TypeOK'
<1>1. RollBack(p) /\ breakdowns' \in 0..MaxBreakdowns
  BY DEF TypeOK, Breakdown, GiveWay
<1> QED BY <1>1 DEF TypeOK, RollBack, Phases

LEMMA TypesNext == TypeOK /\ [Next]_vars => TypeOK'
<1> SUFFICES ASSUME TypeOK, [Next]_vars PROVE TypeOK'
  OBVIOUS
<1>1. CASE UNCHANGED vars
  BY <1>1 DEF TypeOK, vars, conversationVars, requestVars
<1>2. CASE Next
  BY <1>2, HandlerTypes, DecisionTypes, MintingTypes, ReaperTypes, TimeTypes, FaultTypes
     DEF Next
<1> QED BY <1>1, <1>2

-----------------------------------------------------------------------------
(***************************************************************************)
(* What a step does to the row and the trail of a request: nothing that    *)
(* concerns the decision, a decision that found the row unlocked, or the   *)
(* reaper that holds it.                                                   *)
(***************************************************************************)
SameDecision(r) ==
    /\ row'[r].status = row[r].status
    /\ row'[r].decider = row[r].decider
    /\ row'[r].outcome = row[r].outcome

Untouched(r) ==
    /\ SameDecision(r)
    /\ \/ trail'[r] = trail[r]
       \/ \E kind \in Kinds, p \in Processes :
             ~Settles(kind) /\ trail'[r] = Append(trail[r], <<kind, p>>)

DecidedBy(d, r) ==
    /\ target[d] = {r}
    /\ phase[d] \in {"ran", "chained"}
    /\ \A w \in Reapers : r \notin batch[w]
    /\ \E kind \in {"executed", "failed", "denied"} :
          trail'[r] = Append(trail[r], <<kind, d>>) /\ Says(<<kind, d>>, row'[r])

LapsedBy(w, r) ==
    /\ r \in batch[w]
    /\ batch' = [batch EXCEPT ![w] = {}]
    /\ trail'[r] = Append(trail[r], <<"expired", w>>)
    /\ row'[r] = Lapsed(r)

Effect(r) ==
    \/ Untouched(r)
    \/ \E d \in Decisions : DecidedBy(d, r)
    \/ \E w \in Reapers : LapsedBy(w, r)

LEMMA Unwritten ==
    ASSUME UNCHANGED <<row, trail>>, NEW r \in Handlers
    PROVE  Effect(r)
BY DEF Effect, Untouched, SameDecision

LEMMA OtherRow ==
    ASSUME TypeOK, NEW q \in Handlers, NEW c, NEW e, NEW r \in Handlers, r # q,
           row' = [row EXCEPT ![q] = c], trail' = [trail EXCEPT ![q] = e]
    PROVE  Effect(r)
BY DEF TypeOK, Effect, Untouched, SameDecision

LEMMA HandlerEffect ==
    ASSUME TypeOK, NEW h \in Handlers, LookUp(h) \/ HandlerStep(h), UNCHANGED requestVars,
           NEW r \in Handlers
    PROVE  Effect(r)
<1>1. CASE trail' = trail
  BY <1>1, Unwritten DEF requestVars
<1>2. CASE trail' = [trail EXCEPT ![h] = Appended(h, "created", h)]
  <2>1. r # h => trail'[r] = trail[r]
    BY <1>2 DEF TypeOK
  <2>2. r = h => trail'[r] = Append(trail[r], <<"created", h>>)
    BY <1>2 DEF TypeOK, Appended
  <2>3. ~Settles("created") /\ "created" \in Kinds /\ h \in Processes
    BY DEF Settles, Kinds
  <2>4. SameDecision(r)
    BY DEF SameDecision, requestVars
  <2> QED BY <2>1, <2>2, <2>3, <2>4 DEF Effect, Untouched
<1> QED BY <1>1, <1>2 DEF HandlerStep, LookUp, Handle, Refuse

LEMMA DecisionEffect ==
    ASSUME TypeOK, BatchesHeld, NEW d \in Decisions,
           DecisionStep(d) \/ \E q \in Handlers : Decide(d, q),
           NEW r \in Handlers
    PROVE  Effect(r)
<1>1. ASSUME NEW q \in Handlers, Decide(d, q) \/ WriteApproval(d, q) PROVE Effect(r)
  BY <1>1, Unwritten DEF Decide, WriteApproval, requestVars
<1>2. ASSUME NEW answer, RunConnector(d, answer) PROVE Effect(r)
  BY <1>2, Unwritten DEF RunConnector
<1>3. ASSUME TakeChain(d) PROVE Effect(r)
  BY <1>3, Unwritten DEF TakeChain, requestVars
<1>4. ASSUME d \in Approvals, NEW q \in Handlers, CommitApproval(d, q) PROVE Effect(r)
  <2> DEFINE kind == IF outcome[d] = "succeeded" THEN "executed" ELSE "failed"
  <2>1. CASE r # q
    BY <1>4, <2>1, OtherRow DEF CommitApproval
  <2>2. CASE r = q
    <3>1. trail'[r] = Append(trail[r], <<kind, d>>)
      BY <1>4, <2>2 DEF TypeOK, CommitApproval, Appended
    <3>2. row[r] \in Columns /\ row'[r] = Approved(r, d)
      BY <1>4, <2>2 DEF TypeOK, CommitApproval
    <3>3. Says(<<kind, d>>, row'[r])
      BY <3>2 DEF Says, Approved, Columns
    <3>4. \A w \in Reapers : r \notin batch[w]
      BY <1>4, <2>2 DEF BatchesHeld, Holding, CommitApproval
    <3>5. target[d] = {r} /\ phase[d] = "ran"
      BY <1>4, <2>2 DEF CommitApproval
    <3>6. DecidedBy(d, r)
      BY <3>1, <3>3, <3>4, <3>5 DEF DecidedBy
    <3> QED BY <3>6 DEF Effect
  <2> QED BY <2>1, <2>2
<1>5. ASSUME NEW q \in Handlers, CommitDenial(d, q) PROVE Effect(r)
  <2>1. CASE r # q
    BY <1>5, <2>1, OtherRow DEF CommitDenial
  <2>2. CASE r = q
    <3>1. trail'[r] = Append(trail[r], <<"denied", d>>)
      BY <1>5, <2>2 DEF TypeOK, CommitDenial, Appended
    <3>2. row[r] \in Columns /\ row'[r] = Denied(r, d)
      BY <1>5, <2>2 DEF TypeOK, CommitDenial
    <3>3. Says(<<"denied", d>>, row'[r])
      BY <3>2 DEF Says, Denied, Columns
    <3>4. \A w \in Reapers : r \notin batch[w]
      BY <1>5, <2>2 DEF Locked, CommitDenial
    <3>5. target[d] = {r} /\ phase[d] = "chained"
      BY <1>5, <2>2 DEF CommitDenial
    <3>6. DecidedBy(d, r)
      BY <3>1, <3>3, <3>4, <3>5 DEF DecidedBy
    <3> QED BY <3>6 DEF Effect
  <2> QED BY <2>1, <2>2
<1> QED BY <1>1, <1>2, <1>3, <1>4, <1>5 DEF DecisionStep

LEMMA MintingEffect ==
    ASSUME TypeOK, NEW g \in Mintings,
           MintingStep(g) \/ \E q \in Handlers : StartMinting(g, q),
           NEW r \in Handlers
    PROVE  Effect(r)
<1>1. ASSUME NEW q \in Handlers, StartMinting(g, q) PROVE Effect(r)
  BY <1>1, Unwritten DEF StartMinting
<1>2. ASSUME TakeChain(g) PROVE Effect(r)
  BY <1>2, Unwritten DEF TakeChain, requestVars
<1>3. ASSUME NEW q \in Handlers, CommitMinting(g, q) PROVE Effect(r)
  <2>1. CASE r # q
    BY <1>3, <2>1, OtherRow DEF CommitMinting
  <2>2. CASE r = q
    <3>1. trail'[r] = Append(trail[r], <<"code", g>>)
      BY <1>3, <2>2 DEF TypeOK, CommitMinting, Appended
    <3>2. /\ row[r] \in Columns
          /\ row'[r] = [row[r] EXCEPT !.code = minted'[r], !.live = TRUE]
      BY <1>3, <2>2 DEF TypeOK, CommitMinting
    <3>3. SameDecision(r)
      BY <3>2 DEF SameDecision, Columns
    <3>4. ~Settles("code") /\ "code" \in Kinds /\ g \in Processes
      BY DEF Settles, Kinds
    <3> QED BY <3>1, <3>3, <3>4 DEF Effect, Untouched
  <2> QED BY <2>1, <2>2
<1> QED BY <1>1, <1>2, <1>3 DEF MintingStep

LEMMA ReaperEffect ==
    ASSUME TypeOK, NEW w \in Reapers, ReaperStep(w), NEW r \in Handlers
    PROVE  Effect(r)
<1>1. CASE SelectStale(w)
  BY <1>1, Unwritten DEF SelectStale, conversationVars
<1>2. CASE CommitReaped(w) /\ r \in batch[w]
  <2>1. LapsedBy(w, r)
    BY <1>2 DEF CommitReaped, LapsedBy, Appended
  <2> QED BY <2>1 DEF Effect
<1>3. CASE CommitReaped(w) /\ r \notin batch[w]
  <2>1. row'[r] = row[r] /\ trail'[r] = trail[r]
    BY <1>3 DEF CommitReaped
  <2> QED BY <2>1 DEF Effect, Untouched, SameDecision
<1> QED BY <1>1, <1>2, <1>3 DEF ReaperStep

LEMMA TimeEffect ==
    ASSUME TypeOK, NEW q \in Handlers, Expire(q) \/ GrowStale(q), NEW r \in Handlers
    PROVE  Effect(r)
<1>1. CASE Expire(q)
  <2>1. row[r] \in Columns /\ row'[r] = IF r = q THEN [row[r] EXCEPT !.live = FALSE] ELSE row[r]
    BY <1>1 DEF TypeOK, Expire
  <2>2. SameDecision(r)
    BY <2>1 DEF SameDecision, Columns
  <2> QED BY <1>1, <2>2 DEF Effect, Untouched, Expire, conversationVars
<1>2. CASE GrowStale(q)
  BY <1>2, Unwritten DEF GrowStale, conversationVars
<1> QED BY <1>1, <1>2

LEMMA FaultEffect ==
    ASSUME NEW p \in Processes, Breakdown(p) \/ GiveWay(p), NEW r \in Handlers
    PROVE  Effect(r)
BY Unwritten DEF Breakdown, GiveWay, RollBack

LEMMA StepEffect ==
    ASSUME TypeOK, BatchesHeld, [Next]_vars, NEW r \in Handlers
    PROVE  Effect(r)
<1>1. CASE UNCHANGED vars
  BY <1>1, Unwritten DEF vars, conversationVars, requestVars
<1>2. CASE Next
  BY <1>2, HandlerEffect, DecisionEffect, MintingEffect, ReaperEffect, TimeEffect,
     FaultEffect DEF Next
<1> QED BY <1>1, <1>2

-----------------------------------------------------------------------------
(***************************************************************************)
(* The parts of the invariant.                                             *)
(***************************************************************************)
LEMMA TrailNext ==
    ASSUME TypeOK, TrailExplainsRow, BatchesHeld, DecidedIsSettled, [Next]_vars
    PROVE  TrailExplainsRow'
<1> SUFFICES ASSUME NEW r \in Handlers PROVE Told(trail'[r], row'[r])
  BY DEF TrailExplainsRow
<1>1. trail[r] \in Trails /\ Told(trail[r], row[r]) /\ row[r] \in Columns
  BY DEF TypeOK, TrailExplainsRow
<1>2. CASE Untouched(r)
  <2>1. CASE trail'[r] = trail[r]
    BY <1>1, <1>2, <2>1, SameTold DEF Untouched, SameDecision
  <2>2. ASSUME NEW kind \in Kinds, NEW p \in Processes, ~Settles(kind),
               trail'[r] = Append(trail[r], <<kind, p>>)
        PROVE  Told(trail'[r], row'[r])
    BY <1>1, <1>2, <2>2, OtherTold DEF Untouched, SameDecision
  <2> QED BY <1>2, <2>1, <2>2 DEF Untouched
<1>3. ASSUME NEW d \in Decisions, DecidedBy(d, r) PROVE Told(trail'[r], row'[r])
  <2>1. PICK kind \in {"executed", "failed", "denied"} :
            trail'[r] = Append(trail[r], <<kind, d>>) /\ Says(<<kind, d>>, row'[r])
    BY <1>3 DEF DecidedBy
  <2>2. Settles(kind) /\ kind \in Kinds /\ d \in Processes
    BY DEF Settles, Kinds
  <2> QED BY <1>1, <2>1, <2>2, SettlingTold
<1>4. ASSUME NEW w \in Reapers, LapsedBy(w, r) PROVE Told(trail'[r], row'[r])
  <2>1. row[r].decider = {}
    BY <1>4 DEF LapsedBy, BatchesHeld, Pending, DecidedIsSettled
  <2>2. Says(<<"expired", w>>, row'[r])
    BY <1>1, <1>4, <2>1 DEF LapsedBy, Lapsed, Says, Columns
  <2>3. Settles("expired") /\ "expired" \in Kinds /\ w \in Processes
    BY DEF Settles, Kinds
  <2> QED BY <1>1, <1>4, <2>2, <2>3, SettlingTold DEF LapsedBy
<1> QED BY <1>2, <1>3, <1>4, StepEffect DEF Effect

(* A decision that is done was done before, or settles its request now.    *)
LEMMA DoneNext ==
    ASSUME TypeOK, [Next]_vars, NEW d \in Decisions, NEW r \in Handlers,
           (phase[d] = "done" /\ target[d] = {r})'
    PROVE  \/ phase[d] = "done" /\ target[d] = {r}
           \/ row'[r].status # "pending_approval"
<1>1. ASSUME NEW e \in Decisions, NEW q \in Handlers,
             Decide(e, q) \/ WriteApproval(e, q) \/ TakeChain(e)
      PROVE  phase[d] = "done" /\ target[d] = {r}
  BY <1>1 DEF TypeOK, Decide, WriteApproval, TakeChain, MoveTo, requestVars
<1>2. ASSUME NEW e \in Decisions, NEW answer, RunConnector(e, answer)
      PROVE  phase[d] = "done" /\ target[d] = {r}
  BY <1>2 DEF TypeOK, RunConnector, MoveTo
<1>3. ASSUME NEW e \in Approvals, NEW q \in Handlers, CommitApproval(e, q)
      PROVE  \/ phase[d] = "done" /\ target[d] = {r}
             \/ row'[r].status # "pending_approval"
  <2>1. CASE e # d
    BY <1>3, <2>1 DEF TypeOK, CommitApproval, MoveTo
  <2>2. CASE e = d
    <3>1. q = r
      BY <1>3, <2>2 DEF CommitApproval
    <3>2. row[r] \in Columns /\ row'[r] = Approved(r, d)
      BY <1>3, <2>2, <3>1 DEF TypeOK, CommitApproval
    <3> QED BY <3>2 DEF Approved, Columns
  <2> QED BY <2>1, <2>2
<1>4. ASSUME NEW e \in Decisions, NEW q \in Handlers, CommitDenial(e, q)
      PROVE  \/ phase[d] = "done" /\ target[d] = {r}
             \/ row'[r].status # "pending_approval"
  <2>1. CASE e # d
    BY <1>4, <2>1 DEF TypeOK, CommitDenial, MoveTo
  <2>2. CASE e = d
    <3>1. q = r
      BY <1>4, <2>2 DEF CommitDenial
    <3>2. row[r] \in Columns /\ row'[r] = Denied(r, d)
      BY <1>4, <2>2, <3>1 DEF TypeOK, CommitDenial
    <3> QED BY <3>2 DEF Denied, Columns
  <2> QED BY <2>1, <2>2
<1>5. ASSUME NEW h \in Handlers, LookUp(h) \/ HandlerStep(h), UNCHANGED requestVars
      PROVE  phase[d] = "done" /\ target[d] = {r}
  BY <1>5 DEF TypeOK, LookUp, HandlerStep, Handle, Refuse, requestVars
<1>6. ASSUME NEW g \in Mintings, NEW q \in Handlers,
             StartMinting(g, q) \/ TakeChain(g) \/ CommitMinting(g, q)
      PROVE  phase[d] = "done" /\ target[d] = {r}
  BY <1>6 DEF TypeOK, StartMinting, TakeChain, CommitMinting, MoveTo, requestVars
<1>7. ASSUME NEW g \in Mintings, TakeChain(g)
      PROVE  phase[d] = "done" /\ target[d] = {r}
  BY <1>7 DEF TypeOK, TakeChain, MoveTo, requestVars
<1>8. ASSUME NEW w \in Reapers, ReaperStep(w)
      PROVE  phase[d] = "done" /\ target[d] = {r}
  BY <1>8 DEF ReaperStep, SelectStale, CommitReaped, conversationVars
<1>9. ASSUME NEW q \in Handlers, Expire(q) \/ GrowStale(q)
      PROVE  phase[d] = "done" /\ target[d] = {r}
  BY <1>9 DEF Expire, GrowStale, conversationVars
<1>10. ASSUME NEW p \in Processes, Breakdown(p) \/ GiveWay(p)
       PROVE  phase[d] = "done" /\ target[d] = {r}
  BY <1>10 DEF TypeOK, Breakdown, GiveWay, RollBack
<1>11. CASE UNCHANGED vars
  BY <1>11 DEF vars, conversationVars, requestVars
<1>12. CASE Next
  <2>1. ASSUME NEW e \in Decisions, DecisionStep(e) \/ \E q \in Handlers : Decide(e, q)
        PROVE  \/ phase[d] = "done" /\ target[d] = {r}
               \/ row'[r].status # "pending_approval"
    BY <2>1, <1>1, <1>2, <1>3, <1>4 DEF DecisionStep
  <2>2. ASSUME NEW g \in Mintings, MintingStep(g) \/ \E q \in Handlers : StartMinting(g, q)
        PROVE  phase[d] = "done" /\ target[d] = {r}
    BY <2>2, <1>6, <1>7 DEF MintingStep
  <2> QED BY <1>12, <1>5, <2>1, <2>2, <1>8, <1>9, <1>10 DEF Next
<1> QED BY <1>11, <1>12

LEMMA DecidedNext ==
    ASSUME TypeOK, BatchesHeld, DecidedIsSettled, [Next]_vars
    PROVE  DecidedIsSettled'
<1>1. ASSUME NEW r \in Handlers PROVE Effect(r) /\ row[r] \in Columns
  BY StepEffect DEF TypeOK
<1>2. ASSUME NEW r \in Handlers, NEW d \in Decisions, DecidedBy(d, r)
      PROVE  row'[r].status # "pending_approval"
  BY <1>2 DEF DecidedBy, Says
<1>3. ASSUME NEW r \in Handlers, NEW w \in Reapers, LapsedBy(w, r)
      PROVE  row'[r].status # "pending_approval"
  BY <1>1, <1>3 DEF LapsedBy, Lapsed, Columns
<1>4. ASSUME NEW r \in Handlers, row'[r].status = "pending_approval"
      PROVE  row[r].status = "pending_approval" /\ row'[r].decider = row[r].decider
  BY <1>1, <1>2, <1>3, <1>4 DEF Effect, Untouched, SameDecision
<1>5. \A r \in Handlers : row'[r].status = "pending_approval" => row'[r].decider = {}
  BY <1>4 DEF DecidedIsSettled
<1>6. ASSUME NEW d \in Decisions, NEW r \in Handlers, (phase[d] = "done" /\ target[d] = {r})'
      PROVE  row'[r].status # "pending_approval"
  BY <1>4, <1>6, DoneNext DEF DecidedIsSettled
<1> QED BY <1>5, <1>6 DEF DecidedIsSettled

LEMMA RememberedNext ==
    ASSUME TypeOK, RequestedOnce, RequestsRemembered, [Next]_vars
    PROVE  RequestedOnce' /\ RequestsRemembered' /\ requests \subseteq requests'
<1>1. CASE UNCHANGED <<requests, remembered>>
  BY <1>1 DEF RequestedOnce, RequestsRemembered
<1>2. ASSUME NEW h \in Handlers, Handle(h)
      PROVE  RequestedOnce' /\ RequestsRemembered' /\ requests \subseteq requests'
  <2>1. /\ Message[h] \notin remembered
        /\ remembered' = remembered \cup ({Message[h]} \ Web)
        /\ requests' \in {requests, requests \cup {h}}
    BY <1>2 DEF Handle, Clashes, Known
  <2> QED BY <2>1 DEF RequestedOnce, RequestsRemembered
<1>3. \/ UNCHANGED <<requests, remembered>>
      \/ \E h \in Handlers : Handle(h)
  BY DEF Next, vars, conversationVars, requestVars, HandlerStep, LookUp, Refuse, DecisionStep,
     Decide, WriteApproval, CommitApproval, RunConnector, TakeChain, CommitDenial,
     MintingStep, StartMinting, CommitMinting, ReaperStep, SelectStale, CommitReaped,
     Expire, GrowStale, Breakdown, GiveWay, RollBack
<1> QED BY <1>1, <1>2, <1>3

(* An approval that holds a row has held it before or found it free.       *)
LEMMA HoldingNext ==
    ASSUME TypeOK, [Next]_vars, NEW d \in Approvals, NEW r \in Handlers, Holding(d, r)'
    PROVE  Holding(d, r) \/ ~Locked(r)
<1>1. ASSUME NEW e \in Decisions, NEW q \in Handlers, WriteApproval(e, q)
      PROVE  Holding(d, r) \/ ~Locked(r)
  <2>1. CASE e = d
    <3>1. target[d] = {q} /\ target[d] = {r} /\ ~Locked(q)
      BY <1>1, <2>1 DEF WriteApproval, Holding, requestVars
    <3> QED BY <3>1
  <2>2. CASE e # d
    BY <1>1, <2>2 DEF TypeOK, WriteApproval, MoveTo, Holding, requestVars
  <2> QED BY <2>1, <2>2
<1>2. ASSUME NEW e \in Decisions, NEW q \in Handlers, Decide(e, q)
      PROVE  Holding(d, r)
  BY <1>2 DEF TypeOK, Decide, MoveTo, Holding
<1>3. ASSUME NEW e \in Decisions, NEW answer, RunConnector(e, answer)
      PROVE  Holding(d, r)
  BY <1>3 DEF TypeOK, RunConnector, MoveTo, Holding
<1>4. ASSUME NEW e \in Decisions, NEW q \in Handlers, CommitApproval(e, q) \/ CommitDenial(e, q)
      PROVE  Holding(d, r)
  BY <1>4 DEF TypeOK, CommitApproval, CommitDenial, MoveTo, Holding
<1>5. ASSUME NEW p \in Decisions \cup Mintings, TakeChain(p)
      PROVE  Holding(d, r)
  BY <1>5 DEF TypeOK, TakeChain, MoveTo, Holding, requestVars
<1>6. ASSUME NEW g \in Mintings, NEW q \in Handlers, StartMinting(g, q) \/ CommitMinting(g, q)
      PROVE  Holding(d, r)
  BY <1>6 DEF TypeOK, StartMinting, CommitMinting, MoveTo, Holding
<1>7. ASSUME NEW h \in Handlers, LookUp(h) \/ HandlerStep(h), UNCHANGED requestVars
      PROVE  Holding(d, r)
  BY <1>7 DEF TypeOK, LookUp, HandlerStep, Handle, Refuse, Holding, requestVars
<1>8. ASSUME NEW w \in Reapers, ReaperStep(w) PROVE Holding(d, r)
  BY <1>8 DEF ReaperStep, SelectStale, CommitReaped, conversationVars, Holding
<1>9. ASSUME NEW q \in Handlers, Expire(q) \/ GrowStale(q) PROVE Holding(d, r)
  BY <1>9 DEF Expire, GrowStale, conversationVars, Holding
<1>10. ASSUME NEW p \in Processes, Breakdown(p) \/ GiveWay(p) PROVE Holding(d, r)
  BY <1>10 DEF TypeOK, Breakdown, GiveWay, RollBack, Holding
<1>11. CASE UNCHANGED vars
  BY <1>11 DEF vars, conversationVars, requestVars, Holding
<1>12. CASE Next
  <2>1. ASSUME NEW e \in Decisions, DecisionStep(e) \/ \E q \in Handlers : Decide(e, q)
        PROVE  Holding(d, r) \/ ~Locked(r)
    BY <2>1, <1>1, <1>2, <1>3, <1>4, <1>5 DEF DecisionStep
  <2>2. ASSUME NEW g \in Mintings, MintingStep(g) \/ \E q \in Handlers : StartMinting(g, q)
        PROVE  Holding(d, r)
    BY <2>2, <1>5, <1>6 DEF MintingStep
  <2> QED BY <1>12, <1>7, <2>1, <2>2, <1>8, <1>9, <1>10 DEF Next
<1> QED BY <1>11, <1>12

(* Batches shrink, but for the reaper that selects one.                    *)
LEMMA BatchNext ==
    ASSUME TypeOK, [Next]_vars
    PROVE  \/ \A w \in Reapers : batch'[w] \subseteq batch[w]
           \/ \E w \in Reapers : SelectStale(w)
<1>1. ASSUME NEW w \in Reapers, CommitReaped(w)
      PROVE  \A v \in Reapers : batch'[v] \subseteq batch[v]
  BY <1>1 DEF TypeOK, CommitReaped
<1>2. ASSUME NEW p \in Processes, RollBack(p)
      PROVE  \A v \in Reapers : batch'[v] \subseteq batch[v]
  BY <1>2 DEF TypeOK, RollBack
<1>3. \/ UNCHANGED batch
      \/ \E w \in Reapers : SelectStale(w) \/ CommitReaped(w)
      \/ \E p \in Processes : RollBack(p)
  BY DEF Next, vars, requestVars, DecisionStep, Decide, WriteApproval, CommitApproval,
     RunConnector, TakeChain, CommitDenial, MintingStep, StartMinting, CommitMinting,
     ReaperStep, Expire, GrowStale, Breakdown, GiveWay
<1> QED BY <1>1, <1>2, <1>3

LEMMA BatchesNext ==
    ASSUME TypeOK, RequestedOnce, RequestsRemembered, BatchesHeld, [Next]_vars
    PROVE  BatchesHeld'
<1> SUFFICES ASSUME NEW w \in Reapers, NEW r \in batch'[w]
             PROVE  /\ Pending(r)'
                    /\ \A v \in Reapers : r \in batch'[v] => v = w
                    /\ \A d \in Approvals : ~Holding(d, r)'
  BY DEF BatchesHeld
<1>1. r \in Handlers
  BY TypesNext DEF TypeOK
<1>2. CASE \A v \in Reapers : batch'[v] \subseteq batch[v]
  <2>1. r \in batch[w]
    BY <1>2
  <2>2. /\ Pending(r)
        /\ \A v \in Reapers : r \in batch[v] => v = w
        /\ \A d \in Approvals : ~Holding(d, r)
        /\ Locked(r)
    BY <2>1 DEF BatchesHeld, Locked
  <2>3. \A v \in Reapers : ~LapsedBy(v, r)
    <3> SUFFICES ASSUME NEW v \in Reapers, LapsedBy(v, r) PROVE FALSE
      OBVIOUS
    <3>1. v = w /\ batch'[w] = {}
      BY <2>2 DEF LapsedBy, TypeOK
    <3> QED BY <3>1
  <2>4. \A d \in Decisions : ~DecidedBy(d, r)
    BY <2>1 DEF DecidedBy
  <2>5. SameDecision(r)
    BY <1>1, <2>3, <2>4, StepEffect DEF Effect, Untouched
  <2>6. Pending(r)'
    BY <2>2, <2>5, RememberedNext DEF Pending, SameDecision
  <2>7. \A d \in Approvals : ~Holding(d, r)'
    BY <1>1, <2>2, HoldingNext
  <2> QED BY <1>2, <2>2, <2>6, <2>7
<1>3. ASSUME NEW v \in Reapers, SelectStale(v)
      PROVE  /\ Pending(r)'
             /\ \A u \in Reapers : r \in batch'[u] => u = w
             /\ \A d \in Approvals : ~Holding(d, r)'
  <2>1. /\ \A q : Pending(q)' <=> Pending(q)
        /\ \A d, q : Holding(d, q)' <=> Holding(d, q)
    BY <1>3 DEF SelectStale, conversationVars, Pending, Holding
  <2>2. PICK B \in SUBSET Due : batch' = [batch EXCEPT ![v] = B]
    BY <1>3 DEF SelectStale
  <2>3. CASE w = v
    <3>1. r \in Due
      BY <2>2, <2>3 DEF TypeOK
    <3>2. Pending(r) /\ ~Locked(r)
      BY <3>1 DEF Due
    <3> QED BY <2>1, <2>2, <2>3, <3>2 DEF TypeOK, Locked
  <2>4. CASE w # v
    <3>1. r \in batch[w]
      BY <2>2, <2>4 DEF TypeOK
    <3>2. r \notin batch'[v]
      BY <2>2, <3>1 DEF TypeOK, Due, Locked
    <3> QED BY <2>1, <2>2, <3>1, <3>2 DEF TypeOK, BatchesHeld
  <2> QED BY <2>3, <2>4
<1> QED BY <1>2, <1>3, BatchNext

(* A decision gets its request when it begins, and what is over stays over.*)
LEMMA OverNext ==
    ASSUME TypeOK, [Next]_vars, NEW d \in Decisions, NEW r \in Handlers, target'[d] = {r},
           ~Pending(r), target[d] = {r} => phase[d] \in {"done", "aborted"}
    PROVE  phase'[d] \in {"done", "aborted"}
<1>1. ASSUME NEW e \in Decisions, NEW q \in Handlers, Decide(e, q)
      PROVE  target[d] = {r} /\ phase'[d] = phase[d]
  <2>1. CASE e = d
    BY <1>1, <2>1 DEF TypeOK, Decide, MayDecide
  <2>2. CASE e # d
    BY <1>1, <2>2 DEF TypeOK, Decide, MoveTo
  <2> QED BY <2>1, <2>2
<1>2. ASSUME NEW g \in Mintings, NEW q \in Handlers, StartMinting(g, q)
      PROVE  target[d] = {r} /\ phase'[d] = phase[d]
  BY <1>2 DEF TypeOK, StartMinting, MoveTo
<1>3. ASSUME NEW e \in Decisions, NEW q \in Handlers, NEW answer,
             \/ WriteApproval(e, q) \/ RunConnector(e, answer) \/ CommitApproval(e, q)
             \/ TakeChain(e) \/ CommitDenial(e, q)
      PROVE  phase'[d] \in {"done", "aborted"}
  BY <1>3 DEF TypeOK, WriteApproval, RunConnector, CommitApproval, TakeChain, CommitDenial,
     MoveTo, requestVars
<1>4. ASSUME NEW g \in Mintings, NEW q \in Handlers, TakeChain(g) \/ CommitMinting(g, q)
      PROVE  phase'[d] \in {"done", "aborted"}
  BY <1>4 DEF TypeOK, TakeChain, CommitMinting, MoveTo, requestVars
<1>5. ASSUME NEW h \in Handlers, LookUp(h) \/ HandlerStep(h), UNCHANGED requestVars
      PROVE  phase'[d] \in {"done", "aborted"}
  BY <1>5 DEF TypeOK, LookUp, HandlerStep, Handle, Refuse, requestVars
<1>6. ASSUME NEW w \in Reapers, ReaperStep(w) PROVE phase'[d] \in {"done", "aborted"}
  BY <1>6 DEF ReaperStep, SelectStale, CommitReaped, conversationVars
<1>7. ASSUME NEW q \in Handlers, Expire(q) \/ GrowStale(q)
      PROVE  phase'[d] \in {"done", "aborted"}
  BY <1>7 DEF Expire, GrowStale, conversationVars
<1>8. ASSUME NEW p \in Processes, Breakdown(p) \/ GiveWay(p)
      PROVE  phase'[d] \in {"done", "aborted"}
  BY <1>8 DEF TypeOK, Breakdown, GiveWay, RollBack
<1>9. CASE UNCHANGED vars
  BY <1>9 DEF vars, conversationVars, requestVars
<1>10. CASE Next
  <2>1. ASSUME NEW e \in Decisions, DecisionStep(e) \/ \E q \in Handlers : Decide(e, q)
        PROVE  phase'[d] \in {"done", "aborted"}
    BY <2>1, <1>1, <1>3 DEF DecisionStep
  <2>2. ASSUME NEW g \in Mintings, MintingStep(g) \/ \E q \in Handlers : StartMinting(g, q)
        PROVE  phase'[d] \in {"done", "aborted"}
    BY <2>2, <1>2, <1>4 DEF MintingStep
  <2> QED BY <1>10, <1>5, <2>1, <2>2, <1>6, <1>7, <1>8 DEF Next
<1> QED BY <1>9, <1>10

(* A decision is begun by Decide only.                                     *)
LEMMA BegunNext ==
    ASSUME TypeOK, [Next]_vars, NEW d \in Approvals, phase[d] = "new", phase'[d] = "read"
    PROVE  \E r \in Handlers : Decide(d, r)
<1>1. ASSUME NEW e \in Decisions, NEW q \in Handlers, Decide(e, q) PROVE e = d
  BY <1>1 DEF TypeOK, Decide, MoveTo
<1>2. ASSUME NEW g \in Mintings, NEW q \in Handlers, StartMinting(g, q) PROVE FALSE
  BY <1>2 DEF TypeOK, StartMinting, MoveTo
<1>3. ASSUME NEW e \in Decisions, NEW q \in Handlers,
             WriteApproval(e, q) \/ CommitApproval(e, q) \/ CommitDenial(e, q)
      PROVE  FALSE
  BY <1>3 DEF TypeOK, WriteApproval, CommitApproval, CommitDenial, MoveTo
<1>4. ASSUME NEW g \in Mintings, NEW q \in Handlers, CommitMinting(g, q)
      PROVE  FALSE
  BY <1>4 DEF TypeOK, CommitMinting, MoveTo
<1>11. ASSUME NEW p \in Decisions \cup Mintings, NEW answer,
              TakeChain(p) \/ RunConnector(p, answer)
       PROVE  FALSE
  BY <1>11 DEF TypeOK, TakeChain, RunConnector, MoveTo
<1>5. ASSUME NEW h \in Handlers, LookUp(h) \/ HandlerStep(h) PROVE FALSE
  BY <1>5 DEF TypeOK, LookUp, HandlerStep, Handle, Refuse
<1>6. ASSUME NEW w \in Reapers, ReaperStep(w) PROVE FALSE
  BY <1>6 DEF ReaperStep, SelectStale, CommitReaped, conversationVars
<1>7. ASSUME NEW q \in Handlers, Expire(q) \/ GrowStale(q) PROVE FALSE
  BY <1>7 DEF Expire, GrowStale, conversationVars
<1>8. ASSUME NEW p \in Processes, Breakdown(p) \/ GiveWay(p) PROVE FALSE
  BY <1>8 DEF TypeOK, Breakdown, GiveWay, RollBack
<1>9. CASE UNCHANGED vars
  BY <1>9 DEF vars, conversationVars
<1>10. CASE Next
  <2>1. ASSUME NEW e \in Decisions, DecisionStep(e) PROVE FALSE
    BY <2>1, <1>3, <1>11 DEF DecisionStep
  <2>2. ASSUME NEW g \in Mintings, MintingStep(g) \/ \E q \in Handlers : StartMinting(g, q)
        PROVE  FALSE
    BY <2>2, <1>2, <1>4, <1>11 DEF MintingStep
  <2> QED BY <1>10, <1>1, <1>5, <2>1, <2>2, <1>6, <1>7, <1>8 DEF Next
<1> QED BY <1>9, <1>10

-----------------------------------------------------------------------------
LEMMA InvariantInit == Init => RequestsInvariant
<1> SUFFICES ASSUME Init PROVE RequestsInvariant
  OBVIOUS
<1>1. TypeOK
  BY TypesInit
<1>2. RequestedOnce /\ RequestsRemembered /\ BatchesHeld
  BY DEF Init, RequestedOnce, RequestsRemembered, BatchesHeld
<1>3. TrailExplainsRow
  BY DEF Init, TrailExplainsRow, Told, LastWord, NewRow
<1>4. DecidedIsSettled
  BY DEF Init, DecidedIsSettled, NewRow
<1> QED BY <1>1, <1>2, <1>3, <1>4 DEF RequestsInvariant

LEMMA InvariantNext == RequestsInvariant /\ [Next]_vars => RequestsInvariant'
BY TypesNext, RememberedNext, TrailNext, BatchesNext, DecidedNext DEF RequestsInvariant

(* The inductive invariant of the connector requests holds.                *)
THEOREM RequestsAlways == Spec => []RequestsInvariant
BY InvariantInit, InvariantNext, PTL DEF Spec

(* Every variable keeps its type.                                          *)
THEOREM RequestTypes == Spec => []TypeOK
BY RequestsAlways, PTL DEF RequestsInvariant

(* A message of a channel makes at most one request (slack_events,         *)
(* remember), for any number of deliveries handled at once.                *)
THEOREM OneRequestPerMessage == Spec => []RequestedOnce
BY RequestsAlways, PTL DEF RequestsInvariant

(* A request's row shows what the last deciding event of its audit trail   *)
(* says (decide_connector_request, _reap), whichever decisions overtake    *)
(* each other.                                                             *)
THEOREM TrailAlwaysExplains == Spec => []TrailExplainsRow
BY RequestsAlways, PTL DEF RequestsInvariant

(* Once no decision that read it as pending is under way, a settled        *)
(* request is final (decide_connector_request, _reap, the step-up code).   *)
THEOREM SettledStaysFinal == Spec => SettledIsFinal
<1>1. ASSUME RequestsInvariant, [Next]_vars, NEW r \in Handlers, Undisturbed(r)
      PROVE  Undisturbed(r)' /\ SameDecision(r)
  <2>1. TypeOK /\ BatchesHeld /\ RequestedOnce /\ RequestsRemembered
    BY <1>1 DEF RequestsInvariant
  <2>2. \A d \in Decisions : ~DecidedBy(d, r)
    BY <1>1 DEF Undisturbed, DecidedBy
  <2>3. \A w \in Reapers : ~LapsedBy(w, r)
    BY <1>1, <2>1 DEF Undisturbed, LapsedBy, BatchesHeld
  <2>4. SameDecision(r)
    BY <1>1, <2>1, <2>2, <2>3, StepEffect DEF Effect, Untouched
  <2>5. ~Pending(r)' /\ r \in requests'
    BY <1>1, <2>1, <2>4, RememberedNext DEF Undisturbed, Pending, SameDecision
  <2>6. ASSUME NEW d \in Decisions, target'[d] = {r}
        PROVE  phase'[d] \in {"done", "aborted"}
    BY <1>1, <2>1, <2>6, OverNext DEF Undisturbed
  <2> QED BY <2>4, <2>5, <2>6 DEF Undisturbed
<1>2. RequestsInvariant /\ [Next]_vars =>
          [\A r \in Handlers : Undisturbed(r) =>
              /\ Undisturbed(r)'
              /\ row'[r].status = row[r].status
              /\ row'[r].decider = row[r].decider
              /\ row'[r].outcome = row[r].outcome]_vars
  BY <1>1 DEF SameDecision
<1> QED BY <1>2, RequestsAlways, PTL DEF Spec, SettledIsFinal

(* The code of a committed approval lets no later decision in              *)
(* (_verify_connector_request_step_up_code).                               *)
THEOREM SpentCodesStayDead == Spec => SpentCodeIsDead
<1>1. ASSUME RequestsInvariant, [Next]_vars, NEW d \in Approvals, NEW e \in Approvals,
             phase[e] = "done", phase[d] = "new", phase'[d] = "read"
      PROVE  target'[d] # target[e]
  <2>1. TypeOK /\ DecidedIsSettled
    BY <1>1 DEF RequestsInvariant
  <2>2. PICK r \in Handlers : Decide(d, r)
    BY <1>1, <2>1, BegunNext
  <2>3. target'[d] = {r} /\ Pending(r)
    BY <2>1, <2>2 DEF Decide, MayDecide, TypeOK
  <2>4. target[e] # {r}
    BY <1>1, <2>1, <2>3 DEF DecidedIsSettled, Pending
  <2> QED BY <2>3, <2>4
<1>2. RequestsInvariant /\ [Next]_vars =>
          [\A d, e \in Approvals :
              phase[e] = "done" /\ phase[d] = "new" /\ phase'[d] = "read" =>
                  ~(target'[d] = target[e] /\ used'[d] = used[e])]_vars
  BY <1>1
<1> QED BY <1>2, RequestsAlways, PTL DEF Spec, SpentCodeIsDead

-----------------------------------------------------------------------------
(***************************************************************************)
(* The decisions under way.                                                *)
(***************************************************************************)

(* What does not touch decisions, codes and mintings keeps all of it.      *)
LEMMA DecisionsKept ==
    ASSUME TypeOK, DecisionsInvariant, requests \subseteq requests',
           \A p \in Decisions \cup Mintings : phase'[p] = phase[p],
           UNCHANGED <<target, used, outcome, executed, minted>>,
           \A r \in Handlers : row'[r].code = row[r].code
    PROVE  DecisionsInvariant'
<1>1. BegunIsAbout'
  BY DEF DecisionsInvariant, BegunIsAbout
<1>2. HeldOnce'
  BY DEF DecisionsInvariant, HeldOnce, Holding
<1>3. RunIsKnown'
  BY DEF DecisionsInvariant, RunIsKnown
<1>4. CodesCounted'
  BY DEF DecisionsInvariant, CodesCounted
<1> QED BY <1>1, <1>2, <1>3, <1>4 DEF DecisionsInvariant

LEMMA DecideKeeps ==
    ASSUME TypeOK, DecisionsInvariant, NEW d \in Decisions, NEW r \in Handlers, Decide(d, r)
    PROVE  DecisionsInvariant'
<1> USE DEF Decide, MoveTo, TypeOK, DecisionsInvariant
<1>1. BegunIsAbout'
  BY DEF BegunIsAbout, MayDecide, Pending
<1>2. HeldOnce'
  BY DEF HeldOnce, Holding
<1>3. RunIsKnown'
  BY DEF RunIsKnown
<1>4. CodesCounted'
  <2>1. ASSUME NEW e \in Approvals, NEW q \in Handlers, target'[e] = {q}
        PROVE  used'[e] <= minted'[q]
    <3>1. CASE e = d
      <4>1. q = r /\ used'[e] = row[r].code
        BY <2>1, <3>1
      <4> QED BY <4>1 DEF CodesCounted
    <3>2. CASE e # d
      BY <2>1, <3>2 DEF CodesCounted
    <3> QED BY <3>1, <3>2
  <2> QED BY <2>1 DEF CodesCounted
<1> QED BY <1>1, <1>2, <1>3, <1>4

LEMMA WriteKeeps ==
    ASSUME TypeOK, DecisionsInvariant, NEW d \in Approvals, NEW r \in Handlers,
           WriteApproval(d, r)
    PROVE  DecisionsInvariant'
<1> USE DEF WriteApproval, MoveTo, TypeOK, DecisionsInvariant, requestVars
<1>1. BegunIsAbout'
  BY DEF BegunIsAbout
<1>2. HeldOnce'
  BY DEF HeldOnce, Holding, Locked
<1>3. RunIsKnown'
  BY DEF RunIsKnown
<1>4. CodesCounted'
  BY DEF CodesCounted
<1> QED BY <1>1, <1>2, <1>3, <1>4

LEMMA RunKeeps ==
    ASSUME TypeOK, DecisionsInvariant, NEW d \in Approvals, NEW answer \in Outcomes,
           RunConnector(d, answer)
    PROVE  DecisionsInvariant'
<1> USE DEF RunConnector, MoveTo, TypeOK, DecisionsInvariant
<1>1. BegunIsAbout'
  BY DEF BegunIsAbout
<1>2. HeldOnce'
  BY DEF HeldOnce, Holding
<1>3. RunIsKnown'
  BY DEF RunIsKnown
<1>4. CodesCounted'
  BY DEF CodesCounted
<1> QED BY <1>1, <1>2, <1>3, <1>4

LEMMA CommitKeeps ==
    ASSUME TypeOK, DecisionsInvariant, NEW d \in Decisions, NEW r \in Handlers,
           CommitApproval(d, r) \/ CommitDenial(d, r)
    PROVE  DecisionsInvariant'
<1>1. /\ MoveTo(d, "done") /\ phase[d] # "new"
      /\ UNCHANGED <<requests, target, used, outcome, executed, minted>>
  BY DEF CommitApproval, CommitDenial
<1> USE <1>1 DEF MoveTo, TypeOK, DecisionsInvariant
<1>2. BegunIsAbout'
  BY DEF BegunIsAbout
<1>3. HeldOnce'
  BY DEF HeldOnce, Holding
<1>4. RunIsKnown'
  BY DEF RunIsKnown
<1>5. \A q \in Handlers : row'[q].code \in {row[q].code, NoCode}
  <2>1. row' = [row EXCEPT ![r] = Approved(r, d)] \/ row' = [row EXCEPT ![r] = Denied(r, d)]
    BY DEF CommitApproval, CommitDenial
  <2>2. Approved(r, d).code = NoCode /\ Denied(r, d).code = row[r].code
    <3>1. row[r] \in Columns
      OBVIOUS
    <3> QED BY <3>1 DEF Approved, Denied, Columns
  <2> QED BY <2>1, <2>2
<1>6. CodesCounted'
  <2>1. \A q \in Handlers : minted[q] \in Nat
    OBVIOUS
  <2> QED BY <1>5, <2>1 DEF CodesCounted, NoCode
<1> QED BY <1>2, <1>3, <1>4, <1>6

LEMMA TakeKeeps ==
    ASSUME TypeOK, DecisionsInvariant, NEW p \in Denials \cup Mintings, TakeChain(p)
    PROVE  DecisionsInvariant'
<1> USE DEF TakeChain, MoveTo, TypeOK, DecisionsInvariant, requestVars
<1>1. BegunIsAbout'
  BY DEF BegunIsAbout
<1>2. HeldOnce'
  BY DEF HeldOnce, Holding
<1>3. RunIsKnown'
  BY DEF RunIsKnown
<1>4. CodesCounted'
  BY DEF CodesCounted
<1> QED BY <1>1, <1>2, <1>3, <1>4

LEMMA MintingKeeps ==
    ASSUME TypeOK, DecisionsInvariant, NEW g \in Mintings, NEW r \in Handlers,
           StartMinting(g, r) \/ CommitMinting(g, r)
    PROVE  DecisionsInvariant'
<1> USE DEF MoveTo, TypeOK, DecisionsInvariant
<1>1. BegunIsAbout'
  BY DEF BegunIsAbout, StartMinting, CommitMinting, Pending
<1>2. HeldOnce'
  BY DEF HeldOnce, Holding, StartMinting, CommitMinting
<1>3. RunIsKnown'
  BY DEF RunIsKnown, StartMinting, CommitMinting
<1>4. CodesCounted'
  <2>1. CASE StartMinting(g, r)
    BY <2>1 DEF CodesCounted, StartMinting
  <2>2. CASE CommitMinting(g, r)
    <3>1. row[r] \in Columns /\ minted[r] \in Nat
      OBVIOUS
    <3>2. \A q \in Handlers : minted[q] \in Nat /\ minted'[q] \in Nat /\ minted[q] <= minted'[q]
      BY <2>2 DEF CommitMinting
    <3>3. row'[r].code = minted'[r] /\ \A q \in Handlers : q # r => row'[q] = row[q]
      BY <2>2, <3>1 DEF CommitMinting, Columns
    <3>4. ASSUME NEW q \in Handlers PROVE row'[q].code <= minted'[q]
      BY <3>2, <3>3, <2>2 DEF CodesCounted, CommitMinting
    <3>5. ASSUME NEW q \in Handlers, NEW d \in Approvals, target'[d] = {q}
          PROVE  used'[d] <= minted'[q]
      <4>1. target[d] = {q} /\ used'[d] = used[d] /\ used[d] \in Nat
        BY <2>2, <3>5 DEF CommitMinting
      <4>2. used[d] <= minted[q]
        BY <4>1 DEF CodesCounted
      <4> QED BY <4>1, <4>2, <3>2
    <3> QED BY <3>4, <3>5 DEF CodesCounted
  <2> QED BY <2>1, <2>2
<1> QED BY <1>1, <1>2, <1>3, <1>4

LEMMA RollBackKeeps ==
    ASSUME TypeOK, DecisionsInvariant, NEW p \in Processes, Breakdown(p) \/ GiveWay(p)
    PROVE  DecisionsInvariant'
<1>1. RollBack(p) /\ (phase[p] # "new" \/ p \in Reapers)
  BY DEF Breakdown, GiveWay, Active, Deadlocked, Deadlock
<1> USE <1>1 DEF RollBack, TypeOK, DecisionsInvariant
<1>2. BegunIsAbout'
  BY DEF BegunIsAbout
<1>3. HeldOnce'
  BY DEF HeldOnce, Holding
<1>4. RunIsKnown'
  BY DEF RunIsKnown
<1>5. CodesCounted'
  BY DEF CodesCounted
<1> QED BY <1>2, <1>3, <1>4, <1>5

LEMMA DecisionsNext ==
    ASSUME RequestsInvariant, DecisionsInvariant, [Next]_vars
    PROVE  DecisionsInvariant'
<1>0. TypeOK /\ requests \subseteq requests'
  BY RememberedNext DEF RequestsInvariant
<1>1. ASSUME NEW h \in Handlers, LookUp(h) \/ HandlerStep(h), UNCHANGED requestVars
      PROVE  DecisionsInvariant'
  <2>1. \A p \in Decisions \cup Mintings : phase'[p] = phase[p]
    BY <1>0, <1>1 DEF TypeOK, LookUp, HandlerStep, Handle, Refuse
  <2> QED BY <1>0, <1>1, <2>1, DecisionsKept DEF requestVars
<1>2. ASSUME NEW r \in Handlers, Expire(r) \/ GrowStale(r) PROVE DecisionsInvariant'
  <2>1. \A q \in Handlers : row'[q].code = row[q].code
    <3>1. row[r] \in Columns
      BY <1>0 DEF TypeOK
    <3> QED BY <1>0, <1>2, <3>1 DEF TypeOK, Expire, GrowStale, Columns
  <2> QED BY <1>0, <1>2, <2>1, DecisionsKept DEF Expire, GrowStale, conversationVars
<1>3. ASSUME NEW w \in Reapers, ReaperStep(w) PROVE DecisionsInvariant'
  <2>1. \A q \in Handlers : row'[q].code = row[q].code
    <3>1. \A q \in Handlers : Lapsed(q).code = row[q].code
      <4>1. \A q \in Handlers : row[q] \in Columns
        BY <1>0 DEF TypeOK
      <4> QED BY <4>1 DEF Lapsed, Columns
    <3> QED BY <1>3, <3>1 DEF ReaperStep, SelectStale, CommitReaped
  <2> QED BY <1>0, <1>3, <2>1, DecisionsKept
          DEF ReaperStep, SelectStale, CommitReaped, conversationVars
<1>4. ASSUME NEW d \in Decisions, DecisionStep(d) \/ \E r \in Handlers : Decide(d, r)
      PROVE  DecisionsInvariant'
  <2>1. ASSUME d \in Approvals, NEW r \in Handlers, WriteApproval(d, r) \/ CommitApproval(d, r)
        PROVE  DecisionsInvariant'
    <3>1. CASE WriteApproval(d, r)
      BY <1>0, <2>1, <3>1, WriteKeeps
    <3>2. CASE CommitApproval(d, r)
      BY <1>0, <2>1, <3>2, CommitKeeps
    <3> QED BY <2>1, <3>1, <3>2
  <2>2. ASSUME d \in Approvals, NEW answer \in Outcomes \ {"none"}, RunConnector(d, answer)
        PROVE  DecisionsInvariant'
    BY <1>0, <2>2, RunKeeps
  <2>3. ASSUME d \in Denials, TakeChain(d) \/ \E r \in Handlers : CommitDenial(d, r)
        PROVE  DecisionsInvariant'
    BY <1>0, <2>3, TakeKeeps, CommitKeeps
  <2>4. ASSUME NEW r \in Handlers, Decide(d, r) PROVE DecisionsInvariant'
    BY <1>0, <2>4, DecideKeeps
  <2> QED BY <1>4, <2>1, <2>2, <2>3, <2>4 DEF DecisionStep
<1>5. ASSUME NEW g \in Mintings, MintingStep(g) \/ \E r \in Handlers : StartMinting(g, r)
      PROVE  DecisionsInvariant'
  BY <1>0, <1>5, TakeKeeps, MintingKeeps DEF MintingStep
<1>6. ASSUME NEW p \in Processes, Breakdown(p) \/ GiveWay(p) PROVE DecisionsInvariant'
  BY <1>0, <1>6, RollBackKeeps
<1>7. CASE UNCHANGED vars
  BY <1>0, <1>7, DecisionsKept DEF vars, conversationVars, requestVars
<1> QED BY <1>1, <1>2, <1>3, <1>4, <1>5, <1>6, <1>7 DEF Next

LEMMA DecisionsInit == Init => DecisionsInvariant
<1> SUFFICES ASSUME Init PROVE DecisionsInvariant
  OBVIOUS
<1>1. BegunIsAbout /\ HeldOnce /\ RunIsKnown
  BY DEF Init, BegunIsAbout, HeldOnce, Holding, RunIsKnown
<1>2. CodesCounted
  BY DEF Init, CodesCounted, NewRow, NoCode
<1> QED BY <1>1, <1>2 DEF DecisionsInvariant

(* The inductive invariant of the decisions under way holds: they are about*)
(* requests there are, the row's lock has one holder, and what was run and *)
(* minted is known (decide_connector_request).                             *)
THEOREM DecisionsAlways == Spec => [](RequestsInvariant /\ DecisionsInvariant)
<1>1. Init => RequestsInvariant /\ DecisionsInvariant
  BY InvariantInit, DecisionsInit
<1>2. RequestsInvariant /\ DecisionsInvariant /\ [Next]_vars =>
          RequestsInvariant' /\ DecisionsInvariant'
  BY InvariantNext, DecisionsNext
<1> QED BY <1>1, <1>2, PTL DEF Spec

-----------------------------------------------------------------------------
(***************************************************************************)
(* The promise, step by step.  A step shows itself to it by the request it *)
(* makes, the codes, who is deciding, what has run and what has been said. *)
(***************************************************************************)
OpenCode(r) == IF row[r].live THEN row[r].code ELSE NoCode

(* What neither begins nor ends a decision leaves who is deciding.         *)
LEMMA DecidingKept ==
    ASSUME \A d \in Decisions : target'[d] = target[d] /\ (Active(d)' <=> Active(d)),
           NEW r \in Handlers
    PROVE  Deciding(r)' = Deciding(r)
BY DEF Deciding

LEMMA CodesShownKept ==
    ASSUME \A d \in Approvals : target'[d] = target[d] /\ used'[d] = used[d]
    PROVE  [d \in Approvals |-> {<<r, used[d]>> : r \in target[d]}]' =
           [d \in Approvals |-> {<<r, used[d]>> : r \in target[d]}]
OBVIOUS

(* An operation that awaits its verdict holds the row.                     *)
LEMMA RunHolds ==
    ASSUME TypeOK, DecisionsInvariant, NEW r \in Handlers,
           NEW d \in Deciding(r) \cap executed
    PROVE  d \in Approvals /\ Holding(d, r)
BY DEF TypeOK, DecisionsInvariant, RunIsKnown, Deciding, Active, Holding

LEMMA UnlockedIsLeft ==
    ASSUME TypeOK, DecisionsInvariant, NEW r \in Handlers,
           \A d \in Approvals : ~Holding(d, r)
    PROVE  Promise!LeftTo({}, r)
BY RunHolds DEF Promise!LeftTo

LEMMA HeldIsLeft ==
    ASSUME TypeOK, DecisionsInvariant, NEW r \in Handlers, NEW d \in Approvals, Holding(d, r)
    PROVE  Promise!LeftTo({d}, r)
BY RunHolds DEF Promise!LeftTo, DecisionsInvariant, HeldOnce

-----------------------------------------------------------------------------
LEMMA RequestsStutter ==
    ASSUME UNCHANGED <<requests, executed>>,
           \A d \in Approvals : target'[d] = target[d] /\ used'[d] = used[d],
           \A r \in Handlers : /\ Deciding(r)' = Deciding(r)
                               /\ OpenCode(r)' = OpenCode(r)
                               /\ row'[r].status = row[r].status
                               /\ row'[r].decider = row[r].decider
    PROVE  UNCHANGED Promise!promiseVars
BY CodesShownKept DEF Promise!promiseVars, OpenCode

(* A handler asks, or nobody notices it.                                   *)
LEMMA HandlerPromised ==
    ASSUME RequestsInvariant, NEW h \in Handlers, LookUp(h) \/ HandlerStep(h),
           UNCHANGED requestVars
    PROVE  Promise!PromiseNext \/ UNCHANGED Promise!promiseVars
<1>1. /\ \A r \in Handlers : Deciding(r)' = Deciding(r)
      /\ \A d \in Approvals : target'[d] = target[d] /\ used'[d] = used[d]
  <2>1. \A d \in Decisions : phase'[d] = phase[d] /\ d \notin Reapers
    BY DEF RequestsInvariant, TypeOK, LookUp, HandlerStep, Handle, Refuse
  <2> QED BY <2>1, DecidingKept DEF requestVars, Active
<1>2. CASE UNCHANGED requests
  BY <1>1, <1>2, RequestsStutter DEF requestVars, OpenCode
<1>3. CASE Handle(h) /\ CreatesRequest(h) /\ h \notin requests
  <2>1. \A q \in requests : Message[h] \notin Web => Message[q] # Message[h]
    BY <1>3 DEF Handle, Clashes, Known, RequestsInvariant, RequestsRemembered
  <2>2. Promise!Ask(h)
    BY <1>1, <1>3, <2>1, CodesShownKept
       DEF Promise!Ask, Handle, CreatesRequest, requestVars
  <2> QED BY <2>2 DEF Promise!PromiseNext
<1> QED BY <1>2, <1>3 DEF LookUp, HandlerStep, Handle, Refuse

LEMMA DecidePromised ==
    ASSUME RequestsInvariant, NEW d \in Decisions, NEW r \in Handlers, Decide(d, r)
    PROVE  Promise!Look(d, r)
<1> USE DEF RequestsInvariant, TypeOK, Decide, MoveTo
<1>1. \A q \in Handlers : d \notin Deciding(q)
  BY DEF Deciding, Active
<1>2. Deciding(r)' = Deciding(r) \cup {d}
  BY DEF Deciding, Active
<1>3. ASSUME NEW q \in Handlers, q # r PROVE Deciding(q)' = Deciding(q)
  <2>1. target'[d] # {q} /\ ~Active(d)
    BY <1>3 DEF Active
  <2>2. \A e \in Decisions : e # d => target'[e] = target[e] /\ (Active(e)' <=> Active(e))
    BY DEF Active
  <2>3. ASSUME NEW e \in Decisions PROVE e \in Deciding(q)' <=> e \in Deciding(q)
    <3>1. CASE e = d
      BY <2>1, <3>1 DEF Deciding
    <3>2. CASE e # d
      BY <2>2, <3>2 DEF Deciding
    <3> QED BY <3>1, <3>2
  <2> QED BY <2>3 DEF Deciding
<1>4. [q \in Handlers |-> Deciding(q)]' =
         [[q \in Handlers |-> Deciding(q)] EXCEPT ![r] = @ \cup {d}]
  BY <1>2, <1>3
<1>5. r \in requests /\ row[r].status = "pending_approval" /\ Actor[d] # Author[Message[r]]
  BY DEF MayDecide, Pending, Requester
<1>6. d \in Approvals => OpenCode(r) # 0 /\ row[r].code = OpenCode(r)
  BY DEF MayDecide, OpenCode, NoCode
<1>7. [e \in Approvals |-> {<<q, used[e]>> : q \in target[e]}]' =
         IF d \in Approvals
         THEN [[e \in Approvals |-> {<<q, used[e]>> : q \in target[e]}]
                   EXCEPT ![d] = {<<r, OpenCode(r)>>}]
         ELSE [e \in Approvals |-> {<<q, used[e]>> : q \in target[e]}]
  <2>1. \A e \in Approvals : e # d => target'[e] = target[e] /\ used'[e] = used[e]
    OBVIOUS
  <2>2. d \in Approvals => target'[d] = {r} /\ used'[d] = OpenCode(r)
    BY <1>6
  <2>3. CASE d \in Approvals
    <3> DEFINE now == [e \in Approvals |-> {<<q, used[e]>> : q \in target[e]}]
               then == [e \in Approvals |-> {<<q, used'[e]>> : q \in target'[e]}]
    <3>1. now \in [Approvals -> SUBSET (Handlers \X Nat)]
      OBVIOUS
    <3>2. \A e \in Approvals : e # d => then[e] = now[e]
      BY <2>1
    <3>3. then[d] = {<<r, OpenCode(r)>>}
      BY <2>2, <2>3
    <3> HIDE DEF OpenCode
    <3>4. then = [e \in Approvals |-> then[e]] /\ now = [e \in Approvals |-> now[e]]
      OBVIOUS
    <3>5. then = [now EXCEPT ![d] = {<<r, OpenCode(r)>>}]
      BY <2>3, <3>2, <3>3, <3>4
    <3> QED BY <2>3, <3>5
  <2>4. CASE d \notin Approvals
    <3>1. \A e \in Approvals : target'[e] = target[e] /\ used'[e] = used[e]
      BY <2>1, <2>4
    <3> QED BY <2>4, <3>1, CodesShownKept
  <2> QED BY <2>3, <2>4
<1> QED BY <1>1, <1>4, <1>5, <1>6, <1>7 DEF Promise!Look, OpenCode

(* A decision that goes on is still deciding, ...                          *)
LEMMA DecidingOn ==
    ASSUME TypeOK, NEW p \in Decisions \cup Mintings, NEW next \in Phases, MoveTo(p, next),
           UNCHANGED target,
           p \in Mintings \/ (Active(p) /\ next \notin {"new", "done", "aborted"})
    PROVE  \A r \in Handlers : Deciding(r)' = Deciding(r)
<1>1. ASSUME NEW d \in Decisions PROVE Active(d)' <=> Active(d)
  BY DEF TypeOK, MoveTo, Active
<1> QED BY <1>1, DecidingKept

(* ... and one that ends is not.                                           *)
LEMMA DecidingEnds ==
    ASSUME TypeOK, NEW d \in Decisions, NEW r \in Handlers, target[d] = {r},
           phase' = [phase EXCEPT ![d] = "done"] \/ phase' = [phase EXCEPT ![d] = "aborted"],
           UNCHANGED target
    PROVE  [q \in Handlers |-> Deciding(q)]' =
               [[q \in Handlers |-> Deciding(q)] EXCEPT ![r] = @ \ {d}]
<1>1. ASSUME NEW e \in Decisions, e # d PROVE Active(e)' <=> Active(e)
  BY <1>1 DEF TypeOK, Active
<1>2. ~Active(d)'
  BY DEF TypeOK, Active
<1>3. Deciding(r)' = Deciding(r) \ {d}
  BY <1>1, <1>2 DEF Deciding
<1>4. ASSUME NEW q \in Handlers, q # r PROVE Deciding(q)' = Deciding(q)
  <2>1. target[d] # {q}
    BY <1>4
  <2>2. ASSUME NEW e \in Decisions PROVE e \in Deciding(q)' <=> e \in Deciding(q)
    BY <1>1, <2>1 DEF Deciding
  <2> QED BY <2>2 DEF Deciding
<1> QED BY <1>3, <1>4

LEMMA DenialSteps ==
    ASSUME RequestsInvariant, NEW p \in Denials \cup Mintings, TakeChain(p)
    PROVE  UNCHANGED Promise!promiseVars
<1>1. \A r \in Handlers : Deciding(r)' = Deciding(r)
  <2>1. p \in Denials => Active(p)
    BY DEF TakeChain, Active
  <2> QED BY <2>1, DecidingOn DEF RequestsInvariant, TakeChain, requestVars, Phases
<1> QED BY <1>1, RequestsStutter DEF TakeChain, requestVars, OpenCode

LEMMA WritePromised ==
    ASSUME RequestsInvariant, NEW d \in Approvals, NEW r \in Handlers, WriteApproval(d, r)
    PROVE  UNCHANGED Promise!promiseVars
<1>1. \A q \in Handlers : Deciding(q)' = Deciding(q)
  BY DecidingOn DEF RequestsInvariant, WriteApproval, requestVars, Phases, Active
<1> QED BY <1>1, RequestsStutter DEF WriteApproval, requestVars, OpenCode

LEMMA RunPromised ==
    ASSUME RequestsInvariant, DecisionsInvariant, NEW d \in Approvals,
           NEW answer \in Outcomes, RunConnector(d, answer)
    PROVE  Promise!PromiseNext \/ UNCHANGED Promise!promiseVars
<1>1. TypeOK
  BY DEF RequestsInvariant
<1>2. \A q \in Handlers : Deciding(q)' = Deciding(q)
  BY <1>1, DecidingOn DEF RunConnector, Phases, Active
<1>3. CASE answer # "succeeded"
  BY <1>2, <1>3, RequestsStutter DEF RunConnector, OpenCode
<1>4. CASE answer = "succeeded"
  <2>1. PICK r \in requests : target[d] = {r}
    BY DEF RunConnector, DecisionsInvariant, BegunIsAbout
  <2>2. r \in Handlers /\ d \in Deciding(r)
    BY <1>1, <2>1 DEF TypeOK, RunConnector, Deciding, Active
  <2>3. \A e \in Deciding(r) \cap executed : FALSE
    <3> SUFFICES ASSUME NEW e \in Deciding(r) \cap executed PROVE FALSE
      OBVIOUS
    <3>1. e \in Approvals /\ Holding(e, r) /\ Holding(d, r)
      BY <1>1, <2>1, <2>2, RunHolds DEF RunConnector, Holding
    <3>2. e = d
      BY <2>2, <3>1 DEF DecisionsInvariant, HeldOnce
    <3> QED BY <3>1, <3>2 DEF RunConnector, DecisionsInvariant, RunIsKnown
  <2>4. Promise!LeftTo({}, r)
    BY <2>2, <2>3 DEF Promise!LeftTo
  <2>5. Promise!Run(d, r)
    BY <1>2, <1>4, <2>2, <2>4 DEF Promise!Run, RunConnector
  <2> QED BY <2>2, <2>5 DEF Promise!PromiseNext
<1> QED BY <1>3, <1>4

LEMMA CommitPromised ==
    ASSUME RequestsInvariant, DecisionsInvariant, NEW d \in Decisions, NEW r \in Handlers,
           \/ d \in Approvals /\ CommitApproval(d, r)
           \/ d \in Denials /\ CommitDenial(d, r)
    PROVE  Promise!Settle(d, r)
<1>1. TypeOK /\ row[r] \in Columns
  BY DEF RequestsInvariant, TypeOK
<1>2. /\ d \in Deciding(r)
      /\ UNCHANGED <<requests, target, used, executed>>
      /\ target[d] = {r}
      /\ phase' = [phase EXCEPT ![d] = "done"]
  BY DEF CommitApproval, CommitDenial, Deciding, Active, MoveTo
<1>3. Promise!LeftTo({d}, r)
  <2>1. CASE CommitApproval(d, r) /\ d \in Approvals
    BY <1>1, <2>1, HeldIsLeft DEF CommitApproval, Holding
  <2>2. CASE CommitDenial(d, r)
    <3>1. Promise!LeftTo({}, r)
      BY <1>1, <2>2, UnlockedIsLeft DEF CommitDenial, Locked
    <3> QED BY <3>1 DEF Promise!LeftTo
  <2> QED BY <2>1, <2>2
<1>4. [q \in Handlers |-> Deciding(q)]' =
         [[q \in Handlers |-> Deciding(q)] EXCEPT ![r] = @ \ {d}]
  BY <1>1, <1>2, DecidingEnds
<1>5. \A q \in Handlers : q # r => row'[q] = row[q]
  BY <1>1 DEF TypeOK, CommitApproval, CommitDenial
<1>6. /\ row'[r].status = IF d \in Denials THEN "denied"
                          ELSE IF d \in executed THEN "succeeded" ELSE "failed"
      /\ row'[r].decider = {d}
      /\ OpenCode(r)' = IF d \in Approvals THEN 0 ELSE OpenCode(r)
  <2>1. CASE CommitApproval(d, r) /\ d \in Approvals
    <3>1. row'[r] = Approved(r, d)
      BY <1>1, <2>1 DEF TypeOK, CommitApproval
    <3>2. d \in executed <=> outcome[d] = "succeeded"
      BY <2>1 DEF DecisionsInvariant, RunIsKnown, CommitApproval
    <3> QED BY <1>1, <2>1, <3>1, <3>2 DEF Approved, Columns, OpenCode, NoCode
  <2>2. CASE CommitDenial(d, r) /\ d \in Denials
    <3>1. row'[r] = Denied(r, d)
      BY <1>1, <2>2 DEF TypeOK, CommitDenial
    <3> QED BY <1>1, <2>2, <3>1 DEF Denied, Columns, OpenCode
  <2> QED BY <2>1, <2>2
<1>7. /\ [q \in Handlers |-> row[q].status]' =
            [[q \in Handlers |-> row[q].status] EXCEPT
                ![r] = IF d \in Denials THEN "denied"
                       ELSE IF d \in executed THEN "succeeded" ELSE "failed"]
      /\ [q \in Handlers |-> row[q].decider]' =
            [[q \in Handlers |-> row[q].decider] EXCEPT ![r] = {d}]
      /\ [q \in Handlers |-> OpenCode(q)]' =
            IF d \in Approvals THEN [[q \in Handlers |-> OpenCode(q)] EXCEPT ![r] = 0]
                               ELSE [q \in Handlers |-> OpenCode(q)]
  BY <1>5, <1>6 DEF OpenCode
<1> QED BY <1>2, <1>3, <1>4, <1>7, CodesShownKept DEF Promise!Settle, OpenCode

LEMMA MintingPromised ==
    ASSUME RequestsInvariant, DecisionsInvariant, NEW g \in Mintings, NEW r \in Handlers,
           CommitMinting(g, r)
    PROVE  Promise!Mint(r)
<1>1. TypeOK /\ row[r] \in Columns /\ minted[r] \in Nat
  BY DEF RequestsInvariant, TypeOK
<1>2. r \in requests
  BY DEF CommitMinting, DecisionsInvariant, BegunIsAbout
<1>3. Promise!LeftTo({}, r)
  BY <1>1, UnlockedIsLeft DEF CommitMinting, Locked
<1>4. \A q \in Handlers : Deciding(q)' = Deciding(q)
  BY <1>1, DecidingOn DEF CommitMinting, Phases
<1>5. /\ row' = [row EXCEPT ![r] = [row[r] EXCEPT !.code = minted[r] + 1, !.live = TRUE]]
      /\ UNCHANGED <<requests, target, used, executed>>
  BY <1>1 DEF TypeOK, CommitMinting
<1>6. /\ \A q \in Handlers : q # r => row'[q] = row[q]
      /\ row'[r].status = row[r].status /\ row'[r].decider = row[r].decider
      /\ OpenCode(r)' = minted[r] + 1
  BY <1>1, <1>5 DEF TypeOK, Columns, OpenCode
<1>7. \A d \in Approvals : <<r, OpenCode(r)'>> \notin {<<q, used[d]>> : q \in target[d]}
  <2> SUFFICES ASSUME NEW d \in Approvals, NEW q \in target[d],
                      <<r, OpenCode(r)'>> = <<q, used[d]>>
               PROVE  FALSE
    OBVIOUS
  <2>1. q = r /\ used[d] = minted[r] + 1
    BY <1>6
  <2>2. target[d] = {r}
    BY <2>1 DEF DecisionsInvariant, BegunIsAbout
  <2>3. used[d] <= minted[r]
    BY <2>2 DEF DecisionsInvariant, CodesCounted
  <2> QED BY <1>1, <2>1, <2>3
<1>8. [q \in Handlers |-> OpenCode(q)]' =
         [[q \in Handlers |-> OpenCode(q)] EXCEPT ![r] = OpenCode(r)']
  BY <1>6 DEF OpenCode
<1>9. OpenCode(r)' # 0
  BY <1>1, <1>6
<1>10. /\ [q \in Handlers |-> row[q].status]' = [q \in Handlers |-> row[q].status]
       /\ [q \in Handlers |-> row[q].decider]' = [q \in Handlers |-> row[q].decider]
  BY <1>6
<1> QED BY <1>2, <1>3, <1>4, <1>5, <1>7, <1>8, <1>9, <1>10, CodesShownKept
        DEF Promise!Mint, OpenCode

LEMMA StartPromised ==
    ASSUME RequestsInvariant, NEW g \in Mintings, NEW r \in Handlers, StartMinting(g, r)
    PROVE  UNCHANGED Promise!promiseVars
<1>1. TypeOK
  BY DEF RequestsInvariant
<1>2. \A d \in Decisions : target'[d] = target[d] /\ (Active(d)' <=> Active(d))
  BY <1>1 DEF TypeOK, StartMinting, MoveTo, Active
<1>3. \A q \in Handlers : Deciding(q)' = Deciding(q)
  BY <1>2, DecidingKept
<1> QED BY <1>2, <1>3, RequestsStutter DEF StartMinting, OpenCode

LEMMA TimePromised ==
    ASSUME RequestsInvariant, NEW r \in Handlers, Expire(r) \/ GrowStale(r)
    PROVE  Promise!PromiseNext \/ UNCHANGED Promise!promiseVars
<1>1. TypeOK /\ row[r] \in Columns
  BY DEF RequestsInvariant, TypeOK
<1>2. UNCHANGED <<requests, phase, target, used, executed, batch>>
  BY DEF Expire, GrowStale, conversationVars
<1>3. \A q \in Handlers : Deciding(q)' = Deciding(q)
  BY <1>2, DecidingKept DEF Active
<1>4. CASE GrowStale(r)
  BY <1>2, <1>3, <1>4, RequestsStutter DEF GrowStale, OpenCode
<1>5. CASE Expire(r)
  <2>1. /\ \A q \in Handlers : q # r => row'[q] = row[q]
        /\ row'[r].status = row[r].status /\ row'[r].decider = row[r].decider
        /\ OpenCode(r)' = 0
    BY <1>1, <1>5 DEF TypeOK, Expire, Columns, OpenCode, NoCode
  <2>2. [q \in Handlers |-> OpenCode(q)]' =
           [[q \in Handlers |-> OpenCode(q)] EXCEPT ![r] = 0]
    BY <2>1 DEF OpenCode
  <2>3. /\ [q \in Handlers |-> row[q].status]' = [q \in Handlers |-> row[q].status]
        /\ [q \in Handlers |-> row[q].decider]' = [q \in Handlers |-> row[q].decider]
    BY <2>1
  <2>4. Promise!Fade(r)
    BY <1>2, <1>3, <2>2, <2>3, CodesShownKept DEF Promise!Fade, OpenCode
  <2> QED BY <2>4 DEF Promise!PromiseNext
<1> QED BY <1>4, <1>5

LEMMA ReaperPromised ==
    ASSUME RequestsInvariant, DecisionsInvariant, NEW w \in Reapers, ReaperStep(w)
    PROVE  Promise!PromiseNext \/ UNCHANGED Promise!promiseVars
<1>1. TypeOK
  BY DEF RequestsInvariant
<1>2. UNCHANGED <<requests, phase, target, used, executed>>
  BY DEF ReaperStep, SelectStale, CommitReaped, conversationVars
<1>3. \A q \in Handlers : Deciding(q)' = Deciding(q)
  BY <1>2, DecidingKept DEF Active
<1>4. CASE SelectStale(w)
  BY <1>2, <1>3, <1>4, RequestsStutter DEF SelectStale, OpenCode
<1>5. CASE CommitReaped(w)
  <2>1. ASSUME NEW r \in batch[w]
        PROVE  r \in requests /\ row[r].status = "pending_approval" /\ Promise!LeftTo({}, r)
    <3>1. r \in Handlers
      BY <1>1 DEF TypeOK
    <3>2. Pending(r) /\ \A d \in Approvals : ~Holding(d, r)
      BY <2>1 DEF RequestsInvariant, BatchesHeld
    <3> QED BY <1>1, <3>1, <3>2, UnlockedIsLeft DEF Pending
  <2>2. ASSUME NEW r \in Handlers
        PROVE  /\ row'[r].status = IF r \in batch[w] THEN "expired" ELSE row[r].status
               /\ row'[r].decider = row[r].decider
               /\ OpenCode(r)' = OpenCode(r)
    <3>1. row[r] \in Columns
      BY <1>1 DEF TypeOK
    <3> QED BY <1>5, <3>1 DEF CommitReaped, Lapsed, Columns, OpenCode
  <2>3. batch[w] \in SUBSET Handlers
    BY <1>1 DEF TypeOK
  <2>4. PICK R \in SUBSET Handlers : R = batch[w]
    BY <2>3
  <2>5. /\ [q \in Handlers |-> row[q].status]' =
              [q \in Handlers |-> IF q \in R THEN "expired"
                                  ELSE [p \in Handlers |-> row[p].status][q]]
        /\ [q \in Handlers |-> row[q].decider]' = [q \in Handlers |-> row[q].decider]
        /\ [q \in Handlers |-> OpenCode(q)]' = [q \in Handlers |-> OpenCode(q)]
    BY <2>2, <2>4
  <2>6. Promise!Lapse(R)
    BY <1>2, <1>3, <2>1, <2>4, <2>5, CodesShownKept DEF Promise!Lapse, OpenCode
  <2> QED BY <2>6 DEF Promise!PromiseNext
<1> QED BY <1>4, <1>5 DEF ReaperStep

LEMMA FaultPromised ==
    ASSUME RequestsInvariant, DecisionsInvariant, NEW p \in Processes,
           Breakdown(p) \/ GiveWay(p)
    PROVE  Promise!PromiseNext \/ UNCHANGED Promise!promiseVars
<1>1. TypeOK /\ RollBack(p) /\ (Active(p) \/ p \notin Decisions)
  BY DEF RequestsInvariant, Breakdown, GiveWay, Active, Deadlocked, Deadlock
<1>2. UNCHANGED <<requests, row, target, used, executed>>
  BY <1>1 DEF RollBack
<1>3. CASE p \in Decisions
  <2>1. PICK r \in requests : target[p] = {r}
    BY <1>1, <1>3 DEF Active, DecisionsInvariant, BegunIsAbout
  <2>2. r \in Handlers /\ p \in Deciding(r)
    BY <1>1, <1>3, <2>1 DEF TypeOK, Deciding
  <2>3. [q \in Handlers |-> Deciding(q)]' =
           [[q \in Handlers |-> Deciding(q)] EXCEPT ![r] = @ \ {p}]
    BY <1>1, <1>2, <1>3, <2>1, <2>2, DecidingEnds DEF RollBack
  <2>4. Promise!GiveUp(p, r)
    BY <1>2, <2>2, <2>3, CodesShownKept DEF Promise!GiveUp
  <2> QED BY <1>3, <2>2, <2>4 DEF Promise!PromiseNext
<1>4. CASE p \notin Decisions
  <2>1. \A d \in Decisions : Active(d)' <=> Active(d)
    BY <1>1, <1>4 DEF TypeOK, RollBack, Active
  <2> QED BY <1>2, <2>1, DecidingKept, RequestsStutter DEF OpenCode
<1> QED BY <1>3, <1>4

LEMMA PromiseBegins == Init => Promise!PromiseInit
<1> SUFFICES ASSUME Init PROVE Promise!PromiseInit
  OBVIOUS
<1>1. \A r \in Handlers : /\ Deciding(r) = {} /\ OpenCode(r) = 0
                          /\ row[r].status = "pending_approval" /\ row[r].decider = {}
  BY DEF Init, Deciding, Active, OpenCode, NewRow, NoCode
<1>2. \A d \in Approvals : {<<r, used[d]>> : r \in target[d]} = {}
  BY DEF Init
<1> QED BY <1>1, <1>2 DEF Init, Promise!PromiseInit, OpenCode

LEMMA StepPromised ==
    ASSUME RequestsInvariant, DecisionsInvariant, [Next]_vars
    PROVE  Promise!PromiseNext \/ UNCHANGED Promise!promiseVars
<1>1. ASSUME NEW d \in Decisions, DecisionStep(d) \/ \E r \in Handlers : Decide(d, r)
      PROVE  Promise!PromiseNext \/ UNCHANGED Promise!promiseVars
  <2>1. ASSUME NEW r \in Handlers, d \in Approvals, WriteApproval(d, r)
        PROVE  UNCHANGED Promise!promiseVars
    BY <2>1, WritePromised
  <2>2. ASSUME NEW r \in Handlers, Promise!Look(d, r) \/ Promise!Settle(d, r)
        PROVE  Promise!PromiseNext
    BY <2>2 DEF Promise!PromiseNext
  <2>3. ASSUME NEW r \in Handlers, Decide(d, r) PROVE Promise!PromiseNext
    BY <2>2, <2>3, DecidePromised
  <2>4. ASSUME NEW r \in Handlers,
               \/ d \in Approvals /\ CommitApproval(d, r)
               \/ d \in Denials /\ CommitDenial(d, r)
        PROVE  Promise!PromiseNext
    BY <2>2, <2>4, CommitPromised
  <2>5. ASSUME d \in Approvals, NEW answer \in Outcomes, RunConnector(d, answer)
        PROVE  Promise!PromiseNext \/ UNCHANGED Promise!promiseVars
    BY <2>5, RunPromised
  <2>6. ASSUME d \in Denials, TakeChain(d) PROVE UNCHANGED Promise!promiseVars
    BY <2>6, DenialSteps
  <2> QED BY <1>1, <2>1, <2>3, <2>4, <2>5, <2>6 DEF DecisionStep
<1>2. ASSUME NEW g \in Mintings, MintingStep(g) \/ \E r \in Handlers : StartMinting(g, r)
      PROVE  Promise!PromiseNext \/ UNCHANGED Promise!promiseVars
  <2>1. ASSUME NEW r \in Handlers, CommitMinting(g, r) PROVE Promise!PromiseNext
    <3>1. Promise!Mint(r)
      BY <2>1, MintingPromised
    <3> QED BY <3>1 DEF Promise!PromiseNext
  <2>2. TakeChain(g) => UNCHANGED Promise!promiseVars
    BY DenialSteps
  <2>3. \A r \in Handlers : StartMinting(g, r) => UNCHANGED Promise!promiseVars
    BY StartPromised
  <2> QED BY <1>2, <2>1, <2>2, <2>3 DEF MintingStep
<1>3. CASE UNCHANGED vars
  <2>1. \A r \in Handlers : Deciding(r)' = Deciding(r)
    BY <1>3, DecidingKept DEF vars, conversationVars, requestVars, Active
  <2> QED BY <1>3, <2>1, RequestsStutter DEF vars, conversationVars, requestVars, OpenCode
<1>4. CASE Next
  BY <1>4, <1>1, <1>2, HandlerPromised, TimePromised, ReaperPromised, FaultPromised DEF Next
<1> QED BY <1>3, <1>4

(* Requests, codes, decisions and the reaper implement RequestPromise      *)
(* (decide_connector_request, ConnectorRequestReaper): whoever found a     *)
(* request pending may decide it, but nobody while an operation that was   *)
(* run for it awaits its verdict.                                          *)
THEOREM RequestsKeepPromise == Spec => KeepsRequestPromise
<1>1. RequestsInvariant /\ DecisionsInvariant /\ [Next]_vars =>
          [Promise!PromiseNext]_Promise!promiseVars
  BY StepPromised
<1> QED BY <1>1, PromiseBegins, DecisionsAlways, PTL
        DEF Spec, KeepsRequestPromise, Promise!PromiseSpec
=============================================================================
