------------------------- MODULE ConnectorRequests -------------------------
(***************************************************************************)
(* Connector requests: a requester mints step-up codes, approvers decide   *)
(* (generate_connector_request_step_up_code and decide_connector_request   *)
(* in helpdesktool/api.py), and a reaper expires what nobody decides       *)
(* (helpdesktool/connector_request_reaper.py).                             *)
(*                                                                         *)
(* Each is a database transaction.  A decision and a minting read the row  *)
(* without a lock and check what they have read.  An approval writes the   *)
(* row, which locks it, before it calls the connector, and waits for the   *)
(* audit lock after; a denial and a minting take the audit lock first and  *)
(* then write the row: the two orders meet in a deadlock, which the        *)
(* database ends by rolling one of them back.  What the connector has done *)
(* by then it has done.                                                    *)
(*                                                                         *)
(* An attempt that is refused changes nothing and is not a step.           *)
(***************************************************************************)
EXTENDS ConversationService

CONSTANTS
    Approvals, Denials, \* decisions of either kind, each made once
    Mintings,           \* calls of the step-up code endpoint
    Reapers,
    Users,
    Author,             \* Author[m]: the user who sent message m
    Actor,              \* Actor[d]: the user who makes decision d
    BatchLimit,         \* requests a reaper takes at once
    MaxBreakdowns       \* bound of the model: transactions lost to crashes

Decisions == Approvals \cup Denials
NoCode == 0

ASSUME RequestsAssumption ==
    /\ Processes = Handlers \cup Decisions \cup Mintings \cup Reapers
    /\ Handlers \cap (Decisions \cup Mintings \cup Reapers) = {}
    /\ Approvals \cap (Denials \cup Mintings \cup Reapers) = {}
    /\ Denials \cap (Mintings \cup Reapers) = {}
    /\ Mintings \cap Reapers = {}
    /\ Author \in [Messages -> Users]
    /\ Actor \in [Decisions -> Users]
    /\ BatchLimit \in Nat \ {0}
    /\ MaxBreakdowns \in Nat

VARIABLES
    row,            \* the columns of a request
    minted,         \* how many codes have been minted for it
    stale,          \* requests older than connector_request_stale_after_hours
    target,         \* the request a decision or a minting is about
    used,           \* the code an approval was given
    outcome,        \* what the connector answered an approval
    executed,       \* approvals whose operation took effect outside
    batch,          \* the requests a reaper has locked
    breakdowns      \* transactions lost to crashes so far

requestVars == <<row, minted, stale, target, used, outcome, executed, batch, breakdowns>>
vars == <<conversationVars, requestVars>>

(* "code" is the step-up code that is stored, by its number, and "live"    *)
(* whether it has not expired.                                             *)
Outcomes == {"none", "unresolved", "succeeded", "failed"}
Columns == [status : Statuses, decider : SUBSET Decisions, outcome : Outcomes,
            code : Nat, live : BOOLEAN]
NewRow == [status |-> "pending_approval", decider |-> {}, outcome |-> "none",
           code |-> NoCode, live |-> FALSE]

Phases == {"new", "read", "writing", "ran", "chained", "done", "aborted"}

TypeOK ==
    /\ requests \subseteq Handlers
    /\ remembered \subseteq Messages
    /\ trail \in [Handlers -> Trails]
    /\ chain \in SUBSET Processes
    /\ phase \in [Processes -> Phases]
    /\ row \in [Handlers -> Columns]
    /\ minted \in [Handlers -> Nat]
    /\ stale \subseteq Handlers
    /\ target \in [Decisions \cup Mintings -> SUBSET Handlers]
    /\ used \in [Approvals -> Nat]
    /\ outcome \in [Approvals -> Outcomes]
    /\ executed \subseteq Approvals
    /\ batch \in [Reapers -> SUBSET Handlers]
    /\ breakdowns \in 0..MaxBreakdowns

Init ==
    /\ requests = {} /\ remembered = {}
    /\ trail = [r \in Handlers |-> <<>>]
    /\ chain = Free
    /\ phase = [p \in Processes |-> "new"]
    /\ row = [r \in Handlers |-> NewRow]
    /\ minted = [r \in Handlers |-> 0]
    /\ stale = {}
    /\ target = [p \in Decisions \cup Mintings |-> {}]
    /\ used = [d \in Approvals |-> NoCode]
    /\ outcome = [d \in Approvals |-> "none"]
    /\ executed = {}
    /\ batch = [w \in Reapers |-> {}]
    /\ breakdowns = 0

-----------------------------------------------------------------------------
Requester(r) == Author[Message[r]]

Pending(r) == r \in requests /\ row[r].status = "pending_approval"

(* An approval has the lock of the row from its first write on.            *)
Holding(d, r) == phase[d] \in {"writing", "ran"} /\ target[d] = {r}

(* Mutation: an approval holds nothing before its commit.                  *)
LockedLate(r) == \E w \in Reapers : r \in batch[w]

(* Somebody holds the lock of the row across several steps.                *)
Locked(r) ==
    \/ \E d \in Approvals : Holding(d, r)
    \/ \E w \in Reapers : r \in batch[w]

MoveTo(p, next) == phase' = [phase EXCEPT ![p] = next]

(* tenant_row in decide_connector_request, and its checks: the request is  *)
(* pending, not the approver's own, and a code has been minted.  Approvers *)
(* have got the code from the requester.                                   *)
MayDecide(d, r) ==
    /\ Pending(r)
    /\ Actor[d] # Requester(r)
    /\ d \in Approvals => row[r].code # NoCode /\ row[r].live

Decide(d, r) ==
    /\ phase[d] = "new"
    /\ MayDecide(d, r)
    /\ MoveTo(d, "read")
    /\ target' = [target EXCEPT ![d] = {r}]
    /\ used' = IF d \in Approvals THEN [used EXCEPT ![d] = row[r].code] ELSE used
    /\ UNCHANGED <<requests, remembered, trail, chain, row, minted, stale, outcome,
                   executed, batch, breakdowns>>

(* The decision and the cleared code are flushed when the configuration of *)
(* the connector is loaded: the row is locked, and nobody sees them yet.   *)
WriteApproval(d, r) ==
    /\ phase[d] = "read"
    /\ target[d] = {r}
    /\ ~Locked(r)
    /\ MoveTo(d, "writing")
    /\ UNCHANGED <<requests, remembered, trail, chain, requestVars>>

(* resolve_user, the operation and verify_result.                          *)
RunConnector(d, answer) ==
    /\ phase[d] = "writing"
    /\ MoveTo(d, "ran")
    /\ outcome' = [outcome EXCEPT ![d] = answer]
    /\ executed' = IF answer = "succeeded" THEN executed \cup {d} ELSE executed
    /\ UNCHANGED <<requests, remembered, trail, chain, row, minted, stale, target, used,
                   batch, breakdowns>>

(* Mutation: what failed may be tried again, with the same code.           *)
ApprovedKeepingCode(r, d) ==
    [row[r] EXCEPT !.status = IF outcome[d] = "succeeded" THEN "succeeded" ELSE @,
                   !.decider = {d}, !.outcome = outcome[d]]

(* Mutation: the connector's answer is taken for the status.               *)
ApprovedVerbatim(r, d) ==
    [row[r] EXCEPT !.status = outcome[d], !.decider = {d}, !.outcome = outcome[d],
                   !.code = NoCode, !.live = FALSE]

(* What the row says after approval d.                                     *)
Approved(r, d) ==
    [row[r] EXCEPT !.status = IF outcome[d] = "succeeded" THEN "succeeded" ELSE "failed",
                   !.decider = {d}, !.outcome = outcome[d],
                   !.code = NoCode, !.live = FALSE]

CommitApproval(d, r) ==
    /\ phase[d] = "ran"
    /\ target[d] = {r}
    /\ chain = Free
    /\ MoveTo(d, "done")
    /\ row' = [row EXCEPT ![r] = Approved(r, d)]
    /\ trail' = [trail EXCEPT ![r] =
          Appended(r, IF outcome[d] = "succeeded" THEN "executed" ELSE "failed", d)]
    /\ UNCHANGED <<requests, remembered, chain, minted, stale, target, used, outcome,
                   executed, batch, breakdowns>>

(* The advisory lock, which a denial and a minting take before their write.*)
TakeChain(p) ==
    /\ phase[p] = "read"
    /\ p \in Denials \cup Mintings
    /\ chain = Free
    /\ chain' = {p}
    /\ MoveTo(p, "chained")
    /\ UNCHANGED <<requests, remembered, trail, requestVars>>

Denied(r, d) == [row[r] EXCEPT !.status = "denied", !.decider = {d}]

CommitDenial(d, r) ==
    /\ phase[d] = "chained"
    /\ target[d] = {r}
    /\ ~Locked(r)
    /\ MoveTo(d, "done")
    /\ row' = [row EXCEPT ![r] = Denied(r, d)]
    /\ trail' = [trail EXCEPT ![r] = Appended(r, "denied", d)]
    /\ chain' = Free
    /\ UNCHANGED <<requests, remembered, minted, stale, target, used, outcome, executed,
                   batch, breakdowns>>

-----------------------------------------------------------------------------
(* The requester asks for a code.                                          *)
StartMinting(g, r) ==
    /\ phase[g] = "new"
    /\ Pending(r)
    /\ MoveTo(g, "read")
    /\ target' = [target EXCEPT ![g] = {r}]
    /\ UNCHANGED <<requests, remembered, trail, chain, row, minted, stale, used, outcome,
                   executed, batch, breakdowns>>

CommitMinting(g, r) ==
    /\ phase[g] = "chained"
    /\ target[g] = {r}
    /\ ~Locked(r)
    /\ MoveTo(g, "done")
    /\ minted' = [minted EXCEPT ![r] = @ + 1]
    /\ row' = [row EXCEPT ![r] = [@ EXCEPT !.code = minted'[r], !.live = TRUE]]
    /\ trail' = [trail EXCEPT ![r] = Appended(r, "code", g)]
    /\ chain' = Free
    /\ UNCHANGED <<requests, remembered, stale, target, used, outcome, executed, batch,
                   breakdowns>>

(* Ten minutes are over.                                                   *)
Expire(r) ==
    /\ row[r].live
    /\ row' = [row EXCEPT ![r].live = FALSE]
    /\ UNCHANGED <<conversationVars, minted, stale, target, used, outcome, executed,
                   batch, breakdowns>>

(* The stale window is over.                                               *)
GrowStale(r) ==
    /\ Pending(r)
    /\ r \notin stale
    /\ stale' = stale \cup {r}
    /\ UNCHANGED <<conversationVars, row, minted, target, used, outcome, executed, batch,
                   breakdowns>>

-----------------------------------------------------------------------------
(* ConnectorRequestReaper.process_batch: FOR UPDATE SKIP LOCKED.           *)
Due == {r \in stale : Pending(r) /\ ~Locked(r)}

SelectStale(w) ==
    /\ batch[w] = {}
    /\ \E B \in SUBSET Due :
          /\ B # {}
          /\ \/ Cardinality(B) = BatchLimit
             \/ Cardinality(B) < BatchLimit /\ B = Due
          /\ batch' = [batch EXCEPT ![w] = B]
    /\ UNCHANGED <<conversationVars, row, minted, stale, target, used, outcome, executed,
                   breakdowns>>

Lapsed(r) == [row[r] EXCEPT !.status = "expired"]

(* _reap for each of the batch, and the commit.                            *)
CommitReaped(w) ==
    /\ batch[w] # {}
    /\ chain = Free
    /\ row' = [r \in Handlers |-> IF r \in batch[w] THEN Lapsed(r) ELSE row[r]]
    /\ trail' = [r \in Handlers |->
                    IF r \in batch[w] THEN Appended(r, "expired", w) ELSE trail[r]]
    /\ batch' = [batch EXCEPT ![w] = {}]
    /\ UNCHANGED <<requests, remembered, chain, phase, minted, stale, target, used,
                   outcome, executed, breakdowns>>

-----------------------------------------------------------------------------
Active(p) == phase[p] \notin {"new", "done", "aborted"} \/ (p \in Reapers /\ batch[p] # {})

(* Mutation: the audit lock belongs to the session.                        *)
RollBackKeepingChain(p) ==
    /\ phase' = IF p \in Reapers THEN phase ELSE [phase EXCEPT ![p] = "aborted"]
    /\ batch' = IF p \in Reapers THEN [batch EXCEPT ![p] = {}] ELSE batch
    /\ UNCHANGED <<requests, remembered, trail, chain, row, minted, stale, target, used,
                   outcome, executed>>

(* The transaction's writes and locks go; a reaper begins anew.            *)
RollBack(p) ==
    /\ phase' = IF p \in Reapers THEN phase ELSE [phase EXCEPT ![p] = "aborted"]
    /\ batch' = IF p \in Reapers THEN [batch EXCEPT ![p] = {}] ELSE batch
    /\ chain' = chain \ {p}
    /\ UNCHANGED <<requests, remembered, trail, row, minted, stale, target, used, outcome,
                   executed>>

(* The process dies, the connector raises, or the connection is lost.      *)
Breakdown(p) ==
    /\ Active(p)
    /\ breakdowns < MaxBreakdowns
    /\ breakdowns' = breakdowns + 1
    /\ RollBack(p)

(* p has the row that q waits for, and waits for the audit lock q has.     *)
Deadlock(p, q) ==
    \E r \in target[q] :
        /\ phase[q] = "chained"
        /\ \/ p \in Approvals /\ phase[p] = "ran" /\ target[p] = {r}
           \/ p \in Reapers /\ r \in batch[p]

Deadlocked(p) ==
    \E q \in Denials \cup Mintings :
        \/ Deadlock(p, q)
        \/ p = q /\ \E o \in Approvals \cup Reapers : Deadlock(o, q)

(* The database's choice of a victim.                                      *)
GiveWay(p) ==
    /\ Deadlocked(p)
    /\ RollBack(p)
    /\ UNCHANGED breakdowns

-----------------------------------------------------------------------------
DecisionStep(d) ==
    \/ d \in Approvals /\
          \/ \E r \in Handlers : WriteApproval(d, r) \/ CommitApproval(d, r)
          \/ \E answer \in Outcomes \ {"none"} : RunConnector(d, answer)
    \/ d \in Denials /\ (TakeChain(d) \/ \E r \in Handlers : CommitDenial(d, r))

MintingStep(g) == TakeChain(g) \/ \E r \in Handlers : CommitMinting(g, r)

ReaperStep(w) == SelectStale(w) \/ CommitReaped(w)

HandlerStep(h) == Handle(h) \/ Refuse(h)

Next ==
    \/ \E h \in Handlers : (LookUp(h) \/ HandlerStep(h)) /\ UNCHANGED requestVars
    \/ \E d \in Decisions : DecisionStep(d) \/ \E r \in Handlers : Decide(d, r)
    \/ \E g \in Mintings : MintingStep(g) \/ \E r \in Handlers : StartMinting(g, r)
    \/ \E w \in Reapers : ReaperStep(w)
    \/ \E r \in Handlers : Expire(r) \/ GrowStale(r)
    \/ \E p \in Processes : Breakdown(p) \/ GiveWay(p)

Spec == Init /\ [][Next]_vars

(***************************************************************************)
(* Fairness: a transaction that has begun goes on, and who waits for a lock*)
(* is given it some day (the database queues for them, and a reaper that   *)
(* was rolled back pauses); the database ends a deadlock, requests age, and*)
(* a reaper is an endless loop.  Nobody has to send a message, mint a code *)
(* or decide.                                                              *)
(***************************************************************************)
Fairness ==
    /\ \A h \in Handlers : SF_vars(HandlerStep(h) /\ UNCHANGED requestVars)
    /\ \A d \in Decisions : SF_vars(DecisionStep(d))
    /\ \A g \in Mintings : SF_vars(MintingStep(g))
    /\ \A w \in Reapers : WF_vars(ReaperStep(w))
    /\ \A r \in Handlers : WF_vars(GrowStale(r))
    /\ \A p \in Processes : WF_vars(GiveWay(p))

FairSpec == Spec /\ Fairness

-----------------------------------------------------------------------------
(* A message of a channel makes at most one request, however often it is   *)
(* delivered and whichever of its handlers run at once (slack_events,      *)
(* idempotency_lookup, remember).                                          *)
RequestedOnce ==
    \A r, q \in requests : Message[r] = Message[q] /\ Message[r] \notin Web => r = q

(* An event that settles a request.                                        *)
Settles(kind) == kind \in {"denied", "executed", "failed", "expired"}

(* The status and the decider an event stands for.                         *)
Says(event, columns) ==
    /\ columns.status = IF event[1] = "executed" THEN "succeeded" ELSE event[1]
    /\ columns.decider = IF event[1] = "expired" THEN {} ELSE {event[2]}

(* Event i is the last that settles.                                       *)
LastWord(events, i) ==
    /\ i \in 1..Len(events)
    /\ Settles(events[i][1])
    /\ \A j \in 1..Len(events) : Settles(events[j][1]) => j <= i

(* What the columns of a request owe to its audit trail.                   *)
Told(events, columns) ==
    /\ \A i \in 1..Len(events) : LastWord(events, i) => Says(events[i], columns)
    /\ (\A i \in 1..Len(events) : ~Settles(events[i][1])) =>
          columns.status = "pending_approval" /\ columns.decider = {}

(* The row of a request shows what the last deciding event of its audit    *)
(* trail says, and is pending only while there is none: decisions may      *)
(* overtake and overwrite each other, but row and chain agree on who was   *)
(* the last (decide_connector_request, _reap: both locks are kept until    *)
(* the commit).                                                            *)
TrailExplainsRow == \A r \in Handlers : Told(trail[r], row[r])

(* Only a decision that read the request while it was pending can still    *)
(* change how it was settled: once none of these is under way, status,     *)
(* decider and result are final.                                           *)
Undisturbed(r) ==
    /\ ~Pending(r) /\ r \in requests
    /\ \A d \in Decisions : target[d] = {r} => phase[d] \in {"done", "aborted"}

SettledIsFinal ==
    [][\A r \in Handlers : Undisturbed(r) =>
          /\ Undisturbed(r)'
          /\ row'[r].status = row[r].status
          /\ row'[r].decider = row[r].decider
          /\ row'[r].outcome = row[r].outcome]_vars

(* A code that a committed approval has used lets no later decision in     *)
(* (_verify_connector_request_step_up_code clears it, and the status has   *)
(* moved on).                                                              *)
SpentCodeIsDead ==
    [][\A d, e \in Approvals :
          phase[e] = "done" /\ phase[d] = "new" /\ phase'[d] = "read" =>
              ~(target'[d] = target[e] /\ used'[d] = used[e])]_vars

(* A code runs the operation once: "Consumes the code on success so it can *)
(* never be replayed against a second decision attempt" (api.py, in        *)
(* _verify_connector_request_step_up_code).  Two approvals that both read  *)
(* the row before either commits both run it.                              *)
CodeUsedOnce ==
    \A d, e \in executed : target[d] = target[e] /\ used[d] = used[e] => d = e

(* No request stays pending for ever (connector_request_reaper).           *)
RequestsSettle == \A r \in Handlers : Pending(r) ~> ~Pending(r)

-----------------------------------------------------------------------------
(* What the promises above rest on: what a reaper has locked is pending and*)
(* nobody else's, and what has been decided is not pending.                *)
BatchesHeld ==
    \A w \in Reapers : \A r \in batch[w] :
        /\ Pending(r)
        /\ \A v \in Reapers : r \in batch[v] => v = w
        /\ \A d \in Approvals : ~Holding(d, r)

DecidedIsSettled ==
    /\ \A r \in Handlers : row[r].status = "pending_approval" => row[r].decider = {}
    /\ \A d \in Decisions, r \in Handlers :
          phase[d] = "done" /\ target[d] = {r} => row[r].status # "pending_approval"

RequestsRemembered == \A r \in requests : Message[r] \in remembered \cup Web

(* The inductive invariant: it holds at first, every step keeps it, and the*)
(* code keeps it by its row locks, its unique key and its checks together. *)
RequestsInvariant ==
    /\ TypeOK
    /\ RequestedOnce
    /\ RequestsRemembered
    /\ TrailExplainsRow
    /\ BatchesHeld
    /\ DecidedIsSettled

-----------------------------------------------------------------------------
(* A decision or a minting is about one request from its beginning on.     *)
BegunIsAbout ==
    \A p \in Decisions \cup Mintings :
        IF phase[p] = "new" THEN target[p] = {} ELSE \E r \in requests : target[p] = {r}

(* The row's lock has one holder.                                          *)
HeldOnce ==
    \A r \in Handlers : \A d, e \in Approvals : Holding(d, r) /\ Holding(e, r) => d = e

(* What has taken effect was run, and what the connector said is kept.     *)
RunIsKnown ==
    \A d \in Approvals :
        /\ d \in executed => phase[d] \in {"ran", "done", "aborted"}
        /\ phase[d] = "ran" => (d \in executed <=> outcome[d] = "succeeded")

(* Codes are numbered: none is used before it is minted.                   *)
CodesCounted ==
    \A r \in Handlers :
        /\ row[r].code <= minted[r]
        /\ \A d \in Approvals : target[d] = {r} => used[d] <= minted[r]

(* The inductive invariant of the decisions under way.                     *)
DecisionsInvariant == BegunIsAbout /\ HeldOnce /\ RunIsKnown /\ CodesCounted

(* Who has found a request pending and has neither decided nor given up.   *)
Deciding(r) == {d \in Decisions : target[d] = {r} /\ Active(d)}

Promise == INSTANCE RequestPromise WITH
    Requests <- Handlers,
    asked <- requests,
    code <- [r \in Handlers |-> IF row[r].live THEN row[r].code ELSE NoCode],
    shown <- [d \in Approvals |-> {<<r, used[d]>> : r \in target[d]}],
    deciding <- [r \in Handlers |-> Deciding(r)],
    ran <- executed,
    verdict <- [r \in Handlers |-> row[r].status],
    decider <- [r \in Handlers |-> row[r].decider]

(* A request is decided only by others than its author who found it pending*)
(* and, to approve it, had a code that was good then; and between the run  *)
(* of an operation and its verdict nobody else runs one, decides, mints a  *)
(* code or lets the request expire (decide_connector_request, the step-up  *)
(* codes, ConnectorRequestReaper), whatever breaks down.                   *)
KeepsRequestPromise == Promise!PromiseSpec
=============================================================================
