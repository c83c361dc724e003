---------------------------- MODULE ControlPlane ----------------------------
(***************************************************************************)
(* The control plane's life of an action: creation under policy, the       *)
(* approval decision, the claim and the result report of the endpoint      *)
(* agent (helpdesktool/api.py, orchestrator.py, persistence.py), the lease *)
(* reaper and the purge of idempotency records.                            *)
(*                                                                         *)
(* Every handler is one PostgreSQL transaction at READ COMMITTED.  A       *)
(* handler that reads a row, decides and then writes it by primary key is  *)
(* two steps here, because another transaction may commit between them:    *)
(* the decision and the result report.  The claim is one conditional       *)
(* UPDATE, and the reaper holds the row lock from its SELECT to its        *)
(* commit: each is one step.                                               *)
(***************************************************************************)
EXTENDS AgentChannel

CONSTANTS
    Users,          \* the tenant's owners, admins and operators
    Gates,          \* the verdicts of policy this instance lets a new action meet
    PurgeRecords    \* whether the instance's horizon reaches the 7 days of retention

ASSUME ControlPlaneAssumption ==
    /\ Gates \subseteq {"allow", "approval", "deny"}
    /\ PurgeRecords \in BOOLEAN

NoUser == "no user"
ASSUME NoUserAssumption == NoUser \notin Users

Terminal == {"succeeded", "failed", "rolled_back", "rollback_failed", "denied"}
Statuses == {"none", "pending_approval", "queued", "claimed"} \cup Terminal

(* A decision request, and the Approval row it leaves.                     *)
Decisions == [action : Actions, actor : Users, verdict : {"approve", "deny"}]
(* An ExecutionResult row.                                                 *)
ResultRows == [job : Jobs, payload : Payloads]

VARIABLES
    status,         \* Action.status
    gate,           \* what policy said of the action when it was created
    requester,      \* Action.requested_by
    approvedBy,     \* Action.approved_by
    attempt,        \* Action.attempt
    token,          \* the attempt whose claim token Action.claim_token_hash is of, or 0
    claimRecord,    \* the attempt in the idempotency record "claim-<action>", or 0
    resultRecord,   \* the payload in the idempotency record "result-<job>", or NoPayload
    deciding,       \* decisions past their checks and not yet committed
    approvals,      \* the Approval rows
    reporting,      \* result reports past their checks and not yet committed
    results,        \* the ExecutionResult rows
    escalated       \* actions with an action.escalation_required audit event

actionVars == <<status, gate, requester, approvedBy, attempt, token>>
recordVars == <<claimRecord, resultRecord>>
handlerVars == <<deciding, approvals, reporting, results, escalated>>
controlVars == <<actionVars, recordVars, handlerVars>>

ControlTypeOK ==
    /\ status \in [Actions -> Statuses]
    /\ gate \in [Actions -> {"allow", "approval", "deny"}]
    /\ requester \in [Actions -> Users \cup {NoUser}]
    /\ approvedBy \in [Actions -> Users \cup {NoUser}]
    /\ attempt \in [Actions -> 0..LastAttempt]
    /\ token \in [Actions -> 0..LastAttempt]
    /\ claimRecord \in [Actions -> 0..LastAttempt]
    /\ resultRecord \in [Jobs -> Payloads \cup {NoPayload}]
    /\ deciding \subseteq Decisions
    /\ approvals \subseteq Decisions
    /\ reporting \subseteq Requests
    /\ results \subseteq ResultRows
    /\ escalated \subseteq Actions

ControlInit ==
    /\ status = [a \in Actions |-> "none"]
    /\ gate = [a \in Actions |-> "deny"]
    /\ requester = [a \in Actions |-> NoUser]
    /\ approvedBy = [a \in Actions |-> NoUser]
    /\ attempt = [a \in Actions |-> 0]
    /\ token = [a \in Actions |-> 0]
    /\ claimRecord = [a \in Actions |-> 0]
    /\ resultRecord = [j \in Jobs |-> NoPayload]
    /\ deciding = {} /\ approvals = {}
    /\ reporting = {} /\ results = {}
    /\ escalated = {}

-----------------------------------------------------------------------------
(* Creation and decision.                                                  *)

(* The status policy gives a new action: the control plane never executes, *)
(* so an allowed action goes through "approved" to "queued" in the same    *)
(* transaction.                                                            *)
StatusUnder(verdict) ==
    [approval |-> "pending_approval", allow |-> "queued", deny |-> "denied"][verdict]

(* POST /v1/actions.  A retry with the same Idempotency-Key is answered    *)
(* from the record and changes nothing.                                    *)
CreateAction(a, u, verdict) ==
    /\ status[a] = "none"
    /\ \A b \in Actions : b < a => status[b] # "none"
    /\ status' = [status EXCEPT ![a] = StatusUnder(verdict)]
    /\ gate' = [gate EXCEPT ![a] = verdict]
    /\ requester' = [requester EXCEPT ![a] = u]
    /\ UNCHANGED <<approvedBy, attempt, token, recordVars, handlerVars, channelVars>>

(* Mutation: the separation of requester and approver is forgotten.        *)
MayDecideAlone(a, u, verdict) == status[a] = "pending_approval"

(* The checks of ActionOrchestrator.approve and deny.  A requester may     *)
(* deny.                                                                   *)
MayDecide(a, u, verdict) ==
    /\ status[a] = "pending_approval"
    /\ verdict = "approve" => u # requester[a]

(* POST /v1/actions/{id}/decision up to the last check: the status and the *)
(* requester are read, and nothing is locked.                              *)
BeginDecision(a, u, verdict) ==
    /\ MayDecide(a, u, verdict)
    /\ deciding' = deciding
                     \cup {[action |-> a, actor |-> u, verdict |-> verdict]}
    /\ UNCHANGED <<actionVars, recordVars, approvals, reporting, results, escalated,
                   channelVars>>

(* Mutation: the approved action is not handed on to the queue.            *)
DecidedStatusUnqueued(approved) == IF approved THEN "approved" ELSE "denied"

DecidedStatus(approved) == IF approved THEN "queued" ELSE "denied"

(* The rest of it: the row is loaded again by primary key and written      *)
(* whatever its status has become.  An approval whose policy evaluation    *)
(* fails turns into a denial ("allowed" is that evaluation); approved_by   *)
(* gets the snapshot's value in every branch but the approving one.        *)
CommitDecision(d, allowed) ==
    LET approved == d.verdict = "approve" /\ allowed
    IN  /\ d \in deciding
        /\ deciding' = deciding \ {d}
        /\ approvals' = approvals \cup {d}
        /\ status' = [status EXCEPT ![d.action] = DecidedStatus(approved)]
        /\ approvedBy' = [approvedBy EXCEPT ![d.action] =
                              IF approved THEN d.actor ELSE NoUser]
        /\ UNCHANGED <<gate, requester, attempt, token, recordVars, reporting,
                       results, escalated, channelVars>>

-----------------------------------------------------------------------------
(* POST .../jobs/{action}/claim.                                           *)

Received(r, type) == r \in calls /\ r.type = type /\ calls' = calls \ {r}

(* The idempotency record of the key is looked up before the action: its   *)
(* attempt is answered again, whatever has become of the action.           *)
ReplayClaim(r) ==
    /\ Received(r, "claim")
    /\ claimRecord[r.action] # 0
    /\ Answer(r, "ok", claimRecord[r.action])
    /\ UNCHANGED <<controlVars, open, lapsed, faults>>

GrantClaim(r) ==
    LET a == r.action
        n == attempt[a] + 1
    IN  /\ Received(r, "claim")
        /\ claimRecord[a] = 0
        /\ status[a] = "queued"
        /\ status' = [status EXCEPT ![a] = "claimed"]
        /\ attempt' = [attempt EXCEPT ![a] = n]
        /\ token' = [token EXCEPT ![a] = n]
        /\ claimRecord' = [claimRecord EXCEPT ![a] = n]
        /\ Answer(r, "ok", n)
        /\ UNCHANGED <<gate, requester, approvedBy, resultRecord, handlerVars,
                       open, lapsed, faults>>

RefuseClaim(r) ==
    /\ Received(r, "claim")
    /\ claimRecord[r.action] = 0
    /\ status[r.action] # "queued"
    /\ Answer(r, "error", 0)
    /\ UNCHANGED <<controlVars, open, lapsed, faults>>

-----------------------------------------------------------------------------
(* POST .../jobs/{action}/result.                                          *)

(* The status a report asks for.                                           *)
StatusFor(p) ==
    IF p.success /\ p.verified
    THEN "succeeded"
    ELSE [none |-> "failed", restored |-> "rolled_back",
          failed |-> "rollback_failed"][p.rollback]

(* Mutation: no record under the key, and no unique key on the records.    *)
AnsweredNever(r) == FALSE

(* There is an idempotency record under the report's key.                  *)
Answered(r) == resultRecord[JobOf(r)] # NoPayload

(* The key has been used: the same payload gets the same answer, another   *)
(* payload is a conflict.                                                  *)
ReplayReport(r) ==
    /\ Received(r, "report")
    /\ Answered(r)
    /\ Answer(r, IF resultRecord[JobOf(r)] = r.payload THEN "ok" ELSE "error", 0)
    /\ UNCHANGED <<controlVars, open, lapsed, faults>>

(* Mutation: the claim token is not compared.                              *)
ClaimHoldsUntokened(a, n) ==
    /\ status[a] = "claimed"
    /\ token[a] # 0
    /\ lapsed[a] < attempt[a]

(* The action is claimed, with the report's token, and its lease runs.     *)
ClaimHolds(a, n) ==
    /\ status[a] = "claimed"
    /\ token[a] = n
    /\ lapsed[a] < attempt[a]

CheckReport(r) ==
    /\ Received(r, "report")
    /\ ~Answered(r)
    /\ ClaimHolds(r.action, r.attempt)
    /\ reporting' = reporting \cup {r}
    /\ UNCHANGED <<actionVars, recordVars, deciding, approvals, results, escalated,
                   open, reply, lapsed, faults>>

RefuseReport(r) ==
    /\ Received(r, "report")
    /\ ~Answered(r)
    /\ ~ClaimHolds(r.action, r.attempt)
    /\ Answer(r, "error", 0)
    /\ UNCHANGED <<controlVars, open, lapsed, faults>>

(* Mutation: a failed rollback does not escalate.                          *)
NeedsHumanUnlessRollback(s) == s = "failed"

NeedsHuman(s) == s \notin {"succeeded", "rolled_back"}

(* The write: the row's status is set by primary key, the result row and   *)
(* the audit events are added, and the idempotency record is inserted.     *)
CommitReport(r) ==
    LET a == r.action
        new == StatusFor(r.payload)
    IN  /\ r \in reporting
        /\ ~Answered(r)
        /\ reporting' = reporting \ {r}
        /\ status' = [status EXCEPT ![a] = new]
        /\ results' = results \cup {[job |-> JobOf(r), payload |-> r.payload]}
        /\ escalated' = IF NeedsHuman(new) THEN escalated \cup {a} ELSE escalated
        /\ resultRecord' = [resultRecord EXCEPT ![JobOf(r)] = r.payload]
        /\ Answer(r, "ok", 0)
        /\ UNCHANGED <<gate, requester, approvedBy, attempt, token, claimRecord,
                       deciding, approvals, calls, open, lapsed, faults>>

(* The transaction rolls back as a whole: another report under the same    *)
(* key committed first and the insert violates the unique key, or the      *)
(* report holds the tenant's audit lock while the reaper holds the row and *)
(* the database ends the deadlock.                                         *)
AbortReport(r) ==
    /\ r \in reporting
    /\ reporting' = reporting \ {r}
    /\ Answer(r, "error", 0)
    /\ UNCHANGED <<actionVars, recordVars, deciding, approvals, results, escalated,
                   calls, open, lapsed, faults>>

-----------------------------------------------------------------------------
(* Time and the background workers.                                        *)

(* The 60 seconds of the current lease run out.                            *)
Lapse(a) ==
    /\ lapsed[a] < attempt[a]
    /\ lapsed' = [lapsed EXCEPT ![a] = attempt[a]]
    /\ UNCHANGED <<controlVars, calls, open, reply, faults>>

(* Mutation: the comparison with the clock is reversed.                    *)
AbandonedEarly(a) == status[a] = "claimed" /\ lapsed[a] < attempt[a]

(* The rows the reaper selects.                                            *)
Abandoned(a) == status[a] = "claimed" /\ lapsed[a] = attempt[a]

(* Mutation: one attempt too many.                                         *)
ExhaustedLate(a) == attempt[a] > MaxAttempts

Exhausted(a) == attempt[a] >= MaxAttempts

(* LeaseReaper._reap on one row of a batch.                                *)
Reap(a) ==
    /\ Abandoned(a)
    /\ token' = [token EXCEPT ![a] = 0]
    /\ status' = [status EXCEPT ![a] = IF Exhausted(a) THEN "failed" ELSE "queued"]
    /\ escalated' = IF Exhausted(a) THEN escalated \cup {a} ELSE escalated
    /\ UNCHANGED <<gate, requester, approvedBy, attempt, recordVars, deciding,
                   approvals, reporting, results, channelVars>>

(* No transaction about the action is under way.                           *)
Quiet(a) ==
    /\ \A d \in deciding : d.action # a
    /\ \A r \in reporting \cup calls : r.action # a

(* RetentionWorker deletes idempotency records older than 7 days; leases   *)
(* (60 s) and transactions are over long before.                           *)
PurgeClaimRecord(a) ==
    /\ PurgeRecords
    /\ claimRecord[a] # 0
    /\ lapsed[a] >= claimRecord[a]
    /\ Quiet(a)
    /\ claimRecord' = [claimRecord EXCEPT ![a] = 0]
    /\ UNCHANGED <<actionVars, resultRecord, handlerVars, channelVars>>

PurgeResultRecord(j) ==
    /\ PurgeRecords
    /\ resultRecord[j] # NoPayload
    /\ lapsed[j[1]] >= j[2]
    /\ Quiet(j[1])
    /\ resultRecord' = [resultRecord EXCEPT ![j] = NoPayload]
    /\ UNCHANGED <<actionVars, claimRecord, handlerVars, channelVars>>

-----------------------------------------------------------------------------
Decide ==
    \/ \E a \in Actions, u \in Users, v \in {"approve", "deny"} :
          BeginDecision(a, u, v)
    \/ \E d \in deciding, allowed \in BOOLEAN : CommitDecision(d, allowed)

Serve(r) ==
    \/ ReplayClaim(r) \/ GrantClaim(r) \/ RefuseClaim(r)
    \/ ReplayReport(r) \/ CheckReport(r) \/ RefuseReport(r)
    \/ CommitReport(r) \/ AbortReport(r)

ControlNext ==
    \/ \E a \in Actions, u \in Users, v \in Gates : CreateAction(a, u, v)
    \/ Decide
    \/ \E r \in calls \cup reporting : Serve(r)
    \/ \E a \in Actions : Lapse(a) \/ Reap(a) \/ PurgeClaimRecord(a)
    \/ \E j \in Jobs : PurgeResultRecord(j)
=============================================================================
