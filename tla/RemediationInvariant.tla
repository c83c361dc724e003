------------------------ MODULE RemediationInvariant ------------------------
(***************************************************************************)
(* The inductive invariant of RemediationSystem: why its safety properties *)
(* hold.  Each part is the argument for one stretch of the code, and rests *)
(* on the parts above it.                                                  *)
(***************************************************************************)
EXTENDS RemediationSystem

(* A job in hand that the cycle claimed itself.                            *)
Handling == {"recorded", "executing", "ran", "reporting", "acknowledging"}

RanSuccessfully(j, p) == p.origin = "executed" /\ p.success => runs[j] = 1

RowOf(j, p) == [job |-> j, payload |-> p]

(* Claims.  The records of a claim are those of the newest attempt; the    *)
(* idempotency record outlives the lease and every transaction about it,   *)
(* so that a second attempt starts with nothing under way, and a late      *)
(* decision can requeue only a first attempt.                              *)
Claims ==
    /\ \A a \in Actions :
          /\ lapsed[a] <= attempt[a]
          /\ claimRecord[a] \in {0, attempt[a]}
          /\ token[a] \in {0, attempt[a]}
          /\ status[a] \in {"none", "pending_approval"} => attempt[a] = 0
          /\ status[a] = "claimed" => attempt[a] > 0
          /\ status[a] = "queued" => attempt[a] < LastAttempt
          /\ claimRecord[a] = 0 /\ attempt[a] > 0 =>
                /\ lapsed[a] = attempt[a]
                /\ \A d \in deciding : d.action # a
                /\ \A r \in reporting : r.action # a
    /\ \A d \in deciding : attempt[d.action] <= 1
    /\ \A r \in reporting :
          /\ r.type = "report"
          /\ r.attempt = attempt[r.action]

(* Approval.  Only a cleared action gets past pending_approval, and no     *)
(* decision in flight is an approval by the requester.                     *)
Clearance ==
    /\ \A a \in Actions :
          /\ status[a] \notin {"none", "pending_approval", "denied"} => Cleared(a)
          /\ attempt[a] > 0 => Cleared(a)
          /\ status[a] = "none" => gate[a] = "deny"
    /\ \A d \in deciding :
          /\ status[d.action] # "none"
          /\ d.verdict = "approve" => d.actor # requester[d.action]
    /\ \A d \in approvals : status[d.action] # "none"

(* The cycle.  The request the agent waits on is the one its stage is      *)
(* about; the job in hand is the newest attempt of its action and stays    *)
(* so, because no other claim of the action is on its way.                 *)
Cycle ==
    /\ stage = "claiming" => open.type = "claim"
    /\ stage \in {"resending", "acknowledging"} => open = ReportRequest(job, outcome)
    /\ stage \notin {"claiming", "resending", "acknowledging"} => open = NoRequest
    /\ open.type = "claim" /\ reply.kind = "ok" =>
          /\ open \notin calls
          /\ reply.attempt = attempt[open.action]
          /\ reply.attempt > 0
    /\ stage \in Handling =>
          /\ job \in Jobs
          /\ job[2] = attempt[job[1]]
          /\ ClaimRequest(job[1]) \notin calls
    /\ stage = "resending" => job \in Jobs /\ job[2] <= attempt[job[1]]
    /\ stage \in {"resending", "reporting", "acknowledging"} => outcome \in Payloads
    /\ stage \notin {"recovering", "resending"} => pending = {}
    /\ \A j \in pending : journal[j].state \notin {"absent", "reported"}
    /\ \A r \in calls : r.type = "report" => r.attempt <= attempt[r.action]

(* The journal.  It knows every job that ran and whose lease still runs,   *)
(* so that a job it does not know, with a running lease, has never run.    *)
Journalled ==
    /\ \A j \in Jobs :
          /\ journal[j].state # "absent" => j[2] <= attempt[j[1]]
          /\ runs[j] > 0 => j[2] <= attempt[j[1]]
          /\ runs[j] <= 1
          /\ journal[j].state = "absent" /\ lapsed[j[1]] < j[2] => runs[j] = 0
          /\ journal[j].state \in {"absent", "claimed", "executing"} =>
                journal[j].result = NoPayload
    /\ stage = "recorded" =>
          /\ journal[job].state = "claimed"
          /\ lapsed[job[1]] < job[2] => runs[job] = 0
    /\ stage = "executing" =>
          /\ journal[job].state = "executing"
          /\ runs[job] = 0
    /\ stage = "ran" => journal[job].state = "executing" /\ outcome \in Payloads
    /\ stage \in {"resending", "reporting", "acknowledging"} =>
          journal[job].result \in {NoPayload, outcome}

(* Provenance.  A payload that claims the executor's success is about a    *)
(* job that ran, wherever it is on its way.                                *)
Provenance ==
    /\ stage \in {"ran", "reporting", "acknowledging", "resending"} =>
          RanSuccessfully(job, outcome)
    /\ \A j \in Jobs : RanSuccessfully(j, journal[j].result)
    /\ \A r \in calls \cup reporting :
          r.type = "report" => RanSuccessfully(JobOf(r), r.payload)
    /\ \A row \in results : RanSuccessfully(row.job, row.payload)

(* Records.  A result row and its idempotency record are written together, *)
(* and the record outlives every report of the attempt; an "ok" the agent  *)
(* hears is about a row that holds the very payload it sent.               *)
Recorded ==
    /\ \A j \in Jobs :
          /\ resultRecord[j] # NoPayload => RowOf(j, resultRecord[j]) \in results
          /\ journal[j].state = "reported" =>
                \E row \in results :
                    row.job = j /\ journal[j].result \in {NoPayload, row.payload}
    /\ open.type = "report" /\ reply.kind = "ok" =>
          RowOf(JobOf(open), open.payload) \in results
    /\ \A row \in results :
          \/ resultRecord[row.job] # NoPayload
          \/ /\ lapsed[row.job[1]] >= row.job[2]
             /\ \A r \in reporting : JobOf(r) # row.job
    /\ OneResultPerAttempt

(* The whole of it: approvals, claims, messages, journal and records of    *)
(* claim_job, report_job_result, decide_action, LeaseReaper and the        *)
(* agent's cycle fit together in every state.                              *)
RecordsAgree ==
    TypeOK /\ Claims /\ Clearance /\ Cycle /\ Journalled /\ Provenance
        /\ Recorded /\ FailuresEscalate
=============================================================================
