------------------------- MODULE RemediationSystem -------------------------
(***************************************************************************)
(* The control plane and one endpoint agent together: what becomes of the  *)
(* actions addressed to one device, from their creation to the result the  *)
(* control plane records.                                                  *)
(***************************************************************************)
EXTENDS ControlPlane, EndpointAgent

CONSTANT PollLimit      \* jobs in one poll response

ASSUME PollAssumption == PollLimit \in Nat \ {0}

vars == <<channelVars, controlVars, agentVars>>

TypeOK == ChannelTypeOK /\ ControlTypeOK /\ AgentTypeOK

Init == ChannelInit /\ ControlInit /\ AgentInit

Queued == {a \in Actions : status[a] = "queued"}

(* The response of GET /jobs: the oldest queued actions, a page of them.   *)
OfferedJobs == {a \in Queued : Cardinality({b \in Queued : b < a}) < PollLimit}

ControlPlaneStep == ControlNext /\ UNCHANGED agentVars
EndpointAgentStep == (AgentStep \/ Fault) /\ UNCHANGED controlVars
PollStep == Poll(OfferedJobs) /\ UNCHANGED controlVars

Next == ControlPlaneStep \/ EndpointAgentStep \/ PollStep

Spec == Init /\ [][Next]_vars

(***************************************************************************)
(* Fairness.  The agent process loops for ever and is restarted when it    *)
(* dies, every request that reaches the control plane is served, every     *)
(* transaction ends, time passes, and the lease reaper is a loop of its    *)
(* own.  Nobody is obliged to create or decide anything, and no fault has  *)
(* to happen.                                                              *)
(***************************************************************************)
Fairness ==
    /\ WF_vars(AgentStep /\ UNCHANGED controlVars)
    /\ WF_vars(PollStep)
    /\ WF_vars((\E r \in calls \cup reporting : Serve(r)) /\ UNCHANGED agentVars)
    /\ WF_vars((\E d \in deciding, allowed \in BOOLEAN : CommitDecision(d, allowed))
                  /\ UNCHANGED agentVars)
    /\ \A a \in Actions : WF_vars(Lapse(a) /\ UNCHANGED agentVars)
    /\ \A a \in Actions : WF_vars(Reap(a) /\ UNCHANGED agentVars)

FairSpec == Spec /\ Fairness

-----------------------------------------------------------------------------
(* Safety.                                                                 *)

(* An action may run only if policy allowed it outright, or somebody other *)
(* than its requester approved it.                                         *)
Cleared(a) ==
    \/ gate[a] = "allow"
    \/ \E u \in Users \ {requester[a]} :
          [action |-> a, actor |-> u, verdict |-> "approve"] \in approvals

(* Whatever the order of decisions, claims, crashes and retries, nothing   *)
(* has changed the endpoint for an action that was not cleared             *)
(* (orchestrator.submit, orchestrator.approve, claim_job).                 *)
AuthorizedExecution == \A j \in Jobs : runs[j] > 0 => Cleared(j[1])

(* However often the agent crashes and whatever replies it loses, it runs  *)
(* one claim attempt at most once (ExecutionJournal, "No re-execution,     *)
(* ever").                                                                 *)
NoReexecution == \A j \in Jobs : runs[j] <= 1

(* An action that is up for claiming has an attempt left of                *)
(* lease_reaper_max_attempts, or has had one at most: a setting below 2,   *)
(* which nothing rules out, does not keep an approval that commits after   *)
(* the first claim from offering the action a second time (LeaseReaper,    *)
(* orchestrator.approve).                                                  *)
RetryBudget ==
    \A a \in Actions :
        status[a] = "queued" => attempt[a] < MaxAttempts \/ attempt[a] <= 1

(* The control plane records at most one result of a claim attempt, though *)
(* reports are resent, overtaken and duplicated (report_job_result).       *)
OneResultPerAttempt ==
    \A row1, row2 \in results : row1.job = row2.job => row1 = row2

(* A result that claims the executor's success is recorded only if the     *)
(* executor ran for that very attempt (journal, report_job_result).        *)
ReportedSuccessRan ==
    \A row \in results :
        row.payload.origin = "executed" /\ row.payload.success => runs[row.job] = 1

(* What the agent's journal calls reported, the control plane has          *)
(* recorded, and with the journal's result where the journal has one: no   *)
(* acknowledgement of another request is taken for it.                     *)
ReportedIsRecorded ==
    \A j \in Jobs :
        journal[j].state = "reported" =>
            \E row \in results :
                /\ row.job = j
                /\ journal[j].result \in {NoPayload, row.payload}

(* No failure goes unseen: an action that shows a failed remediation has   *)
(* an action.escalation_required event (report_job_result, LeaseReaper).   *)
FailuresEscalate ==
    \A a \in Actions :
        status[a] \in {"failed", "rollback_failed"} => a \in escalated

(* The agent enters the executor only for the newest claim of the action,  *)
(* under a running lease, for a job it has never run (verify_envelope,     *)
(* claim_job, LeaseReaper).                                                *)
EntersExecutorOnce ==
    [][stage # "executing" /\ stage' = "executing" =>
          /\ job'[2] = attempt[job'[1]]
          /\ lapsed[job'[1]] < job'[2]
          /\ runs[job'] = 0]_vars

-----------------------------------------------------------------------------
(* Liveness.                                                               *)

(* An abandoned claim does not stay claimed for ever (lease_reaper).       *)
ClaimsResolve == \A a \in Actions : status[a] = "claimed" ~> status[a] # "claimed"

(* A queued action no agent has claimed yet is claimed, as long as it fits *)
(* in the page of jobs the agent polls (poll_jobs, process_jobs).          *)
FreshJobsAreClaimed ==
    \A a \in Actions :
        status[a] = "queued" /\ attempt[a] = 0 ~> attempt[a] > 0 \/ status[a] # "queued"

-----------------------------------------------------------------------------
(* Refinement.                                                             *)

Promise == INSTANCE RemediationPromise WITH
    MaxAttempts <- LastAttempt,
    cleared <- {a \in Actions : Cleared(a)},
    granted <- attempt,
    recorded <- {row.job : row \in results}

(* Every step of the two processes is a step of the promise, or one the    *)
(* promise does not see.                                                   *)
KeepsPromise == Promise!PromiseSpec

-----------------------------------------------------------------------------
(* What the repository says of the program and the code does not keep.     *)

(* lease_reaper.py: an abandoned claim is returned to the queue, a bounded *)
(* number of times, or marked failed, "so a human sees it instead of a job *)
(* vanishing silently".                                                    *)
NoJobVanishes ==
    \A a \in Actions : status[a] \in {"queued", "claimed"} ~> status[a] \in Terminal
=============================================================================
