--------------------------- MODULE EndpointAgent ---------------------------
(***************************************************************************)
(* One endpoint agent: the cycle of linux_agent/agent.py (windows_agent is *)
(* its twin) over the durable execution journal of agent_common.           *)
(*                                                                         *)
(* A cycle resends what the journal says is unreported, polls for queued   *)
(* jobs, and for each: claims it, journals the claim, verifies the         *)
(* envelope, journals "executing", runs the executor, journals "executed", *)
(* reports, and journals "reported".  Each journal write is atomic and     *)
(* durable; everything else is lost in a crash, and a step of this module  *)
(* lies between every two writes.  An ApiError or OSError that reaches     *)
(* run_once ends the cycle: what was in hand is picked up from the journal *)
(* by the next one.                                                        *)
(***************************************************************************)
EXTENDS AgentChannel

CONSTANT JournalKeep    \* reported entries prune_reported leaves in the journal

ASSUME JournalAssumption == JournalKeep \in Nat \ {0}

NoJob == <<0, 0>>
EntryStates == {"absent", "claimed", "executing", "executed", "reported"}
Entries == [state : EntryStates, result : Payloads \cup {NoPayload}]
Entry(state, result) == [state |-> state, result |-> result]

(* Where the agent is between two steps: "idle" between cycles.            *)
Stages == {"idle", "recovering", "resending", "working", "claiming",
           "recorded", "executing", "ran", "reporting", "acknowledging"}

VARIABLES
    journal,    \* the execution journal, on disk
    stage,      \* where the running cycle is
    pending,    \* entries of the recovery loop still to be resent
    offered,    \* actions of the poll response still to be claimed
    job,        \* the job in hand, or NoJob
    outcome,    \* the result in hand, or NoPayload
    runs        \* runs[j]: how often the executor changed the endpoint for job j

agentVars == <<journal, stage, pending, offered, job, outcome, runs>>

AgentTypeOK ==
    /\ journal \in [Jobs -> Entries]
    /\ stage \in Stages
    /\ pending \subseteq Jobs
    /\ offered \subseteq Actions
    /\ job \in Jobs \cup {NoJob}
    /\ outcome \in Payloads \cup {NoPayload}
    /\ runs \in [Jobs -> Nat]

AgentInit ==
    /\ journal = [j \in Jobs |-> Entry("absent", NoPayload)]
    /\ stage = "idle"
    /\ pending = {} /\ offered = {}
    /\ job = NoJob
    /\ outcome = NoPayload
    /\ runs = [j \in Jobs |-> 0]

(* ExecutionJournal.pending                                                *)
Pending == {j \in Jobs : journal[j].state \notin {"absent", "reported"}}

(* The end of a cycle, and what an exception or a crash leaves of one.     *)
Stop ==
    /\ stage' = "idle"
    /\ pending' = {} /\ offered' = {}
    /\ job' = NoJob
    /\ outcome' = NoPayload

-----------------------------------------------------------------------------
(* Recovery.                                                               *)

BeginCycle ==
    /\ stage = "idle"
    /\ stage' = "recovering"
    /\ pending' = Pending
    /\ UNCHANGED <<journal, offered, job, outcome, runs, channelVars>>

(* The result the recovery loop sends: the recorded one of an executed     *)
(* job, and what an observation of the endpoint says of any other.         *)
RecoveredResults(j) ==
    IF journal[j].state = "executed" /\ journal[j].result # NoPayload
    THEN {journal[j].result}
    ELSE ObservedResults

Resend(j, p) ==
    /\ stage = "recovering"
    /\ j \in pending
    /\ p \in RecoveredResults(j)
    /\ Send(ReportRequest(j, p))
    /\ stage' = "resending"
    /\ job' = j
    /\ outcome' = p
    /\ UNCHANGED <<journal, pending, offered, runs, lapsed, faults>>

(* ExecutionJournal.mark_reported                                          *)
Marked(j) == [journal EXCEPT ![j].state = "reported"]

(* ExecutionJournal.prune_reported: the journals there may be after the    *)
(* reported entries of k beyond JournalKeep are dropped.  The code drops   *)
(* the oldest; which ones those are is left open here, save that their     *)
(* leases are over: a cycle reports at most a page of jobs and sleeps, so  *)
(* that the 500 reports the code keeps outlast a lease of 60 s.            *)
Pruned(k) ==
    LET reported == {i \in Jobs : k[i].state = "reported"}
        old == {i \in reported : lapsed[i[1]] >= i[2]}
        excess == IF Cardinality(reported) > JournalKeep
                  THEN Cardinality(reported) - JournalKeep ELSE 0
    IN  {[i \in Jobs |-> IF i \in dropped THEN Entry("absent", NoPayload) ELSE k[i]] :
            dropped \in {S \in SUBSET old :
                            \/ Cardinality(S) = excess
                            \/ Cardinality(S) < excess /\ S = old}}

(* One entry of the loop is done; the last one is followed by a prune.     *)
NextEntry(k) ==
    /\ journal' \in IF pending = {job} THEN Pruned(k) ELSE {k}
    /\ pending' = pending \ {job}
    /\ stage' = "recovering"
    /\ job' = NoJob
    /\ outcome' = NoPayload

(* An accepted resend is marked; a refused one is logged and stays in the  *)
(* journal for the next cycle.                                             *)
ResendAccepted ==
    /\ stage = "resending"
    /\ Hear("ok")
    /\ NextEntry(Marked(job))
    /\ UNCHANGED <<offered, runs, calls, lapsed, faults>>

(* Mutation: a refused resend is marked like an accepted one.              *)
ResendForgotten ==
    /\ stage = "resending"
    /\ Hear("error")
    /\ NextEntry(Marked(job))
    /\ UNCHANGED <<offered, runs, calls, lapsed, faults>>

ResendRefused ==
    /\ stage = "resending"
    /\ Hear("error")
    /\ NextEntry(journal)
    /\ UNCHANGED <<offered, runs, calls, lapsed, faults>>

-----------------------------------------------------------------------------
(* Claiming.                                                               *)

(* GET /jobs answered with the actions "queued".                           *)
Poll(queued) ==
    /\ stage = "recovering"
    /\ pending = {}
    /\ stage' = "working"
    /\ offered' = queued
    /\ UNCHANGED <<journal, pending, job, outcome, runs, channelVars>>

EndCycle ==
    /\ stage = "working"
    /\ offered = {}
    /\ Stop
    /\ UNCHANGED <<journal, runs, channelVars>>

(* Jobs are claimed in the order of the response, oldest action first.     *)
SendClaim(a) ==
    /\ stage = "working"
    /\ a \in offered
    /\ \A b \in offered : a <= b
    /\ Send(ClaimRequest(a))
    /\ stage' = "claiming"
    /\ offered' = offered \ {a}
    /\ UNCHANGED <<journal, pending, job, outcome, runs, lapsed, faults>>

Claimed == <<open.action, reply.attempt>>

(* Mutation: only a finished job counts, as with a list of completed jobs. *)
SeenFinished(j) == journal[j].state = "reported"

(* ExecutionJournal.seen                                                   *)
Seen(j) == journal[j].state # "absent"

(* Mutation: a job the journal knows ends the cycle.                       *)
SkipRest ==
    /\ stage = "claiming"
    /\ Hear("ok")
    /\ Seen(Claimed)
    /\ Stop
    /\ UNCHANGED <<journal, runs, calls, lapsed, faults>>

(* The journal knows the job: it is skipped.                               *)
SkipSeen ==
    /\ stage = "claiming"
    /\ Hear("ok")
    /\ Seen(Claimed)
    /\ stage' = "working"
    /\ UNCHANGED <<journal, pending, offered, job, outcome, runs, calls, lapsed, faults>>

RecordClaimed ==
    /\ stage = "claiming"
    /\ Hear("ok")
    /\ ~Seen(Claimed)
    /\ journal' = [journal EXCEPT ![Claimed] = Entry("claimed", NoPayload)]
    /\ job' = Claimed
    /\ stage' = "recorded"
    /\ UNCHANGED <<pending, offered, outcome, runs, calls, lapsed, faults>>

-----------------------------------------------------------------------------
(* Execution.                                                              *)

(* verify_envelope refuses the envelope, or no executor takes the skill:   *)
(* the journal stays at "claimed".  Signature, addressee and skill version *)
(* may each fail; an expired lease always does.                            *)
RejectEnvelope ==
    /\ stage = "recorded"
    /\ stage' = "reporting"
    /\ outcome' = Rejected
    /\ UNCHANGED <<journal, pending, offered, job, runs, channelVars>>

(* Mutation: the expiry of the envelope is not looked at.                  *)
UnexpiredAlways(j) == TRUE

(* The envelope of job j expires with the lease of its claim.              *)
Unexpired(j) == lapsed[j[1]] < j[2]

MarkExecuting ==
    /\ stage = "recorded"
    /\ Unexpired(job)
    /\ journal' = [journal EXCEPT ![job].state = "executing"]
    /\ stage' = "executing"
    /\ UNCHANGED <<pending, offered, job, outcome, runs, channelVars>>

(* The executor changes the endpoint and returns a result.                 *)
Execute(p) ==
    /\ stage = "executing"
    /\ p \in ExecutedResults
    /\ runs' = [runs EXCEPT ![job] = @ + 1]
    /\ outcome' = p
    /\ stage' = "ran"
    /\ UNCHANGED <<journal, pending, offered, job, channelVars>>

(* Mutation: a service found running is reported restarted.                *)
DeclinedAsDone(p) == p \in {Rejected, Result("executed", TRUE, "none")}

(* The parameters are refused, the precheck fails, or the agent may not    *)
(* run the command.                                                        *)
Declined(p) == p \in {Rejected, Result("executed", FALSE, "none")}

(* The executor returns without having changed anything.                   *)
Decline(p) ==
    /\ stage = "executing"
    /\ Declined(p)
    /\ outcome' = p
    /\ stage' = "ran"
    /\ UNCHANGED <<journal, pending, offered, job, runs, channelVars>>

MarkExecuted ==
    /\ stage = "ran"
    /\ journal' = [journal EXCEPT ![job] = Entry("executed", outcome)]
    /\ stage' = "reporting"
    /\ UNCHANGED <<pending, offered, job, outcome, runs, channelVars>>

SendReport ==
    /\ stage = "reporting"
    /\ Send(ReportRequest(job, outcome))
    /\ stage' = "acknowledging"
    /\ UNCHANGED <<journal, pending, offered, job, outcome, runs, lapsed, faults>>

ReportAccepted ==
    /\ stage = "acknowledging"
    /\ Hear("ok")
    /\ journal' \in Pruned(Marked(job))
    /\ stage' = "working"
    /\ job' = NoJob
    /\ outcome' = NoPayload
    /\ UNCHANGED <<pending, offered, runs, calls, lapsed, faults>>

-----------------------------------------------------------------------------
(* What ends a cycle early.                                                *)

(* An error reply to a claim or to a report is raised out of the job loop. *)
AbortCycle ==
    /\ stage \in {"claiming", "acknowledging"}
    /\ Hear("error")
    /\ Stop
    /\ UNCHANGED <<journal, runs, calls, lapsed, faults>>

(* A request fails or gets no answer in time, in the recovery loop too.    *)
(* The request may have been lost, or reach the control plane later, or    *)
(* have been served already.                                               *)
RequestFails(lost) ==
    /\ open # NoRequest
    /\ faults < MaxFaults
    /\ faults' = faults + 1
    /\ calls' = IF lost THEN calls \ {open} ELSE calls
    /\ open' = NoRequest
    /\ reply' = NoReply
    /\ Stop
    /\ UNCHANGED <<journal, runs, lapsed>>

(* The process dies at any point; only the journal is there on restart.    *)
(* An exception with no request open (a failed poll, an OSError out of the *)
(* executor's restart command) leaves the same state.                      *)
Crash ==
    /\ stage # "idle"
    /\ faults < MaxFaults
    /\ faults' = faults + 1
    /\ open' = NoRequest
    /\ reply' = NoReply
    /\ Stop
    /\ UNCHANGED <<journal, runs, calls, lapsed>>

-----------------------------------------------------------------------------
(* The steps of the agent that need nothing from outside.                  *)
AgentStep ==
    \/ BeginCycle \/ EndCycle
    \/ \E j \in pending, p \in Payloads : Resend(j, p)
    \/ ResendAccepted \/ ResendRefused
    \/ \E a \in offered : SendClaim(a)
    \/ SkipSeen \/ RecordClaimed
    \/ RejectEnvelope \/ MarkExecuting
    \/ \E p \in ExecutedResults : Execute(p)
    \/ \E p \in Payloads : Decline(p)
    \/ MarkExecuted \/ SendReport \/ ReportAccepted
    \/ AbortCycle

Fault == Crash \/ \E lost \in BOOLEAN : RequestFails(lost)
=============================================================================
