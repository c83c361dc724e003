---------------------- MODULE RemediationSystem_proofs ----------------------
(***************************************************************************)
(* The inductive invariant of RemediationSystem, and the theorems: its     *)
(* safety properties and its refinement of RemediationPromise, for any     *)
(* number of actions, attempts, faults and users, any horizon and any size *)
(* of journal and page.  First the types, claims, approvals, the agent's   *)
(* cycle and its journal; then results and what follows.                   *)
(***************************************************************************)
EXTENDS RemediationInvariant, TLAPS


-----------------------------------------------------------------------------
(* Jobs, and the records the two sides exchange.                           *)

(* There are at least two attempts, and as many as the setting says.       *)
LEMMA AttemptShape ==
    /\ LastAttempt \in Nat /\ LastAttempt > 1 /\ LastAttempt >= MaxAttempts
    /\ LastAttempt > MaxAttempts => LastAttempt = 2
    /\ MaxAttempts \in Int
BY ChannelAssumption DEF LastAttempt

(* Attempts and actions are numbers; a job is an action at an attempt.     *)
LEMMA JobShape ==
    /\ \A a \in Actions : a \in Nat
    /\ \A n \in Attempts : n \in Nat /\ 0 < n /\ n <= LastAttempt
    /\ \A n \in 0..LastAttempt : n > 0 => n \in Attempts
    /\ \A j \in Jobs : j[1] \in Actions /\ j[2] \in Attempts /\ j = <<j[1], j[2]>>
    /\ \A a \in Actions, n \in Attempts : <<a, n>> \in Jobs
    /\ LastAttempt \in Nat /\ LastAttempt > 1 /\ MaxFaults \in Nat
BY AttemptShape, ChannelAssumption DEF Jobs, Actions, Attempts

(* Payloads have the fields of a result, and the null payload is none.     *)
LEMMA PayloadShape ==
    /\ \A p \in Payloads \cup {NoPayload} :
          /\ p = [origin |-> p.origin, success |-> p.success,
                  verified |-> p.verified, rollback |-> p.rollback]
          /\ p.success \in BOOLEAN
          /\ p.verified = p.success
          /\ p.rollback \in {"none", "restored", "failed"}
    /\ NoPayload \notin Payloads
    /\ Rejected \in Payloads
    /\ ExecutedResults \subseteq Payloads
    /\ ObservedResults \subseteq Payloads
BY DEF Payloads, NoPayload, Rejected, ExecutedResults, ObservedResults, Result

(* A request is a claim of an action or a report of a job.                 *)
LEMMA RequestShape ==
    ASSUME NEW r \in Requests
    PROVE  /\ r.action \in Actions
           /\ r.type \in {"claim", "report"}
           /\ r.type = "claim" => r = ClaimRequest(r.action)
           /\ r.type = "report" =>
                 /\ JobOf(r) \in Jobs
                 /\ r.attempt \in Attempts
                 /\ r.payload \in Payloads
                 /\ r = ReportRequest(JobOf(r), r.payload)
BY JobShape DEF Requests, ClaimRequest, ReportRequest, JobOf

(* What is sent, and the null request, which nobody sends.                 *)
LEMMA ClaimKind ==
    ASSUME NEW a \in Actions
    PROVE  /\ ClaimRequest(a) \in Requests
           /\ ClaimRequest(a).type = "claim"
           /\ ClaimRequest(a).action = a
BY DEF Requests, ClaimRequest

(* A report request carries the type "report" and names the attempt whose
   claim token and idempotency key it bears (_report_result).               *)
LEMMA ReportKind ==
    ASSUME NEW j \in Jobs, NEW p \in Payloads
    PROVE  /\ ReportRequest(j, p) \in Requests
           /\ ReportRequest(j, p).type = "report"
           /\ ReportRequest(j, p).payload = p
           /\ ReportRequest(j, p).action = j[1]
           /\ ReportRequest(j, p).attempt = j[2]
           /\ JobOf(ReportRequest(j, p)) = j
BY JobShape DEF Requests, ReportRequest, JobOf

(* NoRequest is no request the agent ever sends.                            *)
LEMMA NoKind == NoRequest.type = "none" /\ NoRequest \notin Requests
BY RequestShape DEF NoRequest

(* Replies have a kind and an attempt.                                     *)
LEMMA ReplyShape ==
    /\ \A k \in {"none", "ok", "error"}, n \in 0..LastAttempt :
          /\ Reply(k, n) \in Replies
          /\ Reply(k, n).kind = k
          /\ Reply(k, n).attempt = n
    /\ NoReply \in Replies /\ NoReply.kind = "none"
BY JobShape DEF Reply, Replies, NoReply

-----------------------------------------------------------------------------
(* Type correctness.                                                       *)

(* The program starts with every variable of its type: empty tables, an
   empty journal.                                                           *)
THEOREM TypeInit == Init => TypeOK
BY JobShape, ReplyShape, NoUserAssumption
   DEF Init, ChannelInit, ControlInit, AgentInit, TypeOK, ChannelTypeOK, ControlTypeOK,
       AgentTypeOK, Statuses, Entries, EntryStates, Entry, Stages

(* The steps of the control plane keep the types.                          *)
LEMMA ControlKeepsTypes ==
    ASSUME TypeOK, Claims, ControlNext, UNCHANGED agentVars
    PROVE  TypeOK'
<1> USE DEF TypeOK, ChannelTypeOK, ControlTypeOK, AgentTypeOK, agentVars, channelVars,
            actionVars, recordVars, handlerVars, controlVars
<1>1. ASSUME NEW a \in Actions, NEW u \in Users, NEW v \in Gates, CreateAction(a, u, v)
      PROVE  TypeOK'
  BY <1>1, ControlPlaneAssumption DEF CreateAction, StatusUnder, Statuses, Terminal
<1>2. ASSUME NEW a \in Actions, NEW u \in Users, NEW v \in {"approve", "deny"},
             BeginDecision(a, u, v)
      PROVE  TypeOK'
  BY <1>2 DEF BeginDecision, Decisions
<1>3. ASSUME NEW d \in deciding, NEW allowed \in BOOLEAN, CommitDecision(d, allowed)
      PROVE  TypeOK'
  BY <1>3 DEF CommitDecision, Decisions, DecidedStatus, Statuses, Terminal
<1>4. ASSUME NEW r \in calls \cup reporting, Serve(r)
      PROVE  TypeOK'
  <2>1. CASE ReplayClaim(r)
    BY <2>1, RequestShape, ReplyShape DEF ReplayClaim, Received, Answer
  <2>2. CASE GrantClaim(r)
    <3>1. r.action \in Actions /\ attempt[r.action] + 1 \in 0..LastAttempt
      BY <2>2, RequestShape, JobShape DEF GrantClaim, Received, Claims
    <3> QED
      BY <2>2, <3>1, ReplyShape DEF GrantClaim, Received, Answer, Statuses
  <2>3. CASE RefuseClaim(r)
    BY <2>3, ReplyShape, JobShape DEF RefuseClaim, Received, Answer
  <2>4. CASE ReplayReport(r)
    BY <2>4, ReplyShape, JobShape DEF ReplayReport, Received, Answer
  <2>5. CASE CheckReport(r)
    BY <2>5 DEF CheckReport, Received
  <2>6. CASE RefuseReport(r)
    BY <2>6, ReplyShape, JobShape DEF RefuseReport, Received, Answer
  <2>7. CASE CommitReport(r)
    <3>1. /\ JobOf(r) \in Jobs /\ r.payload \in Payloads /\ r.action \in Actions
          /\ RowOf(JobOf(r), r.payload) \in ResultRows
      BY <2>7, RequestShape DEF CommitReport, Claims, ResultRows, RowOf
    <3>2. StatusFor(r.payload) \in Statuses
      BY <3>1, PayloadShape DEF StatusFor, Statuses, Terminal
    <3> QED
      BY <2>7, <3>1, <3>2, ReplyShape, JobShape DEF CommitReport, Answer, RowOf
  <2>8. CASE AbortReport(r)
    <3>1. reply' \in Replies
      <4>1. Reply("error", 0) \in Replies
        BY ReplyShape, JobShape
      <4> QED
        BY <2>8, <4>1 DEF AbortReport, Answer
    <3> QED
      BY <2>8, <3>1 DEF AbortReport
  <2> QED
    BY <1>4, <2>1, <2>2, <2>3, <2>4, <2>5, <2>6, <2>7, <2>8 DEF Serve
<1>5. ASSUME NEW a \in Actions, Lapse(a) \/ Reap(a) \/ PurgeClaimRecord(a)
      PROVE  TypeOK'
  <2>1. CASE Lapse(a)
    BY <2>1 DEF Lapse
  <2>2. CASE Reap(a)
    BY <2>2, JobShape DEF Reap, Statuses, Terminal
  <2>3. CASE PurgeClaimRecord(a)
    BY <2>3, JobShape DEF PurgeClaimRecord
  <2> QED
    BY <1>5, <2>1, <2>2, <2>3
<1>6. ASSUME NEW j \in Jobs, PurgeResultRecord(j)
      PROVE  TypeOK'
  BY <1>6 DEF PurgeResultRecord
<1> QED
  BY <1>1, <1>2, <1>3, <1>4, <1>5, <1>6 DEF ControlNext, Decide

(* Pruning gives a journal, and drops only reported entries whose lease is *)
(* over.                                                                   *)
LEMMA PrunedShape ==
    ASSUME NEW k \in [Jobs -> Entries], NEW q \in Pruned(k), NEW i \in Jobs
    PROVE  /\ q \in [Jobs -> Entries]
           /\ \/ q[i] = k[i]
              \/ /\ q[i] = Entry("absent", NoPayload)
                 /\ k[i].state = "reported" /\ lapsed[i[1]] >= i[2]
<1>1. PICK S \in SUBSET {o \in Jobs : k[o].state = "reported" /\ lapsed[o[1]] >= o[2]} :
         q = [o \in Jobs |-> IF o \in S THEN Entry("absent", NoPayload) ELSE k[o]]
  BY DEF Pruned
<1>2. Entry("absent", NoPayload) \in Entries
  BY DEF Entries, EntryStates, Entry
<1> QED
  BY <1>1, <1>2

(* What an answered report leaves in the journal.                          *)
LEMMA SettledShape ==
    ASSUME TypeOK, ResendAccepted \/ ResendRefused \/ ReportAccepted,
           job \in Jobs, NEW i \in Jobs
    PROVE  /\ journal' \in [Jobs -> Entries]
           /\ \/ journal'[i] = journal[i]
              \/ /\ i = job /\ reply.kind = "ok"
                 /\ journal'[i] = Entry("reported", journal[i].result)
              \/ /\ journal'[i] = Entry("absent", NoPayload)
                 /\ i = job \/ journal[i].state = "reported"
                 /\ lapsed[i[1]] >= i[2]
<1>1. journal \in [Jobs -> Entries]
  BY DEF TypeOK, AgentTypeOK
<1>2. /\ Marked(job) \in [Jobs -> Entries]
      /\ Marked(job)[job] = Entry("reported", journal[job].result)
      /\ i # job => Marked(job)[i] = journal[i]
  BY <1>1 DEF Marked, Entries, EntryStates, Entry
<1>3. \/ journal' \in {journal} \cup Pruned(journal)
      \/ reply.kind = "ok" /\ journal' \in {Marked(job)} \cup Pruned(Marked(job))
  BY DEF ResendAccepted, ResendRefused, ReportAccepted, NextEntry, Hear
<1>4. CASE journal' \in {journal} \cup Pruned(journal)
  BY <1>1, <1>4, PrunedShape
<1>5. CASE reply.kind = "ok" /\ journal' \in {Marked(job)} \cup Pruned(Marked(job))
  <2>1. CASE journal' = Marked(job)
    BY <1>2, <1>5, <2>1
  <2>2. CASE journal' \in Pruned(Marked(job))
    <3>1. /\ journal' \in [Jobs -> Entries]
          /\ \/ journal'[i] = Marked(job)[i]
             \/ /\ journal'[i] = Entry("absent", NoPayload)
                /\ Marked(job)[i].state = "reported" /\ lapsed[i[1]] >= i[2]
      BY <1>2, <2>2, PrunedShape
    <3> QED
      BY <1>2, <1>5, <3>1
  <2> QED
    BY <1>5, <2>1, <2>2
<1> QED
  BY <1>3, <1>4, <1>5

(* The steps of the agent keep the types.                                  *)
LEMMA AgentKeepsTypes ==
    ASSUME TypeOK, Claims, Cycle, AgentStep \/ Fault, UNCHANGED controlVars
    PROVE  TypeOK'
<1> USE DEF TypeOK, ChannelTypeOK, ControlTypeOK, AgentTypeOK, agentVars, channelVars,
            actionVars, recordVars, handlerVars, controlVars
<1> USE DEF Stages, Entry, Entries, EntryStates, Stop, NoJob
<1>1. CASE BeginCycle
  BY <1>1 DEF BeginCycle, Pending
<1>2. CASE EndCycle
  BY <1>2 DEF EndCycle
<1>3. ASSUME NEW j \in pending, NEW p \in Payloads, Resend(j, p)
      PROVE  TypeOK'
  BY <1>3, ReportKind, ReplyShape DEF Resend, Send
<1>4. CASE ResendAccepted \/ ResendRefused
  <2>1. job \in Jobs /\ journal' \in [Jobs -> Entries]
    BY <1>4, SettledShape DEF ResendAccepted, ResendRefused, Cycle
  <2> QED
    BY <1>4, <2>1, ReplyShape DEF ResendAccepted, ResendRefused, NextEntry, Hear
<1>5. CASE ReportAccepted
  <2>1. job \in Jobs /\ journal' \in [Jobs -> Entries]
    BY <1>5, SettledShape DEF ReportAccepted, Cycle, Handling
  <2> QED
    BY <1>5, <2>1, ReplyShape DEF ReportAccepted, Hear
<1>6. ASSUME NEW a \in offered, SendClaim(a)
      PROVE  TypeOK'
  BY <1>6, ClaimKind, ReplyShape DEF SendClaim, Send
<1>7. CASE SkipSeen
  BY <1>7, ReplyShape DEF SkipSeen, Hear
<1>8. CASE RecordClaimed
  <2>1. Claimed \in Jobs
    BY <1>8, RequestShape, JobShape, NoKind DEF RecordClaimed, Hear, Claimed, Cycle, Replies
  <2> QED
    BY <1>8, <2>1, ReplyShape DEF RecordClaimed, Hear
<1>9. CASE RejectEnvelope
  BY <1>9, PayloadShape DEF RejectEnvelope
<1>10. CASE MarkExecuting
  BY <1>10 DEF MarkExecuting
<1>11. ASSUME NEW p \in ExecutedResults, Execute(p)
       PROVE  TypeOK'
  BY <1>11, PayloadShape DEF Execute, Cycle, Handling
<1>12. ASSUME NEW p \in Payloads, Decline(p)
       PROVE  TypeOK'
  BY <1>12 DEF Decline
<1>13. CASE MarkExecuted
  BY <1>13 DEF MarkExecuted
<1>14. CASE SendReport
  <2>1. ReportRequest(job, outcome) \in Requests
    BY <1>14, ReportKind DEF SendReport, Cycle, Handling
  <2> QED
    BY <1>14, <2>1, ReplyShape DEF SendReport, Send
<1>15. CASE AbortCycle
  BY <1>15, ReplyShape DEF AbortCycle, Hear
<1>16. CASE Crash
  BY <1>16, ReplyShape, JobShape DEF Crash
<1>17. ASSUME NEW lost \in BOOLEAN, RequestFails(lost)
       PROVE  TypeOK'
  BY <1>17, ReplyShape, JobShape DEF RequestFails
<1> QED
  BY <1>1, <1>2, <1>3, <1>4, <1>5, <1>6, <1>7, <1>8, <1>9, <1>10, <1>11, <1>12,
     <1>13, <1>14, <1>15, <1>16, <1>17 DEF AgentStep, Fault

(* Every handler, worker and agent step keeps the types; that attempt stays
   within LastAttempt is due to Claims (lease_reaper_max_attempts).         *)
LEMMA TypeStep == TypeOK /\ Claims /\ Cycle /\ [Next]_vars => TypeOK'
<1> SUFFICES ASSUME TypeOK, Claims, Cycle, [Next]_vars
             PROVE  TypeOK'
  OBVIOUS
<1> USE DEF TypeOK, ChannelTypeOK, ControlTypeOK, AgentTypeOK, agentVars, channelVars,
            actionVars, recordVars, handlerVars, controlVars
<1>1. CASE PollStep
  BY <1>1 DEF PollStep, Poll, OfferedJobs, Queued, Stages
<1>2. CASE UNCHANGED vars
  BY <1>2 DEF vars
<1> QED
  BY <1>1, <1>2, ControlKeepsTypes, AgentKeepsTypes
     DEF Next, ControlPlaneStep, EndpointAgentStep

-----------------------------------------------------------------------------
(* Claims and decisions.                                                   *)

(* With no action created, no claim record, token or lease is anybody's.    *)
THEOREM ClaimsInit == Init => Claims
BY JobShape, ChannelAssumption
   DEF Init, ChannelInit, ControlInit, Claims

(* The handlers and workers of the control plane keep the claims in step:
   claim_job, the late write of decide_action, LeaseReaper and the purge.   *)
LEMMA ControlKeepsClaims ==
    ASSUME TypeOK, Claims, ControlNext
    PROVE  Claims'
<1> USE DEF TypeOK, ChannelTypeOK, ControlTypeOK, Claims, channelVars,
            actionVars, recordVars, handlerVars, controlVars
<1> USE JobShape
<1>1. ASSUME NEW a \in Actions, NEW u \in Users, NEW v \in Gates, CreateAction(a, u, v)
      PROVE  Claims'
  BY <1>1, ControlPlaneAssumption DEF CreateAction, StatusUnder
<1>2. ASSUME NEW a \in Actions, NEW u \in Users, NEW v \in {"approve", "deny"},
             BeginDecision(a, u, v)
      PROVE  Claims'
  BY <1>2 DEF BeginDecision, MayDecide
<1>3. ASSUME NEW d \in deciding, NEW allowed \in BOOLEAN, CommitDecision(d, allowed)
      PROVE  Claims'
  BY <1>3 DEF CommitDecision, Decisions, DecidedStatus
<1>4. ASSUME NEW r \in calls \cup reporting, Serve(r)
      PROVE  Claims'
  <2>1. CASE ReplayClaim(r) \/ RefuseClaim(r) \/ ReplayReport(r) \/ RefuseReport(r)
    BY <2>1 DEF ReplayClaim, RefuseClaim, ReplayReport, RefuseReport
  <2>2. CASE GrantClaim(r)
    BY <2>2, RequestShape DEF GrantClaim, Received
  <2>3. CASE CheckReport(r)
    BY <2>3, RequestShape DEF CheckReport, Received, ClaimHolds
  <2>4. CASE CommitReport(r)
    <3>1. r.action \in Actions /\ StatusFor(r.payload) \in Terminal
      BY <2>4, RequestShape, PayloadShape DEF CommitReport, StatusFor, Terminal
    <3> QED
      BY <2>4, <3>1 DEF CommitReport, Terminal
  <2>5. CASE AbortReport(r)
    BY <2>5 DEF AbortReport
  <2> QED
    BY <1>4, <2>1, <2>2, <2>3, <2>4, <2>5 DEF Serve
<1>5. ASSUME NEW a \in Actions, Lapse(a) \/ Reap(a) \/ PurgeClaimRecord(a)
      PROVE  Claims'
  <2>1. CASE Lapse(a)
    BY <2>1 DEF Lapse
  <2>2. CASE Reap(a)
    BY <2>2, AttemptShape DEF Reap, Abandoned, Exhausted
  <2>3. CASE PurgeClaimRecord(a)
    BY <2>3 DEF PurgeClaimRecord, Quiet
  <2> QED
    BY <1>5, <2>1, <2>2, <2>3
<1>6. ASSUME NEW j \in Jobs, PurgeResultRecord(j)
      PROVE  Claims'
  BY <1>6 DEF PurgeResultRecord
<1> QED
  BY <1>1, <1>2, <1>3, <1>4, <1>5, <1>6 DEF ControlNext, Decide

(* The agent leaves the control plane's tables and the clock alone.        *)
LEMMA AgentLeavesControl ==
    ASSUME EndpointAgentStep \/ PollStep
    PROVE  UNCHANGED <<controlVars, lapsed>>
BY DEF EndpointAgentStep, PollStep, AgentStep, Fault, Poll, BeginCycle, EndCycle, Resend,
       ResendAccepted, ResendRefused, SendClaim, SkipSeen, RecordClaimed, RejectEnvelope,
       MarkExecuting, Execute, Decline, MarkExecuted, SendReport, ReportAccepted,
       AbortCycle, Crash, RequestFails, channelVars

(* Every step keeps Claims; the agent touches nothing it speaks of.         *)
LEMMA ClaimsStep == TypeOK /\ Claims /\ [Next]_vars => Claims'
<1> SUFFICES ASSUME TypeOK, Claims, [Next]_vars
             PROVE  Claims'
  OBVIOUS
<1>1. CASE EndpointAgentStep \/ PollStep \/ UNCHANGED vars
  BY <1>1, AgentLeavesControl
     DEF Claims, vars, channelVars, controlVars, actionVars, recordVars, handlerVars
<1> QED
  BY <1>1, ControlKeepsClaims DEF Next, ControlPlaneStep

-----------------------------------------------------------------------------
(* Approval.                                                               *)

(* Nothing needs to be cleared before anything is created.                  *)
THEOREM ClearanceInit == Init => Clearance
BY JobShape DEF Init, ControlInit, Clearance

(* A step that touches neither the verdicts nor the approvals, and lifts   *)
(* no action out of the states of an uncleared one, keeps clearance.       *)
LEMMA ClearanceFrame ==
    ASSUME TypeOK, Clearance, UNCHANGED <<gate, requester, deciding, approvals>>,
           \A a \in Actions :
              \/ status'[a] = status[a] /\ attempt'[a] = attempt[a]
              \/ /\ status[a] \notin {"none", "pending_approval", "denied"}
                 /\ status'[a] # "none"
              \/ /\ attempt[a] > 0
                 /\ status'[a] # "none"
    PROVE  Clearance'
BY DEF TypeOK, ControlTypeOK, Decisions, Clearance, Cleared

(* The control plane keeps Clearance: only submit under an allowing policy
   and approve by somebody else lead past pending_approval.                 *)
LEMMA ControlKeepsClearance ==
    ASSUME TypeOK, Claims, Clearance, ControlNext
    PROVE  Clearance'
<1> USE DEF TypeOK, ChannelTypeOK, ControlTypeOK, channelVars, actionVars, recordVars,
            handlerVars, controlVars
<1> USE JobShape
<1>1. ASSUME NEW a \in Actions, NEW u \in Users, NEW v \in Gates, CreateAction(a, u, v)
      PROVE  Clearance'
  <2>1. ASSUME NEW b \in Actions, b # a, Cleared(b)
        PROVE  Cleared(b)'
    BY <1>1, <2>1 DEF CreateAction, Cleared
  <2>2. v = "allow" => Cleared(a)'
    BY <1>1 DEF CreateAction, Cleared
  <2>3. /\ attempt[a] = 0
        /\ status'[a] = StatusUnder(v) /\ StatusUnder(v) # "none"
        /\ v # "allow" => StatusUnder(v) \in {"pending_approval", "denied"}
        /\ v \in {"allow", "approval", "deny"}
    BY <1>1, ControlPlaneAssumption DEF CreateAction, StatusUnder, Claims
  <2>4. \A d \in deciding \cup approvals : d.action \in Actions \ {a}
    BY <1>1 DEF CreateAction, Decisions, Clearance
  <2> QED
    BY <1>1, <2>1, <2>2, <2>3, <2>4 DEF CreateAction, Clearance
<1>2. ASSUME NEW a \in Actions, NEW u \in Users, NEW v \in {"approve", "deny"},
             BeginDecision(a, u, v)
      PROVE  Clearance'
  BY <1>2 DEF BeginDecision, MayDecide, Decisions, Clearance, Cleared
<1>3. ASSUME NEW d \in deciding, NEW allowed \in BOOLEAN, CommitDecision(d, allowed)
      PROVE  Clearance'
  <2>1. d \in Decisions /\ approvals' = approvals \cup {d}
    BY <1>3 DEF CommitDecision
  <2>2. ASSUME NEW a \in Actions, Cleared(a)
        PROVE  Cleared(a)'
    BY <1>3, <2>1, <2>2 DEF CommitDecision, Cleared
  <2>3. CASE d.verdict = "approve" /\ allowed
    <3>1. Cleared(d.action)'
      BY <1>3, <2>1, <2>3 DEF CommitDecision, Cleared, Decisions, Clearance
    <3> QED
      BY <1>3, <2>1, <2>2, <2>3, <3>1
         DEF CommitDecision, DecidedStatus, Decisions, Clearance
  <2>4. CASE ~(d.verdict = "approve" /\ allowed)
    BY <1>3, <2>1, <2>2, <2>4 DEF CommitDecision, DecidedStatus, Decisions, Clearance
  <2> QED
    BY <2>3, <2>4
<1>4. ASSUME NEW r \in calls \cup reporting, Serve(r)
      PROVE  Clearance'
  <2>1. CASE \/ ReplayClaim(r) \/ RefuseClaim(r) \/ ReplayReport(r) \/ CheckReport(r)
             \/ RefuseReport(r) \/ AbortReport(r)
    BY <2>1, ClearanceFrame
       DEF ReplayClaim, RefuseClaim, ReplayReport, CheckReport, RefuseReport, AbortReport
  <2>2. CASE GrantClaim(r)
    BY <2>2, RequestShape, ClearanceFrame DEF GrantClaim, Received
  <2>3. CASE CommitReport(r)
    <3>1. /\ r.action \in Actions /\ attempt[r.action] > 0
          /\ StatusFor(r.payload) \in Terminal
      BY <2>3, RequestShape, PayloadShape DEF CommitReport, StatusFor, Terminal, Claims
    <3> QED
      BY <2>3, <3>1, ClearanceFrame DEF CommitReport, Terminal
  <2> QED
    BY <1>4, <2>1, <2>2, <2>3 DEF Serve
<1>5. ASSUME NEW a \in Actions, Lapse(a) \/ Reap(a) \/ PurgeClaimRecord(a)
      PROVE  Clearance'
  BY <1>5, ClearanceFrame DEF Lapse, Reap, Abandoned, PurgeClaimRecord
<1>6. ASSUME NEW j \in Jobs, PurgeResultRecord(j)
      PROVE  Clearance'
  BY <1>6, ClearanceFrame DEF PurgeResultRecord
<1> QED
  BY <1>1, <1>2, <1>3, <1>4, <1>5, <1>6 DEF ControlNext, Decide

(* Every step keeps Clearance; the agent clears nothing.                    *)
LEMMA ClearanceStep == TypeOK /\ Claims /\ Clearance /\ [Next]_vars => Clearance'
<1> SUFFICES ASSUME TypeOK, Claims, Clearance, [Next]_vars
             PROVE  Clearance'
  OBVIOUS
<1>1. CASE EndpointAgentStep \/ PollStep \/ UNCHANGED vars
  BY <1>1, AgentLeavesControl, ClearanceFrame
     DEF vars, channelVars, controlVars, actionVars, recordVars, handlerVars
<1> QED
  BY <1>1, ControlKeepsClearance DEF Next, ControlPlaneStep

-----------------------------------------------------------------------------
(* The agent's cycle and its requests.                                     *)

(* An agent that has just started is idle and waits on nothing.             *)
THEOREM CycleInit == Init => Cycle
BY NoKind DEF Init, ChannelInit, ControlInit, AgentInit, Cycle, Handling

(* The control plane answers an open report, or nothing the agent hears.   *)
LEMMA CycleFrame ==
    ASSUME TypeOK, Cycle, UNCHANGED <<agentVars, open, attempt>>, calls' \subseteq calls,
           \/ reply' = reply
           \/ open.type # "claim"
           \/ reply'.kind # "ok"
           \/ /\ open \notin calls'
              /\ reply'.attempt = attempt[open.action]
              /\ reply'.attempt > 0
    PROVE  Cycle'
BY DEF Cycle, agentVars

(* What the control plane does to the open request and to the attempts leaves
   the agent's cycle intact: it answers what was asked, and no handler grants
   a new attempt while the agent handles the newest one.                    *)
LEMMA ControlKeepsCycle ==
    ASSUME TypeOK, Claims, Cycle, ControlNext, UNCHANGED agentVars
    PROVE  Cycle'
<1> USE DEF TypeOK, ChannelTypeOK, ControlTypeOK, channelVars, actionVars, recordVars,
            handlerVars, controlVars
<1>1. ASSUME NEW a \in Actions, NEW u \in Users, NEW v \in Gates, CreateAction(a, u, v)
      PROVE  Cycle'
  BY <1>1, CycleFrame DEF CreateAction
<1>2. CASE Decide
  BY <1>2, CycleFrame DEF Decide, BeginDecision, CommitDecision
<1>3. ASSUME NEW r \in calls \cup reporting, Serve(r)
      PROVE  Cycle'
  <2>1. CASE ReplayClaim(r)
    BY <2>1, RequestShape, ReplyShape, CycleFrame, JobShape
       DEF ReplayClaim, Received, Answer, Claims
  <2>2. CASE RefuseClaim(r) \/ RefuseReport(r) \/ AbortReport(r)
    <3>1. Reply("error", 0).kind = "error"
      BY ReplyShape, JobShape
    <3> QED
      BY <2>2, <3>1, CycleFrame DEF RefuseClaim, RefuseReport, AbortReport, Received, Answer
  <2>3. CASE CheckReport(r)
    BY <2>3, CycleFrame DEF CheckReport, Received
  <2>4. CASE ReplayReport(r)
    BY <2>4, CycleFrame DEF ReplayReport, Received, Answer
  <2>5. CASE CommitReport(r)
    BY <2>5, CycleFrame DEF CommitReport, Claims, Answer
  <2>6. CASE GrantClaim(r)
    <3> DEFINE a == r.action
               n == attempt[a] + 1
    <3>1. a \in Actions /\ r = ClaimRequest(a) /\ r \in calls /\ calls' = calls \ {r}
      BY <2>6, RequestShape DEF GrantClaim, Received
    <3>2. /\ n \in 1..LastAttempt /\ attempt' = [attempt EXCEPT ![a] = n]
          /\ UNCHANGED <<open, journal, stage, pending, job, outcome>>
          /\ reply' = IF open = r THEN Reply("ok", n) ELSE reply
      BY <2>6, <3>1, JobShape DEF GrantClaim, Answer, Claims, agentVars
    <3>3. open.type = "claim" /\ reply'.kind = "ok" =>
             /\ open \notin calls'
             /\ reply'.attempt = attempt'[open.action]
             /\ reply'.attempt > 0
      <4>1. CASE open = r
        BY <3>1, <3>2, <4>1, ReplyShape, JobShape
      <4>2. CASE open # r
        BY <3>1, <3>2, <4>2, RequestShape, NoKind DEF Cycle
      <4> QED
        BY <4>1, <4>2
    <3>4. stage \in Handling =>
             /\ job[1] \in Actions /\ job[1] # a
             /\ attempt'[job[1]] = attempt[job[1]]
      BY <3>1, <3>2, JobShape DEF Cycle
    <3>5. \A b \in Actions : attempt[b] <= attempt'[b]
      BY <3>1, <3>2, JobShape
    <3>6. \A q \in calls' : q.type = "report" => q.attempt <= attempt'[q.action]
      <4> SUFFICES ASSUME NEW q \in calls', q.type = "report"
                   PROVE  q.attempt <= attempt'[q.action]
        OBVIOUS
      <4>1. q.action \in Actions /\ q.attempt \in Nat /\ q.attempt <= attempt[q.action]
        BY <3>1, RequestShape, JobShape DEF Cycle
      <4> QED
        BY <3>2, <3>5, <4>1, JobShape
    <3>7. stage = "resending" => job \in Jobs /\ job[2] <= attempt'[job[1]]
      <4> SUFFICES ASSUME stage = "resending"
                   PROVE  job \in Jobs /\ job[2] <= attempt'[job[1]]
        OBVIOUS
      <4>1. job \in Jobs /\ job[1] \in Actions /\ job[2] \in Nat /\ job[2] <= attempt[job[1]]
        BY JobShape DEF Cycle
      <4> QED
        BY <3>2, <3>5, <4>1, JobShape
    <3> QED
      BY <3>1, <3>2, <3>3, <3>4, <3>6, <3>7 DEF Cycle, Handling
  <2> QED
    BY <1>3, <2>1, <2>2, <2>3, <2>4, <2>5, <2>6 DEF Serve
<1>4. ASSUME NEW a \in Actions, Lapse(a) \/ Reap(a) \/ PurgeClaimRecord(a)
      PROVE  Cycle'
  BY <1>4, CycleFrame DEF Lapse, Reap, PurgeClaimRecord
<1>5. ASSUME NEW j \in Jobs, PurgeResultRecord(j)
      PROVE  Cycle'
  BY <1>5, CycleFrame DEF PurgeResultRecord
<1> QED
  BY <1>1, <1>2, <1>3, <1>4, <1>5 DEF ControlNext

(* The steps of process_jobs and recover_interrupted_jobs, and faults, keep
   stage, open request and job in hand in agreement.                        *)
LEMMA AgentKeepsCycle ==
    ASSUME TypeOK, Claims, Cycle, Journalled, AgentStep \/ Fault, UNCHANGED controlVars
    PROVE  Cycle'
<1> USE DEF TypeOK, ChannelTypeOK, ControlTypeOK, AgentTypeOK, channelVars, actionVars,
            controlVars, Cycle, Handling, Stop
<1> USE ReplyShape, NoKind
<1>1. CASE BeginCycle
  BY <1>1 DEF BeginCycle, Pending
<1>2. CASE EndCycle
  BY <1>2 DEF EndCycle
<1>3. ASSUME NEW j \in pending, NEW p \in Payloads, Resend(j, p)
      PROVE  Cycle'
  <2>1. j \in Jobs /\ j[1] \in Actions /\ j[2] \in Nat /\ j[2] <= attempt[j[1]]
    BY JobShape DEF Journalled
  <2>2. /\ stage = "recovering" /\ stage' = "resending" /\ job' = j /\ outcome' = p
        /\ UNCHANGED <<pending, journal, attempt>>
        /\ calls' = calls \cup {ReportRequest(j, p)} /\ open' = ReportRequest(j, p)
    BY <1>3 DEF Resend, Send
  <2>3. \A r \in calls' : r.type = "report" => r.attempt <= attempt'[r.action]
    BY <2>1, <2>2, ReportKind
  <2> QED
    BY <2>1, <2>2, <2>3, ReportKind
<1>4. CASE ResendAccepted \/ ResendRefused
  <2>1. job \in Jobs
    BY <1>4 DEF ResendAccepted, ResendRefused
  <2>2. ASSUME NEW i \in pending \ {job}
        PROVE  journal'[i].state \notin {"absent", "reported"}
    <3>1. i \in Jobs /\ i # job /\ journal[i].state \notin {"absent", "reported"}
      BY <2>2
    <3> HIDE DEF TypeOK, Cycle
    <3> QED
      BY <1>4, <2>1, <3>1, SettledShape
  <2> QED
    BY <1>4, <2>2 DEF ResendAccepted, ResendRefused, NextEntry, Hear
<1>5. CASE SkipSeen
  BY <1>5 DEF SkipSeen, Hear
<1>6. ASSUME NEW a \in offered, SendClaim(a)
      PROVE  Cycle'
  BY <1>6, ClaimKind DEF SendClaim, Send
<1>7. CASE RejectEnvelope
  BY <1>7, PayloadShape DEF RejectEnvelope
<1>8. CASE RecordClaimed
  <2>1. open \in Requests /\ open.action \in Actions /\ open = ClaimRequest(open.action)
    BY <1>8, RequestShape DEF RecordClaimed, Hear
  <2>2. Claimed \in Jobs /\ Claimed[1] = open.action /\ Claimed[2] = attempt[open.action]
    BY <1>8, <2>1, JobShape DEF RecordClaimed, Hear, Claimed, Replies
  <2> QED
    BY <1>8, <2>1, <2>2 DEF RecordClaimed, Hear
<1>9. CASE ReportAccepted
  BY <1>9 DEF ReportAccepted, Hear
<1>10. CASE MarkExecuting
  BY <1>10 DEF MarkExecuting
<1>11. ASSUME NEW p \in ExecutedResults, Execute(p)
       PROVE  Cycle'
  BY <1>11 DEF Execute
<1>12. ASSUME NEW p \in Payloads, Decline(p)
       PROVE  Cycle'
  BY <1>12 DEF Decline
<1>13. CASE MarkExecuted
  BY <1>13 DEF MarkExecuted, Journalled
<1>14. CASE SendReport
  BY <1>14, ReportKind, JobShape DEF SendReport, Send, ReportRequest, ClaimRequest
<1>15. CASE AbortCycle
  BY <1>15 DEF AbortCycle, Hear
<1>16. CASE Crash
  BY <1>16 DEF Crash
<1>17. ASSUME NEW lost \in BOOLEAN, RequestFails(lost)
       PROVE  Cycle'
  BY <1>17 DEF RequestFails
<1> QED
  BY <1>1, <1>2, <1>3, <1>4, <1>5, <1>6, <1>7, <1>8, <1>9, <1>10, <1>11, <1>12,
     <1>13, <1>14, <1>15, <1>16, <1>17 DEF AgentStep, Fault

(* Every step keeps Cycle, given the journal and the claims.                *)
LEMMA CycleStep ==
    TypeOK /\ Claims /\ Cycle /\ Journalled /\ [Next]_vars => Cycle'
<1> SUFFICES ASSUME TypeOK, Claims, Cycle, Journalled, [Next]_vars
             PROVE  Cycle'
  OBVIOUS
<1>1. CASE PollStep
  BY <1>1 DEF PollStep, Poll, Cycle, Handling, channelVars, controlVars, actionVars
<1>2. CASE UNCHANGED vars
  BY <1>2 DEF Cycle, vars, channelVars, controlVars, actionVars, agentVars
<1> QED
  BY <1>1, <1>2, ControlKeepsCycle, AgentKeepsCycle
     DEF Next, ControlPlaneStep, EndpointAgentStep

-----------------------------------------------------------------------------
(* The journal.                                                            *)

(* An empty journal agrees with an endpoint nothing has run on.             *)
THEOREM JournalInit == Init => Journalled
BY JobShape DEF Init, ChannelInit, ControlInit, AgentInit, Entry, Journalled

(* Claims and leases only go forward.                                      *)
LEMMA ControlGoesForward ==
    ASSUME TypeOK, Claims, ControlNext, NEW a \in Actions
    PROVE  attempt[a] <= attempt'[a] /\ lapsed[a] <= lapsed'[a]
<1> USE DEF TypeOK, ChannelTypeOK, ControlTypeOK, channelVars, actionVars, recordVars,
            handlerVars, controlVars
<1> USE JobShape
<1>1. ASSUME NEW b \in Actions, NEW u \in Users, NEW v \in Gates, CreateAction(b, u, v)
      PROVE  attempt[a] <= attempt'[a] /\ lapsed[a] <= lapsed'[a]
  BY <1>1 DEF CreateAction
<1>2. CASE Decide
  BY <1>2 DEF Decide, BeginDecision, CommitDecision
<1>3. ASSUME NEW r \in calls \cup reporting, Serve(r)
      PROVE  attempt[a] <= attempt'[a] /\ lapsed[a] <= lapsed'[a]
  <2>1. CASE GrantClaim(r)
    BY <2>1, RequestShape DEF GrantClaim, Received
  <2> QED
    BY <1>3, <2>1 DEF Serve, ReplayClaim, RefuseClaim, ReplayReport, CheckReport,
                      RefuseReport, CommitReport, AbortReport
<1>4. ASSUME NEW b \in Actions, Lapse(b) \/ Reap(b) \/ PurgeClaimRecord(b)
      PROVE  attempt[a] <= attempt'[a] /\ lapsed[a] <= lapsed'[a]
  BY <1>4 DEF Lapse, Reap, PurgeClaimRecord, Claims
<1>5. ASSUME NEW j \in Jobs, PurgeResultRecord(j)
      PROVE  attempt[a] <= attempt'[a] /\ lapsed[a] <= lapsed'[a]
  BY <1>5 DEF PurgeResultRecord
<1> QED
  BY <1>1, <1>2, <1>3, <1>4, <1>5 DEF ControlNext

(* The control plane only moves attempts and leases forward, which no
   statement about the journal minds.                                       *)
LEMMA ControlKeepsJournal ==
    ASSUME TypeOK, TypeOK', Claims, Cycle, Journalled, ControlNext, UNCHANGED agentVars
    PROVE  Journalled'
<1>1. ASSUME NEW j \in Jobs
      PROVE  /\ j[1] \in Actions /\ j[2] \in Nat
             /\ attempt[j[1]] \in Nat /\ lapsed[j[1]] \in Nat
             /\ attempt'[j[1]] \in Nat /\ lapsed'[j[1]] \in Nat
             /\ attempt[j[1]] <= attempt'[j[1]] /\ lapsed[j[1]] <= lapsed'[j[1]]
  BY JobShape, ControlGoesForward DEF TypeOK, ControlTypeOK, ChannelTypeOK
<1>2. stage = "recorded" => job \in Jobs
  BY DEF Cycle, Handling
<1> QED
  BY <1>1, <1>2 DEF Journalled, agentVars

(* The agent's journal writes keep it true of what has run: the write of
   "executing" comes before the run, that of "executed" after it, and pruning
   forgets only jobs whose lease is over.                                   *)
LEMMA AgentKeepsJournal ==
    ASSUME TypeOK, Claims, Cycle, Journalled, AgentStep \/ Fault, UNCHANGED controlVars
    PROVE  Journalled'
<1> USE DEF TypeOK, ChannelTypeOK, ControlTypeOK, AgentTypeOK, channelVars, actionVars,
            controlVars, Journalled, Stop
<1>1. CASE BeginCycle
  BY <1>1 DEF BeginCycle
<1>2. CASE EndCycle
  BY <1>2 DEF EndCycle
<1>3. ASSUME NEW j \in pending, NEW p \in Payloads, Resend(j, p)
      PROVE  Journalled'
  <2>1. /\ j \in Jobs /\ p \in RecoveredResults(j)
        /\ journal[j].state \in EntryStates \ {"absent", "reported"}
    BY <1>3 DEF Resend, Cycle, Entries
  <2>2. journal[j].result \in {NoPayload, p}
    BY <2>1 DEF RecoveredResults, EntryStates
  <2> QED
    BY <1>3, <2>2 DEF Resend, Send
<1>4. ASSUME ResendAccepted \/ ResendRefused \/ ReportAccepted
      PROVE  Journalled'
  <2>1. /\ job \in Jobs /\ job[2] <= attempt[job[1]]
        /\ stage' \in {"recovering", "working"}
        /\ UNCHANGED <<attempt, lapsed, runs>>
    BY <1>4, JobShape DEF ResendAccepted, ResendRefused, NextEntry, ReportAccepted, Hear,
                          Cycle, Handling
  <2>2. ASSUME NEW i \in Jobs
        PROVE  /\ journal'[i].state # "absent" => i[2] <= attempt'[i[1]]
               /\ runs'[i] > 0 => i[2] <= attempt'[i[1]]
               /\ runs'[i] <= 1
               /\ journal'[i].state = "absent" /\ lapsed'[i[1]] < i[2] => runs'[i] = 0
               /\ journal'[i].state \in {"absent", "claimed", "executing"} =>
                     journal'[i].result = NoPayload
    <3>1. CASE journal'[i] = journal[i]
      BY <2>1, <3>1
    <3>2. CASE i = job /\ journal'[i] = Entry("reported", journal[i].result)
      BY <2>1, <3>2 DEF Entry
    <3>3. CASE journal'[i] = Entry("absent", NoPayload) /\ lapsed[i[1]] >= i[2]
      BY <2>1, <3>3, JobShape DEF Entry
    <3> HIDE DEF Journalled, TypeOK
    <3> QED
      BY <1>4, <2>1, <3>1, <3>2, <3>3, SettledShape
  <2> QED
    BY <2>1, <2>2
<1>5. CASE AbortCycle
  BY <1>5 DEF AbortCycle, Hear
<1>6. ASSUME NEW a \in offered, SendClaim(a)
      PROVE  Journalled'
  BY <1>6 DEF SendClaim, Send
<1>7. CASE SkipSeen
  BY <1>7 DEF SkipSeen, Hear
<1>8. CASE RecordClaimed
  <2>1. Claimed \in Jobs /\ Claimed[2] = attempt[Claimed[1]]
    <3>1. open \in Requests /\ open.action \in Actions /\ reply.kind = "ok"
          /\ open.type = "claim"
      BY <1>8, RequestShape, NoKind DEF RecordClaimed, Hear, Cycle
    <3> QED
      BY <3>1, JobShape DEF Claimed, Replies, Cycle
  <2> QED
    BY <1>8, <2>1, JobShape DEF RecordClaimed, Hear, Seen, Entry
<1>9. CASE RejectEnvelope
  BY <1>9, JobShape DEF RejectEnvelope, Cycle, Handling
<1>10. CASE MarkExecuting
  BY <1>10, JobShape DEF MarkExecuting, Unexpired, Cycle, Handling, Entries
<1>11. ASSUME NEW p \in ExecutedResults, Execute(p)
       PROVE  Journalled'
  BY <1>11, JobShape, PayloadShape DEF Execute, Cycle, Handling
<1>12. ASSUME NEW p \in Payloads, Decline(p)
       PROVE  Journalled'
  BY <1>12 DEF Decline
<1>13. CASE MarkExecuted
  BY <1>13, JobShape DEF MarkExecuted, Cycle, Handling, Entry
<1>14. CASE SendReport
  BY <1>14 DEF SendReport, Send
<1>15. CASE Crash
  BY <1>15 DEF Crash
<1>16. ASSUME NEW lost \in BOOLEAN, RequestFails(lost)
       PROVE  Journalled'
  BY <1>16 DEF RequestFails
<1> QED
  BY <1>1, <1>2, <1>3, <1>4, <1>5, <1>6, <1>7, <1>8, <1>9, <1>10, <1>11, <1>12,
     <1>13, <1>14, <1>15, <1>16 DEF AgentStep, Fault

(* Every step keeps Journalled.                                             *)
LEMMA JournalStep ==
    TypeOK /\ TypeOK' /\ Claims /\ Cycle /\ Journalled /\ [Next]_vars => Journalled'
<1> SUFFICES ASSUME TypeOK, TypeOK', Claims, Cycle, Journalled, [Next]_vars
             PROVE  Journalled'
  OBVIOUS
<1>1. CASE PollStep
  BY <1>1 DEF PollStep, Poll, Journalled, channelVars, controlVars, actionVars
<1>2. CASE UNCHANGED vars
  BY <1>2 DEF Journalled, vars, channelVars, controlVars, actionVars, agentVars
<1> QED
  BY <1>1, <1>2, ControlKeepsJournal, AgentKeepsJournal
     DEF Next, ControlPlaneStep, EndpointAgentStep


-----------------------------------------------------------------------------

-----------------------------------------------------------------------------
(* Where results come from.                                                *)

(* There is no payload at the start.                                        *)
THEOREM ProvenanceInit == Init => Provenance
BY DEF Init, ChannelInit, ControlInit, AgentInit, Provenance, RanSuccessfully,
       Entry, NoPayload, Result

(* report_job_result records the payload it was sent, of the job it was sent
   for.                                                                     *)
LEMMA ControlKeepsProvenance ==
    ASSUME TypeOK, Claims, Provenance, ControlNext, UNCHANGED agentVars
    PROVE  Provenance'
<1> USE DEF channelVars, actionVars, recordVars, handlerVars, controlVars, agentVars,
            RanSuccessfully, Provenance
<1>1. ASSUME calls' \cup reporting' \subseteq calls \cup reporting,
             UNCHANGED results
      PROVE  Provenance'
  BY <1>1
<1>2. ASSUME NEW a \in Actions, NEW u \in Users, NEW v \in Gates, CreateAction(a, u, v)
      PROVE  Provenance'
  BY <1>1, <1>2 DEF CreateAction
<1>3. CASE Decide
  BY <1>1, <1>3 DEF Decide, BeginDecision, CommitDecision
<1>4. ASSUME NEW r \in calls \cup reporting, Serve(r)
      PROVE  Provenance'
  <2>1. CASE CommitReport(r)
    BY <2>1 DEF CommitReport, Claims
  <2> QED
    BY <1>1, <1>4, <2>1 DEF Serve, ReplayClaim, GrantClaim, RefuseClaim, ReplayReport,
       CheckReport, RefuseReport, AbortReport, Received
<1>5. ASSUME NEW a \in Actions, Lapse(a) \/ Reap(a) \/ PurgeClaimRecord(a)
      PROVE  Provenance'
  BY <1>1, <1>5 DEF Lapse, Reap, PurgeClaimRecord
<1>6. ASSUME NEW j \in Jobs, PurgeResultRecord(j)
      PROVE  Provenance'
  BY <1>1, <1>6 DEF PurgeResultRecord
<1> QED
  BY <1>2, <1>3, <1>4, <1>5, <1>6 DEF ControlNext

(* The agent sends the executor's success only of a job it has run, from
   memory or from the journal.                                              *)
LEMMA AgentKeepsProvenance ==
    ASSUME TypeOK, Cycle, Journalled, Provenance, AgentStep \/ Fault,
           UNCHANGED controlVars
    PROVE  Provenance'
<1> USE DEF TypeOK, ChannelTypeOK, AgentTypeOK, channelVars, handlerVars, controlVars,
            RanSuccessfully, Provenance, Stop
<1>1. CASE BeginCycle
  BY <1>1 DEF BeginCycle
<1>2. CASE EndCycle
  BY <1>2 DEF EndCycle
<1>3. ASSUME NEW j \in pending, NEW p \in Payloads, Resend(j, p)
      PROVE  Provenance'
  <2>1. j \in Jobs /\ RanSuccessfully(j, p)
    BY <1>3 DEF Resend, RecoveredResults, ObservedResults, Result
  <2> QED
    BY <1>3, <2>1, ReportKind DEF Resend, Send
<1>4. ASSUME ResendAccepted \/ ResendRefused \/ ReportAccepted
      PROVE  Provenance'
  <2>1. /\ job \in Jobs
        /\ stage' \in {"recovering", "working"}
        /\ UNCHANGED <<runs, calls, reporting, results>>
    BY <1>4 DEF ResendAccepted, ResendRefused, NextEntry, ReportAccepted, Hear, Cycle,
                Handling
  <2>2. ASSUME NEW i \in Jobs
        PROVE  RanSuccessfully(i, journal'[i].result)
    <3>1. \/ journal'[i] = journal[i]
          \/ journal'[i] = Entry("reported", journal[i].result)
          \/ journal'[i] = Entry("absent", NoPayload)
      <4> HIDE DEF TypeOK, Provenance
      <4> QED
        BY <1>4, <2>1, SettledShape
    <3>2. journal'[i].result \in {journal[i].result, NoPayload}
      BY <3>1 DEF Entry
    <3> QED
      BY <3>2, <2>1 DEF NoPayload, Result
  <2> QED
    BY <2>1, <2>2
<1>5. CASE AbortCycle
  BY <1>5 DEF AbortCycle, Hear
<1>6. ASSUME NEW a \in offered, SendClaim(a)
      PROVE  Provenance'
  BY <1>6, ClaimKind DEF SendClaim, Send
<1>7. CASE SkipSeen
  BY <1>7 DEF SkipSeen, Hear
<1>8. CASE RecordClaimed
  BY <1>8 DEF RecordClaimed, Hear, Entry, NoPayload, Result
<1>9. CASE RejectEnvelope
  BY <1>9 DEF RejectEnvelope, Rejected, Result
<1>10. CASE MarkExecuting
  BY <1>10 DEF MarkExecuting, Entries
<1>11. ASSUME NEW p \in ExecutedResults, Execute(p)
       PROVE  Provenance'
  <2>1. job \in Jobs /\ runs[job] = 0 /\ runs' = [runs EXCEPT ![job] = 1]
    BY <1>11 DEF Execute, Cycle, Handling, Journalled
  <2>2. \A j \in Jobs : runs[j] = 1 => runs'[j] = 1
    BY <2>1
  <2>3. \A r \in calls \cup reporting : r.type = "report" => JobOf(r) \in Jobs
    BY RequestShape DEF ControlTypeOK
  <2>4. \A row \in results : row.job \in Jobs
    BY DEF ControlTypeOK, ResultRows
  <2> QED
    BY <1>11, <2>1, <2>2, <2>3, <2>4 DEF Execute
<1>12. ASSUME NEW p \in Payloads, Decline(p)
       PROVE  Provenance'
  BY <1>12 DEF Decline, Declined, Rejected, Result
<1>13. CASE MarkExecuted
  BY <1>13 DEF MarkExecuted, Entry
<1>14. CASE SendReport
  BY <1>14, ReportKind DEF SendReport, Send, Cycle, Handling
<1>15. CASE Crash
  BY <1>15 DEF Crash
<1>16. ASSUME NEW lost \in BOOLEAN, RequestFails(lost)
       PROVE  Provenance'
  BY <1>16 DEF RequestFails
<1> QED
  BY <1>1, <1>2, <1>3, <1>4, <1>5, <1>6, <1>7, <1>8, <1>9, <1>10, <1>11, <1>12,
     <1>13, <1>14, <1>15, <1>16 DEF AgentStep, Fault

(* Every step keeps Provenance.                                             *)
LEMMA ProvenanceStep ==
    TypeOK /\ Claims /\ Cycle /\ Journalled /\ Provenance /\ [Next]_vars => Provenance'
<1> SUFFICES ASSUME TypeOK, Claims, Cycle, Journalled, Provenance, [Next]_vars
             PROVE  Provenance'
  OBVIOUS
<1>1. CASE PollStep
  BY <1>1 DEF PollStep, Poll, Provenance, RanSuccessfully, channelVars, controlVars,
              handlerVars
<1>2. CASE UNCHANGED vars
  BY <1>2 DEF Provenance, RanSuccessfully, vars, channelVars, controlVars, handlerVars,
              agentVars
<1> QED
  BY <1>1, <1>2, ControlKeepsProvenance, AgentKeepsProvenance
     DEF Next, ControlPlaneStep, EndpointAgentStep

-----------------------------------------------------------------------------
(* Rows, records and what the agent hears.                                 *)

(* There is no record, row or acknowledgement at the start.                 *)
THEOREM RecordedInit == Init => Recorded
BY NoKind DEF Init, ChannelInit, ControlInit, AgentInit, Recorded, OneResultPerAttempt,
              Entry

(* The parts of Recorded about rows and records alone.                     *)
RowsHeld ==
    /\ \A j \in Jobs : resultRecord[j] # NoPayload => RowOf(j, resultRecord[j]) \in results
    /\ \A row \in results :
          \/ resultRecord[row.job] # NoPayload
          \/ /\ lapsed[row.job[1]] >= row.job[2]
             /\ \A r \in reporting : JobOf(r) # row.job
    /\ OneResultPerAttempt

(* The parts of Recorded about the agent.                                  *)
AgentInformed ==
    /\ \A j \in Jobs :
          journal[j].state = "reported" =>
             \E row \in results :
                row.job = j /\ journal[j].result \in {NoPayload, row.payload}
    /\ open.type = "report" /\ reply.kind = "ok" =>
          RowOf(JobOf(open), open.payload) \in results

(* Recorded in the two halves that are proved apart: what the control plane
   keeps, and what the agent has been told.                                 *)
LEMMA RecordedParts == Recorded <=> RowsHeld /\ AgentInformed
BY DEF Recorded, RowsHeld, AgentInformed

(* report_job_result adds a row and its idempotency record together, and the
   purge drops the record only when no report of the attempt is left.       *)
LEMMA ControlKeepsRows ==
    ASSUME TypeOK, Claims, Recorded, ControlNext
    PROVE  RowsHeld'
<1> USE DEF TypeOK, ChannelTypeOK, ControlTypeOK, channelVars, actionVars, recordVars,
            handlerVars, controlVars, OneResultPerAttempt
<1> RowsHeld
  BY RecordedParts
<1>1. ASSUME UNCHANGED <<resultRecord, results>>, reporting' \subseteq reporting,
             \A a \in Actions : lapsed[a] <= lapsed'[a] /\ lapsed'[a] \in Nat
      PROVE  RowsHeld'
  <2>1. \A row \in results : row.job[1] \in Actions /\ row.job[2] \in Nat
    BY JobShape DEF ResultRows
  <2> QED
    BY <1>1, <2>1, JobShape DEF RowsHeld
<1>2. ASSUME NEW a \in Actions
      PROVE  lapsed[a] <= lapsed'[a] /\ lapsed'[a] \in Nat
  <2>1. lapsed[a] <= lapsed'[a]
    BY ControlGoesForward
  <2>2. lapsed'[a] \in {lapsed[a], attempt[a]}
    BY DEF ControlNext, CreateAction, Decide, BeginDecision, CommitDecision, Serve,
       ReplayClaim, GrantClaim, RefuseClaim, ReplayReport, CheckReport, RefuseReport,
       CommitReport, AbortReport, Lapse, Reap, PurgeClaimRecord, PurgeResultRecord
  <2> QED
    BY <2>1, <2>2, JobShape
<1>3. ASSUME NEW a \in Actions, NEW u \in Users, NEW v \in Gates, CreateAction(a, u, v)
      PROVE  RowsHeld'
  BY <1>1, <1>2, <1>3 DEF CreateAction
<1>4. CASE Decide
  BY <1>1, <1>2, <1>4 DEF Decide, BeginDecision, CommitDecision
<1>5. ASSUME NEW r \in calls \cup reporting, Serve(r)
      PROVE  RowsHeld'
  <2>1. CASE CheckReport(r)
    <3>1. r.action \in Actions /\ r.attempt \in Attempts /\ JobOf(r) \in Jobs
      BY <2>1, RequestShape DEF CheckReport, Received
    <3>2. \A row \in results : row.job # JobOf(r)
      <4>1. lapsed[r.action] < r.attempt
        BY <2>1, <3>1, JobShape DEF CheckReport, ClaimHolds, Claims
      <4>2. resultRecord[JobOf(r)] = NoPayload
        BY <2>1 DEF CheckReport, Answered
      <4>3. ~(lapsed[JobOf(r)[1]] >= JobOf(r)[2])
        BY <3>1, <4>1, JobShape DEF JobOf
      <4> QED
        BY <4>2, <4>3 DEF RowsHeld
    <3> QED
      BY <2>1, <3>2 DEF CheckReport, RowsHeld
  <2>2. CASE CommitReport(r)
    <3>1. JobOf(r) \in Jobs /\ r.payload \in Payloads /\ r \in reporting
      BY <2>2, RequestShape DEF CommitReport, Claims
    <3>2. \A row \in results : row.job # JobOf(r)
      BY <2>2, <3>1 DEF CommitReport, RowsHeld, Answered
    <3>3. /\ results' = results \cup {RowOf(JobOf(r), r.payload)}
          /\ resultRecord' = [resultRecord EXCEPT ![JobOf(r)] = r.payload]
          /\ reporting' = reporting \ {r}
          /\ lapsed' = lapsed
      BY <2>2 DEF CommitReport, RowOf
    <3>4. r.payload # NoPayload
      BY <3>1, PayloadShape
    <3>5. OneResultPerAttempt'
      BY <3>2, <3>3 DEF RowOf, RowsHeld
    <3>6. \A j \in Jobs :
             resultRecord'[j] # NoPayload => RowOf(j, resultRecord'[j]) \in results'
      BY <3>1, <3>3 DEF RowsHeld
    <3>7. \A row \in results' :
             \/ resultRecord'[row.job] # NoPayload
             \/ /\ lapsed'[row.job[1]] >= row.job[2]
                /\ \A q \in reporting' : JobOf(q) # row.job
      BY <3>1, <3>3, <3>4 DEF RowsHeld, RowOf, ResultRows
    <3> QED
      BY <3>5, <3>6, <3>7 DEF RowsHeld
  <2> QED
    BY <1>1, <1>2, <1>5, <2>1, <2>2
       DEF Serve, ReplayClaim, GrantClaim, RefuseClaim, ReplayReport, RefuseReport,
           AbortReport, Received
<1>6. ASSUME NEW a \in Actions, Lapse(a) \/ Reap(a) \/ PurgeClaimRecord(a)
      PROVE  RowsHeld'
  BY <1>1, <1>2, <1>6 DEF Lapse, Reap, PurgeClaimRecord
<1>7. ASSUME NEW j \in Jobs, PurgeResultRecord(j)
      PROVE  RowsHeld'
  <2>1. \A r \in reporting : JobOf(r) # j
    BY <1>7 DEF PurgeResultRecord, Quiet, JobOf
  <2> QED
    BY <1>7, <2>1 DEF PurgeResultRecord, RowsHeld, ResultRows
<1> QED
  BY <1>3, <1>4, <1>5, <1>6, <1>7 DEF ControlNext

(* The control plane answers "ok" to a report only if the row holds its very
   payload, now or from its idempotency record; rows are never removed.     *)
LEMMA ControlKeepsInformed ==
    ASSUME TypeOK, Claims, Recorded, ControlNext, UNCHANGED agentVars
    PROVE  AgentInformed'
<1> USE DEF channelVars, actionVars, recordVars, handlerVars, controlVars, agentVars
<1> AgentInformed /\ RowsHeld
  BY RecordedParts
<1>1. ASSUME results \subseteq results', open' = open,
             \/ reply' = reply
             \/ open.type # "report"
             \/ reply'.kind # "ok"
             \/ RowOf(JobOf(open), open.payload) \in results'
      PROVE  AgentInformed'
  BY <1>1 DEF AgentInformed, JobOf
<1>2. ASSUME NEW a \in Actions, NEW u \in Users, NEW v \in Gates, CreateAction(a, u, v)
      PROVE  AgentInformed'
  BY <1>1, <1>2 DEF CreateAction
<1>3. CASE Decide
  BY <1>1, <1>3 DEF Decide, BeginDecision, CommitDecision
<1>4. ASSUME NEW r \in calls \cup reporting, Serve(r)
      PROVE  AgentInformed'
  <2>1. CASE ReplayClaim(r) \/ GrantClaim(r)
    BY <1>1, <2>1 DEF ReplayClaim, GrantClaim, Received, Answer
  <2>2. Reply("error", 0).kind # "ok"
    BY ReplyShape, JobShape
  <2>3. CASE RefuseClaim(r) \/ RefuseReport(r) \/ AbortReport(r)
    BY <1>1, <2>2, <2>3 DEF RefuseClaim, RefuseReport, AbortReport, Answer
  <2>4. CASE CheckReport(r)
    BY <1>1, <2>4 DEF CheckReport
  <2>5. CASE ReplayReport(r)
    <3>1. JobOf(r) \in Jobs /\ resultRecord[JobOf(r)] # NoPayload
      BY <2>5, RequestShape
         DEF ReplayReport, Received, Answered, TypeOK, ChannelTypeOK
    <3>2. RowOf(JobOf(r), resultRecord[JobOf(r)]) \in results
      BY <3>1 DEF RowsHeld
    <3>3. CASE resultRecord[JobOf(r)] = r.payload
      BY <1>1, <2>5, <3>2, <3>3 DEF ReplayReport, Answer
    <3>4. CASE resultRecord[JobOf(r)] # r.payload
      BY <1>1, <2>2, <2>5, <3>4 DEF ReplayReport, Answer
    <3> QED
      BY <3>3, <3>4
  <2>6. CASE CommitReport(r)
    BY <1>1, <2>6 DEF CommitReport, Answer, RowOf
  <2> QED
    BY <1>4, <2>1, <2>3, <2>4, <2>5, <2>6 DEF Serve
<1>5. ASSUME NEW a \in Actions, Lapse(a) \/ Reap(a) \/ PurgeClaimRecord(a)
      PROVE  AgentInformed'
  BY <1>1, <1>5 DEF Lapse, Reap, PurgeClaimRecord
<1>6. ASSUME NEW j \in Jobs, PurgeResultRecord(j)
      PROVE  AgentInformed'
  BY <1>1, <1>6 DEF PurgeResultRecord
<1> QED
  BY <1>2, <1>3, <1>4, <1>5, <1>6 DEF ControlNext

(* The agent marks an entry reported only on the acknowledgement of the
   result it sent for that entry.                                           *)
LEMMA AgentKeepsRecorded ==
    ASSUME TypeOK, Cycle, Journalled, Recorded, AgentStep \/ Fault,
           UNCHANGED controlVars
    PROVE  Recorded'
<1> USE DEF handlerVars, recordVars, controlVars, channelVars
<1>1. RowsHeld'
  <2>1. lapsed' = lapsed
    BY DEF AgentStep, Fault, BeginCycle, EndCycle, Resend, ResendAccepted, ResendRefused,
       SendClaim, SkipSeen, RecordClaimed, RejectEnvelope, MarkExecuting, Execute,
       Decline, MarkExecuted, SendReport, ReportAccepted, AbortCycle, Crash, RequestFails
  <2> QED
    BY <2>1, RecordedParts DEF RowsHeld, OneResultPerAttempt, JobOf
<1>2. AgentInformed
  BY RecordedParts
<1>3. ASSUME \A j \in Jobs : journal'[j].state = "reported" => journal'[j] = journal[j],
             \/ UNCHANGED <<open, reply>>
             \/ reply' = NoReply
      PROVE  AgentInformed'
  BY <1>2, <1>3, ReplyShape DEF AgentInformed, JobOf
<1>4. ASSUME ResendAccepted \/ ResendRefused \/ ReportAccepted
      PROVE  AgentInformed'
  <2>1. /\ job \in Jobs /\ outcome \in Payloads /\ reply' = NoReply
        /\ open = ReportRequest(job, outcome)
        /\ journal[job].result \in {NoPayload, outcome}
    BY <1>4 DEF ResendAccepted, ResendRefused, ReportAccepted, Hear, Cycle, Handling,
                Journalled
  <2>2. reply.kind = "ok" => RowOf(job, outcome) \in results
    BY <1>2, <2>1, ReportKind DEF AgentInformed
  <2>3. ASSUME NEW i \in Jobs, journal'[i].state = "reported"
        PROVE  \E row \in results :
                  row.job = i /\ journal'[i].result \in {NoPayload, row.payload}
    <3>1. \/ journal'[i] = journal[i]
          \/ /\ i = job /\ reply.kind = "ok"
             /\ journal'[i] = Entry("reported", journal[i].result)
          \/ journal'[i] = Entry("absent", NoPayload)
      BY <1>4, <2>1, SettledShape
    <3>2. CASE /\ i = job /\ reply.kind = "ok"
               /\ journal'[i] = Entry("reported", journal[i].result)
      BY <2>1, <2>2, <3>2 DEF Entry, RowOf
    <3> QED
      BY <1>2, <2>3, <3>1, <3>2 DEF AgentInformed, Entry
  <2> QED
    BY <2>1, <2>3, ReplyShape DEF AgentInformed
<1>5. ASSUME NEW a \in offered, SendClaim(a)
      PROVE  AgentInformed'
  BY <1>3, <1>5 DEF SendClaim, Send
<1>6. ASSUME NEW j \in pending, NEW p \in Payloads, Resend(j, p)
      PROVE  AgentInformed'
  BY <1>3, <1>6 DEF Resend, Send
<1>7. ASSUME RecordClaimed \/ MarkExecuting \/ MarkExecuted
      PROVE  AgentInformed'
  <2>1. journal \in [Jobs -> Entries]
    BY DEF TypeOK, AgentTypeOK
  <2>2. UNCHANGED <<open, reply>> \/ reply' = NoReply
    BY <1>7 DEF RecordClaimed, MarkExecuting, MarkExecuted, Hear
  <2>3. ASSUME NEW j \in Jobs, journal'[j].state = "reported"
        PROVE  journal'[j] = journal[j]
    BY <1>7, <2>1, <2>3 DEF RecordClaimed, MarkExecuting, MarkExecuted, Entry, Entries
  <2> QED
    BY <1>3, <2>2, <2>3
<1>8. ASSUME UNCHANGED journal, UNCHANGED <<open, reply>> \/ reply' = NoReply
      PROVE  AgentInformed'
  BY <1>3, <1>8
<1>9. ASSUME \/ BeginCycle \/ EndCycle \/ SkipSeen \/ RejectEnvelope
             \/ (\E p \in ExecutedResults : Execute(p))
             \/ (\E p \in Payloads : Decline(p))
             \/ SendReport \/ AbortCycle \/ Fault
      PROVE  AgentInformed'
  BY <1>8, <1>9 DEF BeginCycle, EndCycle, SkipSeen, RejectEnvelope,
     Execute, Decline, SendReport, Send, AbortCycle, Fault, Crash, RequestFails, Hear
<1> QED
  BY <1>1, <1>4, <1>5, <1>6, <1>7, <1>9 DEF AgentStep, Recorded, RowsHeld, AgentInformed

(* Every step keeps Recorded.                                               *)
LEMMA RecordedStep ==
    TypeOK /\ Claims /\ Cycle /\ Journalled /\ Recorded /\ [Next]_vars => Recorded'
<1> SUFFICES ASSUME TypeOK, Claims, Cycle, Journalled, Recorded, [Next]_vars
             PROVE  Recorded'
  OBVIOUS
<1>1. CASE PollStep \/ UNCHANGED vars
  BY <1>1 DEF PollStep, Poll, Recorded, OneResultPerAttempt, JobOf, vars, channelVars,
              controlVars, handlerVars, recordVars, agentVars
<1>2. ASSUME ControlNext, UNCHANGED agentVars
      PROVE  Recorded'
  <2>1. RowsHeld' /\ AgentInformed'
    BY <1>2, ControlKeepsRows, ControlKeepsInformed
  <2> QED
    BY <2>1 DEF Recorded, RowsHeld, AgentInformed
<1> QED
  BY <1>1, <1>2, AgentKeepsRecorded DEF Next, ControlPlaneStep, EndpointAgentStep

-----------------------------------------------------------------------------
(* Escalation.                                                             *)

(* Every write of a failed status, in report_job_result and in LeaseReaper,
   comes with its escalation event.                                         *)
LEMMA EscalationStep ==
    TypeOK /\ Claims /\ FailuresEscalate /\ [Next]_vars => FailuresEscalate'
<1> SUFFICES ASSUME TypeOK, Claims, FailuresEscalate, [Next]_vars
             PROVE  FailuresEscalate'
  OBVIOUS
<1> USE DEF TypeOK, ControlTypeOK, ChannelTypeOK, FailuresEscalate, vars, channelVars,
            controlVars, actionVars, recordVars, handlerVars
<1>1. ASSUME escalated \subseteq escalated',
             \A a \in Actions : status'[a] = status[a]
                                   \/ status'[a] \notin {"failed", "rollback_failed"}
                                   \/ a \in escalated'
      PROVE  FailuresEscalate'
  BY <1>1
<1>2. CASE EndpointAgentStep \/ PollStep \/ UNCHANGED vars
  BY <1>2, AgentLeavesControl
<1>3. ASSUME NEW a \in Actions, NEW u \in Users, NEW v \in Gates, CreateAction(a, u, v)
      PROVE  FailuresEscalate'
  BY <1>1, <1>3, ControlPlaneAssumption DEF CreateAction, StatusUnder
<1>4. CASE Decide
  BY <1>1, <1>4 DEF Decide, BeginDecision, CommitDecision, DecidedStatus
<1>5. ASSUME NEW r \in calls \cup reporting, Serve(r)
      PROVE  FailuresEscalate'
  BY <1>1, <1>5 DEF Serve, ReplayClaim, GrantClaim, RefuseClaim, ReplayReport, CheckReport,
     RefuseReport, CommitReport, AbortReport, NeedsHuman
<1>6. ASSUME NEW a \in Actions, Lapse(a) \/ Reap(a) \/ PurgeClaimRecord(a)
      PROVE  FailuresEscalate'
  BY <1>1, <1>6 DEF Lapse, Reap, PurgeClaimRecord
<1>7. ASSUME NEW j \in Jobs, PurgeResultRecord(j)
      PROVE  FailuresEscalate'
  BY <1>1, <1>7 DEF PurgeResultRecord
<1> QED
  BY <1>2, <1>3, <1>4, <1>5, <1>6, <1>7 DEF Next, ControlPlaneStep, ControlNext

-----------------------------------------------------------------------------
(* The theorems.                                                           *)

(* Everything the parts say holds in every state: the records of claims,   *)
(* decisions and reports, the messages and the journal fit together.       *)
THEOREM AlwaysAgree == Spec => []RecordsAgree
<1>1. Init => RecordsAgree
  <2>1. Init => FailuresEscalate
    BY DEF Init, ControlInit, FailuresEscalate
  <2> QED
    BY <2>1, TypeInit, ClaimsInit, ClearanceInit, CycleInit, JournalInit, ProvenanceInit,
       RecordedInit DEF RecordsAgree
<1>2. RecordsAgree /\ [Next]_vars => RecordsAgree'
  BY TypeStep, ClaimsStep, ClearanceStep, CycleStep, JournalStep, ProvenanceStep,
     RecordedStep, EscalationStep DEF RecordsAgree
<1> QED
  BY <1>1, <1>2, PTL DEF Spec

(* Every variable keeps its type.                                          *)
THEOREM TypeCorrect == Spec => []TypeOK
<1>1. RecordsAgree => TypeOK
  BY DEF RecordsAgree
<1> QED
  BY <1>1, AlwaysAgree, PTL

(* Nothing runs on the endpoint that policy or a second person has not     *)
(* cleared.                                                                *)
THEOREM OnlyAuthorizedRuns == Spec => []AuthorizedExecution
<1>1. RecordsAgree => AuthorizedExecution
  BY JobShape DEF RecordsAgree, TypeOK, ControlTypeOK, AgentTypeOK, Journalled, Clearance,
                  AuthorizedExecution
<1> QED
  BY <1>1, AlwaysAgree, PTL

(* A claim attempt runs at most once, crashes and lost replies included.   *)
THEOREM NoAttemptRunsTwice == Spec => []NoReexecution
<1>1. RecordsAgree => NoReexecution
  BY DEF RecordsAgree, Journalled, NoReexecution
<1> QED
  BY <1>1, AlwaysAgree, PTL

(* No action is queued with its attempts used up, but for one that a late  *)
(* second approval has queued again after its only attempt.                *)
THEOREM RetriesAreBounded == Spec => []RetryBudget
<1>1. RecordsAgree => RetryBudget
  BY AttemptShape DEF RecordsAgree, Claims, RetryBudget, TypeOK, ControlTypeOK
<1> QED
  BY <1>1, AlwaysAgree, PTL

(* One result row per claim attempt.                                       *)
THEOREM ResultsAreUnique == Spec => []OneResultPerAttempt
<1>1. RecordsAgree => OneResultPerAttempt
  BY DEF RecordsAgree, Recorded
<1> QED
  BY <1>1, AlwaysAgree, PTL

(* A recorded success of the executor is one.                              *)
THEOREM SuccessIsReal == Spec => []ReportedSuccessRan
<1>1. RecordsAgree => ReportedSuccessRan
  BY DEF RecordsAgree, Provenance, RanSuccessfully, ReportedSuccessRan
<1> QED
  BY <1>1, AlwaysAgree, PTL

(* What the journal calls reported is on record.                           *)
THEOREM NoReportIsLost == Spec => []ReportedIsRecorded
<1>1. RecordsAgree => ReportedIsRecorded
  BY DEF RecordsAgree, Recorded, ReportedIsRecorded
<1> QED
  BY <1>1, AlwaysAgree, PTL

(* A failed action has been escalated.                                     *)
THEOREM FailuresAreSeen == Spec => []FailuresEscalate
<1>1. RecordsAgree => FailuresEscalate
  BY DEF RecordsAgree
<1> QED
  BY <1>1, AlwaysAgree, PTL

(* The agent enters the executor once a job, under a running lease, for    *)
(* the newest claim.                                                       *)
THEOREM ExecutorEntry == Spec => EntersExecutorOnce
<1> DEFINE Entering == /\ job'[2] = attempt[job'[1]]
                       /\ lapsed[job'[1]] < job'[2]
                       /\ runs[job'] = 0
<1>1. ASSUME RecordsAgree, [Next]_vars, stage # "executing", stage' = "executing"
      PROVE  Entering
  <2>1. MarkExecuting
    <3>1. ~ControlPlaneStep /\ ~PollStep /\ ~UNCHANGED vars
      BY <1>1 DEF ControlPlaneStep, PollStep, Poll, vars, agentVars
    <3>2. AgentStep \/ Fault
      BY <1>1, <3>1 DEF Next, EndpointAgentStep
    <3> QED
      BY <1>1, <3>2 DEF AgentStep, Fault, BeginCycle, EndCycle, Resend, ResendAccepted,
         ResendRefused, NextEntry, SendClaim, SkipSeen, RecordClaimed, RejectEnvelope, Execute,
         Decline, MarkExecuted, SendReport, ReportAccepted, AbortCycle, Crash,
         RequestFails, Stop
  <2>2. job' = job /\ stage = "recorded" /\ lapsed[job[1]] < job[2]
    BY <2>1 DEF MarkExecuting, Unexpired
  <2> QED
    BY <1>1, <2>2 DEF RecordsAgree, Cycle, Handling, Journalled
<1>2. RecordsAgree /\ [Next]_vars =>
         [stage # "executing" /\ stage' = "executing" => Entering]_vars
  BY <1>1
<1> QED
  BY <1>2, AlwaysAgree, PTL DEF Spec, EntersExecutorOnce

-----------------------------------------------------------------------------
(* The promise.                                                            *)

ClearedActions == {a \in Actions : Cleared(a)}
RecordedJobs == {row.job : row \in results}

(* A step of the control plane clears an action, grants one, records a     *)
(* result, or is none of the promise's business.                           *)
LEMMA ControlKeepsPromise ==
    ASSUME RecordsAgree, ControlNext, UNCHANGED agentVars
    PROVE  \/ \E a \in Actions : Promise!Clear(a) \/ Promise!Grant(a) \/ Promise!Record(a)
           \/ UNCHANGED Promise!promiseVars
<1> USE DEF channelVars, actionVars, recordVars, handlerVars, controlVars, agentVars
<1> /\ TypeOK /\ Claims /\ Clearance /\ Recorded
  BY DEF RecordsAgree
<1> USE DEF TypeOK, ControlTypeOK, ChannelTypeOK
<1>1. ASSUME UNCHANGED <<gate, requester, approvals, attempt, results>>
      PROVE  UNCHANGED Promise!promiseVars
  BY <1>1 DEF Promise!promiseVars, Cleared
<1>2. ASSUME NEW a \in Actions, UNCHANGED <<attempt, results>>,
             \A b \in Actions \ {a} : Cleared(b)' <=> Cleared(b),
             Cleared(a) => Cleared(a)'
      PROVE  Promise!Clear(a) \/ UNCHANGED Promise!promiseVars
  <2>1. ClearedActions' = IF Cleared(a)' THEN ClearedActions \cup {a} ELSE ClearedActions
    BY <1>2 DEF ClearedActions
  <2> QED
    BY <1>2, <2>1 DEF ClearedActions, Promise!Clear, Promise!promiseVars
<1>3. ASSUME NEW a \in Actions, NEW u \in Users, NEW v \in Gates, CreateAction(a, u, v)
      PROVE  Promise!Clear(a) \/ UNCHANGED Promise!promiseVars
  <2>1. \A b \in Actions \ {a} : Cleared(b)' <=> Cleared(b)
    BY <1>3 DEF CreateAction, Cleared
  <2>2. ~Cleared(a)
    BY <1>3 DEF CreateAction, Clearance, Cleared
  <2> QED
    BY <1>2, <1>3, <2>1, <2>2 DEF CreateAction
<1>4. ASSUME NEW d \in deciding, NEW allowed \in BOOLEAN, CommitDecision(d, allowed)
      PROVE  Promise!Clear(d.action) \/ UNCHANGED Promise!promiseVars
  <2>1. d \in Decisions /\ d.action \in Actions
    BY <1>4 DEF Decisions
  <2>2. \A b \in Actions \ {d.action} : Cleared(b)' <=> Cleared(b)
    <3>1. ASSUME NEW b \in Actions \ {d.action}, NEW u
          PROVE  LET approval == [action |-> b, actor |-> u, verdict |-> "approve"]
                 IN  approval \in approvals' <=> approval \in approvals
      BY <1>4, <2>1 DEF CommitDecision
    <3> QED
      BY <1>4, <3>1 DEF CommitDecision, Cleared
  <2>3. Cleared(d.action) => Cleared(d.action)'
    BY <1>4, <2>1 DEF CommitDecision, Cleared
  <2> QED
    BY <1>2, <1>4, <2>1, <2>2, <2>3 DEF CommitDecision
<1>5. CASE Decide
  BY <1>1, <1>4, <1>5 DEF Decide, BeginDecision, Decisions
<1>6. ASSUME NEW r \in calls \cup reporting, Serve(r)
      PROVE  \/ \E a \in Actions : Promise!Grant(a) \/ Promise!Record(a)
             \/ UNCHANGED Promise!promiseVars
  <2>1. CASE GrantClaim(r)
    <3>1. r.action \in Actions /\ Cleared(r.action) /\ attempt[r.action] < LastAttempt
      BY <2>1, RequestShape DEF GrantClaim, Received, Clearance, Claims
    <3>2. /\ attempt' = [attempt EXCEPT ![r.action] = @ + 1]
          /\ ClearedActions' = ClearedActions
          /\ UNCHANGED <<runs, results>>
      BY <2>1 DEF GrantClaim, ClearedActions, Cleared
    <3> QED
      BY <3>1, <3>2 DEF Promise!Grant, ClearedActions
  <2>2. CASE CommitReport(r)
    <3>1. /\ r.action \in Actions /\ attempt[r.action] > 0
          /\ JobOf(r) = <<r.action, attempt[r.action]>>
      BY <2>2, RequestShape, JobShape DEF CommitReport, Claims, JobOf
    <3>2. JobOf(r) \notin RecordedJobs
      BY <2>2 DEF CommitReport, Recorded, Answered, RecordedJobs
    <3>3. /\ RecordedJobs' = RecordedJobs \cup {JobOf(r)}
          /\ ClearedActions' = ClearedActions
          /\ UNCHANGED <<runs, attempt>>
      <4>1. results' = results \cup {RowOf(JobOf(r), r.payload)}
        BY <2>2 DEF CommitReport, RowOf
      <4>2. RecordedJobs' = RecordedJobs \cup {JobOf(r)}
        <5>1. RowOf(JobOf(r), r.payload).job = JobOf(r)
          BY DEF RowOf
        <5>2. ASSUME NEW j
              PROVE  j \in RecordedJobs' <=> j \in RecordedJobs \/ j = JobOf(r)
          BY <4>1, <5>1 DEF RecordedJobs
        <5> QED
          BY <5>2
      <4> QED
        BY <2>2, <4>2 DEF CommitReport, ClearedActions, Cleared
    <3> QED
      BY <3>1, <3>2, <3>3 DEF Promise!Record, ClearedActions, RecordedJobs
  <2> QED
    BY <1>1, <1>6, <2>1, <2>2 DEF Serve, ReplayClaim, RefuseClaim, ReplayReport, CheckReport,
       RefuseReport, AbortReport
<1>7. ASSUME NEW a \in Actions, Lapse(a) \/ Reap(a) \/ PurgeClaimRecord(a)
      PROVE  UNCHANGED Promise!promiseVars
  BY <1>1, <1>7 DEF Lapse, Reap, PurgeClaimRecord
<1>8. ASSUME NEW j \in Jobs, PurgeResultRecord(j)
      PROVE  UNCHANGED Promise!promiseVars
  BY <1>1, <1>8 DEF PurgeResultRecord
<1> QED
  BY <1>3, <1>5, <1>6, <1>7, <1>8 DEF ControlNext

(* A step of the agent changes the endpoint as the promise allows, or is   *)
(* none of its business.                                                   *)
LEMMA AgentKeepsPromise ==
    ASSUME RecordsAgree, AgentStep \/ Fault, UNCHANGED controlVars
    PROVE  (\E a \in Actions : Promise!Run(a)) \/ UNCHANGED Promise!promiseVars
<1> USE DEF controlVars, actionVars, handlerVars
<1>1. UNCHANGED <<gate, requester, approvals, attempt, results>>
  OBVIOUS
<1>2. ClearedActions' = ClearedActions /\ RecordedJobs' = RecordedJobs
  BY <1>1 DEF ClearedActions, RecordedJobs, Cleared
<1>3. ASSUME NEW p \in ExecutedResults, Execute(p)
      PROVE  \E a \in Actions : Promise!Run(a)
  <2>1. /\ job \in Jobs /\ job = <<job[1], attempt[job[1]]>> /\ job[1] \in Actions
        /\ attempt[job[1]] > 0 /\ runs[job] = 0
        /\ runs' = [runs EXCEPT ![job] = 1]
    <3>1. stage = "executing" /\ runs' = [runs EXCEPT ![job] = runs[job] + 1]
      BY <1>3 DEF Execute
    <3>2. job \in Jobs /\ job[2] = attempt[job[1]] /\ runs[job] = 0
      BY <3>1 DEF RecordsAgree, Cycle, Handling, Journalled
    <3> QED
      BY <3>1, <3>2, JobShape
  <2> QED
    BY <1>1, <1>2, <2>1 DEF Promise!Run, ClearedActions, RecordedJobs
<1>4. CASE UNCHANGED runs
  BY <1>1, <1>2, <1>4 DEF Promise!promiseVars, ClearedActions, RecordedJobs
<1> QED
  BY <1>3, <1>4 DEF AgentStep, Fault, BeginCycle, EndCycle, Resend, ResendAccepted,
     ResendRefused, SendClaim, SkipSeen, RecordClaimed, RejectEnvelope, MarkExecuting,
     Decline, MarkExecuted, SendReport, ReportAccepted, AbortCycle, Crash, RequestFails

(* The system implements its promise.                                      *)
THEOREM PromiseKept == Spec => KeepsPromise
<1>1. Init => Promise!PromiseInit
  BY DEF Init, ControlInit, AgentInit, Promise!PromiseInit, Cleared, Jobs, Attempts
<1>2. RecordsAgree /\ [Next]_vars => [Promise!PromiseNext]_(Promise!promiseVars)
  <2> SUFFICES ASSUME RecordsAgree, [Next]_vars
               PROVE  Promise!PromiseNext \/ UNCHANGED Promise!promiseVars
    OBVIOUS
  <2>1. CASE PollStep \/ UNCHANGED vars
    BY <2>1 DEF PollStep, Poll, vars, controlVars, actionVars, handlerVars, agentVars,
                Promise!promiseVars, Cleared
  <2> QED
    BY <2>1, ControlKeepsPromise, AgentKeepsPromise
       DEF Next, ControlPlaneStep, EndpointAgentStep, Promise!PromiseNext
<1> QED
  BY <1>1, <1>2, AlwaysAgree, PTL DEF Spec, KeepsPromise, Promise!PromiseSpec
=============================================================================
