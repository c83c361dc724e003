---------------------------- MODULE AgentChannel ----------------------------
(***************************************************************************)
(* What the control plane and one endpoint agent share: the actions, the   *)
(* jobs (an action at one claim attempt), the result payloads, the HTTP    *)
(* exchange the agent has open, and the clock of the claim leases.         *)
(*                                                                         *)
(* The agent is a synchronous client: it has at most one request open      *)
(* ("open"), and gives up on it after a timeout.  The control plane may    *)
(* still receive and serve a request the agent has given up on, so the     *)
(* requests under way ("calls") outlive the exchange.  A request is a      *)
(* record in a set: an identical request sent again while the first is     *)
(* still under way is the same element.                                    *)
(***************************************************************************)
EXTENDS Integers, FiniteSets

CONSTANTS
    NumActions,     \* actions addressed to the agent's device, in creation order
    MaxAttempts,    \* Settings.lease_reaper_max_attempts
    MaxFaults       \* bound of the model: timeouts and agent crashes

ASSUME ChannelAssumption ==
    /\ NumActions \in Nat \ {0}
    /\ MaxAttempts \in Int
    /\ MaxFaults \in Nat

Actions == 1..NumActions

(* The setting is any integer: an action is claimed once whatever it says, *)
(* and once more when a second approval, late, has queued it again.        *)
LastAttempt == IF MaxAttempts > 2 THEN MaxAttempts ELSE 2

Attempts == 1..LastAttempt

(* A job identifier is "<action id>:<attempt>".                            *)
Jobs == Actions \X Attempts

(***************************************************************************)
(* The body of a result report.  "origin" stands for the part of the       *)
(* payload (output, error text) that tells a result the executor returned  *)
(* from one observed after an interruption and from a refused envelope:    *)
(* the idempotency check compares whole payloads.                          *)
(***************************************************************************)
Result(origin, success, rollback) ==
    [origin |-> origin, success |-> success, verified |-> success,
     rollback |-> rollback]

NoPayload == Result("none", FALSE, "none")
Rejected == Result("rejected", FALSE, "none")
ExecutedResults ==
    {Result("executed", TRUE, "none"), Result("executed", FALSE, "none"),
     Result("executed", FALSE, "restored"), Result("executed", FALSE, "failed")}
ObservedResults ==
    {Result("observed", TRUE, "none"), Result("observed", FALSE, "none")}
Payloads == {Rejected} \cup ExecutedResults \cup ObservedResults

(* Requests.  A claim names only its action; a report names the attempt    *)
(* whose claim token and idempotency key it carries.                       *)
ClaimRequest(a) ==
    [type |-> "claim", action |-> a, attempt |-> 0, payload |-> NoPayload]
ReportRequest(j, p) ==
    [type |-> "report", action |-> j[1], attempt |-> j[2], payload |-> p]
NoRequest ==
    [type |-> "none", action |-> 0, attempt |-> 0, payload |-> NoPayload]

Requests ==
    {ClaimRequest(a) : a \in Actions}
        \cup {ReportRequest(j, p) : j \in Jobs, p \in Payloads}

(* Replies.  An accepted claim says which attempt it granted.              *)
Reply(kind, n) == [kind |-> kind, attempt |-> n]
NoReply == Reply("none", 0)
Replies == [kind : {"none", "ok", "error"}, attempt : 0..LastAttempt]

VARIABLES
    calls,      \* requests the control plane has still to receive
    open,       \* the request the agent is waiting on, or NoRequest
    reply,      \* the reply that reached the agent, or NoReply
    lapsed,     \* lapsed[a]: the last attempt whose 60 s lease has run out
    faults      \* timeouts and crashes so far

channelVars == <<calls, open, reply, lapsed, faults>>

ChannelTypeOK ==
    /\ calls \subseteq Requests
    /\ open \in Requests \cup {NoRequest}
    /\ reply \in Replies
    /\ lapsed \in [Actions -> 0..LastAttempt]
    /\ faults \in 0..MaxFaults

ChannelInit ==
    /\ calls = {}
    /\ open = NoRequest
    /\ reply = NoReply
    /\ lapsed = [a \in Actions |-> 0]
    /\ faults = 0

(* The job a report request is about.                                      *)
JobOf(r) == <<r.action, r.attempt>>

(* The agent sends a request and blocks on it.                             *)
Send(r) ==
    /\ open = NoRequest
    /\ calls' = calls \cup {r}
    /\ open' = r
    /\ reply' = NoReply

(* The control plane answers a request; the answer to one the agent has    *)
(* given up on goes nowhere.                                               *)
Answer(r, kind, n) ==
    reply' = IF open = r THEN Reply(kind, n) ELSE reply

(* The agent takes a reply and is free to send again.                      *)
Hear(kind) ==
    /\ open # NoRequest
    /\ reply.kind = kind
    /\ open' = NoRequest
    /\ reply' = NoReply
=============================================================================
