# Helpdesktool in TLA+

Specifications of the control plane and the endpoint agents of Helpdesktool
(`helpdesktool/`, `linux_agent/`, `windows_agent/`, `agent_common/`), TLC
configurations that check them on small instances, and TLAPS proofs of their
safety properties for every instance. Paths below are relative to the
repository.

## 1. The system

Helpdesktool is a multi-tenant help desk that remediates endpoints. A FastAPI
control plane over PostgreSQL keeps actions, tickets, incidents and an audit
chain; background workers (lease reaper, retention, webhooks, connector-request
reaper) run as processes of their own; an agent on each device polls the
control plane over HTTP and is the only thing that changes an endpoint.

| Component | State it keeps | Operations | What makes it correct |
|---|---|---|---|
| Action lifecycle (`api.py`, `orchestrator.py`, `persistence.py`) | `actions`, `approvals`, `execution_results`, `idempotency_records` | create, approve/deny, poll, claim, report | nothing runs that was not cleared; one run and one result per claim attempt; failures escalate |
| Lease reaper (`lease_reaper.py`) | none of its own | requeue or fail an expired claim | claims resolve; retries are bounded |
| Retention worker | none of its own | purge heartbeats, inventories, idempotency records | a purge forgets nothing that is still needed |
| Endpoint agent (`linux_agent/agent.py`, `windows_agent/agent.py`) | the journal on disk; the cycle in memory | recover, poll, claim, execute, report | no attempt is run twice, whatever crashes |
| Execution journal (`agent_common/journal.py`) | one entry per job | record, mark, prune | what it calls reported is on record |
| Envelope signing (`job_signing.py`, `agent_common/signing.py`) | key versions, the agent's pinned keys | sign, verify, rotate, refresh | only fresh envelopes for this device run; a rotation strands no agent |
| Executors (`executor.py` of both agents, `win32_service_manager.py`) | what they saw first; the service is the manager's | precheck, restart, verify, roll back, flush | success is about a new process; a failure leaves the prior state or says so |
| Policy, skill registry (`policy.py`, `skills.py`, `api.py`) | versioned rows of `skills` | evaluate, register | one active version; what runs is what was evaluated, approved and previewed |
| Knowledge, diagnosis (`knowledge.py`, `ai/provider.py`, `api.py`) | issue definitions, workflows, diagnoses | register, diagnose | what they name stays registered |
| Audit chain, outbox (`SqlAuditLog`) | hash chain, domain events, deliveries | append, publish | no gap, no fork; an event is delivered or dead-lettered |
| Webhook worker | deliveries | deliver a batch | at least once, at most eight attempts |
| Connector requests (`api.py`, `conversation.py`) | requests, step-up codes | ask, generate code, decide, expire | one request per message; what is settled stays so; a code opens one decision |
| Incidents (`incidents.py`) | incidents, tickets | detect, correlate, resolve, reopen | incident and ticket agree; a device that has recovered has no open incident |
| Enrollment, credentials | tokens, devices | issue, enroll, rotate, revoke | a token enrolls one device; what is revoked is dead; no agent is left with a dead credential |
| Tenant context (`database.py`, `rls.py`) | a setting of the pooled connection | set, bypass, reset | a request's statements run under its own tenant; the bypass ends with the lookup of who asks, or with the counts for the metrics |
| Rate limiter (`hardening.py`) | hits per address | admit, prune | no more than the limit in a window |

How they interact: HTTP (agent to control plane, at most one request open per
agent, 15 s timeout), shared rows (handlers and workers in different processes,
PostgreSQL at READ COMMITTED, row locks only where the code takes them), and the
tenant's audit chain, which every mutating transaction appends to.

What is hard: a request that timed out may still be served; an agent may die
between any two journal writes; two transactions may read a row before either
writes it, and the ORM then writes by primary key; idempotency records answer
for the past and are purged after seven days; leases run out while work is in
hand. `PROJECT.json` lists each hazard at its line.

## 2. What is modelled

| Module | Models |
|---|---|
| `AgentChannel` | what both sides share: actions, jobs (`<action>:<attempt>`), result payloads, the one open HTTP exchange of the agent, requests under way, leases, the fault count |
| `ControlPlane` | `create_action`, `decide_action`, `claim_job`, `report_job_result`, `LeaseReaper`, the purge of idempotency records |
| `EndpointAgent` | the agent's cycle over the journal, with crashes and failed requests |
| `RemediationSystem` | both composed, `GET .../jobs`, the fairness, the properties |
| `RemediationPromise` | the abstract specification: clear, grant, run once, record once |
| `RemediationInvariant` | the inductive invariant |
| `RemediationSystem_proofs` | the proofs |
| `AuditOutbox` | `SqlAuditLog`: audit chain, domain events, deliveries and subscriptions as database transactions under the tenant's advisory lock |
| `WebhookWorker` | `webhook_worker.py`: locked batches, posts, one commit, broken-down batches |
| `EventDelivery` | both composed, the fairness, the properties |
| `EventDeliveryInvariant` | their inductive invariants |
| `OutboxPromise` | the abstract specification of both: histories that only grow, events for whom is subscribed, posts until a delivery is settled |
| `EventDelivery_proofs` | the proofs |
| `ConversationService` | the channel endpoints and `handle_message`: how a message becomes a connector request |
| `ConnectorRequests` | the requests: step-up codes, decisions with the external call inside, the request reaper; the fairness, the properties, the inductive invariant |
| `RequestPromise` | the abstract specification: ask once, look, run, settle or give up, lapse |
| `ConnectorRequests_proofs` | the proofs |
| `Incidents` | `incidents.py`: the detector as the transactions of concurrent inventories, and the edits of tickets; the fairness, the properties, the inductive invariant |
| `Incidents_proofs` | the proofs |
| `EndpointTrust` | enrollment, device credentials, signing keys: tokens, rotation, renewal, revocation, the window of keys, the agent's configuration; the fairness, the properties, the inductive invariant |
| `TrustPromise` | the abstract specification: register, keep or lose, rekey, retire, void, deploy, pin, take a job |
| `EndpointTrust_proofs` | the proofs |
| `ServiceManager` | one service and systemd or the Windows SCM, as the executors meet them (not code of the repository) |
| `ServiceExecutor` | the executors of both agents over it, step by step |
| `ExecutionPromise` | the abstract specification: the one step the job cycle takes an executor for |
| `ServiceExecutor_proofs` | the inductive invariant and the proofs |
| `SkillRegistry` | the versioned catalogues (skills, issues, workflows), diagnoses, and each reading of the registry in the life of an action |
| `SkillRegistry_proofs` | the inductive invariant and the proofs |
| `TenantContext` | the tenant settings of pooled connections under concurrent requests |
| `TenantContext_proofs` | the inductive invariant and the proofs |
| `MC...` | one for each of the systems above: instances for TLC |

### The control plane

A handler is one transaction. Where the code reads a row, decides, and writes
the row by primary key, another transaction may commit in between, and the
handler is two steps:

* **Decision.** `BeginDecision` is `decide_action` up to the checks of
  `approve`/`deny`; `CommitDecision` is the rest. `tenant_row`'s object is
  dropped, and `SqlActionStore.update` loads the row again and writes `status`
  and `approved_by` whatever they have become: so does the action. An approval
  whose second policy evaluation fails becomes a denial (`allowed = FALSE`).
* **Report.** `CheckReport` is `report_job_result` up to its checks,
  `CommitReport` its write. `AbortReport` is the unique key on
  `(tenant, scope, key)`: the loser of two reports under one key rolls back.

The claim is one conditional `UPDATE ... WHERE status = 'queued'` with the rest of
the handler behind the row lock it takes, and the reaper holds its rows `FOR
UPDATE SKIP LOCKED` from select to commit: one step each (`GrantClaim`, `Reap`).
The idempotency record of the key is looked up before anything else
(`ReplayClaim`, `ReplayReport`): the claim key is `claim-<action>`, the same for
each attempt, the report key `result-<action>-<attempt>`.

`lapsed[a]` is the clock: the last attempt of action `a` whose 60 s lease has run
out. The envelope expires with the lease, and the agent's and the server's
clocks are taken as synchronised. `PurgeRecords` says whether an instance's
horizon reaches the seven days of retention; a record is purged only when its
lease is over and no transaction or request about its action is under way
(60 s and 15 s against 7 days).

The audit chain is reduced here to the set of actions with an
`action.escalation_required` event. `create_action`'s retry under the same key is
answered from the record and changes nothing. A skill with a queued action stays
registered: `create_skill_manifest` replaces the active version in one transaction and
nothing unregisters one, so `claim_job`'s "no longer registered" is not reached.

### The agent

`stage` says where `run_once` is; a step of the module lies between every two journal
writes and around each request, and `Crash` is possible at each. A crash, and an
`ApiError` or `OSError` that reaches `main`, drops everything but the journal (`Stop`).
A request that fails may have been lost, may be served later, or may have been served
already (`RequestFails`); the recovery loop catches `ApiError` but not a timeout, and so
ends too. `Execute` is the one step that changes the endpoint (`runs`); `Decline` is an
executor that refuses its parameters, fails its precheck, or may not run its command.
`RejectEnvelope` may always happen (signature, addressee, version, no executor) and must
when the lease is over. The Windows agent is the same cycle.

`prune_reported` drops the oldest reported entries beyond `JournalKeep` (500 in
the code). Which are oldest is left open, except that a pruned entry's lease is
over: a cycle claims at most ten jobs and sleeps in between. Marking and pruning
are one step; a crash between them leaves an entry that the next prune drops.
A journal write is an atomic rename; loss of power (no `fsync`) is not modelled.

An identical request sent again while the first is under way is the same
element of `calls`. One device, one tenant.

### The audit log and the outbox

A transaction is a request handler or one batch of a reaper; each happens once.
`Call` and `Obtain` are `pg_advisory_xact_lock`, `AppendEvent` the rest of
`SqlAuditLog.append` with `_publish`: the row after the newest that the transaction
sees, the domain events of its kind, a delivery for each active subscription. What
a transaction writes is a `draft` until `Commit`; statements see what is committed
when they start (READ COMMITTED) and their own draft. `RollBack` stands for an error,
a lost connection or PostgreSQL's choice of a deadlock victim. A reaper takes
several tenants' locks in the order of its rows: `Record` is free to do so.

The hash of a row is the row's whole past, so equal hashes mean equal pasts. The
unique index on (tenant, sequence) is left out: `ChainIntact` shows that the lock
alone does it. Kinds of audit events are told apart by what they publish: nothing,
one event, or two. Subscriptions of the model want every kind of event. The
handlers that make or disable a subscription append one event, after the change.

The core keeps of all this only which actions have an escalation event; there, an
append is part of the atomic commit of its handler.

`OutboxPromise` says what of this a reader of the committed rows sees, with no lock,
draft or batch: a tenant has a history, the sequence of its audit events, and a commit
adds to the histories of all its tenants, at their ends, what its transaction has to
add. The refinement mapping (`EventDelivery`) takes the history of a tenant to be the
past of its newest committed row with that row's own content, so it also says that the
hash chain and the order of the sequence numbers are one thing. Domain events come
only with such an addition and are owed to exactly the subscriptions active at that
moment; deliveries are posted only while pending and settled once, for a reason.

### The webhook worker

`Select` is the query `FOR UPDATE SKIP LOCKED`; `Cancel` and `Deliver` are one round
of the loop each, the post to the subscriber among it, since other transactions
commit meanwhile; `CommitBatch` is the only commit; `Breakdown` a worker that dies
or a commit that fails after some of the posts. `Loaded` is the session's identity
map: a subscription is read once for the batch, and may be disabled while it is
used. The order of a batch is left open. `posts` and `accepted` are what the
subscriber knows.

### Messages and connector requests

A handler is one delivery of a message, and gives its name to the request it
creates. `LookUp` is everything up to the idempotency lookup, `Handle` the rest:
the first audit event of the transaction takes the tenant's audit lock, and what is
written before the commit is seen by nobody, so the rest is one step. `Refuse` is
the unique key of `idempotency_records` when another delivery was quicker. Messages
of the web console have no event id and are not remembered. Whether the author
resolves to an active user, and whether the text asks for an operation of a known
application, are given with the message. All operations a message can ask for are
high-risk (`_INTENT_OPERATIONS`, `HIGH_RISK_OPERATIONS`), so every request needs a
code.

`decide_connector_request` reads the row (`Decide`), and is then two different
transactions. An approval sets the decision and clears the code in the session;
loading the connector's configuration flushes both, and the row is locked from there
on (`WriteApproval`); the connector is called (`RunConnector`), and the commit needs
the audit lock (`CommitApproval`). A denial calls `SqlAuditLog.append` first, which
takes the audit lock with a statement that flushes nothing (`TakeChain`), and writes
the row after (`CommitDenial`). The step-up code endpoint does the same
(`StartMinting`, `TakeChain`, `CommitMinting`). So the two locks are taken in both
orders: `Deadlocked` is the cycle, `GiveWay` PostgreSQL's victim. The reaper locks
its batch with `SKIP LOCKED` and then needs the audit lock (`SelectStale`,
`CommitReaped`). Updates are by primary key and of the changed columns only
(`Approved`, `Denied`, `Lapsed`). A lock kept for one step only is not represented;
who holds a row across steps is read off the phases (`Locked`), and `chain` is the
audit lock while its holder waits for a row.

`RequestPromise` says what remains of it when locks, the audit log and the handlers'
phases are taken away. `deciding` is who has found a request pending and has neither
decided nor given up, `shown` the code an approval came with, `verdict` and `decider`
the row. Whoever has looked may still decide after somebody else has (finding 2 of
section 5): the promise allows that, since the code does it. What it does not allow
is that anybody decides, mints a code or lets the request lapse between the run of an
operation and the verdict of who ran it; that two deliveries of a message ask twice;
or that a request is looked at by its author, or approved with a code that was not
good then.

An attempt that is refused (wrong state, own request, no live code) changes nothing
and is not a step. `executed` is what the application has really done; a rollback
does not undo it. Codes are numbered by request and never collide.

### Incidents and tickets

One device; `Send` is its agent's inventory, a list of filesystems that are each below
the threshold, above it, or not usable (missing, or with numbers the detector skips). No
filesystem is listed twice: the API would accept such a payload, but the Linux collector
skips mountpoints it has seen (`collectors.py:60-73`) and on Windows a drive has one
entry, so that this case is left out. The handler goes through them in order. `FindOpen`
is the query of `resolve_recovered_incident`, `FindRecent` and `FindNone` that of
`correlate_incident`: they read what is committed, lock nothing, and keep the row as it
was (`loaded`).

What follows depends on when the session sends its changes to the database. A
recovery reads the ticket next, and that query sends the changed incident first: the
row is locked before the audit lock is asked for (`Recover`, `Close`). A sighting
calls `append` first, whose lock statement sends nothing: the audit lock comes first
and the row second (`Sight`, `Update`). `Deadlocked` is what the two orders make
possible. An `UPDATE` writes the columns that differ from what was loaded and no
others (`Written`), so a recovery and a sighting of one row that overlap are merged
column by column. New rows are in nobody's way (`Create`).

`draft` and `closing` are uncommitted; `Commit`, `Rollback` and `Fail` are the ends
of a transaction. `at` is `collected_at`, the device's clock: a late inventory is an
old one, and nothing in the code refuses it. `EditTicket` is the `PATCH` of a ticket,
whose status is written only if it differs from the one read. "investigating" and
"closed" are statuses the code looks for and never sets. A tenant without an active
user is not modelled: nothing deactivates users. The counts, severity and evidence of
an incident decide nothing and are left out, like its first observation.

### Enrollment, credentials and keys

A handler reads before it writes. The token is read `FOR UPDATE` and held until the
commit (`HoldToken`, `Enroll`); a device is read without a lock by rotation and
renewal, which write `credential_hash` later (`BeginRotation`, `BeginRenewal`,
`WriteCredential`). Whether a token has expired is judged when its request arrives
(`late`). The insert of a device waits for any other of the same external id, so
`Enroll` is the commit. Its reply may reach nobody (`heard`): the device then exists,
its token is spent, and the agent has nothing.

On the agent's side, the configuration in memory and in the file are two things (`Save`,
`Crash`, `Restart`), and key refreshes happen each cycle and may fail (`RefreshKeys`,
`MissKeys`). The file is written after an enrollment and after a refresh that has added
a key, and a write may fail: an agent that enrolls as a user catches the error in its
loop and goes on with what it has in memory, and so does one that has refreshed its
keys, and no later cycle writes what is missing (`SaveFails`, `RefreshUnsaved`); an
agent that enrolls with a token does so before its loop and ends. The two machines of a
run either have names of their own or were cloned with one. Each API process has its own
version of the signing key, since settings are read once: `Deploy` rolls a new version
over them one by one. A key is its version; the signature is ideal.

`TrustPromise` is all of this without requests, locks, files and processes. `own` is
what a machine has, in its process or, while that is down, in its file; `kept` is what
it comes back with, the file. An enrollment is one step, `Register`, that takes a name no
device has, a token neither spent nor void, and a credential nobody has; the machine
has it from then on or never. What it may lose is what it has not kept, no later credential
reaches it, keys are added by a device in service and replaced by none, and a job is
refused only when its version is newer than all of them. What overlaps, times out or
is given up, and a crash and the restart after it when everything was written, do not
show.

### The executors

`ServiceManager` carries an order out in its own time, whether or not anyone waits for
it: systemd replaces a pending job, the SCM hands a control to the service, which may
accept a stop and go on running. `ServiceExecutor` is one execution of
`ServiceRestartExecutor` or `DnsFlushCacheExecutor` on either platform: what it saw
first, each command and its time-out, each query, the look afterwards and the
rollback. The service may change by itself or by others between any two steps
(`MaxDisturbances`), and the agent may be killed between any two (`Kill`); its next
process only looks (`Recover`). A query of `stop` or `start` that fails on Windows is
not turned into a `ServiceControlError` and leaves by another door (`QueryRaises`, the
state "dead"). A `systemctl` that cannot be run leaves `restart` as an `OSError` and is
found by the next cycle; that the agent may not run it (`PermissionError`) is answered as
a refusal (`CannotSend`).

`ExecutionPromise` is what `EndpointAgent.Execute`, `Decline` and `Resend` assume;
`KeepsExecutionPromise` connects the two. A job whose change can be undone
(`reversible`, a restart) that fails without a word about a rollback has changed
nothing. A flush counts as a change once its command has been run, and is not undone:
its failure, also that of the resolver check after a flush that took effect
(`linux_agent/executor.py:231-244`), says nothing about what was changed. Whoever reads
`rollback_attempted = false` of such a job as "nothing was changed" is mistaken.

### The registry

A registration reads the newest version (`DraftVersion`, `DraftWorkflow`) and, later,
retires it and inserts the next (`CommitSkill`, `CommitIssue`, `CommitWorkflow`), as
the transactions of concurrent requests. `RefuseRow` is the unique key on
(id, version) of skills and issues; workflows have none. `Retire` writes the row that
was read, by primary key. A workflow's steps may name the skills that were active when
they were read, a diagnosis those that were active when the provider was asked.

An action meets the registry up to five times: `CheckShape` (its parameters and, for
services, the allowlist of the control plane), `Submit` (policy), `Preview`,
`LoadForDecision` with `Approve` or `Deny`, and `ReadManifest`, whose version goes into
the job once `Claim` has found the action queued (`RefuseClaim` if it is not: another
claim or a decision came between). Each takes the registry as it is then; loading it
fails when an active row has been changed behind the API (`Drift`, `RegistryLoads`). The
agents run version 1 only (`Supported`), and `Execute` is what they make of a job. A
manifest is its risk class, its command class, two flags for the other refusals and
approvals of `PolicyEngine.evaluate`, and the shape of its parameters. Who may approve
and how decisions race is the core's.

### The tenant context

A connection has two settings, as of its last commit (`saved`) and within its
transaction (`now`); a rollback undoes what `set_config` did. A session has a
connection only while it is in a transaction: `Use` takes the longest idle one
(SQLAlchemy's pool is first in, first out), `CommitWork` and `EndTransaction` give it
back. `BeginBypass` turns the bypass on, for `resolving_identity` or, in `GET /metrics`,
which resolves nobody, for `aggregating_platform_metrics`. It ends with `Authenticate`,
which also sets the tenant, with `EndBypass`, or, when a statement under it fails, only
with the rollback (`FailUnderBypass`): PostgreSQL refuses the statement that would turn
it off. `Statement` is any query of the handler, and `ran` what it ran under, if it ran;
`Reset` and `ResetFails` are `reset_tenant_context`, which clears the connection the
session gets then. `Replace` is `pool_pre_ping` replacing a dead connection. No handler
rolls back and goes on. The workers set and clear the bypass on the one connection of
their process and are left out.

## 3. What is checked

| Run | Instance | Shows |
|---|---|---|
| `remediation_safety` | 1 action, 3 users (symmetric), all verdicts, 2 attempts, 1 fault, purge | `AuthorizedExecution`, `NoReexecution`, `OneResultPerAttempt`, `ReportedSuccessRan`, `ReportedIsRecorded`, `FailuresEscalate`, `EntersExecutorOnce`, the refinement `KeepsPromise`, and the inductive invariant `RecordsAgree` |
| `remediation_liveness` | 2 allowed actions in one page, 1 fault, fairness | `ClaimsResolve`, `FreshJobsAreClaimed` |
| `audit_chain` | 2 tenants, 3 transactions of up to 2 events, 1 subscription, fairness | `ChainIntact`, the refinement `KeepsOutboxPromise`, `TransactionsEnd`, the inductive invariant `ChainInvariant` |
| `webhook_delivery` | 1 tenant, 3 transactions, 2 workers, batches of 2, 2 tries, 1 lost batch, fairness | `PostsBounded`, `SettledForReason`, the refinement `KeepsOutboxPromise`, `DeliveriesSettle`, the inductive invariant `DeliveryInvariant` |
| `connector_requests` | 2 deliveries of 1 message, 2 users, 2 approvals, 1 denial, 1 code, 1 reaper, 1 crash, fairness | `TrailExplainsRow`, `SettledIsFinal`, `SpentCodeIsDead`, `RequestsSettle`, the refinement `KeepsRequestPromise`, the inductive invariant `RequestsInvariant` |
| `incidents` | 2 inventories at a time of a device with 2 filesystems, 2 incidents, 1 edit, window 0, clock 0..1, 1 crash, fairness | `ResolvedTogether`, `HealthyIsClosed`, the inductive invariant `IncidentsInvariant` |
| `endpoint_trust` | 2 machines, apart or cloned, 1 token, 2 requests at a time, 2 processes, 2 key versions, window 1, 2 credentials, 2 faults, fairness; the deployment rolls while the machines are clones (`RotationsOfClones`) | the refinement `KeepsTrustPromise`, `RefusesOnlyNewer`, `KeysCatchUp`, the inductive invariant `TrustInvariant` |
| `service_executor` | both platforms, 2 disturbances, 4 processes of the service, 1 kill, fairness | `SuccessIsFresh`, `RestoredIsBack`, the refinement `KeepsExecutionPromise`, `ExecutionsAreReported` |
| `skill_registry` | 2 skills (1 seeded and implemented), 1 issue, 1 action, 3 manifests, 2 users' requests at a time (symmetric), 2 attempts, 1 drift, registrations begun while there are fewer than 3 rows; with an action, 1 registration at a time and no issue (`OneConcern`) | `OneActiveVersion`, `NamesStayRegistered`, `RunsAsCleared` |
| `violation_*` | see section 5 | three statements of the repository that the code does not keep |

Bounds: `MaxAttempts = 2` is the smallest number with both a requeue and an
exhaustion; two attempts are also what the idempotency record of the claim is
about. Three users are a requester and two deciders that race. One fault is a report
lost, late, or answered in vain, or a crash; more faults are the proofs' business.
With one action the
channel, the journal and the records of two attempts already interleave; the
second action of `remediation_liveness` adds the loop over the page and the
recovery loop over several entries. `JournalKeep = 1` makes the prune drop
entries. The proofs cover every other value.

Two tenants and three transactions of two events are enough for a deadlock of two
with a bystander, for a chain of six rows written by three hands, and for a
subscription that comes or goes between an event and its commit. Three transactions
in `webhook_delivery` subscribe, publish and disable, or publish twice to a
subscription; two workers then have batches to share, and one of them is lost.
`CHECK_DEADLOCK FALSE`: these instances stop when all transactions have ended and
all deliveries are settled.

Two approvals and a denial give every pair of racing decisions, and a third party
to each. One crash is enough to lose an approval at each of its phases. The instances
stop when everything has been decided and handled (`CHECK_DEADLOCK FALSE`).
`violation_code_used_twice` checks the same instance under `Spec`, without fairness.

In `incidents`, two inventories at a time are what it takes to open an incident twice,
to merge two writes of a row and to deadlock. With two filesystems there is a look-up
before the transaction holds the audit lock and one after, which the invariant's
`HeldReadsAreFresh` tells apart. A window of 0 and a clock of one step let a second
incident of the same filesystem be opened later, and an inventory arrive out of order.
The four payloads of `FourReports` are all healthy, all full, and either with a first
filesystem that is skipped. `MaxAlarms` bounds the inventories that report a full
filesystem; healthy ones are unbounded.

In `endpoint_trust`, two requests are what it takes to race for a token or a name, and
to rotate while another rotation is under way; two processes, for a rotation that has
reached one of them. Two versions and a window of one are the smallest with a version
that is newer than what an agent has pinned. A fault is a crash, a lost reply, a failed
refresh or a failed write of the configuration; two of them in a row are what it takes to
lose a credential or keys, a write that fails and then a crash. Which names the machines
have decides on what can go wrong: a race for a token needs two names, and a name that is
taken needs one. Neither has to do with the keys, so the action constraint
`RotationsOfClones` lets versions change only in the second case. No fairness asks for
the steps it removes.

In `service_executor`, two disturbances let a service change once on its own and once
by the hand of somebody else; a restart and its rollback need at most two new
processes, the disturbances one each. In `skill_registry`, two requests that both began
with two rows can make four: two further versions of the seeded skill, or a second skill,
or a workflow of an issue. Two registrations of one pair clash. An action
and an issue have nothing in common but the skills: the state constraint `OneConcern`
follows an action without issues and with one registration, diagnosis or workflow under
way at a time, and everything else without an action. One drift is met at each reading of
the registry.
The instances stop when all is decided (`CHECK_DEADLOCK FALSE`).

Fairness (`Fairness` in `RemediationSystem`): the agent's loop goes on and is
restarted by its service manager, requests that arrive are served and their
transactions end, leases run out, and the reaper is an endless loop. Nobody has
to create or decide anything, and no fault has to happen. `FreshJobsAreClaimed`
is about actions that fit in the page of a poll: `poll_jobs` returns the ten
oldest, so ten actions in the state of finding 1 starve every younger one until
a purge.

In `EventDelivery`: a transaction that has begun goes on to its commit or its
rollback, the database grants a free lock and breaks a deadlock by rolling back one
of its members, delays pass (`next_attempt_at` is at most an hour ahead), and the
worker is an endless loop. `TransactionsEnd` needs both services of the database:
nothing in the code orders the tenants whose locks a reaper takes.

In `ConnectorRequests`, who waits for a lock gets it some day (strong fairness: the
locks have queues, and a reaper that was rolled back sleeps before it tries again);
a deadlock is broken; requests age; the reaper is an endless loop. Nobody has to
decide. With weak fairness `RequestsSettle` fails: a minting that holds the audit
lock and the reaper that holds the row could meet in a deadlock again and again, the
reaper always the victim.

In `Incidents`, a handler goes on and gets its locks some day (strong fairness: lock
queues are first come, first served), a deadlock is broken, and the agent sends an
inventory again and again, as `run_once` does every `inventory_seconds` for as long as
it lives. Nobody has to edit a ticket, and no filesystem has to fill up or recover:
`HealthyIsClosed` speaks of devices that stay healthy.

In `EndpointTrust`, the cycle of an enrolled agent goes on and is restarted, and what
the API has taken up ends. Nobody has to enroll, rotate or deploy. `KeysCatchUp` asks
that no further version is deployed meanwhile and that the credential is accepted.

In `ServiceExecutor`, only the executor itself is fair: all of its waits have
time-outs. Nothing makes the service manager carry out an order.

`KeepsOutboxPromise` is checked by two runs, since each instance reaches what the other
does not: several tenants and deadlocks, or several workers and lost batches. What a
refinement implies is proved but not run a second time: `FanOutFollowsChain`, the
`SettledIsFinal` of deliveries, `RequestedOnce` (also a part of `RequestsInvariant`) and
`RevokedIsDead`.

Every property has a mutant of the code in `PROJECT.json` that breaks it; the
mutated operators stand beside the ones they replace, marked "Mutation".

## 4. What is proved

For any number of actions, users and faults, any page size and journal size, and any
`lease_reaper_max_attempts` (an integer that the settings do not validate), from the
named assumptions on the constants only:

| Theorem | Property |
|---|---|
| `AlwaysAgree` | `Spec => []RecordsAgree` |
| `TypeCorrect` | `TypeOK` |
| `OnlyAuthorizedRuns` | `AuthorizedExecution` |
| `NoAttemptRunsTwice` | `NoReexecution` |
| `RetriesAreBounded` | `RetryBudget` (a queued action has an attempt left, or has had at most one) |
| `ResultsAreUnique` | `OneResultPerAttempt` |
| `SuccessIsReal` | `ReportedSuccessRan` |
| `NoReportIsLost` | `ReportedIsRecorded` |
| `FailuresAreSeen` | `FailuresEscalate` |
| `ExecutorEntry` | `EntersExecutorOnce` |
| `PromiseKept` | `KeepsPromise` |

and of `EventDelivery`, for any number of tenants, transactions, events,
subscriptions, workers, tries and lost batches:

| Theorem | Property |
|---|---|
| `DeliveryAlways` | `Spec => [](ChainInvariant /\ DeliveryInvariant)` |
| `LockKeepsChain`, `RowLocksKeepDeliveries` | `ChainInvariant`, `DeliveryInvariant` |
| `DeliveryTypes` | `TypeOK` |
| `ChainNeverForks` | `ChainIntact` |
| `EventsFollowEachOther` | `TransactionsUnbroken` (a transaction's events are contiguous) |
| `FanOutIsCurrent` | `FanOutFollowsChain` |
| `PostsAreBounded` | `PostsBounded` |
| `VerdictsHaveReasons` | `SettledForReason` |
| `SettledStays` | `SettledIsFinal` |
| `HistoryAlways` | the invariant of the histories, with the two above |
| `OutboxKeepsPromise` | `KeepsOutboxPromise` |

and of `ConnectorRequests`, for any number of messages, deliveries, decisions, codes,
reapers and crashes:

| Theorem | Property |
|---|---|
| `RequestsAlways` | `Spec => []RequestsInvariant` |
| `RequestTypes` | `TypeOK` |
| `OneRequestPerMessage` | `RequestedOnce` |
| `TrailAlwaysExplains` | `TrailExplainsRow` |
| `SettledStaysFinal` | `SettledIsFinal` |
| `SpentCodesStayDead` | `SpentCodeIsDead` |
| `DecisionsAlways` | `Spec => [](RequestsInvariant /\ DecisionsInvariant)` |
| `RequestsKeepPromise` | `KeepsRequestPromise` |

and of `Incidents`, for any number of inventories, filesystems, incidents, edits and
crashes, any window and any payloads:

| Theorem | Property |
|---|---|
| `IncidentsAlways` | `Spec => []IncidentsInvariant` |
| `TicketsFollow` | `ResolvedTogether` |
| `LockedLookupsHold` | `HeldReadsAreFresh` |

and of `EndpointTrust`, for any number of machines, names, tokens, requests, processes,
versions and faults, and any window of at least one:

| Theorem | Property |
|---|---|
| `TrustHolds` | `Spec => []TrustInvariant` |
| `TokensAreSpentOnce` | `TokenSpentOnce` |
| `DevicesAreNotShared` | `OneMachinePerDevice` |
| `StaleCredentialsWereRotated` | `HeldCredentialExplained` |
| `RevokedStaysDead` | `RevokedIsDead` |
| `OnlyNewerIsRefused` | `RefusesOnlyNewer` |
| `IssuedAlways` | `Spec => [](TrustInvariant /\ OwnIssued)` |
| `TrustKeepsPromise` | `KeepsTrustPromise` |

of `ServiceExecutor`, for any number of processes, disturbances and kills:

| Theorem | Property |
|---|---|
| `ExecutorAlways` | its inductive invariant |
| `SuccessesAreFresh` | `SuccessIsFresh` |
| `RollbacksHold` | `RestoredIsBack` |
| `ExecutorsKeepPromise` | `KeepsExecutionPromise` |

of `SkillRegistry`, for any number of skills, issues, actions, requests, rows, drifts
and attempts, and any manifests:

| Theorem | Property |
|---|---|
| `RegistryAlways` | its inductive invariant |
| `OneVersionIsActive` | `OneActiveVersion` |
| `NamesHold` | `NamesStayRegistered` |
| `OnlyClearedVersionsRun` | `RunsAsCleared` |

and of `TenantContext`, for any number of tenants, requests and connections, with `Nobody`
not among the requests (no run checks these; `violation_tenant_lost` has an instance of
the same specification):

| Theorem | Property |
|---|---|
| `ContextInvariant` | its inductive invariant |
| `TenantHoldsUntilCommit` | `OwnTenantUntilCommit` |
| `BypassIsConfined` | `BypassConfined` |

None of the properties is inductive. The core's argument (`RemediationInvariant`):

1. **Claims.** Record, token and lease are those of the newest attempt or
   nothing. A claim record outlives its lease and everything under way about it;
   hence a second attempt starts with no decision and no report in flight, and
   a late approval can requeue only an action on its first attempt. This is what
   bounds the retries in spite of the unguarded write of a decision: by
   `lease_reaper_max_attempts` if it is 2 or more, by 2 otherwise. With the setting at 1
   a late approval does offer an action whose only attempt has been claimed, and
   `LastAttempt` and `RetryBudget` say so.
2. **Clearance.** Nothing gets past `pending_approval` uncleared, and an approval
   in flight is not the requester's.
3. **Cycle and Journalled** (each needs the other). What the agent waits on is
   what its stage is about; the job in hand is, and stays, the newest attempt of
   its action; the journal knows every job that ran under a running lease, so a
   job it does not know has not run.
4. **Provenance.** A payload that claims the executor's success belongs to a job
   that ran, wherever it is: in hand, in the journal, in the network, on record.
5. **Recorded.** A result row and its idempotency record go together until every
   report of the attempt is over; an acknowledgement heard is of the very
   payload sent.
6. **FailuresEscalate** is inductive with the types.

Each property follows from the invariant; the two step properties
(`EntersExecutorOnce`, the refinement) follow action by action from the invariant
before and after the step.

The argument for the audit log (`EventDeliveryInvariant`):

1. **DraftsLocked.** What is not committed is of tenants whose locks its
   transaction holds; so a tenant has drafts of one transaction at a time.
2. **ViewsChained.** Every transaction sees an intact chain with a newest row, and
   drafts are newer than all that is committed: an append extends a chain, a commit
   replaces every other view of the tenant by the committer's, a rollback restores
   the committed one. That a newest row exists is part of the invariant because
   nothing else bounds the number of rows.
3. **FanOutCurrent.** The subscriptions of a draft event are those active now, since
   a change of a subscription also needs the lock.

and for the workers: batches are disjoint and hold only what is pending
(`BatchesLocked`); what a worker has tried is counted once in what it will commit
(`TriesCounted`); a post is a counted try or was lost with a batch (`PostsCounted`);
and every verdict, committed or not, has its reason (`VerdictsReasoned`).

That both implement `OutboxPromise` needs `HistoryInvariant` besides: a draft continues
the committed history with entries of its own transaction only (`DraftsContinue`); a
row's number is its place in the history, and of two draft rows the later one knows
the earlier (`RowsPlaced`), so that an entry is found where the sequence says; history
is of committed transactions (`HistoryCommitted`); and what a draft publishes, or
makes of a subscription, it has recorded (`DraftsRecorded`). A commit is then one
`Extend`, a post one `Post`, the commit of a batch one `Settle`, and every other step
leaves the committed rows and the posts alone.

For the connector requests, `StepEffect` reduces a step to one of three effects on a
request: nothing about its decision, a decision that found the row in no reaper's
batch, or the reaper that holds it. `BatchesHeld` (what a reaper has locked is
pending, its own, and held by no approval) makes the third effect harmless, and
`DecidedIsSettled` (a decision that is done has left its request settled) is why a
spent code opens nothing. `SettlingTold` and `OtherTold` say what one more audit
event does to the last word of a trail.

`RequestPromise` rests on `DecisionsInvariant`: from its beginning on a decision is
about one request (`BegunIsAbout`), the row's lock has one holder (`HeldOnce`), what
has taken effect was run by an approval that has not gone on without knowing it
(`RunIsKnown`), and codes are numbered in the order they are minted (`CodesCounted`).
An approval runs its operation under the lock of the row, and everything that would
decide, mint or lapse meanwhile needs that lock: this is `LeftTo`. Only a breakdown
ends it without a verdict.

For the incidents, the heart is `WritersHoldLock`: whoever has written anything is
either a recovery that still waits for the audit lock or holds it. A commit that
changes something therefore ends the only hold of the lock, and while one transaction
holds it no other can change what it has read: `HeldReadsAreFresh`. The ticket is
read before the lock, so `WritesMakeSense` carries what is owed: an uncommitted
resolution has its ticket resolved, about to be resolved, or read as unresolved with
the write still to come, unless a user has changed it since; and an edit that changes
nothing writes nothing.

For enrollment and keys: who holds a token's row holds it alone and the token stays
usable (`HandlersAgree`), a machine waits for one request and has nothing until it is
answered (`WaitersAgree`), and `KeysCoverService` is why a window of one is enough:
processes are at most one version apart, and an agent that has pinned a version has
pinned every one in service below it.

`TrustPromise` needs one thing more: no machine has a credential before it is issued
(`OwnIssued`), so what is issued next is new to every device and machine. From
`WaitersAgree` follows that memory and file never hold different credentials, so that a
crash costs a machine what it could not write and nothing else, and from
`KeysCoverService` that a version which is not pinned is newer than all that are.

For the executors, the invariant says what an order that is still pending can be at
each step, by platform: `systemctl` has waited for its own job unless it timed out, and
what the SCM still has to do after a time-out is what the executor asked last.

For the registry, a draft's version is one above the newest it read and every version
below it is there (`Reached`): so it clashes with a row of the unique key, or the row
below is the newest and active one, which is retired with it (`TopUp`). The active
version of a skill never goes back; a job's version is therefore at least as new as
every version its action was evaluated, shown and approved with (`Bears`), and since
the agents run version 1 only, they are all that version, as it was registered.

For the tenant context, a connection is idle once or serves one transaction
(`PoolIsSound`), and a request keeps the connection its tenant was set on until it
first commits (`ContextIsHeld`). It is what the commit gives up. A commit is made only
where the bypass is off, and every other end of a transaction rolls it back: this is
`BypassConfined`, which is inductive together with the two.

Only model-checked: the liveness properties (`ClaimsResolve`, `FreshJobsAreClaimed`,
`TransactionsEnd`, `DeliveriesSettle`, `RequestsSettle`, `HealthyIsClosed`, `KeysCatchUp`,
`ExecutionsAreReported`), which rest on fairness and `ENABLED`.

## 5. Where the code and its documentation part

1. **A requeued job is not claimed again** (`NoJobVanishes`).
   The agent claims under a key that does not name the attempt
   (`linux_agent/agent.py:180`); the next claim is answered with attempt 1's
   record and the agent skips it. `lease_reaper.py:8-12` promises the queue or an
   escalation "instead of a job vanishing silently".
2. **A step-up code may be used twice** (`CodeUsedOnce`). `api.py:2674` checks a
   row that nobody locks: two approvals verify the same code, and the second runs
   the operation again once the first has committed. `api.py:2596-2599` says that the
   code can "never be replayed against a second decision attempt". The decision of an
   action has the same gap (`orchestrator.py:90`): an action can be decided twice, and
   denied after it has been claimed and run.
3. **A request's tenant does not outlive its first commit**
   (`OwnTenantAfterCommit`). The tenant is set on the connection of the moment
   (`database.py:41-46`); the commit gives that connection back, and with another one
   idle in the pool the next statement runs on that one, under what it was left with:
   another request's tenant, or none.
   The request then does not find its own rows: `simulate_low_disk` answers without the
   incident it has committed, `decide_action` that the action was not persisted.
   `database.py:31-38` says that the setting is made for the session because handlers
   "then continue issuing tenant-scoped queries on the same session afterward".
   `OwnTenantUntilCommit` is what does hold, and is proved.

Seen while modelling, and not made a run:

* After the purge a requeued action is claimed as a new attempt, with a job id the
  journal does not know: the change may be made a second time. `README.md:28` says
  "without ever risking a duplicate mutation".
* Recovery observes an interrupted job and resends another payload under the key that
  was used; the answer is a conflict, for ever, and the journal entry stays.
  `agent_common/journal.py:24-27` calls a retried report "a no-op".
* `README.md:103` says of low-disk incidents that "the same incident reopens rather than
  creating an unlimited duplicate". The code opens another one when two first look-ups
  overlap (`incidents.py:159`), and when the device has not been heard of for longer
  than the window. Every one of them is resolved in the end (`HealthyIsClosed`), one per
  healthy inventory. An incident that is reopened leaves its ticket resolved, and a late
  healthy inventory can set `resolved_at` before `first_observed_at`.
* `job_signing.py` says that an agent that pinned the previous key "keeps working
  through the transition window without any manual intervention". The new version signs
  at once: an agent whose refresh failed refuses jobs until the next one succeeds. What
  holds is `RefusesOnlyNewer` and `KeysCatchUp`.
* `windows_agent/executor.py:5-6` promises to roll back "on any failure". The first
  `QueryServiceStatus` of `stop` and of `start` raises an error that the executor does
  not catch, nor does the loop of the agent's thread (`service.py:79`), which ends;
  `ExecutionsAreReported` has to leave that case out.
* The DNS executors call every failed check a failure without a rollback, on Linux also
  after `resolvectl flush-caches` has been run (`linux_agent/executor.py:225-244`). The
  cache is then flushed and the job failed.
* `config.py:50` takes any integer for `lease_reaper_max_attempts`. At 1, an approval that
  commits after the first claim queues an action for a second attempt.
* An agent that could not write `agent.json` goes on with what it has in memory and never
  writes it again (`linux_agent/agent.py:69`, `136-137`, `407-409`): a restart is back at
  what was written before, or at an enrollment that the API then refuses.
* A Windows rollback can be reported as successful while a stop the service has accepted
  is still to come (the exception in `RestoredIsBack`).
* `skills.py` presents a change of a skill's risk or timeouts as no deployment of code.
  A registered change is version 2, and both agents run version 1 only: the job is
  refused.
* `diagnostic_workflows` has no unique key: two registrations at once leave two active
  rows of one version. A new version of an issue leaves its workflows at the old one.
  `create_action` reads the registry twice; for a skill that is registered in between,
  the parameters are not checked.

## 6. Plan

In order; a stage's modules, the hazards they are for, and what to prove.

1. **Core remediation.** Done: sections 2 to 5.
2. **Audit chain, outbox, webhook worker.** Done: modelled, checked and proved.
   It implements `OutboxPromise`. Left: the order of advisory and row locks across the
   handlers of the core.
3. **Connector requests.** Done: modelled, checked and proved; they implement
   `RequestPromise`. Left: conversations continued in the console, and their tickets.
4. **Incidents and tickets.** Done: modelled, checked and proved. Left: the
   development endpoint that simulates a full disk, and the occurrence count.
5. **Enrollment, credentials, signing keys.** Done: modelled, checked and proved; it
   implements `TrustPromise`. Left: several tenants.
6. **Executors.** Done: modelled, checked and proved. Left: a composition with the
   core beyond the shared promise.
7. **Policy and registries.** Done: modelled, checked and proved. Left: the text
   matching of the knowledge base.
8. **Tenant context.** Done: modelled, proved up to the first commit,
   refuted by a run after it; the bypass of lookups and of the metrics is confined. Left: the
   workers' connections.
9. **Next.** Promises for the registry (a catalogue that only grows by versions), for
   incidents and for the tenant context, with their refinements; power loss for the
   journal (`fsync`), conversations, and the order of advisory and row locks across all
   handlers in one module.

## 7. Not modelled

* The web console, migrations and seed data, collectors, reporting, logging and
  configuration: input and output without control of their own. Of the metrics, only the
  bypass under which they are counted is modelled.
* The cryptography of authentication and of envelopes: ideal in the models.
* Classification, confidence, baseline, knowledge matching and the layout of previews:
  pure functions of text and numbers, without state or interleaving; their unit tests
  reach what a bounded check would.
* The rate limiter: a window per address in the memory of one single-threaded process,
  read and written without an `await` in between.
* `ActionOrchestrator._run`: the control plane passes `execute_immediately=False`.
* Loss of power, clock skew between agent and control plane, several tenants in the core.

`PROJECT.json` gives the status of each component and what is left out of it.
