--------------------------- MODULE SkillRegistry ---------------------------
(***************************************************************************)
(* The platform's versioned catalogues and the decisions taken on them:    *)
(* skills (helpdesktool/skills.py, policy.py), issue definitions and       *)
(* diagnostic workflows (knowledge.py), and the endpoints of api.py that   *)
(* register a version or read the active one.                              *)
(*                                                                         *)
(* A registration reads the newest version, retires it and inserts the     *)
(* next: two transactions may do so at once, and only skills and issues    *)
(* have a unique key to stop the second.  An action meets the registry     *)
(* five times, and may meet another version each time: the shape of its    *)
(* parameters, its policy evaluation, the preview an approver reads, the   *)
(* approval, and the claim, which gives the agent the version it has read. *)
(*                                                                         *)
(* Skills are global, so there are no tenants here; who may approve, and   *)
(* the races between decisions, are ControlPlane's.                        *)
(***************************************************************************)
EXTENDS Integers, FiniteSets, FiniteSetsExt

CONSTANTS
    Skills,         \* skill ids
    Issues,         \* issue keys
    Actions,
    Staff,          \* requests in flight of owners, admins and operators
    Offered,        \* the manifests that are registered
    Seeds,          \* skill id -> the manifest the migrations registered
    Executors,      \* skill id -> the parameters the agents' executor takes
    Allowlist,      \* skill id -> the parameters Settings.service_allowlist has
    MaxRows,        \* bound: rows at which no registration begins any more
    MaxDrifts,      \* bound: rows changed behind the API
    MaxAttempts     \* claims of one action

ASSUME RegistryAssumption ==
    /\ DOMAIN Seeds \subseteq Skills
    /\ DOMAIN Executors \subseteq Skills
    /\ \A s \in DOMAIN Seeds : Seeds[s] \in Offered
    /\ {MaxRows, MaxDrifts, MaxAttempts} \subseteq Nat

VARIABLES
    skills,         \* the rows of skills, of issue_definitions and of
    issues,         \* diagnostic_workflows: what each is a version of (of),
    workflows,      \* its version, and whether it is active
    drafts,         \* member of Staff -> what its request has read so far
    suggested,      \* skill ids in stored diagnoses
    actions,
    claims,         \* claims the API works on, with the version they have read
    jobs,           \* claimed jobs on their way to the agent
    ran,            \* jobs an agent has executed
    drifts

registryVars == <<skills, issues, workflows>>
lifeVars == <<actions, claims, jobs, ran>>
vars == <<registryVars, drafts, suggested, lifeVars, drifts>>

Shapes == {m.shape : m \in Offered}
Statuses == {"new", "submitting", "pending_approval", "queued", "running",
             "denied", "succeeded", "failed"}

SkillRow(s, v, m) ==
    [of |-> s, version |-> v, active |-> TRUE, manifest |-> m, hash |-> m]
IssueRow(i, v) == [of |-> i, version |-> v, active |-> TRUE]
WorkflowRow(i, v, u, steps) ==
    [of |-> i, version |-> v, active |-> TRUE, by |-> u, steps |-> steps]

(* An action, with what it was decided on: the (version, manifest) pairs   *)
(* policy evaluated when it was submitted and when it was approved, and    *)
(* the versions its preview showed before it was approved.                 *)
NewAction == [status |-> "new", skill |-> "none", params |-> "none", attempt |-> 0,
              evaluated |-> {}, approved |-> {}, loaded |-> {}, shown |-> {}]

Init ==
    /\ skills = {SkillRow(s, 1, Seeds[s]) : s \in DOMAIN Seeds}
    /\ issues = {}
    /\ workflows = {}
    /\ drafts = [u \in Staff |-> {}]
    /\ suggested = {}
    /\ actions = [a \in Actions |-> NewAction]
    /\ claims = {}
    /\ jobs = {}
    /\ ran = {}
    /\ drifts = 0

(***************************************************************************)
(* Versions of anything.                                                   *)
(***************************************************************************)
VersionsOf(table, key) == {r \in table : r.of = key}
NextVersion(table, key) == 1 + Max({0} \cup {r.version : r \in VersionsOf(table, key)})

TakenNever(table, key, version) == FALSE
Taken(table, key, version) == \E r \in table : r.of = key /\ r.version = version

Retire(table, key, version) ==
    {[r EXCEPT !.active = @ /\ ~(r.of = key /\ r.version = version)] : r \in table}

Room == Cardinality(skills) + Cardinality(issues) + Cardinality(workflows) < MaxRows

Hold(u, draft) == drafts' = [drafts EXCEPT ![u] = {draft}]
Drop(u) == drafts' = [drafts EXCEPT ![u] = {}]

(***************************************************************************)
(* What a reader of the registry gets.                                     *)
(***************************************************************************)
Intact(row) == row.manifest = row.hash

ActiveRows(s) == {r \in skills : r.of = s /\ r.active}
ActiveSkills == {r.of : r \in {q \in skills : q.active}}

(* Loading every active manifest fails when one of them has been changed.  *)
RegistryLoads == \A r \in skills : r.active => Intact(r)

(* ... and the policy engine refuses a skill id that appears twice.        *)
PolicyLoads ==
    /\ RegistryLoads
    /\ \A s \in ActiveSkills : Cardinality(ActiveRows(s)) = 1

(* PolicyEngine.evaluate: what is allowed, and what needs an approval.     *)
Allowed(m) ==
    /\ m.risk # "prohibited"
    /\ m.command # "destructive"
    /\ m.runsHere
NeedsApproval(m) == m.risk \in {"medium", "high"} \/ m.flagged

(* validate_parameters: names, types and which are required.              *)
Fits(m, shape) == m.shape = shape

Seen(row) == [version |-> row.version, manifest |-> row.manifest]

(***************************************************************************)
(* Registrations: POST /v1/skills, /v1/knowledge/issues and                *)
(* /v1/knowledge/issues/{id}/workflows, each read first, committed later.  *)
(***************************************************************************)
DraftVersion(u, name, table, key) ==
    /\ drafts[u] = {}
    /\ Room
    /\ Hold(u, [table |-> name, of |-> key, version |-> NextVersion(table, key)])
    /\ UNCHANGED <<registryVars, suggested, lifeVars, drifts>>

(* The version read is retired and the next one inserted.                  *)
CommitSkill(u, m) == \E d \in drafts[u] :
    /\ d.table = "skills"
    /\ ~ Taken(skills, d.of, d.version)
    /\ skills' = Retire(skills, d.of, d.version - 1) \cup {SkillRow(d.of, d.version, m)}
    /\ Drop(u)
    /\ UNCHANGED <<issues, workflows, suggested, lifeVars, drifts>>

CommitIssue(u) == \E d \in drafts[u] :
    /\ d.table = "issues"
    /\ ~ Taken(issues, d.of, d.version)
    /\ issues' = Retire(issues, d.of, d.version - 1) \cup {IssueRow(d.of, d.version)}
    /\ Drop(u)
    /\ UNCHANGED <<skills, workflows, suggested, lifeVars, drifts>>

(* The unique key of the table refuses the row, and nothing is stored.     *)
RefuseRow(u) == \E d \in drafts[u] :
    /\ \/ d.table = "skills" /\ Taken(skills, d.of, d.version)
       \/ d.table = "issues" /\ Taken(issues, d.of, d.version)
    /\ Drop(u)
    /\ UNCHANGED <<registryVars, suggested, lifeVars, drifts>>

(* A workflow belongs to one row of issue_definitions, so to one version.  *)
(* The remediations its steps name must be active skills when they are     *)
(* read; a rollback label is not looked up.  No unique key numbers its     *)
(* versions: the newest may be several rows, of which one is read.         *)
DraftWorkflow(u, issue) ==
    LET key == [of |-> issue.of, version |-> issue.version]
        next == NextVersion(workflows, key)
        newest == {w \in workflows : w.of = key /\ w.version = next - 1}
    IN  /\ drafts[u] = {}
        /\ Room
        /\ RegistryLoads
        /\ \E p \in IF newest = {} THEN {{}} ELSE {{w} : w \in newest} :
              Hold(u, [table |-> "workflows", of |-> key, version |-> next,
                       previous |-> p, known |-> ActiveSkills])
        /\ UNCHANGED <<registryVars, suggested, lifeVars, drifts>>

StepsUnchecked(known) == SUBSET Skills
Steps(known) == SUBSET known

CommitWorkflow(u) == \E d \in drafts[u] :
    /\ d.table = "workflows"
    /\ \E steps \in Steps(d.known) :
          workflows' = {[w EXCEPT !.active = @ /\ w \notin d.previous] : w \in workflows}
                         \cup {WorkflowRow(d.of, d.version, u, steps)}
    /\ Drop(u)
    /\ UNCHANGED <<skills, issues, suggested, lifeVars, drifts>>

(***************************************************************************)
(* A diagnosis: the registered ids are read, the provider is asked, and    *)
(* its answer, which must name one of them or none, is stored.             *)
(***************************************************************************)
AskProvider(u) ==
    /\ drafts[u] = {}
    /\ RegistryLoads
    /\ Hold(u, [table |-> "diagnoses", allowed |-> ActiveSkills])
    /\ UNCHANGED <<registryVars, suggested, lifeVars, drifts>>

StoreDiagnosis(u) == \E d \in drafts[u] :
    /\ d.table = "diagnoses"
    /\ \E answer \in SUBSET d.allowed :
          Cardinality(answer) <= 1 /\ suggested' = suggested \cup answer
    /\ Drop(u)
    /\ UNCHANGED <<registryVars, lifeVars, drifts>>

(***************************************************************************)
(* An action and the registry.                                             *)
(***************************************************************************)
Become(a, act) == actions' = [actions EXCEPT ![a] = act]

(* create_action: the shape of the parameters is checked against the       *)
(* active manifest if there is one, and the service it names against the   *)
(* allowlist; a name that is not on it leaves no trace ...                 *)
CheckShape(a, s, shape) ==
    /\ actions[a].status = "new"
    /\ \A r \in ActiveRows(s) : Intact(r) /\ Fits(r.manifest, shape)
    /\ s \in DOMAIN Allowlist => shape \in Allowlist[s]
    /\ Become(a, [actions[a] EXCEPT !.status = "submitting", !.skill = s, !.params = shape])
    /\ UNCHANGED <<registryVars, drafts, suggested, claims, jobs, ran, drifts>>

(* ... and then the whole registry is read for policy.                     *)
Submit(a) ==
    LET cleared == {r \in ActiveRows(actions[a].skill) : Allowed(r.manifest)}
    IN  /\ actions[a].status = "submitting"
        /\ PolicyLoads
        /\ Become(a, [actions[a] EXCEPT
                !.evaluated = {Seen(r) : r \in cleared},
                !.status = IF cleared = {} THEN "denied"
                           ELSE IF \E r \in cleared : NeedsApproval(r.manifest)
                           THEN "pending_approval" ELSE "queued"])
        /\ UNCHANGED <<registryVars, drafts, suggested, claims, jobs, ran, drifts>>

(* The request fails with 500 and its transaction is rolled back.          *)
AbortSubmit(a) ==
    /\ actions[a].status = "submitting"
    /\ ~ PolicyLoads
    /\ Become(a, NewAction)
    /\ UNCHANGED <<registryVars, drafts, suggested, claims, jobs, ran, drifts>>

(* decide_action loads the registry before it looks at the action.         *)
LoadForDecision(a) ==
    /\ actions[a].status = "pending_approval"
    /\ PolicyLoads
    /\ Become(a, [actions[a] EXCEPT !.loaded = {Seen(r) : r \in ActiveRows(actions[a].skill)}])
    /\ UNCHANGED <<registryVars, drafts, suggested, claims, jobs, ran, drifts>>

(* An approval evaluates again, and only whether the skill is allowed.     *)
Approve(a) ==
    LET cleared == {m \in actions[a].loaded : Allowed(m.manifest)}
    IN  /\ actions[a].status = "pending_approval"
        /\ actions[a].loaded # {}
        /\ Become(a, [actions[a] EXCEPT
                !.approved = cleared, !.loaded = {},
                !.status = IF cleared = {} THEN "denied" ELSE "queued"])
        /\ UNCHANGED <<registryVars, drafts, suggested, claims, jobs, ran, drifts>>

Deny(a) ==
    /\ actions[a].status = "pending_approval"
    /\ actions[a].loaded # {}
    /\ Become(a, [actions[a] EXCEPT !.loaded = {}, !.status = "denied"])
    /\ UNCHANGED <<registryVars, drafts, suggested, claims, jobs, ran, drifts>>

(* The preview is computed from the manifest that is active now; those an  *)
(* approver may read are recorded.                                         *)
Preview(a) == \E r \in ActiveRows(actions[a].skill) :
    /\ actions[a].status = "pending_approval"
    /\ Intact(r)
    /\ Become(a, [actions[a] EXCEPT !.shown = @ \cup {r.version}])
    /\ UNCHANGED <<registryVars, drafts, suggested, claims, jobs, ran, drifts>>

(* claim_job, for an action the agent has seen queued: it reads the        *)
(* version that is active now ...                                          *)
ReadManifest(a) == \E r \in ActiveRows(actions[a].skill) :
    /\ actions[a].status \in {"queued", "running"}
    /\ Intact(r)
    /\ claims' = claims \cup {[action |-> a, version |-> r.version]}
    /\ UNCHANGED <<registryVars, drafts, suggested, actions, jobs, ran, drifts>>

(* ... and gives it to the agent, if the action is still or again queued.  *)
Claim(c) ==
    LET a == c.action
    IN  /\ actions[a].status = "queued"
        /\ actions[a].attempt < MaxAttempts
        /\ Become(a, [actions[a] EXCEPT !.status = "running", !.attempt = @ + 1])
        /\ jobs' = jobs \cup {[action |-> a, attempt |-> actions[a].attempt + 1,
                               version |-> c.version]}
        /\ claims' = claims \ {c}
        /\ UNCHANGED <<registryVars, drafts, suggested, ran, drifts>>

RefuseClaim(c) ==
    /\ actions[c.action].status # "queued"
    /\ claims' = claims \ {c}
    /\ UNCHANGED <<registryVars, drafts, suggested, actions, jobs, ran, drifts>>

(* SUPPORTED_SKILL_VERSIONS of both agents.                                *)
SupportedAnyVersion(s, v) == s \in DOMAIN Executors
Supported(s, v) == s \in DOMAIN Executors /\ v = 1

Accepts(j) ==
    LET act == actions[j.action]
    IN  Supported(act.skill, j.version) /\ act.params = Executors[act.skill]

(* The agent runs the job or refuses it, and reports; a report of an       *)
(* attempt that was taken back is refused.                                 *)
Execute(j) ==
    LET a == j.action
    IN  /\ jobs' = jobs \ {j}
        /\ ran' = IF Accepts(j) THEN ran \cup {j} ELSE ran
        /\ IF actions[a].status = "running" /\ actions[a].attempt = j.attempt
           THEN \E s \in IF Accepts(j) THEN {"succeeded", "failed"} ELSE {"failed"} :
                   Become(a, [actions[a] EXCEPT !.status = s])
           ELSE UNCHANGED actions
        /\ UNCHANGED <<registryVars, drafts, suggested, claims, drifts>>

(* The lease reaper takes an attempt back.                                 *)
Requeue(a) ==
    /\ actions[a].status = "running"
    /\ Become(a, [actions[a] EXCEPT
                    !.status = IF actions[a].attempt < MaxAttempts THEN "queued" ELSE "failed"])
    /\ UNCHANGED <<registryVars, drafts, suggested, claims, jobs, ran, drifts>>

(* An active row of skills is changed in the database, not through the API *)
(* (nothing reads the content of an inactive one).                         *)
Drift(r, m) ==
    /\ drifts < MaxDrifts
    /\ r.active /\ m # r.manifest
    /\ skills' = (skills \ {r}) \cup {[r EXCEPT !.manifest = m]}
    /\ drifts' = drifts + 1
    /\ UNCHANGED <<issues, workflows, drafts, suggested, lifeVars>>

Register == \E u \in Staff :
    \/ \E s \in Skills : DraftVersion(u, "skills", skills, s)
    \/ \E i \in Issues : DraftVersion(u, "issues", issues, i)
    \/ \E i \in issues : DraftWorkflow(u, i)
    \/ \E m \in Offered : CommitSkill(u, m)
    \/ CommitIssue(u) \/ CommitWorkflow(u) \/ RefuseRow(u)
    \/ AskProvider(u) \/ StoreDiagnosis(u)

Next ==
    \/ Register
    \/ \E a \in Actions :
          \/ \E s \in Skills, shape \in Shapes : CheckShape(a, s, shape)
          \/ Submit(a) \/ AbortSubmit(a)
          \/ LoadForDecision(a) \/ Approve(a) \/ Deny(a)
          \/ Preview(a) \/ ReadManifest(a) \/ Requeue(a)
    \/ \E c \in claims : Claim(c) \/ RefuseClaim(c)
    \/ \E j \in jobs : Execute(j)
    \/ \E r \in skills, m \in Offered : Drift(r, m)

Spec == Init /\ [][Next]_vars

(***************************************************************************)
(* Properties.                                                             *)
(***************************************************************************)
RowsOK(table, keys) == \A r \in table :
    r.of \in keys /\ r.version \in Nat \ {0} /\ r.active \in BOOLEAN

TypeOK ==
    /\ RowsOK(skills, Skills)
    /\ \A r \in skills : r.manifest \in Offered /\ r.hash \in Offered
    /\ RowsOK(issues, Issues)
    /\ RowsOK(workflows, [of : Issues, version : Nat])
    /\ \A w \in workflows : w.steps \subseteq Skills
    /\ DOMAIN drafts = Staff
    /\ suggested \subseteq Skills
    /\ \A a \in Actions :
          actions[a].status \in Statuses /\ actions[a].attempt \in 0..MaxAttempts
    /\ claims \subseteq [action : Actions, version : Nat]
    /\ ran \cup jobs \subseteq [action : Actions, attempt : 1..MaxAttempts,
                                version : Nat]
    /\ drifts \in 0..MaxDrifts

(* The versions of a key are 1..n, each of them once.                      *)
Dense(table) == \A r \in table :
    /\ \A v \in 1..r.version : \E q \in table : q.of = r.of /\ q.version = v
    /\ \A q \in table : q.of = r.of /\ q.version = r.version => q = r

(* Exactly the newest version of a key is active.                          *)
NewestIsActive(table) == \A r \in table :
    r.active <=> \A q \in table : q.of = r.of => q.version <= r.version

(* create_skill_manifest, create_issue_definition: however registrations   *)
(* overlap, a skill or an issue has the versions 1..n, each registered     *)
(* once, and exactly one active version, the newest.                       *)
OneActiveVersion ==
    /\ TypeOK
    /\ Dense(skills) /\ NewestIsActive(skills)
    /\ Dense(issues) /\ NewestIsActive(issues)

(* create_diagnostic_workflow, diagnose_incident: every remediation step   *)
(* of every workflow ever stored, and every skill a diagnosis suggested,   *)
(* names a skill that has an active version, now and not only when it was  *)
(* checked.                                                                *)
NamesStayRegistered ==
    suggested \cup UNION {w.steps : w \in workflows} \subseteq ActiveSkills

(* What was registered under a version.                                    *)
AsRegistered(s, m) == \E r \in skills :
    r.of = s /\ r.version = m.version /\ r.hash = m.manifest

(* What an agent runs was evaluated, and approved where its manifest asks  *)
(* for it, as the very version that runs and as it was registered,         *)
(* whatever was registered or changed between submission, approval and     *)
(* claim; and every preview an approver could read showed that version.    *)
RunsAsCleared == \A j \in ran :
    LET act == actions[j.action]
    IN  /\ \E m \in act.evaluated :
              /\ m.version = j.version
              /\ Allowed(m.manifest)
              /\ AsRegistered(act.skill, m)
              /\ NeedsApproval(m.manifest) => m \in act.approved
        /\ act.shown \subseteq {j.version}
=============================================================================
