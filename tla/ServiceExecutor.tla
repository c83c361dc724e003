-------------------------- MODULE ServiceExecutor --------------------------
(***************************************************************************)
(* The executors of an endpoint agent: ServiceRestartExecutor and          *)
(* DnsFlushCacheExecutor of linux_agent/executor.py and of                 *)
(* windows_agent/executor.py, the latter over Win32ServiceManager          *)
(* (win32_service_manager.py) and Win32DnsResolver.                        *)
(*                                                                         *)
(* A restart looks at the service, restarts it, looks again, and rolls     *)
(* back to what it saw first when anything went wrong.  Every command has  *)
(* a timeout, after which the service manager may still be at work on it   *)
(* (ServiceManager); the service may change by itself between any two      *)
(* steps; the agent may be killed between any two steps, and then only     *)
(* looks (verify_only).                                                    *)
(*                                                                         *)
(* With systemd one command restarts, and blocks until its job has ended.  *)
(* With the SCM a restart is a stop and a start, each of them a query, a   *)
(* control, and a wait for the state to appear.                            *)
(*                                                                         *)
(* EndpointAgent takes the report as one atomic step: this module is what  *)
(* happens inside it.                                                      *)
(***************************************************************************)
EXTENDS ServiceManager

CONSTANT MaxKills       \* bound: times the agent is killed

ASSUME KillsAssumption == MaxKills \in Nat

VARIABLES
    pc,         \* the step the executor is about to take
    phase,      \* what it is at: "restart", "rollback" or "flush"; first the job's skill
    before,     \* what it saw first
    seen,       \* what it saw last, since its last command
    touched,    \* the manager has taken a command from it
    report,     \* the result it has handed to the agent
    kills       \* times the agent was killed

executorVars == <<pc, phase, before, seen, touched, report, kills>>
vars == <<managerVars, executorVars>>

Steps == {"precheck", "send", "waiting", "stop", "stopping", "start", "starting",
          "look", "flush", "flushing", "resolver"}

(* The loop of the agent after execute was cut short: "raised" and         *)
(* "killed" are found again by its next cycle, "dead" has no next cycle.   *)
Breaks == {"raised", "killed", "dead"}

(* Results: the success, rollback_attempted and rollback_succeeded of the  *)
(* code, and which function returned them.                                 *)
Reports == {"none", "declined", "untouched", "succeeded", "restored", "unrestored",
            "recovered", "unhealthy", "flushed", "unflushed", "unverifiable"}

Unseen == [state |-> "unseen", instance |-> 0]
Sights == [state : {"running", "resting", "stopped", "failed", "starting", "stopping",
                    "missing", "unseen"},
           instance : Nat]

TypeOK ==
    /\ ManagerTypeOK
    /\ pc \in Steps \cup Breaks \cup {"idle", "done"}
    /\ phase \in {"restart", "rollback", "flush"}
    /\ before \in Sights
    /\ seen \in Sights
    /\ touched \in BOOLEAN
    /\ report \in Reports
    /\ kills \in 0..MaxKills

Init ==
    /\ ManagerInit
    /\ pc = "idle"
    /\ phase \in {"restart", "flush"}
    /\ before = Unseen
    /\ seen = Unseen
    /\ touched = FALSE
    /\ report = "none"
    /\ kills = 0

Goto(step) == pc' = step /\ UNCHANGED <<phase, report>>

Return(result) == pc' = "done" /\ report' = result /\ UNCHANGED phase

Seen == [state |-> service, instance |-> instance]

(* The first step of a restart, or of a rollback: systemctl restart or     *)
(* stop; start or stop of the SCM.                                         *)
Entry(what) ==
    CASE platform = "systemd" -> "send"
      [] platform = "scm" /\ what = "rollback" /\ before.state = "running" -> "start"
      [] OTHER -> "stop"

(* Anything that goes wrong in a restart leads to the rollback; in the     *)
(* rollback it means that the service is not restored.                     *)
GoWrongPlainly == Return(IF phase = "restart" THEN "untouched" ELSE "unrestored")
GoWrong ==
    IF phase = "restart"
    THEN phase' = "rollback" /\ pc' = Entry("rollback") /\ UNCHANGED report
    ELSE Return("unrestored")

(* The parameters are not those of the skill, or not a service of the      *)
(* allowlist.                                                              *)
Decline ==
    /\ pc = "idle"
    /\ Return("declined")
    /\ UNCHANGED <<managerVars, before, seen, touched, kills>>

Begin ==
    /\ pc = "idle"
    /\ Goto(IF phase = "restart" THEN "precheck" ELSE "flush")
    /\ UNCHANGED <<managerVars, before, seen, touched, kills>>

(* The precheck reads the state; it may fail, or find no such service.     *)
Precheck ==
    /\ pc = "precheck"
    /\ \/ Return("untouched") /\ UNCHANGED before
       \/ before' = Seen /\ IF service = "missing"
                            THEN Return("untouched")
                            ELSE Goto(Entry("restart"))
    /\ UNCHANGED <<managerVars, seen, touched, kills>>

(* systemctl is run.  What keeps it from being run is an OSError: rollback *)
(* catches it, restart lets it out, and so out of the cycle; unless it is  *)
(* a PermissionError, which execute_job takes for a refusal.               *)
Job == IF phase = "restart" \/ Shown(before.state) = "active" THEN "restart" ELSE "stop"

Send ==
    /\ pc = "send"
    /\ Enqueue(Job)
    /\ Goto("waiting")
    /\ touched' = TRUE
    /\ seen' = Unseen
    /\ UNCHANGED <<before, kills>>

CannotSend ==
    /\ pc = "send"
    /\ IF phase = "restart" THEN Goto("raised") \/ Return("declined")
                            ELSE Return("unrestored")
    /\ UNCHANGED <<managerVars, before, seen, touched, kills>>

(* systemctl ends with its job.                                            *)
JobDone ==
    /\ pc = "waiting"
    /\ order = "none"
    /\ \/ phase = "restart" /\ fate # "done" /\ GoWrong
       \/ (phase = "restart" => fate = "done") /\ Goto("look")
    /\ UNCHANGED <<managerVars, before, seen, touched, kills>>

(* Win32ServiceManager.stop.  The first query of stop and of start is      *)
(* outside of what becomes a ServiceControlError.                          *)
QueryRaises ==
    /\ pc \in {"stop", "start"}
    /\ Goto("dead")
    /\ UNCHANGED <<managerVars, before, seen, touched, kills>>

Stop ==
    /\ pc = "stop"
    /\ IF service = "stopped"
       THEN UNCHANGED <<managerVars, touched>>
       ELSE AcceptStop /\ touched' = TRUE
    /\ Goto("stopping")
    /\ seen' = Unseen
    /\ UNCHANGED <<before, kills>>

(* Win32ServiceManager.start: a service that runs is not started.          *)
Start ==
    /\ pc = "start"
    /\ IF service = "running"
       THEN UNCHANGED <<managerVars, touched>>
       ELSE AcceptStart /\ touched' = TRUE
    /\ Goto("starting")
    /\ seen' = Unseen
    /\ UNCHANGED <<before, kills>>

(* The manager or the service cannot be opened, or refuses the control.    *)
ControlFails ==
    /\ pc \in {"stop", "start"}
    /\ GoWrong
    /\ UNCHANGED <<managerVars, before, seen, touched, kills>>

AwaitedUnlessStop == IF pc = "starting" THEN {"running"} ELSE {"running", "resting", "stopping", "stopped"}
Awaited == IF pc = "starting" THEN {"running"} ELSE {"stopped"}

StateReached ==
    /\ pc \in {"stopping", "starting"}
    /\ service \in Awaited
    /\ Goto(IF pc = "stopping" /\ phase = "restart" THEN "start" ELSE "look")
    /\ UNCHANGED <<managerVars, before, seen, touched, kills>>

(* Every wait is bounded; what was ordered is not taken back.              *)
WaitsOfWindows == {"stopping", "starting"}
Waits == {"waiting", "stopping", "starting"}

TimeOut ==
    /\ pc \in Waits
    /\ GoWrong
    /\ UNCHANGED <<managerVars, before, seen, touched, kills>>

(* The state after the restart, or after the rollback.                     *)
Restored ==
    /\ platform = "systemd" => fate = "done"
    /\ Shown(service) = Shown(before.state)

Look ==
    /\ pc = "look"
    /\ seen' = Seen
    /\ CASE phase = "restart" /\ service = "running" -> Return("succeeded")
         [] phase = "restart" /\ service # "running" -> GoWrong
         [] OTHER -> Return(IF Restored THEN "restored" ELSE "unrestored")
    /\ UNCHANGED <<managerVars, before, touched, kills>>

LookFails ==
    /\ pc = "look"
    /\ GoWrong
    /\ UNCHANGED <<managerVars, before, seen, touched, kills>>

(* DnsFlushCacheExecutor: resolvectl or DnsFlushResolverCache is run, or   *)
(* cannot be.  A flush is never rolled back, whatever goes wrong after it. *)
Flush ==
    /\ pc = "flush"
    /\ touched' = TRUE
    /\ Goto("flushing")
    /\ UNCHANGED <<managerVars, before, seen, kills>>

CannotFlush ==
    /\ pc = "flush"
    /\ Return("unflushed")
    /\ UNCHANGED <<managerVars, before, seen, touched, kills>>

(* It fails or takes too long, or else: on Linux it counts when            *)
(* systemd-resolved still runs after it, on Windows at once.               *)
FlushEnds ==
    /\ pc = "flushing"
    /\ \/ Return("unflushed")
       \/ IF platform = "systemd" THEN Goto("resolver") ELSE Return("flushed")
    /\ UNCHANGED <<managerVars, before, seen, touched, kills>>

CheckResolver ==
    /\ pc = "resolver"
    /\ \/ Return("unflushed") /\ UNCHANGED seen
       \/ /\ seen' = Seen
          /\ Return(IF service = "running" THEN "flushed" ELSE "unflushed")
    /\ UNCHANGED <<managerVars, before, touched, kills>>

(* The agent is killed, with the machine or alone; its next process finds  *)
(* the execution in the journal.                                           *)
Kill ==
    /\ kills < MaxKills
    /\ pc \in Steps \cup {"dead"}
    /\ kills' = kills + 1
    /\ Goto("killed")
    /\ UNCHANGED <<managerVars, before, seen, touched>>

(* recover_interrupted_jobs: a restart is verified without a command, a    *)
(* flush cannot be, nor a restart when the agent has been restarted with   *)
(* an empty allowlist.                                                     *)
Recover ==
    /\ pc \in {"raised", "killed"}
    /\ \/ /\ phase # "flush"
          /\ seen' = Seen
          /\ Return(IF service = "running" THEN "recovered" ELSE "unhealthy")
       \/ /\ phase # "flush"
          /\ Return("unhealthy")
          /\ UNCHANGED seen
       \/ /\ phase = "flush" \/ pc = "killed"
          /\ Return("unverifiable")
          /\ UNCHANGED seen
    /\ UNCHANGED <<managerVars, before, touched, kills>>

LinuxStep == Send \/ CannotSend \/ JobDone
WindowsStep == QueryRaises \/ Stop \/ Start \/ ControlFails \/ StateReached
ExecutorStep ==
    \/ Precheck \/ LinuxStep \/ WindowsStep \/ TimeOut \/ Look \/ LookFails
    \/ Flush \/ CannotFlush \/ FlushEnds \/ CheckResolver \/ Recover

Next ==
    \/ ManagerStep /\ UNCHANGED executorVars
    \/ Decline \/ Begin
    \/ ExecutorStep
    \/ Kill

Spec == Init /\ [][Next]_vars

(* The executor is a loop without waits that have no timeout.  Nothing     *)
(* makes the manager carry out an order.                                   *)
Fairness == WF_vars(ExecutorStep)
FairSpec == Spec /\ Fairness
-----------------------------------------------------------------------------
(* A reported success is about a process that was not there before the     *)
(* restart: systemctl has waited for its job, and Win32ServiceManager.stop *)
(* for the stopped state, however the service changed in between.          *)
SuccessIsFresh ==
    report = "succeeded" =>
        seen.state = "running" /\ seen.instance > before.instance

(* A rollback that is reported as successful has seen the service back in  *)
(* the state it had first, and has left no order behind that could still   *)
(* change it.  The exception is a stop that a Windows service has accepted *)
(* and not begun: start finds it running and returns at once.              *)
RestoredIsBack ==
    report = "restored" =>
        /\ Shown(seen.state) = Shown(before.state)
        /\ \/ order = "none"
           \/ platform = "scm" /\ order = "stop" /\ before.state = "running"

(* The executors keep the promise the agent's job cycle is built on: one   *)
(* result for each job; a failed restart has a rollback unless nothing was *)
(* changed, a failed flush never has one; a refusal has changed nothing;   *)
(* and after an interruption only what verify_only saw.                    *)
Stage ==
    CASE pc = "idle" -> "offered"
      [] pc = "done" -> "answered"
      [] pc \in Breaks -> "interrupted"
      [] OTHER -> "executing"

JobResult ==
    CASE report = "none" -> "none"
      [] report \in {"declined", "unverifiable"} ->
            [origin |-> "rejected", success |-> FALSE, rollback |-> "none"]
      [] report \in {"succeeded", "flushed"} ->
            [origin |-> "executed", success |-> TRUE, rollback |-> "none"]
      [] report \in {"untouched", "unflushed"} ->
            [origin |-> "executed", success |-> FALSE, rollback |-> "none"]
      [] report = "restored" ->
            [origin |-> "executed", success |-> FALSE, rollback |-> "restored"]
      [] report = "unrestored" ->
            [origin |-> "executed", success |-> FALSE, rollback |-> "failed"]
      [] report \in {"recovered", "unhealthy"} ->
            [origin |-> "observed", success |-> report = "recovered", rollback |-> "none"]

Promise == INSTANCE ExecutionPromise
             WITH stage <- Stage, reversible <- phase # "flush", changed <- touched,
                  result <- JobResult
KeepsExecutionPromise == Promise!Spec

(* Every execution ends in a report, however long the service manager      *)
(* takes: every command has a timeout and an interrupted execution is      *)
(* found by the next cycle.  A raw error of the Windows API escapes both   *)
(* the executor and the agent's loop (service.py _run), whose thread then  *)
(* has no next cycle.                                                      *)
ExecutionsAreReported ==
    pc \in Steps \cup Breaks
        ~> (report # "none" \/ (platform = "scm" /\ pc = "dead"))
=============================================================================
