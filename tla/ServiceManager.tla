--------------------------- MODULE ServiceManager ---------------------------
(***************************************************************************)
(* One service of an endpoint and the manager in charge of it, as the two  *)
(* executors meet them: systemd (linux_agent, through systemctl) or the    *)
(* Windows Service Control Manager (windows_agent, through win32service).  *)
(* Neither is code of the repository: this is what the executors allow     *)
(* for.                                                                    *)
(*                                                                         *)
(* An order is carried out by the manager in its own time, whether or not  *)
(* the one who gave it is still waiting.  systemd turns a command into a   *)
(* job: a new job replaces the one that is pending, and a job ends as done *)
(* or failed.  The SCM hands a control to the service and returns at once: *)
(* a service may accept a stop and go on showing that it runs.             *)
(*                                                                         *)
(* "instance" numbers the processes of the service, so that a service that *)
(* has been restarted is told from one that has been left running.         *)
(***************************************************************************)
EXTENDS Integers

CONSTANTS
    Platforms,          \* subset of {"systemd", "scm"}
    MaxInstances,       \* bound: processes of the service
    MaxDisturbances     \* bound: changes made by others or by the service

ASSUME PlatformsAssumption == Platforms \subseteq {"systemd", "scm"}
ASSUME ManagerAssumption == MaxInstances \in Nat /\ MaxDisturbances \in Nat

VARIABLES
    platform,       \* the manager in charge
    service,        \* the state of the service
    instance,       \* its newest process
    order,          \* what the manager has still to do
    fate,           \* how the newest order has ended
    disturbances    \* changes made by others so far

managerVars == <<platform, service, instance, order, fate, disturbances>>

(* "resting" is up without running: active (exited) for systemd, paused    *)
(* for the SCM.  Only systemd knows a failed state.                        *)
Up == {"running", "resting"}
Down == {"stopped"} \cup (IF platform = "systemd" THEN {"failed"} ELSE {})
Settled == Up \cup Down \cup {"missing"}

(* What a query shows.  systemd shows a unit that is not loaded as         *)
(* inactive.                                                               *)
Shown(s) ==
    CASE platform = "systemd" /\ s \in Up -> "active"
      [] platform = "systemd" /\ s \in {"stopped", "missing"} -> "inactive"
      [] OTHER -> s

ManagerTypeOK ==
    /\ platform \in Platforms
    /\ service \in {"running", "resting", "stopped", "failed", "starting",
                    "stopping", "missing"}
    /\ instance \in Nat
    /\ order \in {"none", "restart", "start", "stop"}
    /\ fate \in {"none", "done", "failed"}
    /\ disturbances \in 0..MaxDisturbances

ManagerInit ==
    /\ platform \in Platforms
    /\ service \in Settled \cup {"starting", "stopping"}
    /\ instance = 0
    /\ order = "none"
    /\ fate = "none"
    /\ disturbances = 0

(* systemd takes a job; a pending one is replaced.                         *)
Enqueue(job) ==
    /\ order' = job
    /\ fate' = "none"
    /\ UNCHANGED <<platform, service, instance, disturbances>>

(* The SCM takes a stop control from a service that is up.                 *)
AcceptStop ==
    /\ service \in Up
    /\ order' = "stop"
    /\ fate' = "none"
    /\ UNCHANGED <<platform, service, instance, disturbances>>

(* The SCM starts a service that is stopped.                               *)
AcceptStart ==
    /\ service = "stopped"
    /\ instance < MaxInstances
    /\ service' = "starting"
    /\ instance' = instance + 1
    /\ order' = "start"
    /\ fate' = "none"
    /\ UNCHANGED <<platform, disturbances>>

Stopping ==
    /\ order \in {"stop", "restart"}
    /\ service \in Up \cup {"starting"}
    /\ service' = "stopping"
    /\ UNCHANGED <<platform, instance, order, fate, disturbances>>

(* A stop has an end when the service is down; a restart goes on.          *)
Stopped ==
    /\ \/ service = "stopping" /\ service' \in Down
       \/ service \in Down \cup {"missing"} /\ order = "stop" /\ UNCHANGED service
    /\ IF order = "stop"
       THEN order' = "none" /\ fate' = "done"
       ELSE UNCHANGED <<order, fate>>
    /\ UNCHANGED <<platform, instance, disturbances>>

Starting ==
    /\ order = "restart"
    /\ service \in Down
    /\ instance < MaxInstances
    /\ service' = "starting"
    /\ instance' = instance + 1
    /\ order' = "start"
    /\ UNCHANGED <<platform, fate, disturbances>>

Started ==
    /\ service = "starting"
    /\ order \in {"none", "start"}
    /\ service' \in Up \cup Down
    /\ order' = "none"
    /\ fate' = IF order = "none" THEN fate ELSE IF service' \in Up THEN "done" ELSE "failed"
    /\ UNCHANGED <<platform, instance, disturbances>>

(* Somebody else, or the service itself, changes its state, or begins to:  *)
(* a start or a stop that is not the executor's is under way at any look.  *)
Disturb ==
    /\ disturbances < MaxDisturbances
    /\ order = "none"
    /\ service \in Settled
    /\ service' \in (Settled \ {service})
                      \cup (IF service \in Up THEN {"stopping"} ELSE {"starting"})
    /\ instance' = IF service \notin Up /\ service' \in Up \cup {"starting"}
                   THEN instance + 1 ELSE instance
    /\ instance' <= MaxInstances
    /\ disturbances' = disturbances + 1
    /\ UNCHANGED <<platform, order, fate>>

(* A job of systemd is cancelled, by another job or by hand.               *)
CancelJob ==
    /\ platform = "systemd"
    /\ disturbances < MaxDisturbances
    /\ order # "none"
    /\ order' = "none"
    /\ fate' = "failed"
    /\ disturbances' = disturbances + 1
    /\ UNCHANGED <<platform, service, instance>>

ManagerStep == Stopping \/ Stopped \/ Starting \/ Started \/ Disturb \/ CancelJob
=============================================================================
