----------------------- MODULE ServiceExecutor_proofs -----------------------
(***************************************************************************)
(* Proofs about the executors, for either platform and any number of       *)
(* disturbances, processes of the service and kills of the agent.          *)
(***************************************************************************)
EXTENDS ServiceExecutor, TLAPS

(* Which steps there are on a platform and in a phase, and that a report   *)
(* is the end.                                                             *)
StepsFit ==
    /\ pc \in {"send", "waiting"} => platform = "systemd"
    /\ pc \in {"stop", "stopping", "start", "starting", "dead"} => platform = "scm"
    /\ pc = "idle" => phase # "rollback"
    /\ pc \in {"precheck", "raised"} => phase = "restart"
    /\ pc \in {"flush", "flushing", "resolver"} => phase = "flush"
    /\ phase = "flush" => pc \notin {"send", "waiting", "stop", "stopping", "start",
                                     "starting", "look"}
    /\ pc = "done" <=> report # "none"

(* What has given no command has changed nothing.                          *)
TouchedLater ==
    touched => /\ pc \notin {"idle", "precheck", "raised", "flush"}
               /\ pc = "send" => phase = "rollback"

(* What the SCM has been told shows in the state, except for a stop that   *)
(* the service has not begun: nothing is pending once it is stopped.       *)
ControlsShow ==
    platform = "scm" =>
        /\ order # "restart"
        /\ order = "start" => service = "starting"
        /\ order = "stop" => service \in {"running", "resting", "stopping"}

(* systemctl looks again when its job has ended, Win32ServiceManager when  *)
(* the state has appeared.                                                 *)
OrdersFit ==
    /\ platform = "systemd" /\ pc = "look" => order = "none"
    /\ platform = "scm" /\ pc = "look" /\ phase = "rollback" =>
          order = "none" \/ (order = "stop" /\ before.state = "running")
    /\ platform = "scm" /\ phase = "rollback" /\ pc \in {"start", "starting"} =>
          before.state = "running"

(* A restart is on its way to a new process.                               *)
RestartsAfresh ==
    /\ before.instance <= instance
    /\ phase = "restart" =>
          /\ pc = "waiting" =>
                \/ order = "restart"
                \/ order = "start" /\ before.instance < instance
                \/ order = "none" /\ (fate = "done" => before.instance < instance)
          /\ pc \in {"start", "starting"} =>
                before.instance < instance \/ service \in {"stopped", "missing"}
          /\ pc = "look" => before.instance < instance

ExecutorInvariant ==
    /\ TypeOK
    /\ StepsFit
    /\ TouchedLater
    /\ ControlsShow
    /\ OrdersFit
    /\ RestartsAfresh
    /\ SuccessIsFresh
    /\ RestoredIsBack

LEMMA ExecutorInit == Init => ExecutorInvariant
<1> SUFFICES ASSUME Init PROVE ExecutorInvariant
  OBVIOUS
<1> USE DEF Init, ManagerInit
<1>1. TypeOK
  <2>1. Unseen \in Sights
    BY DEF Unseen, Sights
  <2>2. ManagerTypeOK
    BY PlatformsAssumption, ManagerAssumption DEF ManagerTypeOK, Settled, Up, Down
  <2>3. kills \in 0..MaxKills
    BY KillsAssumption
  <2>4. report \in Reports
    BY DEF Reports
  <2>5. touched \in BOOLEAN
    OBVIOUS
  <2> QED
    BY <2>1, <2>2, <2>3, <2>4, <2>5 DEF TypeOK
<1>2. StepsFit /\ TouchedLater /\ ControlsShow /\ OrdersFit
  BY DEF StepsFit, TouchedLater, ControlsShow, OrdersFit
<1>3. RestartsAfresh
  BY DEF RestartsAfresh, Unseen
<1>4. SuccessIsFresh /\ RestoredIsBack
  BY DEF SuccessIsFresh, RestoredIsBack
<1> QED
  BY <1>1, <1>2, <1>3, <1>4 DEF ExecutorInvariant

(* A step of the service manager gives no order and loses no process.      *)
LEMMA ManagerFrame ==
    ASSUME ManagerTypeOK, ControlsShow, ManagerStep
    PROVE  /\ ManagerTypeOK'
           /\ ControlsShow'
           /\ UNCHANGED platform
           /\ instance <= instance'
           /\ \/ order' \in {order, "none"}
              \/ order = "restart" /\ order' = "start" /\ instance < instance'
           /\ order # "none" /\ order' = "none" => order # "restart" \/ fate' = "failed"
           /\ order = "none" => order' = "none" /\ fate' = fate
           /\ platform = "scm" /\ service \in {"stopped", "missing"} =>
                 service' \in {"stopped", "missing"} \/ instance < instance'
<1> USE DEF ManagerTypeOK, ControlsShow
<1>1. CASE Stopping
  BY <1>1 DEF Stopping, Up
<1>2. CASE Stopped
  BY <1>2 DEF Stopped, Down
<1>3. CASE Starting
  BY <1>3 DEF Starting, Down
<1>4. CASE Started
  BY <1>4 DEF Started, Up, Down
<1>5. CASE Disturb
  BY <1>5, ManagerAssumption DEF Disturb, Settled, Up, Down
<1>6. CASE CancelJob
  BY <1>6, ManagerAssumption DEF CancelJob
<1> QED
  BY <1>1, <1>2, <1>3, <1>4, <1>5, <1>6 DEF ManagerStep

(* The invariant survives whatever the service manager does meanwhile.     *)
LEMMA ManagerKeeps ==
    ASSUME ExecutorInvariant, ManagerStep, UNCHANGED executorVars
    PROVE  ExecutorInvariant'
<1> USE DEF ExecutorInvariant, executorVars
<1>1. ManagerTypeOK
  BY DEF TypeOK
<1> HIDE DEF ExecutorInvariant
<1>2. /\ ManagerTypeOK' /\ ControlsShow' /\ UNCHANGED platform
      /\ instance <= instance'
      /\ \/ order' \in {order, "none"}
         \/ order = "restart" /\ order' = "start" /\ instance < instance'
      /\ order # "none" /\ order' = "none" => order # "restart" \/ fate' = "failed"
      /\ order = "none" => order' = "none" /\ fate' = fate
      /\ platform = "scm" /\ service \in {"stopped", "missing"} =>
            service' \in {"stopped", "missing"} \/ instance < instance'
  BY <1>1, ManagerFrame DEF ExecutorInvariant
<1> USE DEF ExecutorInvariant
<1>3. TypeOK'
  BY <1>2 DEF TypeOK
<1>4. StepsFit' /\ TouchedLater'
  BY <1>2 DEF StepsFit, TouchedLater
<1>5. OrdersFit'
  BY <1>1, <1>2 DEF OrdersFit, ControlsShow, ManagerTypeOK
<1>6. RestartsAfresh'
  <2>1. before.instance \in Nat /\ instance \in Nat /\ instance' \in Nat
    BY <1>1, <1>2 DEF TypeOK, ManagerTypeOK, Sights
  <2>2. pc \in {"start", "starting"} => platform = "scm"
    BY DEF StepsFit
  <2> QED
    BY <1>1, <1>2, <2>1, <2>2 DEF RestartsAfresh, ManagerTypeOK
<1>7. SuccessIsFresh'
  BY DEF SuccessIsFresh
<1>8. RestoredIsBack'
  <2>1. Shown(seen.state)' = Shown(seen.state) /\ Shown(before.state)' = Shown(before.state)
    BY <1>2 DEF Shown, Up
  <2> QED
    BY <1>1, <1>2, <2>1 DEF RestoredIsBack, ControlsShow, ManagerTypeOK
<1> QED
  BY <1>2, <1>3, <1>4, <1>5, <1>6, <1>7, <1>8

(* Going wrong leads to a rollback, once, and then to its failure.         *)
LEMMA WrongWay ==
    ASSUME TypeOK, GoWrong, phase # "flush", UNCHANGED <<platform, before>>
    PROVE  \/ /\ phase = "restart" /\ phase' = "rollback" /\ report' = report
              /\ \/ platform = "systemd" /\ pc' = "send"
                 \/ platform = "scm" /\ pc' = "stop"
                 \/ platform = "scm" /\ pc' = "start" /\ before.state = "running"
           \/ phase = "rollback" /\ phase' = phase /\ pc' = "done" /\ report' = "unrestored"
<1>1. phase \in {"restart", "rollback"} /\ platform \in {"systemd", "scm"}
  BY PlatformsAssumption DEF TypeOK, ManagerTypeOK
<1>2. CASE phase = "restart"
  BY <1>1, <1>2 DEF GoWrong, Entry
<1>3. CASE phase = "rollback"
  BY <1>3 DEF GoWrong, Return
<1> QED
  BY <1>1, <1>2, <1>3

(* Steps that leave the service alone and hand nothing new to its manager. *)
LEMMA QuietTypes ==
    ASSUME ExecutorInvariant, UNCHANGED <<managerVars, touched>>,
           pc' \in Steps \cup Breaks \cup {"idle", "done"},
           phase' \in {"restart", "rollback", "flush"}, report' \in Reports,
           before' \in {before, Seen}, seen' \in {seen, Seen, Unseen},
           kills' \in 0..MaxKills
    PROVE  TypeOK' /\ ControlsShow'
<1>1. Seen \in Sights /\ Unseen \in Sights
  BY DEF ExecutorInvariant, TypeOK, ManagerTypeOK, Seen, Unseen, Sights
<1>2. ManagerTypeOK' /\ ControlsShow'
  BY DEF ExecutorInvariant, TypeOK, ManagerTypeOK, ControlsShow, managerVars
<1> QED
  BY <1>1, <1>2 DEF ExecutorInvariant, TypeOK

(* The executor ends without a success or a restoration.                   *)
LEMMA EndingKeeps ==
    ASSUME ExecutorInvariant, pc \in Steps \cup Breaks \cup {"idle"},
           NEW r \in Reports \ {"none", "succeeded", "restored"}, Return(r),
           UNCHANGED <<managerVars, kills, touched>>,
           before' = before \/ (before' = Seen /\ pc = "precheck"),
           seen' \in {seen, Seen}
    PROVE  ExecutorInvariant'
<1>1. pc' = "done" /\ report' = r /\ phase' = phase
  BY DEF Return
<1>2. TypeOK' /\ ControlsShow'
  BY <1>1, QuietTypes DEF ExecutorInvariant, TypeOK
<1>3. StepsFit' /\ TouchedLater' /\ OrdersFit'
  BY <1>1 DEF ExecutorInvariant, StepsFit, TouchedLater, OrdersFit, managerVars
<1>4. RestartsAfresh'
  BY <1>1 DEF ExecutorInvariant, RestartsAfresh, managerVars, Seen, TypeOK, ManagerTypeOK
<1>5. SuccessIsFresh' /\ RestoredIsBack'
  BY <1>1 DEF SuccessIsFresh, RestoredIsBack
<1> QED
  BY <1>2, <1>3, <1>4, <1>5 DEF ExecutorInvariant

(* A failed step in either phase.                                          *)
LEMMA GoWrongKeeps ==
    ASSUME ExecutorInvariant, GoWrong,
           pc \in {"waiting", "stop", "stopping", "start", "starting", "look"},
           UNCHANGED <<managerVars, kills, before, touched>>,
           seen' \in {seen, Seen}
    PROVE  ExecutorInvariant'
<1>1. /\ phase \in {"restart", "rollback"}
      /\ UNCHANGED platform
      /\ report = "none"
  BY DEF ExecutorInvariant, TypeOK, StepsFit, managerVars
<1>2. CASE phase = "rollback"
  <2>1. Return("unrestored")
    BY <1>2 DEF GoWrong
  <2> QED
    BY <2>1, EndingKeeps DEF Steps, Breaks, Reports
<1>3. CASE phase = "restart"
  <2>1. /\ phase' = "rollback" /\ report' = "none"
        /\ \/ platform = "systemd" /\ pc' = "send"
           \/ platform = "scm" /\ pc' = "stop"
           \/ platform = "scm" /\ pc' = "start" /\ before.state = "running"
    BY <1>1, <1>3, WrongWay DEF ExecutorInvariant
  <2>2. TypeOK' /\ ControlsShow'
    BY <2>1, QuietTypes DEF ExecutorInvariant, TypeOK, Steps, Reports
  <2>3. StepsFit' /\ TouchedLater' /\ OrdersFit'
    BY <2>1, <1>1 DEF ExecutorInvariant, StepsFit, TouchedLater, OrdersFit, managerVars
  <2>4. RestartsAfresh' /\ SuccessIsFresh' /\ RestoredIsBack'
    BY <2>1 DEF ExecutorInvariant, RestartsAfresh, managerVars, SuccessIsFresh, RestoredIsBack
  <2> QED
    BY <2>2, <2>3, <2>4 DEF ExecutorInvariant
<1> QED
  BY <1>1, <1>2, <1>3

(* A step within a phase that gives no order.                              *)
LEMMA GotoKeeps ==
    ASSUME ExecutorInvariant, NEW step \in Steps \cup Breaks, Goto(step),
           pc \in Steps \cup Breaks \cup {"idle"},
           UNCHANGED <<managerVars, touched, seen>>,
           before' = before \/ (before' = Seen /\ pc = "precheck"),
           kills' \in 0..MaxKills,
           StepsFit', TouchedLater', OrdersFit', RestartsAfresh'
    PROVE  ExecutorInvariant'
<1>1. pc' = step /\ phase' = phase /\ report' = report /\ report = "none"
  BY DEF Goto, ExecutorInvariant, StepsFit, Steps, Breaks
<1>2. TypeOK' /\ ControlsShow'
  BY <1>1, QuietTypes DEF ExecutorInvariant, TypeOK
<1>3. SuccessIsFresh' /\ RestoredIsBack'
  BY <1>1 DEF SuccessIsFresh, RestoredIsBack
<1> QED
  BY <1>2, <1>3 DEF ExecutorInvariant

LEMMA StartOfExecution ==
    ASSUME ExecutorInvariant, Decline \/ Begin \/ Precheck
    PROVE  ExecutorInvariant'
<1>1. CASE Decline
  BY <1>1, EndingKeeps DEF Decline, Reports, managerVars
<1>2. CASE Begin
  <2>1. PICK step \in {"precheck", "flush"} :
           Goto(step) /\ (phase = IF step = "precheck" THEN "restart" ELSE "flush")
    BY <1>2 DEF Begin, ExecutorInvariant, StepsFit, TypeOK
  <2>2. pc = "idle" /\ ~touched /\ UNCHANGED <<managerVars, before, seen, touched, kills>>
    BY <1>2 DEF Begin, ExecutorInvariant, TouchedLater, TypeOK
  <2>3. StepsFit' /\ TouchedLater' /\ OrdersFit' /\ RestartsAfresh'
    BY <2>1, <2>2 DEF Goto, ExecutorInvariant, StepsFit, TouchedLater, OrdersFit,
                RestartsAfresh, managerVars
  <2> QED
    BY <2>1, <2>2, <2>3, GotoKeeps DEF Steps, ExecutorInvariant, TypeOK
<1>3. CASE Precheck
  <2>1. /\ pc = "precheck" /\ phase = "restart" /\ report = "none" /\ ~touched
        /\ UNCHANGED <<managerVars, seen, touched, kills>>
    BY <1>3 DEF Precheck, ExecutorInvariant, StepsFit, TouchedLater, TypeOK
  <2>2. CASE Return("untouched") /\ before' \in {before, Seen}
    BY <2>1, <2>2, EndingKeeps DEF Steps, Reports
  <2>3. CASE before' = Seen /\ Goto(Entry("restart"))
    <3>1. \/ platform = "systemd" /\ Entry("restart") = "send"
          \/ platform = "scm" /\ Entry("restart") = "stop"
      BY PlatformsAssumption DEF Entry, ExecutorInvariant, TypeOK, ManagerTypeOK
    <3>2. StepsFit' /\ TouchedLater' /\ OrdersFit' /\ RestartsAfresh'
      BY <2>1, <2>3, <3>1 DEF Goto, ExecutorInvariant, StepsFit, TouchedLater, OrdersFit,
         RestartsAfresh, managerVars, Seen, TypeOK, ManagerTypeOK
    <3> QED
      BY <2>1, <2>3, <3>1, <3>2, GotoKeeps DEF Steps, ExecutorInvariant, TypeOK
  <2> QED
    BY <1>3, <2>2, <2>3 DEF Precheck
<1> QED
  BY <1>1, <1>2, <1>3

LEMMA LinuxKeeps ==
    ASSUME ExecutorInvariant, LinuxStep
    PROVE  ExecutorInvariant'
<1>1. CASE Send
  <2>1. /\ pc = "send" /\ pc' = "waiting" /\ platform = "systemd" /\ report = "none"
        /\ phase \in {"restart", "rollback"}
        /\ order' \in {"restart", "stop"} /\ fate' = "none"
        /\ phase = "restart" => order' = "restart"
        /\ touched' = TRUE /\ seen' = Unseen
        /\ UNCHANGED <<platform, service, instance, disturbances, phase, report, before, kills>>
    BY <1>1 DEF Send, Enqueue, Job, Goto, ExecutorInvariant, StepsFit, TypeOK
  <2>2. TypeOK'
    BY <2>1 DEF ExecutorInvariant, TypeOK, ManagerTypeOK, Steps, Unseen, Sights
  <2>3. StepsFit' /\ TouchedLater' /\ ControlsShow' /\ OrdersFit'
    BY <2>1 DEF ExecutorInvariant, StepsFit, TouchedLater, ControlsShow, OrdersFit
  <2>4. RestartsAfresh' /\ SuccessIsFresh' /\ RestoredIsBack'
    BY <2>1 DEF ExecutorInvariant, RestartsAfresh, SuccessIsFresh, RestoredIsBack
  <2> QED
    BY <2>2, <2>3, <2>4 DEF ExecutorInvariant
<1>2. CASE CannotSend
  <2>1. pc = "send" /\ UNCHANGED <<managerVars, before, seen, touched, kills>>
    BY <1>2 DEF CannotSend
  <2>2. CASE Return("unrestored") \/ Return("declined")
    BY <2>1, <2>2, EndingKeeps DEF Steps, Reports
  <2>3. CASE phase = "restart" /\ Goto("raised")
    <3>1. StepsFit' /\ TouchedLater' /\ OrdersFit' /\ RestartsAfresh'
      BY <2>1, <2>3 DEF Goto, ExecutorInvariant, StepsFit, TouchedLater, OrdersFit,
         RestartsAfresh, managerVars
    <3> QED
      BY <2>1, <2>3, <3>1, GotoKeeps DEF Steps, Breaks, ExecutorInvariant, TypeOK
  <2> QED
    BY <1>2, <2>2, <2>3 DEF CannotSend
<1>3. CASE JobDone
  <2>1. pc = "waiting" /\ order = "none" /\ UNCHANGED <<managerVars, before, seen, touched, kills>>
    BY <1>3 DEF JobDone
  <2>2. CASE GoWrong
    BY <2>1, <2>2, GoWrongKeeps
  <2>3. CASE (phase = "restart" => fate = "done") /\ Goto("look")
    <3>1. StepsFit' /\ TouchedLater' /\ OrdersFit' /\ RestartsAfresh'
      BY <2>1, <2>3 DEF Goto, ExecutorInvariant, StepsFit, TouchedLater, OrdersFit,
         RestartsAfresh, managerVars
    <3> QED
      BY <2>1, <2>3, <3>1, GotoKeeps DEF Steps, ExecutorInvariant, TypeOK
  <2> QED
    BY <1>3, <2>2, <2>3 DEF JobDone
<1> QED
  BY <1>1, <1>2, <1>3 DEF LinuxStep

LEMMA WindowsKeeps ==
    ASSUME ExecutorInvariant, WindowsStep
    PROVE  ExecutorInvariant'
<1>1. CASE QueryRaises
  <2>1. StepsFit' /\ TouchedLater' /\ OrdersFit' /\ RestartsAfresh'
    BY <1>1 DEF QueryRaises, Goto, ExecutorInvariant, StepsFit, TouchedLater, OrdersFit,
       RestartsAfresh, managerVars
  <2> QED
    BY <1>1, <2>1, GotoKeeps DEF QueryRaises, Steps, Breaks, ExecutorInvariant, TypeOK
<1>2. CASE Stop
  <2>1. /\ pc = "stop" /\ pc' = "stopping" /\ platform = "scm" /\ report = "none"
        /\ phase \in {"restart", "rollback"}
        /\ seen' = Unseen /\ touched' \in {touched, TRUE}
        /\ UNCHANGED <<platform, service, instance, disturbances, phase, report, before, kills>>
        /\ \/ UNCHANGED <<order, fate>>
           \/ service \in Up /\ order' = "stop" /\ fate' = "none"
    BY <1>2 DEF Stop, AcceptStop, Goto, ExecutorInvariant, StepsFit, TypeOK, managerVars
  <2>2. TypeOK'
    BY <2>1 DEF ExecutorInvariant, TypeOK, ManagerTypeOK, Steps, Unseen, Sights
  <2>3. StepsFit' /\ TouchedLater' /\ ControlsShow' /\ OrdersFit'
    BY <2>1 DEF ExecutorInvariant, StepsFit, TouchedLater, ControlsShow, OrdersFit, Up
  <2>4. RestartsAfresh' /\ SuccessIsFresh' /\ RestoredIsBack'
    BY <2>1 DEF ExecutorInvariant, RestartsAfresh, SuccessIsFresh, RestoredIsBack
  <2> QED
    BY <2>2, <2>3, <2>4 DEF ExecutorInvariant
<1>3. CASE Start
  <2>1. /\ pc = "start" /\ pc' = "starting" /\ platform = "scm" /\ report = "none"
        /\ phase \in {"restart", "rollback"}
        /\ seen' = Unseen /\ touched' \in {touched, TRUE}
        /\ UNCHANGED <<platform, disturbances, phase, report, before, kills>>
        /\ \/ UNCHANGED <<service, instance, order, fate>>
           \/ /\ service' = "starting" /\ instance' = instance + 1
              /\ order' = "start" /\ fate' = "none"
    BY <1>3 DEF Start, AcceptStart, Goto, ExecutorInvariant, StepsFit, TypeOK, managerVars
  <2>2. TypeOK'
    <3>1. ManagerTypeOK'
      BY <2>1 DEF ExecutorInvariant, TypeOK, ManagerTypeOK
    <3>2. Unseen \in Sights
      BY DEF Unseen, Sights
    <3> QED
      BY <2>1, <3>1, <3>2 DEF ExecutorInvariant, TypeOK, Steps
  <2>3. StepsFit' /\ TouchedLater' /\ ControlsShow' /\ OrdersFit'
    BY <2>1 DEF ExecutorInvariant, StepsFit, TouchedLater, ControlsShow, OrdersFit
  <2>4. before.instance \in Nat /\ instance \in Nat
    BY DEF ExecutorInvariant, TypeOK, ManagerTypeOK, Sights
  <2>5. RestartsAfresh' /\ SuccessIsFresh' /\ RestoredIsBack'
    BY <2>1, <2>4 DEF ExecutorInvariant, RestartsAfresh, SuccessIsFresh, RestoredIsBack
  <2> QED
    BY <2>2, <2>3, <2>5 DEF ExecutorInvariant
<1>4. CASE ControlFails
  BY <1>4, GoWrongKeeps DEF ControlFails
<1>5. CASE StateReached
  <2>1. /\ UNCHANGED <<managerVars, before, seen, touched, kills>>
        /\ platform = "scm"
        /\ \/ pc = "starting" /\ service = "running" /\ Goto("look")
           \/ pc = "stopping" /\ service = "stopped" /\ phase = "restart" /\ Goto("start")
           \/ pc = "stopping" /\ service = "stopped" /\ phase = "rollback" /\ Goto("look")
    BY <1>5 DEF StateReached, Awaited, ExecutorInvariant, StepsFit, TypeOK
  <2>2. StepsFit' /\ TouchedLater' /\ OrdersFit' /\ RestartsAfresh'
    BY <2>1 DEF Goto, ExecutorInvariant, StepsFit, TouchedLater, OrdersFit, ControlsShow,
       RestartsAfresh, managerVars, TypeOK, ManagerTypeOK
  <2> QED
    BY <2>1, <2>2, GotoKeeps DEF Steps, ExecutorInvariant, TypeOK
<1> QED
  BY <1>1, <1>2, <1>3, <1>4, <1>5 DEF WindowsStep

LEMMA LooksKeep ==
    ASSUME ExecutorInvariant, TimeOut \/ Look \/ LookFails
    PROVE  ExecutorInvariant'
<1>1. CASE TimeOut
  BY <1>1, GoWrongKeeps DEF TimeOut, Waits
<1>2. CASE LookFails
  BY <1>2, GoWrongKeeps DEF LookFails
<1>3. CASE Look
  <2>1. /\ pc = "look" /\ seen' = Seen /\ report = "none"
        /\ phase \in {"restart", "rollback"}
        /\ UNCHANGED <<managerVars, before, touched, kills>>
    BY <1>3 DEF Look, ExecutorInvariant, StepsFit, TypeOK
  <2>2. CASE GoWrong
    BY <2>1, <2>2, GoWrongKeeps
  <2>3. CASE Return("unrestored")
    BY <2>1, <2>3, EndingKeeps DEF Steps, Reports
  <2>4. ASSUME NEW r \in {"succeeded", "restored"}, Return(r),
               r = "succeeded" => phase = "restart" /\ service = "running",
               r = "restored" => phase = "rollback" /\ Restored
        PROVE  ExecutorInvariant'
    <3>1. pc' = "done" /\ report' = r /\ phase' = phase
      BY <2>4 DEF Return
    <3>2. TypeOK' /\ ControlsShow'
      BY <2>1, <2>4, <3>1, QuietTypes DEF ExecutorInvariant, TypeOK, Reports
    <3>3. StepsFit' /\ TouchedLater' /\ OrdersFit' /\ RestartsAfresh'
      BY <2>1, <2>4, <3>1 DEF ExecutorInvariant, StepsFit, TouchedLater, OrdersFit, RestartsAfresh, managerVars
    <3>4. SuccessIsFresh'
      BY <2>1, <2>4, <3>1 DEF SuccessIsFresh, ExecutorInvariant, RestartsAfresh, Seen
    <3>5. ASSUME r = "restored" PROVE RestoredIsBack'
      <4>1. platform' = platform /\ order' = order /\ before' = before /\ seen'.state = service
        BY <2>1 DEF managerVars, Seen
      <4>2. Shown(seen.state)' = Shown(service) /\ Shown(before.state)' = Shown(before.state)
        BY <4>1 DEF Shown, Up
      <4>3. order = "none" \/ (platform = "scm" /\ order = "stop" /\ before.state = "running")
        BY <2>1, <2>4, <3>5, PlatformsAssumption
           DEF ExecutorInvariant, OrdersFit, TypeOK, ManagerTypeOK
      <4> QED
        BY <2>4, <3>5, <4>1, <4>2, <4>3 DEF RestoredIsBack, Restored
    <3> QED
      BY <3>1, <3>2, <3>3, <3>4, <3>5 DEF ExecutorInvariant, RestoredIsBack
  <2> QED
    BY <1>3, <2>1, <2>2, <2>3, <2>4 DEF Look
<1> QED
  BY <1>1, <1>2, <1>3

LEMMA OthersKeep ==
    ASSUME ExecutorInvariant, Flush \/ CannotFlush \/ FlushEnds \/ CheckResolver \/ Kill \/ Recover
    PROVE  ExecutorInvariant'
<1>0. CASE Flush
  <2>1. /\ pc = "flush" /\ pc' = "flushing" /\ touched' = TRUE /\ report = "none"
        /\ UNCHANGED <<managerVars, phase, report, before, seen, kills>>
    BY <1>0 DEF Flush, Goto, ExecutorInvariant, StepsFit
  <2>2. TypeOK' /\ ControlsShow'
    BY <2>1 DEF ExecutorInvariant, TypeOK, ManagerTypeOK, ControlsShow, managerVars, Steps
  <2>3. StepsFit' /\ TouchedLater' /\ OrdersFit' /\ RestartsAfresh'
    BY <2>1 DEF ExecutorInvariant, StepsFit, TouchedLater, OrdersFit, RestartsAfresh, managerVars
  <2>4. SuccessIsFresh' /\ RestoredIsBack'
    BY <2>1 DEF SuccessIsFresh, RestoredIsBack
  <2> QED
    BY <2>2, <2>3, <2>4 DEF ExecutorInvariant
<1>5. CASE CannotFlush
  BY <1>5, EndingKeeps DEF CannotFlush, Steps, Reports
<1>1. CASE FlushEnds
  <2>1. pc = "flushing" /\ UNCHANGED <<managerVars, before, seen, touched, kills>>
    BY <1>1 DEF FlushEnds
  <2>2. CASE Goto("resolver")
    <3>1. StepsFit' /\ TouchedLater' /\ OrdersFit' /\ RestartsAfresh'
      BY <2>1, <2>2 DEF Goto, ExecutorInvariant, StepsFit, TouchedLater, OrdersFit,
         RestartsAfresh, managerVars
    <3> QED
      BY <2>1, <2>2, <3>1, GotoKeeps DEF Steps, ExecutorInvariant, TypeOK
  <2>3. ASSUME NEW r \in {"flushed", "unflushed"}, Return(r) PROVE ExecutorInvariant'
    BY <2>1, <2>3, EndingKeeps DEF Steps, Reports
  <2> QED
    BY <1>1, <2>2, <2>3 DEF FlushEnds
<1>2. CASE CheckResolver
  <2>1. /\ pc = "resolver" /\ seen' \in {seen, Seen}
        /\ UNCHANGED <<managerVars, before, touched, kills>>
        /\ \E r \in {"flushed", "unflushed"} : Return(r)
    BY <1>2 DEF CheckResolver
  <2>2. PICK r \in {"flushed", "unflushed"} : Return(r)
    BY <2>1
  <2> QED
    BY <2>1, <2>2, EndingKeeps DEF Steps, Reports
<1>3. CASE Kill
  <2>1. kills' \in 0..MaxKills
    BY <1>3, KillsAssumption DEF Kill, ExecutorInvariant, TypeOK
  <2>2. StepsFit' /\ TouchedLater' /\ OrdersFit' /\ RestartsAfresh'
    BY <1>3 DEF Kill, Goto, ExecutorInvariant, StepsFit, TouchedLater, OrdersFit,
       RestartsAfresh, managerVars, Steps
  <2> QED
    BY <1>3, <2>1, <2>2, GotoKeeps DEF Kill, Breaks, Steps
<1>4. CASE Recover
  <2>1. /\ pc \in {"raised", "killed"} /\ seen' \in {seen, Seen}
        /\ UNCHANGED <<managerVars, before, touched, kills>>
        /\ \E r \in {"recovered", "unhealthy", "unverifiable"} : Return(r)
    BY <1>4 DEF Recover
  <2>2. PICK r \in {"recovered", "unhealthy", "unverifiable"} : Return(r)
    BY <2>1
  <2> QED
    BY <2>1, <2>2, EndingKeeps DEF Breaks, Reports
<1> QED
  BY <1>0, <1>1, <1>2, <1>3, <1>4, <1>5

LEMMA ExecutorNext == ExecutorInvariant /\ [Next]_vars => ExecutorInvariant'
<1> SUFFICES ASSUME ExecutorInvariant, [Next]_vars PROVE ExecutorInvariant'
  OBVIOUS
<1>1. CASE UNCHANGED vars
  BY <1>1 DEF vars, managerVars, executorVars, ExecutorInvariant, TypeOK, ManagerTypeOK, StepsFit,
     TouchedLater, ControlsShow, OrdersFit, RestartsAfresh, SuccessIsFresh, RestoredIsBack, Shown, Up
<1>2. CASE ManagerStep /\ UNCHANGED executorVars
  BY <1>2, ManagerKeeps
<1> QED
  BY <1>1, <1>2, StartOfExecution, LinuxKeeps, WindowsKeeps, LooksKeep, OthersKeep
     DEF Next, ExecutorStep

(* The invariant of the executors is inductive: execute, _rollback and      *)
(* verify_only keep it on either platform, and so does whatever the        *)
(* service does meanwhile.                                                 *)
THEOREM ExecutorAlways == Spec => []ExecutorInvariant
BY ExecutorInit, ExecutorNext, PTL DEF Spec

(* A reported success is about a process that was not there before.        *)
THEOREM SuccessesAreFresh == Spec => []SuccessIsFresh
<1>1. ExecutorInvariant => SuccessIsFresh
  BY DEF ExecutorInvariant
<1> QED
  BY <1>1, ExecutorAlways, PTL

(* A rollback reported as successful leaves nothing behind that undoes it, *)
(* but for a stop a Windows service has not begun.                         *)
THEOREM RollbacksHold == Spec => []RestoredIsBack
<1>1. ExecutorInvariant => RestoredIsBack
  BY DEF ExecutorInvariant
<1> QED
  BY <1>1, ExecutorAlways, PTL

-----------------------------------------------------------------------------
(* Which stages of the promise the steps of the executor are.              *)
LEMMA StageOf ==
    /\ pc = "idle" => Stage = "offered"
    /\ pc = "done" => Stage = "answered"
    /\ pc \in Breaks => Stage = "interrupted"
    /\ pc \in Steps => Stage = "executing"
BY DEF Stage, Breaks, Steps

(* A report that its phase and stage allow is an answer of the promise.    *)
LEMMA AnswersKeepPromise ==
    ASSUME NEW r \in Reports \ {"none"}, Return(r), UNCHANGED touched,
           r = "declined" => pc \in Steps \cup {"idle"} /\ ~touched,
           r \in {"recovered", "unhealthy", "unverifiable"} => pc \in Breaks,
           r \notin {"declined", "recovered", "unhealthy", "unverifiable"} => pc \in Steps,
           r = "untouched" => ~touched,
           r = "unflushed" => phase = "flush",
           r \in {"restored", "unrestored", "recovered", "unhealthy"} => phase # "flush"
    PROVE  Promise!Next
<1>1. Stage' = "answered" /\ report' = r /\ phase' = phase
  BY DEF Return, Stage, Breaks
<1>2. CASE r = "declined"
  <2>1. JobResult' = Promise!Result("rejected", FALSE, "none")
    BY <1>1, <1>2 DEF JobResult, Promise!Result
  <2> QED
    BY <1>1, <1>2, <2>1, StageOf DEF Promise!Next, Promise!Decline, Promise!Answer
<1>3. CASE r \in {"succeeded", "flushed"}
  <2>1. JobResult' = Promise!Result("executed", TRUE, "none")
    BY <1>1, <1>3 DEF JobResult, Promise!Result
  <2> QED
    BY <1>1, <1>3, <2>1, StageOf DEF Promise!Next, Promise!Succeed, Promise!Answer
<1>4. CASE r \in {"untouched", "unflushed"}
  <2>1. JobResult' = Promise!Result("executed", FALSE, "none")
    BY <1>1, <1>4 DEF JobResult, Promise!Result
  <2> QED
    BY <1>1, <1>4, <2>1, StageOf DEF Promise!Next, Promise!Fail, Promise!Answer
<1>5. CASE r \in {"restored", "unrestored"}
  <2>1. \E rollback \in {"restored", "failed"} :
           JobResult' = Promise!Result("executed", FALSE, rollback)
    BY <1>1, <1>5 DEF JobResult, Promise!Result
  <2> QED
    BY <1>1, <1>5, <2>1, StageOf DEF Promise!Next, Promise!Fail, Promise!Answer
<1>6. CASE r \in {"recovered", "unhealthy"}
  <2>1. \E success \in BOOLEAN :
           JobResult' = Promise!Result("observed", success, "none")
    BY <1>1, <1>6 DEF JobResult, Promise!Result
  <2> QED
    BY <1>1, <1>6, <2>1, StageOf DEF Promise!Next, Promise!Observe, Promise!Answer
<1>7. CASE r = "unverifiable"
  <2>1. JobResult' = Promise!Result("rejected", FALSE, "none")
    BY <1>1, <1>7 DEF JobResult, Promise!Result
  <2> QED
    BY <1>1, <1>7, <2>1, StageOf DEF Promise!Next, Promise!Observe, Promise!Answer
<1> QED
  BY <1>2, <1>3, <1>4, <1>5, <1>6, <1>7 DEF Reports

(* Going on without a report begins, interrupts or continues the execution.*)
LEMMA GoingOnKeepsPromise ==
    ASSUME ExecutorInvariant, report = "none", report' = report,
           phase' # "flush" <=> phase # "flush",
           \/ pc = "idle" /\ pc' \in Steps /\ UNCHANGED touched
           \/ pc \in Steps /\ pc' \in Steps /\ touched' \in {touched, TRUE}
           \/ pc \in Steps /\ pc' \in Breaks /\ UNCHANGED touched
           \/ pc \in Breaks /\ pc' \in Breaks /\ UNCHANGED touched
    PROVE  Promise!Next \/ UNCHANGED <<Stage, phase # "flush", touched, JobResult>>
<1>1. UNCHANGED JobResult
  BY DEF JobResult
<1>2. CASE pc = "idle" /\ pc' \in Steps /\ UNCHANGED touched
  <2>1. Stage = "offered" /\ Stage' = "executing"
    BY <1>2 DEF Stage, Breaks, Steps
  <2> QED
    BY <1>1, <1>2, <2>1 DEF Promise!Next, Promise!Begin
<1>3. CASE pc \in Steps /\ pc' \in Steps /\ touched' \in {touched, TRUE}
  <2>1. Stage = "executing" /\ Stage' = "executing"
    BY <1>3 DEF Stage, Breaks, Steps
  <2> QED
    BY <1>1, <1>3, <2>1 DEF Promise!Next, Promise!Change
<1>4. CASE pc \in Steps /\ pc' \in Breaks /\ UNCHANGED touched
  <2>1. Stage = "executing" /\ Stage' = "interrupted"
    BY <1>4 DEF Stage, Breaks, Steps
  <2> QED
    BY <1>1, <1>4, <2>1 DEF Promise!Next, Promise!Interrupt
<1>5. CASE pc \in Breaks /\ pc' \in Breaks /\ UNCHANGED touched
  <2>1. Stage = "interrupted" /\ Stage' = "interrupted"
    BY <1>5 DEF Stage, Breaks
  <2> QED
    BY <1>1, <1>5, <2>1
<1> QED
  BY <1>2, <1>3, <1>4, <1>5

LEMMA WrongKeepsPromise ==
    ASSUME ExecutorInvariant, GoWrong, UNCHANGED <<touched, platform, before>>,
           pc \in {"waiting", "stop", "stopping", "start", "starting", "look"}
    PROVE  Promise!Next \/ UNCHANGED <<Stage, phase # "flush", touched, JobResult>>
<1>1. report = "none" /\ phase # "flush" /\ pc \in Steps
  BY DEF ExecutorInvariant, StepsFit, Steps
<1>2. CASE phase = "restart"
  <2>1. report' = "none" /\ pc' \in {"send", "stop", "start"} /\ phase' = "rollback"
    BY <1>1, <1>2, WrongWay DEF ExecutorInvariant
  <2> QED
    BY <1>1, <2>1, GoingOnKeepsPromise DEF Steps
<1>3. CASE phase # "restart"
  <2>1. Return("unrestored")
    BY <1>3 DEF GoWrong
  <2> QED
    BY <1>1, <2>1, AnswersKeepPromise DEF Reports
<1> QED
  BY <1>2, <1>3

LEMMA StepKeepsPromise ==
    ASSUME ExecutorInvariant, [Next]_vars
    PROVE  [Promise!Next]_<<Stage, phase # "flush", touched, JobResult>>
<1>0. /\ pc \in Steps \cup Breaks \cup {"idle"} => report = "none"
      /\ pc \in {"flush", "idle", "precheck"} => ~touched
      /\ pc = "send" /\ phase = "restart" => ~touched
      /\ pc \in {"flush", "flushing", "resolver"} => phase = "flush"
      /\ pc \in {"send", "waiting", "look", "precheck"} => phase # "flush"
  BY DEF ExecutorInvariant, StepsFit, TouchedLater, TypeOK, Steps, Breaks
<1>1. CASE UNCHANGED executorVars
  BY <1>1 DEF executorVars, Stage, JobResult
<1>2. CASE Decline
  BY <1>0, <1>2, AnswersKeepPromise DEF Decline, Reports
<1>3. CASE Begin
  BY <1>0, <1>3, GoingOnKeepsPromise DEF Begin, Goto, Steps
<1>4. CASE Precheck
  <2>1. CASE Return("untouched")
    BY <1>0, <1>4, <2>1, AnswersKeepPromise DEF Precheck, Reports, Steps
  <2>2. CASE Goto(Entry("restart"))
    <3>1. Entry("restart") \in {"send", "stop"}
      BY DEF Entry
    <3> QED
      BY <1>0, <1>4, <2>2, <3>1, GoingOnKeepsPromise DEF Precheck, Goto, Steps
  <2> QED
    BY <1>4, <2>1, <2>2 DEF Precheck
<1>5. CASE Send \/ Stop \/ Start \/ StateReached
  <2>1. /\ pc \in Steps /\ report' = report /\ phase' = phase /\ touched' \in {touched, TRUE}
        /\ pc' \in {"waiting", "stopping", "start", "starting", "look"}
    BY <1>5 DEF Send, Stop, Start, StateReached, Goto, Steps
  <2> QED
    BY <1>0, <2>1, GoingOnKeepsPromise DEF Steps
<1>6. CASE CannotSend
  <2>1. CASE Return("unrestored") \/ (phase = "restart" /\ Return("declined"))
    BY <1>0, <1>6, <2>1, AnswersKeepPromise DEF CannotSend, Reports, Steps
  <2>2. CASE Goto("raised")
    BY <1>0, <1>6, <2>2, GoingOnKeepsPromise DEF CannotSend, Goto, Steps, Breaks
  <2> QED
    BY <1>6, <2>1, <2>2 DEF CannotSend
<1>7. CASE JobDone
  <2>1. CASE GoWrong
    BY <1>7, <2>1, WrongKeepsPromise DEF JobDone, managerVars
  <2>2. CASE Goto("look")
    BY <1>0, <1>7, <2>2, GoingOnKeepsPromise DEF JobDone, Goto, Steps
  <2> QED
    BY <1>7, <2>1, <2>2 DEF JobDone
<1>8. CASE ControlFails \/ TimeOut \/ LookFails
  <2>1. /\ GoWrong /\ UNCHANGED <<touched, platform, before>>
        /\ pc \in {"waiting", "stop", "stopping", "start", "starting", "look"}
    BY <1>8 DEF ControlFails, TimeOut, LookFails, Waits, managerVars
  <2> QED
    BY <2>1, WrongKeepsPromise
<1>9. CASE QueryRaises \/ Kill
  <2>1. /\ pc \in Steps \cup Breaks /\ report' = report /\ pc' \in Breaks
        /\ UNCHANGED <<phase, touched>>
    BY <1>9 DEF QueryRaises, Kill, Goto, Steps, Breaks
  <2> QED
    BY <1>0, <2>1, GoingOnKeepsPromise
<1>10. CASE Look
  <2>1. CASE GoWrong
    BY <1>10, <2>1, WrongKeepsPromise DEF Look, managerVars
  <2>2. ASSUME NEW r \in {"succeeded", "restored", "unrestored"}, Return(r)
        PROVE  Promise!Next
    BY <1>0, <1>10, <2>2, AnswersKeepPromise DEF Look, Reports, Steps
  <2> QED
    BY <1>10, <2>1, <2>2 DEF Look
<1>11. CASE FlushEnds
  <2>1. CASE Goto("resolver")
    BY <1>0, <1>11, <2>1, GoingOnKeepsPromise DEF FlushEnds, Goto, Steps
  <2>2. ASSUME NEW r \in {"flushed", "unflushed"}, Return(r)
        PROVE  Promise!Next
    BY <1>0, <1>11, <2>2, AnswersKeepPromise DEF FlushEnds, Reports, Steps
  <2> QED
    BY <1>11, <2>1, <2>2 DEF FlushEnds
<1>14. CASE Flush
  BY <1>0, <1>14, GoingOnKeepsPromise DEF Flush, Goto, Steps
<1>15. CASE CannotFlush
  BY <1>0, <1>15, AnswersKeepPromise DEF CannotFlush, Reports, Steps
<1>12. CASE CheckResolver
  <2>1. PICK r \in {"flushed", "unflushed"} : Return(r)
    BY <1>12 DEF CheckResolver
  <2> QED
    BY <1>0, <1>12, <2>1, AnswersKeepPromise DEF CheckResolver, Reports, Steps
<1>13. CASE Recover
  <2>1. PICK r \in {"recovered", "unhealthy", "unverifiable"} :
           Return(r) /\ (r # "unverifiable" => phase # "flush")
    BY <1>13 DEF Recover
  <2> QED
    BY <1>13, <2>1, AnswersKeepPromise DEF Recover, Reports, Breaks
<1> QED
  BY <1>1, <1>2, <1>3, <1>4, <1>5, <1>6, <1>7, <1>8, <1>9, <1>10, <1>11, <1>12, <1>13, <1>14, <1>15
     DEF Next, ExecutorStep, LinuxStep, WindowsStep, vars

(* The executors implement ExecutionPromise: what the agent's job cycle    *)
(* takes as one step is what their steps amount to.                        *)
THEOREM ExecutorsKeepPromise == Spec => KeepsExecutionPromise
<1>1. Init => Promise!Init
  <2> SUFFICES ASSUME Init PROVE Promise!Init
    OBVIOUS
  <2>1. pc = "idle" /\ report = "none" /\ touched = FALSE /\ (phase # "flush") \in BOOLEAN
    BY DEF Init
  <2>2. Stage = "offered" /\ JobResult = "none"
    BY <2>1, StageOf DEF JobResult
  <2> QED
    BY <2>1, <2>2 DEF Promise!Init
<1> QED
  BY <1>1, StepKeepsPromise, ExecutorAlways, PTL DEF Spec, KeepsExecutionPromise, Promise!Spec
=============================================================================
