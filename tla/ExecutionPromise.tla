-------------------------- MODULE ExecutionPromise --------------------------
(***************************************************************************)
(* What an executor promises the agent's job cycle, which takes it as one  *)
(* step (EndpointAgent.Execute, Decline, Resend): one result for a job, of *)
(* a kind that tells what has become of the endpoint.                      *)
(*                                                                         *)
(*   - rejected: nothing has been changed, or nobody can tell;             *)
(*   - executed: done and verified; or failed, then with a rollback if     *)
(*     anything has been changed that can be undone, and with none if what *)
(*     the skill changes cannot be undone (a flushed cache);               *)
(*   - observed: the execution was cut short, and the endpoint was only    *)
(*     looked at afterwards.                                               *)
(***************************************************************************)
VARIABLES
    stage,      \* "offered", "executing", "interrupted", "answered"
    reversible, \* what the job's skill changes can be undone
    changed,    \* the endpoint has been given a command that changes it
    result      \* the result, or "none"

Result(origin, success, rollback) ==
    [origin |-> origin, success |-> success, rollback |-> rollback]

Init ==
    /\ stage = "offered"
    /\ reversible \in BOOLEAN
    /\ changed = FALSE
    /\ result = "none"

Answer(r) == stage' = "answered" /\ result' = r /\ UNCHANGED <<reversible, changed>>

Decline ==
    /\ stage \in {"offered", "executing"}
    /\ ~changed
    /\ Answer(Result("rejected", FALSE, "none"))

Begin ==
    /\ stage = "offered"
    /\ stage' = "executing"
    /\ UNCHANGED <<reversible, changed, result>>

Change ==
    /\ stage = "executing"
    /\ changed' = TRUE
    /\ UNCHANGED <<stage, reversible, result>>

Succeed ==
    /\ stage = "executing"
    /\ Answer(Result("executed", TRUE, "none"))

Fail ==
    /\ stage = "executing"
    /\ \/ /\ changed => ~reversible
          /\ Answer(Result("executed", FALSE, "none"))
       \/ /\ reversible
          /\ \E rollback \in {"restored", "failed"} :
                Answer(Result("executed", FALSE, rollback))

Interrupt ==
    /\ stage = "executing"
    /\ stage' = "interrupted"
    /\ UNCHANGED <<reversible, changed, result>>

Observe ==
    /\ stage = "interrupted"
    /\ \/ /\ reversible
          /\ \E success \in BOOLEAN : Answer(Result("observed", success, "none"))
       \/ Answer(Result("rejected", FALSE, "none"))

Next == Decline \/ Begin \/ Change \/ Succeed \/ Fail \/ Interrupt \/ Observe

Spec == Init /\ [][Next]_<<stage, reversible, changed, result>>
=============================================================================
