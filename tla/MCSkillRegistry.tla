------------------------- MODULE MCSkillRegistry --------------------------
(* SkillRegistry with one seeded skill the agents implement, one skill     *)
(* that is registered later and no agent implements, and manifests that    *)
(* are automatic, need approval, or are prohibited.                        *)
EXTENDS SkillRegistry, TLC

Manifest(risk, shape) ==
    [risk |-> risk, command |-> "low_risk_change", runsHere |-> TRUE, flagged |-> FALSE,
     shape |-> shape]
Automatic == Manifest("low", "service")
Guarded == Manifest("medium", "service")
SomeManifests == {Automatic, Guarded, Manifest("prohibited", "none")}
OneSeed == [s \in {"service.restart"} |-> Automatic]
OneExecutor == [s \in {"service.restart"} |-> "service"]
OneAllowlist == [s \in {"service.restart"} |-> {"service"}]
Either == Permutations(Staff)

(* Bound on the states explored: once there is an action, one registration *)
(* is under way at a time and issues, which no action reads, are left out. *)
OneConcern ==
    \/ \A a \in Actions : actions[a] = NewAction
    \/ issues = {} /\ \A u, v \in Staff : drafts[u] = {} \/ drafts[v] = {} \/ u = v
=============================================================================
