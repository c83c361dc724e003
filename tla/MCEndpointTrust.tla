-------------------------- MODULE MCEndpointTrust --------------------------
(* Instances of EndpointTrust for the model checker.                       *)
EXTENDS EndpointTrust, TLC

CONSTANTS m1, m2, x1, x2, t1, h1, h2, p1, p2

TwoMachines == {m1, m2}
OneMachine == {m1}
TwoNames == {x1, x2}
Apart == [m \in Machines |-> IF m = m1 THEN x1 ELSE x2]
Cloned == [m \in Machines |-> x1]
ApartOrCloned == {Apart, Cloned}
OneToken == {t1}
TwoHandlers == {h1, h2}
TwoProcesses == {p1, p2}

(* Bound: versions rotate while the machines share a name; the race for a  *)
(* token, which takes two names, is followed at the first version.         *)
RotationsOfClones == NameOf = Apart => UNCHANGED version
=============================================================================
