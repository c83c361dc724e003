--------------------------- MODULE MCRemediation ---------------------------
(* Instances of RemediationSystem for the model checker.                   *)
EXTENDS RemediationInvariant, TLC

CONSTANTS u1, u2, u3

OneUser == {u1}
ThreeUsers == {u1, u2, u3}
AllowOnly == {"allow"}
ApprovalOnly == {"approval"}
AllGates == {"allow", "approval", "deny"}
UserSymmetry == Permutations({u1, u2, u3})
=============================================================================
