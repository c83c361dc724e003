------------------------ MODULE MCConnectorRequests ------------------------
(* Instances of ConnectorRequests for the model checker.                   *)
EXTENDS ConnectorRequests

CONSTANTS h1, h2, m1, a1, a2, d1, g1, w1, u1, u2

TwoHandlers == {h1, h2}
OneMessage == {m1}
SameMessage == [h \in Handlers |-> m1]
TwoApprovals == {a1, a2}
OneDenial == {d1}
OneMinting == {g1}
OneReaper == {w1}
AllProcesses == Handlers \cup Approvals \cup Denials \cup Mintings \cup Reapers
TwoUsers == {u1, u2}
SentByFirst == [m \in Messages |-> u1]
DecidedBySecond == [d \in Approvals \cup Denials |-> u2]
=============================================================================
