---------------------------- MODULE MCIncidents ----------------------------
(* Instances of Incidents for the model checker.                           *)
EXTENDS Incidents

CONSTANTS r1, r2, e1

TwoRequests == {r1, r2}
OneEdit == {e1}
FourReports == {<<"low", "low">>, <<"over", "over">>, <<"unusable", "low">>,
                <<"unusable", "over">>}
=============================================================================
