-------------------------- MODULE MCEventDelivery --------------------------
(* Instances of EventDelivery for the model checker.                       *)
EXTENDS EventDeliveryInvariant, TLC

CONSTANTS x1, x2, x3, t1, t2, s1, w1, w2

OneTenant == {t1}
TwoTenants == {t1, t2}
ThreeTransactions == {x1, x2, x3}
OneSubscription == {s1}
TwoWorkers == {w1, w2}
OwnedByFirst == [s \in Subscriptions |-> t1]
=============================================================================
