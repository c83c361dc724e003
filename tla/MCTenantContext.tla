-------------------------- MODULE MCTenantContext --------------------------
(* TenantContext with two tenants, two requests at once, two connections.  *)
EXTENDS TenantContext, TLC

CONSTANTS r1, r2, c1, c2

TwoRequests == {r1, r2}
TwoConnections == {c1, c2}
=============================================================================
