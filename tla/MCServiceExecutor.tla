------------------------- MODULE MCServiceExecutor -------------------------
(* ServiceExecutor on the two platforms.                                   *)
EXTENDS ServiceExecutor

BothPlatforms == {"systemd", "scm"}
=============================================================================
