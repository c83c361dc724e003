------------------------- MODULE RemediationPromise -------------------------
(***************************************************************************)
(* What the remediation system promises whoever reads its records, with    *)
(* no network, journal or transaction in sight.  An action is cleared,     *)
(* by policy or by somebody other than its requester; a cleared action is  *)
(* granted to the device a bounded number of times; the endpoint is        *)
(* changed at most once under each grant, and only under the newest one;   *)
(* and at most one result is recorded of each grant, the newest one again. *)
(***************************************************************************)
EXTENDS Integers

CONSTANTS Actions, MaxAttempts

VARIABLES
    cleared,    \* actions that may run
    granted,    \* granted[a]: how often action a has been handed to the device
    runs,       \* runs[<<a, n>>]: changes made to the endpoint under grant n
    recorded    \* grants whose result is on record

promiseVars == <<cleared, granted, runs, recorded>>

PromiseInit ==
    /\ cleared = {}
    /\ granted = [a \in Actions |-> 0]
    /\ runs = [j \in Actions \X (1..MaxAttempts) |-> 0]
    /\ recorded = {}

Clear(a) ==
    /\ cleared' = cleared \cup {a}
    /\ UNCHANGED <<granted, runs, recorded>>

Grant(a) ==
    /\ a \in cleared
    /\ granted[a] < MaxAttempts
    /\ granted' = [granted EXCEPT ![a] = @ + 1]
    /\ UNCHANGED <<cleared, runs, recorded>>

Run(a) ==
    /\ granted[a] > 0
    /\ runs[<<a, granted[a]>>] = 0
    /\ runs' = [runs EXCEPT ![<<a, granted[a]>>] = 1]
    /\ UNCHANGED <<cleared, granted, recorded>>

Record(a) ==
    /\ granted[a] > 0
    /\ <<a, granted[a]>> \notin recorded
    /\ recorded' = recorded \cup {<<a, granted[a]>>}
    /\ UNCHANGED <<cleared, granted, runs>>

PromiseNext == \E a \in Actions : Clear(a) \/ Grant(a) \/ Run(a) \/ Record(a)

PromiseSpec == PromiseInit /\ [][PromiseNext]_promiseVars
=============================================================================
