--------------------------- MODULE TenantContext ---------------------------
(***************************************************************************)
(* The tenant context of the control plane's database sessions: the two    *)
(* settings app.current_tenant_id and app.rls_bypass of a connection, the  *)
(* requests that set them (helpdesktool/auth.py, database.py) and the pool *)
(* the connections come from.                                              *)
(*                                                                         *)
(* A setting is made with set_config(..., is_local => false): it stays     *)
(* with the connection once its transaction commits, and is undone when    *)
(* the transaction rolls back.  A session, though, holds a connection only *)
(* for the length of a transaction: commit and rollback give it back, and  *)
(* the next statement takes the connection that has been idle longest.     *)
(*                                                                         *)
(* The background workers have one thread and so one connection, on which  *)
(* each batch turns the bypass on and off again: they are left out.        *)
(***************************************************************************)
EXTENDS Integers, Sequences

CONSTANTS
    Tenants,
    Requests,       \* HTTP requests the process may serve at once
    Connections,    \* the connections its pool may open
    Nobody,         \* who holds an idle connection: no request
    Blind           \* the empty setting: no tenant

VARIABLES
    idle,           \* the pool: idle connections, the longest idle first
    opened,         \* the connections opened so far
    holder,         \* connection -> the request whose transaction uses it
    saved,          \* connection -> its settings, as committed
    now,            \* connection -> its settings within the transaction
    step,           \* request -> where it is
    principal,      \* request -> the tenant it was authenticated for
    ran             \* request -> the settings its last statement ran under, if any

poolVars == <<idle, opened, holder>>
settingVars == <<saved, now>>
requestVars == <<step, principal, ran>>
vars == <<poolVars, settingVars, requestVars>>

Steps == {"idle", "resolving", "measuring", "handling", "committed", "failed", "ending"}
Settings == [tenant : Tenants \cup {Blind}, bypass : BOOLEAN]
Unset == [tenant |-> Blind, bypass |-> FALSE]

TypeOK ==
    /\ idle \in Seq(Connections)
    /\ opened \subseteq Connections
    /\ holder \in [Connections -> Requests \cup {Nobody}]
    /\ saved \in [Connections -> Settings]
    /\ now \in [Connections -> Settings]
    /\ step \in [Requests -> Steps]
    /\ principal \in [Requests -> Tenants \cup {Blind}]
    /\ ran \in [Requests -> SUBSET Settings]

Init ==
    /\ idle = <<>>
    /\ opened = {}
    /\ holder = [c \in Connections |-> Nobody]
    /\ saved = [c \in Connections |-> Unset]
    /\ now = [c \in Connections |-> Unset]
    /\ step = [r \in Requests |-> "idle"]
    /\ principal = [r \in Requests |-> Blind]
    /\ ran = [r \in Requests |-> {}]

(***************************************************************************)
(* The pool (SQLAlchemy's, as create_engine makes it).                     *)
(***************************************************************************)
Holds(r, c) == holder[c] = r
HoldsNone(r) == \A c \in Connections : ~Holds(r, c)

(* A statement of r runs on c: on the connection of its transaction, or on *)
(* the longest idle one, or on a new one when none is idle.                *)
Use(r, c) ==
    \/ /\ Holds(r, c)
       /\ UNCHANGED poolVars
    \/ /\ HoldsNone(r)
       /\ idle # <<>> /\ c = Head(idle)
       /\ idle' = Tail(idle)
       /\ holder' = [holder EXCEPT ![c] = r]
       /\ UNCHANGED opened
    \/ /\ HoldsNone(r)
       /\ idle = <<>> /\ c \notin opened
       /\ opened' = opened \cup {c}
       /\ holder' = [holder EXCEPT ![c] = r]
       /\ UNCHANGED idle

Release(c) ==
    /\ idle' = Append(idle, c)
    /\ holder' = [holder EXCEPT ![c] = Nobody]
    /\ UNCHANGED opened

Write(c, settings) ==
    /\ now' = [now EXCEPT ![c] = settings]
    /\ UNCHANGED saved

Commit(c) == saved' = [saved EXCEPT ![c] = now[c]] /\ UNCHANGED now

RollBack(c) == now' = [now EXCEPT ![c] = saved[c]] /\ UNCHANGED saved

Go(r, to) == step' = [step EXCEPT ![r] = to]

(***************************************************************************)
(* A request.                                                              *)
(***************************************************************************)
(* The bypass is on while one lookup finds out who asks                    *)
(* (resolving_identity), or while GET /metrics, which is nobody's, counts  *)
(* rows of all tenants (aggregating_platform_metrics) ...                  *)
BeginBypass(r, c, what) ==
    /\ step[r] = "idle"
    /\ Use(r, c)
    /\ Write(c, [now[c] EXCEPT !.bypass = TRUE])
    /\ Go(r, what)
    /\ UNCHANGED <<principal, ran>>

Identified(c, t) == [tenant |-> t, bypass |-> FALSE]

(* ... and off after it; a request that is somebody's gets that tenant.    *)
Authenticate(r, c, t) ==
    /\ step[r] = "resolving"
    /\ Holds(r, c)
    /\ Write(c, Identified(c, t))
    /\ principal' = [principal EXCEPT ![r] = t]
    /\ Go(r, "handling")
    /\ UNCHANGED <<poolVars, ran>>

EndBypass(r, c) ==
    /\ step[r] \in {"resolving", "measuring"}
    /\ Holds(r, c)
    /\ Write(c, [now[c] EXCEPT !.bypass = FALSE])
    /\ Go(r, "ending")
    /\ UNCHANGED <<poolVars, principal, ran>>

(* A statement under the bypass fails, the lookup or one of the counts of  *)
(* the metrics: the transaction takes no other, so that turning the bypass *)
(* off fails as well.                                                      *)
FailUnderBypass(r) ==
    /\ step[r] \in {"resolving", "measuring"}
    /\ Go(r, "failed")
    /\ UNCHANGED <<poolVars, settingVars, principal, ran>>

Statement(r, c) ==
    /\ step[r] \in {"handling", "committed"}
    /\ Use(r, c)
    /\ ran' = [ran EXCEPT ![r] = {now[c]}]
    /\ UNCHANGED <<settingVars, step, principal>>

(* The handler commits, and may have more to ask.                          *)
CommitWork(r, c) ==
    /\ step[r] \in {"handling", "committed"}
    /\ Holds(r, c)
    /\ Commit(c)
    /\ Release(c)
    /\ Go(r, "committed")
    /\ UNCHANGED <<principal, ran>>

(* It returns or raises, and get_session tears down: the rollback first.   *)
Finish(r) ==
    /\ step[r] \in {"handling", "committed"}
    /\ Go(r, "ending")
    /\ UNCHANGED <<poolVars, settingVars, principal, ran>>

EndTransaction(r, c) ==
    /\ step[r] \in {"failed", "ending"}
    /\ Holds(r, c)
    /\ RollBack(c)
    /\ Release(c)
    /\ Go(r, "ending")
    /\ UNCHANGED <<principal, ran>>

Forget(r) ==
    /\ step' = [step EXCEPT ![r] = "idle"]
    /\ principal' = [principal EXCEPT ![r] = Blind]
    /\ ran' = [ran EXCEPT ![r] = {}]

(* reset_tenant_context: both settings are cleared on the connection the   *)
(* session now gets, which goes back to the pool behind all the others ... *)
Reset(r, c) ==
    /\ step[r] = "ending"
    /\ HoldsNone(r)
    /\ \/ idle # <<>> /\ c = Head(idle) /\ idle' = Append(Tail(idle), c) /\ UNCHANGED opened
       \/ idle = <<>> /\ c \notin opened /\ idle' = <<c>> /\ opened' = opened \cup {c}
    /\ saved' = [saved EXCEPT ![c] = Unset]
    /\ now' = [now EXCEPT ![c] = Unset]
    /\ Forget(r)
    /\ UNCHANGED holder

(* ... unless that fails, which nobody hears of.                           *)
ResetFails(r) ==
    /\ step[r] = "ending"
    /\ HoldsNone(r)
    /\ Forget(r)
    /\ UNCHANGED <<poolVars, settingVars>>

(* An idle connection that has died is replaced when the pool pings it.    *)
Replace(c) ==
    /\ idle # <<>> /\ c = Head(idle)
    /\ saved' = [saved EXCEPT ![c] = Unset]
    /\ now' = [now EXCEPT ![c] = Unset]
    /\ UNCHANGED <<poolVars, requestVars>>

Next ==
    \/ \E r \in Requests, c \in Connections :
          \/ \E what \in {"resolving", "measuring"} : BeginBypass(r, c, what)
          \/ \E t \in Tenants : Authenticate(r, c, t)
          \/ EndBypass(r, c)
          \/ Statement(r, c)
          \/ CommitWork(r, c)
          \/ EndTransaction(r, c)
          \/ Reset(r, c)
    \/ \E r \in Requests : FailUnderBypass(r) \/ Finish(r) \/ ResetFails(r)
    \/ \E c \in Connections : Replace(c)

Spec == Init /\ [][Next]_vars

(***************************************************************************)
(* Properties.                                                             *)
(***************************************************************************)
(* Before its first commit, every statement of an authenticated request    *)
(* runs under the request's own tenant: neither under another one nor      *)
(* under none, whatever the connection was used for before and whatever    *)
(* resets have failed (set_tenant_context).                                *)
OwnTenantUntilCommit ==
    \A r \in Requests :
        step[r] = "handling" =>
            \A s \in ran[r] : s.tenant \in Tenants /\ s.tenant = principal[r]

(* The bypass is on only on the connection of a request that resolves who  *)
(* asks, counts for GET /metrics, or has failed at that and can only roll  *)
(* back; no connection is committed or goes back to the pool with it; and  *)
(* no statement of a handler runs under it, before its commits or after    *)
(* (resolving_identity, aggregating_platform_metrics).                     *)
BypassConfined ==
    /\ \A c \in Connections : ~saved[c].bypass
    /\ \A c \in Connections :
          now[c].bypass =>
              \E r \in Requests :
                  Holds(r, c) /\ step[r] \in {"resolving", "measuring", "failed"}
    /\ \A r \in Requests : \A s \in ran[r] : ~s.bypass

(* "... several request handlers call session.commit() partway through and *)
(* then continue issuing tenant-scoped queries on the same session         *)
(* afterward" (database.py, set_tenant_context): those too run under the   *)
(* request's own tenant.                                                   *)
OwnTenantAfterCommit ==
    \A r \in Requests :
        step[r] = "committed" => \A s \in ran[r] : s.tenant = principal[r]
=============================================================================
