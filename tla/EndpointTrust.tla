--------------------------- MODULE EndpointTrust ---------------------------
(***************************************************************************)
(* How an endpoint comes to be trusted, and stays so: enrollment with a    *)
(* one-time token or by an administrator (api.py), the device credential   *)
(* with its rotation, renewal and revocation (api.py, auth.py), and the    *)
(* versioned job-signing keys (job_signing.py) an agent pins and checks    *)
(* envelopes against (linux_agent, windows_agent, agent_common/signing).   *)
(*                                                                         *)
(* Every handler of the API reads before it writes.  The enrollment token  *)
(* is read FOR UPDATE: its row is held from that read to the commit.  The  *)
(* device row is read without a lock by rotation and renewal, which write  *)
(* a column of it later.  The insert of a device waits for any transaction *)
(* that has inserted the same external_id, so it acts at its commit.       *)
(*                                                                         *)
(* An API process reads its settings once (config.get_settings is cached): *)
(* while a deployment that raises the signing version rolls over them,     *)
(* some processes sign with the old version and some with the new one.     *)
(*                                                                         *)
(* Left out: tenants (one only), roles, the audit rows of these handlers,  *)
(* the inventory, and what a job does once its envelope is accepted        *)
(* (EndpointAgent).                                                        *)
(***************************************************************************)
EXTENDS Integers, FiniteSets

CONSTANTS
    Machines,       \* installed agents
    Names,          \* external ids
    Namings,        \* the ways the machines may have been given external ids
    Serving,        \* machines whose cycle is followed once they are enrolled
    Tokens,         \* enrollment tokens an administrator has created
    ByUser,         \* enrollment under a user's identity instead of a token
    Handlers,       \* requests the API may be working on at once
    Processes,      \* API processes
    Window,         \* Settings.job_signing_key_rotation_window
    Nothing,        \* a row, a file or a memory that is not there
    MaxVersion,     \* bound: signing versions there ever are
    MaxIssued,      \* bound: credentials handed out
    MaxFaults       \* bound: crashes, failed writes and requests given up

ASSUME NamingsAssumption == Namings \subseteq [Machines -> Names]
ASSUME ServingAssumption == Serving \subseteq Machines
ASSUME ByUserAssumption == ByUser \notin Tokens
ASSUME NothingAssumption ==
    /\ Nothing \notin Names
    /\ Nothing \notin [active : BOOLEAN, credential : 1..MaxIssued,
                       rotated : BOOLEAN, via : Tokens \cup {ByUser}]
    /\ Nothing \notin [active : BOOLEAN, credential : 1..MaxIssued,
                       via : Tokens \cup {ByUser}]
    /\ Nothing \notin [credential : 1..MaxIssued, keys : SUBSET (1..MaxVersion)]
ASSUME ProcessesAssumption == Processes # {}
ASSUME WindowAssumption == Window \in Nat \ {0}
ASSUME BoundsAssumption ==
    MaxVersion \in Nat \ {0} /\ MaxIssued \in Nat /\ MaxFaults \in Nat

Ways == Tokens \cup {ByUser}
Credentials == 1..MaxIssued
Versions == 1..MaxVersion

(* Rows.  A token's expiry is a flag that time sets.                       *)
DeviceRows == [active : BOOLEAN, credential : Credentials, rotated : BOOLEAN,
               via : Ways]
TokenRows == [usedBy : Names \cup {Nothing}, revoked : BOOLEAN, expired : BOOLEAN]
FreshToken == [usedBy |-> Nothing, revoked |-> FALSE, expired |-> FALSE]

(* What a handler knows: of an enrollment, whether its token was expired   *)
(* when the request arrived, whether it holds the token's row, and whether *)
(* the machine still waits for the reply; of a rotation or renewal, the    *)
(* device it read.                                                         *)
Free == [work |-> "none"]
Enrolling == [work : {"enroll"}, machine : Machines, way : Ways, late : BOOLEAN,
              holds : BOOLEAN, heard : BOOLEAN]
Rekeying == [work : {"rekey"}, name : Names]

(* AgentConfig, in memory or on disk, once the agent is enrolled.          *)
Configs == [credential : Credentials, keys : SUBSET Versions]
Stages == {"down", "waiting", "adopted", "up", "fresh"}

VARIABLES
    tokens,     \* enrollment_tokens
    devices,    \* devices, by external id (unique, and rows are never deleted)
    issued,     \* credentials handed out so far
    version,    \* version[p]: Settings.job_signing_key_version of process p
    handler,    \* handler[h]: the request h works on
    NameOf,     \* NameOf[m]: AgentConfig.external_id, given at installation
    stage,      \* where each agent's process is
    memory,     \* the configuration in the process
    config,     \* agent.json
    refused,    \* version whose signature m last refused, 0 if it accepted
    faults

serverVars == <<tokens, devices, issued, version>>
agentVars == <<stage, memory, config, refused>>
vars == <<serverVars, handler, NameOf, agentVars, faults>>

TypeOK ==
    /\ tokens \in [Tokens -> TokenRows]
    /\ devices \in [Names -> DeviceRows \cup {Nothing}]
    /\ issued \in 0..MaxIssued
    /\ version \in [Processes -> Versions]
    /\ handler \in [Handlers -> {Free} \cup Enrolling \cup Rekeying]
    /\ NameOf \in [Machines -> Names]
    /\ stage \in [Machines -> Stages]
    /\ memory \in [Machines -> Configs \cup {Nothing}]
    /\ config \in [Machines -> Configs \cup {Nothing}]
    /\ refused \in [Machines -> 0..MaxVersion]
    /\ faults \in 0..MaxFaults

Init ==
    /\ tokens = [t \in Tokens |-> FreshToken]
    /\ devices = [x \in Names |-> Nothing]
    /\ issued = 0
    /\ version = [p \in Processes |-> 1]
    /\ handler = [h \in Handlers |-> Free]
    /\ NameOf \in Namings
    /\ stage = [m \in Machines |-> "down"]
    /\ memory = [m \in Machines |-> Nothing]
    /\ config = [m \in Machines |-> Nothing]
    /\ refused = [m \in Machines |-> 0]
    /\ faults = 0

Known(m) == devices[NameOf[m]] # Nothing

(* What a machine has: its process, or its file while it is down.          *)
Own(m) == IF memory[m] # Nothing THEN memory[m] ELSE config[m]

AuthenticatedOnce(m, c) ==
    Known(m) /\ devices[NameOf[m]].credential = c.credential

(* auth.require_agent, for a caller that presents the credential of c.     *)
Authenticated(m, c) ==
    /\ Known(m)
    /\ devices[NameOf[m]].active
    /\ devices[NameOf[m]].credential = c.credential

(* job_signing.active_public_keys, as the process p answers it.            *)
ActiveKeysAlone(v) == {v}
ActiveKeys(v) == {k \in Versions : k <= v /\ v <= k + Window}

-----------------------------------------------------------------------------
(* Enrollment.                                                             *)

(* The agent starts without a configuration: it posts its token (or, with  *)
(* a user's identity in the file, enrolls as that user each cycle).        *)
AskToEnroll(m, w, h) ==
    /\ stage[m] = "down" /\ config[m] = Nothing
    /\ handler[h] = Free
    /\ handler' = [handler EXCEPT ![h] =
            [work |-> "enroll", machine |-> m, way |-> w, holds |-> FALSE,
             late |-> w \in Tokens /\ tokens[w].expired, heard |-> TRUE]]
    /\ stage' = [stage EXCEPT ![m] = "waiting"]
    /\ UNCHANGED <<NameOf, serverVars, memory, config, refused, faults>>

HeldNever(t) == FALSE
Held(t) == \E h \in Handlers : /\ handler[h].work = "enroll"
                               /\ handler[h].way = t
                               /\ handler[h].holds

Usable(t, late) == tokens[t].usedBy = Nothing /\ ~tokens[t].revoked /\ ~late

(* SELECT ... FOR UPDATE of the token: waits while another handler has it. *)
Holding(r) == [r EXCEPT !.holds = TRUE]
HoldToken(h) ==
    /\ handler[h].work = "enroll"
    /\ LET r == handler[h] IN
        /\ r.way \in Tokens
        /\ ~r.holds
        /\ ~Held(r.way)
        /\ Usable(r.way, r.late)
        /\ handler' = [handler EXCEPT ![h] = Holding(@)]
    /\ UNCHANGED <<NameOf, serverVars, agentVars, faults>>

(* The reply with an error ends the agent's start; the request's           *)
(* transaction is rolled back.                                             *)
Unheard(m) == [stage EXCEPT ![m] = "down"]
RefuseEnrollment(h) ==
    /\ handler[h].work = "enroll"
    /\ LET r == handler[h] IN
        /\ \/ r.way \in Tokens /\ ~r.holds /\ ~Held(r.way) /\ ~Usable(r.way, r.late)
           \/ (r.holds \/ r.way = ByUser) /\ Known(r.machine)
        /\ stage' = IF r.heard THEN Unheard(r.machine) ELSE stage
    /\ handler' = [handler EXCEPT ![h] = Free]
    /\ UNCHANGED <<NameOf, serverVars, memory, config, refused, faults>>

(* The device row, the token's used_at and the audit row are one commit;   *)
(* the reply hands out the credential, whose hash alone is stored, and the *)
(* keys process p signs with.  The agent takes both into its memory.       *)
Spent(row, x) == [row EXCEPT !.usedBy = x]
Enroll(h, p) ==
    /\ handler[h].work = "enroll"
    /\ issued < MaxIssued
    /\ LET r == handler[h]
           x == NameOf[r.machine]
       IN /\ r.holds \/ r.way = ByUser
          /\ devices[x] = Nothing
          /\ devices' = [devices EXCEPT ![x] =
                [active |-> TRUE, credential |-> issued + 1, rotated |-> FALSE,
                 via |-> r.way]]
          /\ tokens' = IF r.way = ByUser THEN tokens
                       ELSE [tokens EXCEPT ![r.way] = Spent(@, x)]
          /\ \/ /\ r.heard
                /\ memory' = [memory EXCEPT ![r.machine] =
                      [credential |-> issued + 1, keys |-> ActiveKeys(version[p])]]
                /\ stage' = [stage EXCEPT ![r.machine] = "adopted"]
             \/ /\ ~r.heard
                /\ UNCHANGED <<memory, stage>>
    /\ issued' = issued + 1
    /\ handler' = [handler EXCEPT ![h] = Free]
    /\ UNCHANGED <<NameOf, version, config, refused, faults>>

(* AgentConfig.save: a temporary file renamed over the old one.            *)
Save(m) ==
    /\ stage[m] = "adopted"
    /\ config' = [config EXCEPT ![m] = memory[m]]
    /\ stage' = [stage EXCEPT ![m] = "up"]
    /\ UNCHANGED <<NameOf, serverVars, handler, memory, refused, faults>>

(* The write fails.  The agent's loop enrolls as a user, catches the error *)
(* and goes on with what is in its memory, which later cycles do not write *)
(* again (enroll returns early); main, which enrolls with the token, dies. *)
SaveFails(m) ==
    /\ stage[m] = "adopted"
    /\ faults < MaxFaults
    /\ faults' = faults + 1
    /\ \/ /\ devices[NameOf[m]].via = ByUser
          /\ stage' = [stage EXCEPT ![m] = "up"]
          /\ UNCHANGED memory
       \/ /\ devices[NameOf[m]].via # ByUser
          /\ stage' = [stage EXCEPT ![m] = "down"]
          /\ memory' = [memory EXCEPT ![m] = Nothing]
    /\ UNCHANGED <<NameOf, serverVars, handler, config, refused>>

(* The machine stops waiting: a timeout, or its process ends.  The handler *)
(* goes on, and what it answers reaches nobody.                            *)
Orphaned(r) == [r EXCEPT !.heard = FALSE]
Unwaited(m) ==
    [h \in Handlers |->
        IF handler[h].work = "enroll" /\ handler[h].machine = m
        THEN Orphaned(handler[h]) ELSE handler[h]]

Crash(m) ==
    /\ stage[m] # "down"
    /\ faults < MaxFaults
    /\ faults' = faults + 1
    /\ handler' = Unwaited(m)
    /\ stage' = [stage EXCEPT ![m] = "down"]
    /\ memory' = [memory EXCEPT ![m] = Nothing]
    /\ UNCHANGED <<NameOf, serverVars, config, refused>>

(* A restart of an enrolled agent reads agent.json (AgentConfig.load).     *)
Restart(m) ==
    /\ stage[m] = "down" /\ config[m] # Nothing
    /\ memory' = [memory EXCEPT ![m] = config[m]]
    /\ stage' = [stage EXCEPT ![m] = "up"]
    /\ UNCHANGED <<NameOf, serverVars, handler, config, refused, faults>>

-----------------------------------------------------------------------------
(* Administration of tokens and credentials.                               *)

(* Nobody asks whether a used or revoked token has expired.                *)
Expire(t) ==
    /\ ~tokens[t].expired /\ Usable(t, FALSE)
    /\ tokens' = [tokens EXCEPT ![t].expired = TRUE]
    /\ UNCHANGED <<NameOf, devices, issued, version, handler, agentVars, faults>>

(* Writes revoked_at whatever it read; its UPDATE waits for the row.       *)
RevokeToken(t) ==
    /\ ~tokens[t].revoked
    /\ ~Held(t)
    /\ tokens' = [tokens EXCEPT ![t].revoked = TRUE]
    /\ UNCHANGED <<NameOf, devices, issued, version, handler, agentVars, faults>>

(* Rotation checks that the device it read is active.                      *)
BeginRotation(h, x) ==
    /\ handler[h] = Free
    /\ devices[x] # Nothing
    /\ devices[x].active
    /\ handler' = [handler EXCEPT ![h] = [work |-> "rekey", name |-> x]]
    /\ UNCHANGED <<NameOf, serverVars, agentVars, faults>>

(* Renewal authenticates a holder of the current credential.               *)
BeginRenewal(h, m) ==
    /\ handler[h] = Free
    /\ Own(m) # Nothing
    /\ Authenticated(m, Own(m))
    /\ handler' = [handler EXCEPT ![h] = [work |-> "rekey", name |-> NameOf[m]]]
    /\ UNCHANGED <<NameOf, serverVars, agentVars, faults>>

(* Both write the hash and rotated_at, and only those columns, by the      *)
(* row's key.  No agent in this repository stores the reply.               *)
Rekeyed(row, c) == [row EXCEPT !.credential = c, !.rotated = TRUE]
WriteCredential(h) ==
    /\ handler[h].work = "rekey"
    /\ issued < MaxIssued
    /\ devices' = [devices EXCEPT ![handler[h].name] = Rekeyed(@, issued + 1)]
    /\ issued' = issued + 1
    /\ handler' = [handler EXCEPT ![h] = Free]
    /\ UNCHANGED <<NameOf, tokens, version, agentVars, faults>>

Retired(row) == [row EXCEPT !.active = FALSE]
RevokeDevice(x) ==
    /\ devices[x] # Nothing
    /\ devices[x].active
    /\ devices' = [devices EXCEPT ![x] = Retired(@)]
    /\ UNCHANGED <<NameOf, tokens, issued, version, handler, agentVars, faults>>

-----------------------------------------------------------------------------
(* The cycle of an enrolled agent, and the keys.                           *)

(* A deployment of the next version reaches the processes one by one, and  *)
(* the next one begins when all of them have it.                           *)
Deploy(p) ==
    /\ version[p] < MaxVersion
    /\ \A q \in Processes : version[p] <= version[q]
    /\ version' = [version EXCEPT ![p] = @ + 1]
    /\ UNCHANGED <<NameOf, tokens, devices, issued, handler, agentVars, faults>>

MergedIntoFirst(c, keys) == IF c.keys = {} THEN [c EXCEPT !.keys = keys] ELSE c

(* _merge_signing_keys: versions are added, never replaced.                *)
Merged(c, keys) == [c EXCEPT !.keys = @ \cup keys]

(* The configuration is written when the answer has added a version.       *)
Refreshing(m, p) ==
    /\ m \in Serving
    /\ stage[m] = "up"
    /\ Authenticated(m, memory[m])
    /\ memory' = [memory EXCEPT ![m] = Merged(@, ActiveKeys(version[p]))]

RefreshKeys(m, p) ==
    /\ Refreshing(m, p)
    /\ config' = IF memory' # memory THEN [config EXCEPT ![m] = memory'[m]] ELSE config
    /\ stage' = [stage EXCEPT ![m] = "fresh"]
    /\ UNCHANGED <<NameOf, serverVars, handler, refused, faults>>

(* The write fails and ends the cycle: the keys stay in memory only, and   *)
(* the next refresh finds nothing to add and writes nothing.               *)
RefreshUnsaved(m, p) ==
    /\ Refreshing(m, p)
    /\ memory' # memory
    /\ faults < MaxFaults
    /\ faults' = faults + 1
    /\ UNCHANGED <<NameOf, serverVars, handler, stage, config, refused>>

(* An ApiError is tolerated by an agent that has keys: the cycle goes on.  *)
MissKeys(m) ==
    /\ m \in Serving
    /\ stage[m] = "up"
    /\ memory[m].keys # {}
    /\ \/ ~Authenticated(m, memory[m]) /\ UNCHANGED faults
       \/ faults < MaxFaults /\ faults' = faults + 1
    /\ stage' = [stage EXCEPT ![m] = "fresh"]
    /\ UNCHANGED <<NameOf, serverVars, handler, memory, config, refused>>

(* The heartbeat or the poll is refused, or no job is queued.              *)
EndCycle(m) ==
    /\ stage[m] = "fresh"
    /\ stage' = [stage EXCEPT ![m] = "up"]
    /\ UNCHANGED <<NameOf, serverVars, handler, memory, config, refused, faults>>

(* Process p signs the envelope of a claimed job with its own version; the *)
(* agent looks that version up among the keys it has pinned.               *)
ClaimJob(m, p) ==
    /\ stage[m] = "fresh"
    /\ Authenticated(m, memory[m])
    /\ refused' = [refused EXCEPT ![m] =
            IF version[p] \in memory[m].keys THEN 0 ELSE version[p]]
    /\ stage' = [stage EXCEPT ![m] = "up"]
    /\ UNCHANGED <<NameOf, serverVars, handler, memory, config, faults>>

-----------------------------------------------------------------------------
AgentNext(m) ==
    \/ \E w \in Ways, h \in Handlers : AskToEnroll(m, w, h)
    \/ Save(m) \/ SaveFails(m) \/ Restart(m) \/ Crash(m)
    \/ MissKeys(m) \/ EndCycle(m)
    \/ \E p \in Processes : RefreshKeys(m, p) \/ RefreshUnsaved(m, p) \/ ClaimJob(m, p)

HandlerNext(h) ==
    \/ HoldToken(h) \/ RefuseEnrollment(h) \/ WriteCredential(h)
    \/ \E p \in Processes : Enroll(h, p)
    \/ \E x \in Names : BeginRotation(h, x)
    \/ \E m \in Machines : BeginRenewal(h, m)

AdminNext ==
    \/ \E t \in Tokens : Expire(t) \/ RevokeToken(t)
    \/ \E x \in Names : RevokeDevice(x)
    \/ \E p \in Processes : Deploy(p)

Next ==
    \/ \E m \in Machines : AgentNext(m)
    \/ \E h \in Handlers : HandlerNext(h)
    \/ AdminNext

Spec == Init /\ [][Next]_vars

(* An agent's loop and the requests the API has taken up go on; nobody has *)
(* to enroll a machine, rotate a credential or deploy a version.           *)
Fairness ==
    /\ \A m \in Serving :
        /\ WF_vars(Save(m))
        /\ WF_vars(Restart(m))
        /\ WF_vars(\E p \in Processes : RefreshKeys(m, p))
        /\ WF_vars(EndCycle(m) \/ \E p \in Processes : ClaimJob(m, p))
    /\ \A h \in Handlers :
        WF_vars(HoldToken(h) \/ RefuseEnrollment(h) \/ \E p \in Processes : Enroll(h, p))

FairSpec == Spec /\ Fairness

-----------------------------------------------------------------------------
(* Properties.                                                             *)

(* A token has enrolled the device its row names and no other, however the *)
(* requests that carry it, the revocations and the timeouts interleave     *)
(* (enroll_device_with_token's with_for_update).                           *)
TokenSpentOnce ==
    \A t \in Tokens, x \in Names :
        tokens[t].usedBy = x <=> (devices[x] # Nothing /\ devices[x].via = t)

(* Credentials are never shared: two devices never open for the same one,  *)
(* and two machines never both hold credentials of one device, even when   *)
(* both are configured with its external_id (the unique constraint of      *)
(* devices, and the 409 of both enrollments).                              *)
Holds(m) == memory[m] # Nothing \/ config[m] # Nothing
OneMachinePerDevice ==
    /\ \A x, y \in Names :
        devices[x] # Nothing /\ devices[y] # Nothing
            /\ devices[x].credential = devices[y].credential => x = y
    /\ \A m, n \in Machines :
        Holds(m) /\ Holds(n) /\ NameOf[m] = NameOf[n] => m = n

(* An agent holds a credential the server does not know only after its     *)
(* device's credential was rotated: neither a crash before the save, nor a *)
(* restart, nor an overlapping request leaves it with a dead one.          *)
HeldCredentialExplained ==
    \A m \in Machines : \A c \in {memory[m], config[m]} \ {Nothing} :
        /\ Known(m)
        /\ ~devices[NameOf[m]].rotated => c.credential = devices[NameOf[m]].credential

(* The inductive invariant: what keeps the properties above, and           *)
(* RevokedIsDead and RefusesOnlyNewer below, true from step to step.       *)

(* Who holds a token's row does so alone, and the token stays usable;      *)
(* rotations and renewals write rows that exist.                           *)
HandlersAgree ==
    /\ \A h \in Handlers : handler[h].work = "rekey" => devices[handler[h].name] # Nothing
    /\ \A h \in Handlers : handler[h].work = "enroll" /\ handler[h].holds =>
        /\ handler[h].way \in Tokens
        /\ Usable(handler[h].way, FALSE)
        /\ \A g \in Handlers :
            handler[g].work = "enroll" /\ handler[g].holds
                /\ handler[g].way = handler[h].way => g = h

(* A machine waits for one request, and has nothing until it is answered;  *)
(* what its file holds, if it could be written, is of the same enrollment. *)
WaitersAgree ==
    /\ \A h \in Handlers : handler[h].work = "enroll" /\ handler[h].heard =>
        /\ stage[handler[h].machine] = "waiting"
        /\ \A g \in Handlers :
            handler[g].work = "enroll" /\ handler[g].heard
                /\ handler[g].machine = handler[h].machine => g = h
    /\ \A m \in Machines :
        /\ memory[m] = Nothing <=> stage[m] \in {"down", "waiting"}
        /\ stage[m] \in {"waiting", "adopted"} => config[m] = Nothing
        /\ memory[m] # Nothing /\ config[m] # Nothing =>
            config[m].credential = memory[m].credential

(* No version in service is missing below the newest one an agent pinned:  *)
(* processes are never more than one version apart, and the window spans   *)
(* that.                                                                   *)
KeysCoverService ==
    /\ \A p, q \in Processes : version[p] <= version[q] + 1
    /\ \A m \in Machines : \A c \in {memory[m], config[m]} \ {Nothing} :
        \A k \in c.keys :
            /\ \E p \in Processes : k <= version[p]
            /\ \A p \in Processes : version[p] <= k => version[p] \in c.keys

CredentialsIssued ==
    \A x \in Names : devices[x] # Nothing => devices[x].credential <= issued

TrustInvariant ==
    /\ TypeOK
    /\ HandlersAgree
    /\ TokenSpentOnce
    /\ WaitersAgree
    /\ CredentialsIssued
    /\ OneMachinePerDevice
    /\ HeldCredentialExplained
    /\ KeysCoverService

(* What is revoked serves nobody: a revoked token enrolls no device, and a *)
(* revoked device stays so, gets no key and claims no job, although        *)
(* rotations and renewals that began before may still write its row.       *)
Revoked(x) == devices[x] # Nothing /\ ~devices[x].active
RevokedIsDead ==
    [][/\ \A t \in Tokens : tokens[t].revoked =>
            tokens'[t].revoked /\ tokens'[t].usedBy = tokens[t].usedBy
       /\ \A m \in Machines : Revoked(NameOf[m]) =>
            /\ Revoked(NameOf[m])'
            /\ refused'[m] = refused[m]
            /\ config[m] # Nothing => config'[m] = config[m]
            /\ memory[m] # Nothing => memory'[m] \in {memory[m], Nothing}]_vars

(* An agent refuses a signature only of a version newer than every version *)
(* it has pinned.  While a deployment rolls over the API's processes this  *)
(* takes the trailing window of active_public_keys: an agent that enrolled *)
(* or refreshed with a process of the new version meets processes that     *)
(* still sign with the old one.                                            *)
RefusesOnlyNewer ==
    [][\A m \in Machines : refused'[m] # refused[m] /\ refused'[m] # 0 =>
            \A k \in memory[m].keys : k < refused'[m]]_vars

(* Once every process has a version, an agent whose credential is accepted *)
(* pins it, whatever its earlier refreshes missed or could not write       *)
(* (ensure_signing_key runs every cycle).                                  *)
Accepted(m) == Own(m) # Nothing /\ Authenticated(m, Own(m))
Settled == \A p, q \in Processes : version[p] = version[q]
Trusts(m) == Own(m) # Nothing /\ \A p \in Processes : version[p] \in Own(m).keys
KeysCatchUp ==
    \A m \in Serving :
        (Accepted(m) /\ Settled) ~> (Trusts(m) \/ ~Accepted(m) \/ ~Settled)

-----------------------------------------------------------------------------
(* No credential is held before it is issued.                              *)
OwnIssued == \A m \in Machines : Own(m) # Nothing => Own(m).credential <= issued

(* A device's row without the mark of a rotation.                          *)
Device(x) ==
    IF devices[x] = Nothing THEN Nothing
    ELSE [active |-> devices[x].active, credential |-> devices[x].credential,
          via |-> devices[x].via]

Promise == INSTANCE TrustPromise WITH
    called <- NameOf,
    spentOn <- [t \in Tokens |-> tokens[t].usedBy],
    voided <- {t \in Tokens : tokens[t].revoked},
    device <- [x \in Names |-> Device(x)],
    own <- [m \in Machines |-> Own(m)],
    kept <- config

(* Requests that overlap, time out and are given up, crashes before and    *)
(* after the save, writes that fail, and a deployment that is half-way do  *)
(* not show: a name is enrolled at once and once, what is revoked stays so *)
(* and opens nothing, only the first credential of a device reaches a      *)
(* machine, and no key is ever missing below the newest one pinned         *)
(* (enroll_device_with_token, require_agent, active_public_keys,           *)
(* _merge_signing_keys).                                                   *)
KeepsTrustPromise == Promise!PromiseSpec
=============================================================================
