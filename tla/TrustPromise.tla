---------------------------- MODULE TrustPromise ----------------------------
(***************************************************************************)
(* What enrollment and keys promise, with no request, lock, file or        *)
(* process in sight.  A name becomes a device once, through a token that   *)
(* is neither spent nor void, and its first credential reaches one machine *)
(* of that name or none.  Later credentials reach no machine.  A machine   *)
(* may lose what it has got, and is back at what it has kept, which may be *)
(* nothing.  With the credential of a device in service, and only so,      *)
(* it pins keys and takes jobs; keys are pinned for good, and a job is     *)
(* refused only when it is signed with a version newer than all of them.   *)
(***************************************************************************)
EXTENDS Integers

CONSTANTS Machines, Names, Tokens, ByUser, Credentials, Versions, Processes, Nothing

VARIABLES
    called,     \* called[m]: the name of machine m
    spentOn,    \* spentOn[t]: the name token t has enrolled
    voided,     \* revoked tokens
    device,     \* device[x]: whether x is in service, its credential and its token
    own,        \* own[m]: the credential and the key versions machine m has
    kept,       \* kept[m]: what m comes back with
    version,    \* version[p]: the version process p signs with
    refused     \* refused[m]: the version m has just refused, or 0

promiseVars == <<called, spentOn, voided, device, own, kept, version, refused>>

PromiseInit ==
    /\ called \in [Machines -> Names]
    /\ spentOn = [t \in Tokens |-> Nothing] /\ voided = {}
    /\ device = [x \in Names |-> Nothing]
    /\ own = [m \in Machines |-> Nothing] /\ kept = own
    /\ version = [p \in Processes |-> 1]
    /\ refused = [m \in Machines |-> 0]

(* No device opens for c, and no machine has it.                           *)
Fresh(c) ==
    /\ \A x \in Names : device[x] # Nothing => device[x].credential # c
    /\ \A m \in Machines : own[m] # Nothing => own[m].credential # c

(* Keys a process of version v may publish: its own and the one before.    *)
Published(v) == {K \in SUBSET Versions : /\ v \in K /\ (v > 1 => v - 1 \in K)
                                         /\ \A k \in K : k <= v}

InService(m) ==
    /\ own[m] # Nothing
    /\ device[called[m]] # Nothing
    /\ device[called[m]].active
    /\ device[called[m]].credential = own[m].credential

Register(m, w, c) ==
    /\ device[called[m]] = Nothing
    /\ w \in Tokens => spentOn[w] = Nothing /\ w \notin voided
    /\ device' = [device EXCEPT ![called[m]] = [active |-> TRUE, credential |-> c, via |-> w]]
    /\ Fresh(c)
    /\ spentOn' = IF w \in Tokens THEN [spentOn EXCEPT ![w] = called[m]] ELSE spentOn
    /\ \/ /\ own[m] = Nothing
          /\ \E p \in Processes : \E K \in Published(version[p]) :
                own' = [own EXCEPT ![m] = [credential |-> c, keys |-> K]]
       \/ UNCHANGED own
    /\ UNCHANGED <<called, voided, kept, version, refused>>

Keep(m) ==
    /\ own[m] # Nothing
    /\ kept' = [kept EXCEPT ![m] = own[m]]
    /\ UNCHANGED <<called, spentOn, voided, device, own, version, refused>>

Lose(m) ==
    /\ own' = [own EXCEPT ![m] = kept[m]]
    /\ UNCHANGED <<called, spentOn, voided, device, kept, version, refused>>

Rekey(x, c) ==
    /\ device[x] # Nothing
    /\ device' = [device EXCEPT ![x].credential = c]
    /\ Fresh(c)
    /\ UNCHANGED <<called, spentOn, voided, own, kept, version, refused>>

Retire(x) ==
    /\ device[x] # Nothing
    /\ device' = [device EXCEPT ![x].active = FALSE]
    /\ UNCHANGED <<called, spentOn, voided, own, kept, version, refused>>

Void(t) ==
    /\ voided' = voided \cup {t}
    /\ UNCHANGED <<called, spentOn, device, own, kept, version, refused>>

(* Deployments roll over the processes one after the other.                *)
Deploy(p) ==
    /\ \A q \in Processes : version[p] <= version[q]
    /\ version' = [version EXCEPT ![p] = @ + 1]
    /\ UNCHANGED <<called, spentOn, voided, device, own, kept, refused>>

Pin(m) ==
    /\ InService(m)
    /\ \E p \in Processes : \E K \in Published(version[p]) :
          own' = [own EXCEPT ![m].keys = @ \cup K]
    /\ kept' \in {kept, [kept EXCEPT ![m] = own'[m]]}
    /\ UNCHANGED <<called, spentOn, voided, device, version, refused>>

TakeJob(m, p) ==
    /\ InService(m)
    /\ \/ version[p] \in own[m].keys /\ refused' = [refused EXCEPT ![m] = 0]
       \/ /\ \A k \in own[m].keys : k < version[p]
          /\ refused' = [refused EXCEPT ![m] = version[p]]
    /\ UNCHANGED <<called, spentOn, voided, device, own, kept, version>>

PromiseNext ==
    \/ \E m \in Machines, w \in Tokens \cup {ByUser}, c \in Credentials : Register(m, w, c)
    \/ \E m \in Machines : Keep(m) \/ Lose(m) \/ Pin(m)
    \/ \E m \in Machines, p \in Processes : TakeJob(m, p)
    \/ \E x \in Names : Retire(x) \/ \E c \in Credentials : Rekey(x, c)
    \/ \E t \in Tokens : Void(t)
    \/ \E p \in Processes : Deploy(p)

PromiseSpec == PromiseInit /\ [][PromiseNext]_promiseVars
=============================================================================
