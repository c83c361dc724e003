--------------------------- MODULE RequestPromise ---------------------------
(***************************************************************************)
(* What connector requests promise the people who ask and who decide, with *)
(* no lock, transaction or audit entry in sight.  A message asks once.  A  *)
(* request is looked at by others than its author while it is pending, for *)
(* an approval with a code that is good at that moment; whoever has looked *)
(* may decide, even after somebody else has, and nobody else may.  But a   *)
(* request whose operation has just been run is left alone until the       *)
(* approval that ran it has said so or has given up: operations of one     *)
(* request never overlap, and nothing is decided, minted or expired        *)
(* meanwhile.                                                              *)
(***************************************************************************)
EXTENDS Integers

CONSTANTS Requests, Message, Web, Resolved, Actionable,
          Approvals, Denials, Author, Actor

VARIABLES
    asked,      \* the requests there are
    code,       \* code[r]: the code that opens r, 0 when there is none
    shown,      \* shown[d]: the request and the code approval d came with
    deciding,   \* deciding[r]: who has found r pending and not decided yet
    ran,        \* approvals whose operation took effect
    verdict,    \* verdict[r]: what has been decided about r last
    decider     \* decider[r]: by whom

promiseVars == <<asked, code, shown, deciding, ran, verdict, decider>>

PromiseInit ==
    /\ asked = {} /\ ran = {}
    /\ code = [r \in Requests |-> 0]
    /\ shown = [d \in Approvals |-> {}]
    /\ deciding = [r \in Requests |-> {}]
    /\ verdict = [r \in Requests |-> "pending_approval"]
    /\ decider = [r \in Requests |-> {}]

(* Nobody else's operation of r awaits its verdict.                        *)
LeftTo(D, r) == deciding[r] \cap ran \subseteq D

Ask(r) ==
    /\ r \notin asked
    /\ Message[r] \in Resolved \cap Actionable
    /\ Message[r] \in Web \/ \A q \in asked : Message[q] # Message[r]
    /\ asked' = asked \cup {r}
    /\ UNCHANGED <<code, shown, deciding, ran, verdict, decider>>

(* A new code replaces the last one, and nobody has come with it before.   *)
Mint(r) ==
    /\ r \in asked
    /\ LeftTo({}, r)
    /\ code' = [code EXCEPT ![r] = code'[r]]
    /\ code'[r] # 0
    /\ \A d \in Approvals : <<r, code'[r]>> \notin shown[d]
    /\ UNCHANGED <<asked, shown, deciding, ran, verdict, decider>>

Fade(r) ==
    /\ code' = [code EXCEPT ![r] = 0]
    /\ UNCHANGED <<asked, shown, deciding, ran, verdict, decider>>

Look(d, r) ==
    /\ r \in asked /\ verdict[r] = "pending_approval"
    /\ Actor[d] # Author[Message[r]]
    /\ d \in Approvals => code[r] # 0
    /\ \A q \in Requests : d \notin deciding[q]
    /\ shown' = IF d \in Approvals THEN [shown EXCEPT ![d] = {<<r, code[r]>>}] ELSE shown
    /\ deciding' = [deciding EXCEPT ![r] = @ \cup {d}]
    /\ UNCHANGED <<asked, code, ran, verdict, decider>>

Run(d, r) ==
    /\ d \in deciding[r]
    /\ LeftTo({}, r)
    /\ ran' = ran \cup {d}
    /\ UNCHANGED <<asked, code, shown, deciding, verdict, decider>>

(* A decision ends with its word on the request, ...                       *)
Settle(d, r) ==
    /\ d \in deciding[r]
    /\ LeftTo({d}, r)
    /\ deciding' = [deciding EXCEPT ![r] = @ \ {d}]
    /\ verdict' = [verdict EXCEPT ![r] = IF d \in Denials THEN "denied"
                                         ELSE IF d \in ran THEN "succeeded" ELSE "failed"]
    /\ decider' = [decider EXCEPT ![r] = {d}]
    /\ code' = IF d \in Approvals THEN [code EXCEPT ![r] = 0] ELSE code
    /\ UNCHANGED <<asked, shown, ran>>

(* ... or without one, whatever it has run by then.                        *)
GiveUp(d, r) ==
    /\ d \in deciding[r]
    /\ deciding' = [deciding EXCEPT ![r] = @ \ {d}]
    /\ UNCHANGED <<asked, code, shown, ran, verdict, decider>>

Lapse(R) ==
    /\ \A r \in R : r \in asked /\ verdict[r] = "pending_approval" /\ LeftTo({}, r)
    /\ verdict' = [r \in Requests |-> IF r \in R THEN "expired" ELSE verdict[r]]
    /\ UNCHANGED <<asked, code, shown, deciding, ran, decider>>

PromiseNext ==
    \/ \E r \in Requests : Ask(r) \/ Mint(r) \/ Fade(r)
    \/ \E d \in Approvals, r \in Requests : Run(d, r)
    \/ \E d \in Approvals \cup Denials, r \in Requests :
          Look(d, r) \/ Settle(d, r) \/ GiveUp(d, r)
    \/ \E R \in SUBSET Requests : Lapse(R)

PromiseSpec == PromiseInit /\ [][PromiseNext]_promiseVars
=============================================================================
