------------------------ MODULE ConversationService ------------------------
(***************************************************************************)
(* How a chat message becomes a connector request: the channel endpoints   *)
(* (slack_events, google_chat_events, teams_events and send_chat_message   *)
(* in helpdesktool/api.py) and the conversation service they call          *)
(* (helpdesktool/conversation.py).  A provider repeats a message until it  *)
(* is answered, so the same message may be handled twice, and at once.     *)
(*                                                                         *)
(* A handler is one delivery of a message, and names the request it        *)
(* creates if it creates one.  Its transaction looks the message up, waits *)
(* for the audit lock of the tenant at its first audit event, and writes   *)
(* everything at its end.                                                  *)
(***************************************************************************)
EXTENDS Integers, Sequences, FiniteSets

CONSTANTS
    Handlers,       \* deliveries of messages
    Messages,
    Message,        \* Message[h]: the message that handler h was sent
    Web,            \* the messages of the console, which have no event id
    Resolved,       \* those whose author resolves to an active user
    Actionable,     \* those that ask for an operation of a known application
    Processes       \* every transaction that writes an audit event

ASSUME MessagesAssumption ==
    /\ Message \in [Handlers -> Messages]
    /\ Web \subseteq Messages
    /\ Resolved \subseteq Messages
    /\ Actionable \subseteq Messages
    /\ Handlers \subseteq Processes

Statuses == {"pending_approval", "denied", "succeeded", "failed", "expired"}

(* Audit events about a request.                                           *)
Kinds == {"created", "code", "denied", "executed", "failed", "expired"}
Trails == Seq(Kinds \X Processes)

VARIABLES
    requests,       \* ConnectorRequest rows there are
    remembered,     \* messages with an IdempotencyRecord
    trail,          \* the audit events of a request, in the chain's order
    chain,          \* who holds the audit lock across several steps
    phase           \* how far a transaction is

conversationVars == <<requests, remembered, trail, chain, phase>>

Free == {}

(* What a transaction appends to the trail of a request.                   *)
Appended(r, kind, p) == Append(trail[r], <<kind, p>>)

(* idempotency_lookup; messages of the console are not remembered.         *)
Known(h) == Message[h] \in remembered

(* Mutation: the records have no unique key.                               *)
ClashesNever(h) == FALSE

(* The unique key of the records, when another handler has remembered the  *)
(* message since this one looked it up.                                    *)
Clashes(h) == Known(h)

(* A message heard of before is answered with 204 and changes nothing; one *)
(* that is new is handled, and its handler waits for the audit lock.       *)
LookUp(h) ==
    /\ phase[h] = "new"
    /\ phase' = [phase EXCEPT ![h] = IF Known(h) THEN "done" ELSE "read"]
    /\ UNCHANGED <<requests, remembered, trail, chain>>

(* The author is unknown: an audit event, and the message is remembered.   *)
(* Nothing but a ticket comes of a message that asks for no operation.     *)
CreatesRequest(h) == Message[h] \in Resolved \cap Actionable

(* handle_message, remember and the commit.                                *)
Handle(h) ==
    /\ phase[h] = "read"
    /\ chain = Free
    /\ ~Clashes(h)
    /\ phase' = [phase EXCEPT ![h] = "done"]
    /\ remembered' = remembered \cup ({Message[h]} \ Web)
    /\ IF CreatesRequest(h)
       THEN /\ requests' = requests \cup {h}
            /\ trail' = [trail EXCEPT ![h] = Appended(h, "created", h)]
       ELSE UNCHANGED <<requests, trail>>
    /\ UNCHANGED chain

(* The commit is refused, and nothing of the handler's work stays.         *)
Refuse(h) ==
    /\ phase[h] = "read"
    /\ chain = Free
    /\ Clashes(h)
    /\ phase' = [phase EXCEPT ![h] = "aborted"]
    /\ UNCHANGED <<requests, remembered, trail, chain>>
=============================================================================
