----------------------------- MODULE Incidents -----------------------------
(***************************************************************************)
(* Low-disk incidents of one device and the tickets opened for them        *)
(* (helpdesktool/incidents.py), as the transactions that write them: the   *)
(* agent's inventories and the edits of tickets (inventory and             *)
(* update_ticket in helpdesktool/api.py).                                  *)
(*                                                                         *)
(* An inventory goes through its filesystems in order.  It reads what is   *)
(* committed, without a lock, and decides by what it has read.  A recovery *)
(* writes the incident, which locks the row, and then waits for the        *)
(* tenant's audit lock; a sighting takes the audit lock and then writes    *)
(* the row.  The two orders meet in a deadlock, which the database ends by *)
(* rolling one of them back.  Times are when the device collected, so a    *)
(* late inventory is an old one.                                           *)
(***************************************************************************)
EXTENDS Integers, FiniteSets

CONSTANTS
    Requests,       \* inventories the server may hold at a time
    Edits,          \* ticket edits, each made once
    Filesystems,    \* how many filesystems the device lists
    Window,         \* incident_correlation_hours
    Reports,        \* payloads that are collected in the instance
    EditedTo,       \* statuses that edits give tickets in the instance
    MaxIncidents,   \* bound of the model: incidents, and tickets for them
    MaxTime,        \* bound of the model: the clock
    MaxAlarms,      \* bound of the model: inventories with a full filesystem
    MaxFailures,    \* bound of the model: requests lost to crashes
    NoOne

Keys == 1..Filesystems
Incidents == 1..MaxIncidents
NoIncident == 0
Times == 0..MaxTime
Never == -1

TicketStatuses == {"open", "in_progress", "resolved", "closed"}

(* "unusable" is a filesystem the payload does not list or lists with      *)
(* numbers the detector skips; "over" is at the threshold or above it.  A  *)
(* payload names a filesystem once, as the collectors of both agents do.   *)
Levels == {"low", "over", "unusable"}
Payloads == [Keys -> Levels]
Nothing == [k \in Keys |-> "unusable"]

ASSUME IncidentsAssumption ==
    /\ Filesystems \in Nat \ {0} /\ Window \in Nat
    /\ MaxTime \in Nat /\ MaxAlarms \in Nat /\ MaxFailures \in Nat
    /\ MaxIncidents \in Nat
    /\ Reports \subseteq Payloads
    /\ EditedTo \subseteq TicketStatuses
    /\ NoOne \notin Requests

(* No code sets an incident to "investigating" or "closed".  "none" stands *)
(* for a row that is not there.                                            *)
Columns == [key : Keys, status : {"none", "open", "resolved"},
            last : Times, resolved : Times \cup {Never}]
NoRow == [key |-> 1, status |-> "none", last |-> 0, resolved |-> Never]

VARIABLES
    now,            \* the clock
    rows,           \* committed incidents
    tickets,        \* status of the ticket of an incident, once it exists
    auditLock,      \* who holds the tenant's advisory lock
    step,           \* where a request is
    payload, at,    \* what it reports, and when that was collected
    position,       \* the filesystem it is at
    seen, loaded,   \* the incident it has read, and its columns then
    ticketSeen,     \* the ticket's status as it has read it
    draft,          \* incidents it has written and not committed
    closing,        \* tickets it has resolved and not committed
    edit,           \* the ticket an edit has read, its status, the new one
    made,           \* edits that have been committed
    alarms, failures

storeVars == <<rows, tickets>>
readVars == <<seen, loaded, ticketSeen>>
draftVars == <<draft, closing>>
worldVars == <<now, alarms, failures>>
vars == <<storeVars, readVars, draftVars, worldVars, auditLock, step, payload,
          at, position, edit, made>>

Steps == {"idle", "scan", "recover", "close", "sight", "update", "create"}
NoEdit == [incident |-> NoIncident, read |-> "open", to |-> "open"]

TypeOK ==
    /\ now \in Times
    /\ rows \in [Incidents -> Columns]
    /\ tickets \in [Incidents -> TicketStatuses]
    /\ auditLock \in Requests \cup {NoOne}
    /\ step \in [Requests -> Steps]
    /\ payload \in [Requests -> Payloads] /\ at \in [Requests -> Times]
    /\ position \in [Requests -> 1..(Filesystems + 1)]
    /\ seen \in [Requests -> Incidents \cup {NoIncident}]
    /\ loaded \in [Requests -> Columns]
    /\ ticketSeen \in [Requests -> TicketStatuses]
    /\ draft \in [Requests -> [Incidents -> Columns]]
    /\ closing \in [Requests -> SUBSET Incidents]
    /\ edit \in [Edits -> [incident : Incidents \cup {NoIncident},
                           read : TicketStatuses, to : TicketStatuses]]
    /\ made \subseteq Edits
    /\ alarms \in 0..MaxAlarms /\ failures \in 0..MaxFailures

Init ==
    /\ now = 0
    /\ rows = [i \in Incidents |-> NoRow]
    /\ tickets = [i \in Incidents |-> "open"]
    /\ auditLock = NoOne
    /\ step = [r \in Requests |-> "idle"]
    /\ payload = [r \in Requests |-> Nothing]
    /\ at = [r \in Requests |-> 0]
    /\ position = [r \in Requests |-> 1]
    /\ seen = [r \in Requests |-> NoIncident]
    /\ loaded = [r \in Requests |-> NoRow]
    /\ ticketSeen = [r \in Requests |-> "open"]
    /\ draft = [r \in Requests |-> [i \in Incidents |-> NoRow]]
    /\ closing = [r \in Requests |-> {}]
    /\ edit = [e \in Edits |-> NoEdit] /\ made = {}
    /\ alarms = 0 /\ failures = 0
-----------------------------------------------------------------------------
(* The device.  The agent reports whatever its filesystems are by then,    *)
(* whether or not its last report was answered.                            *)
Tick ==
    /\ now < MaxTime
    /\ now' = now + 1
    /\ UNCHANGED <<storeVars, readVars, draftVars, alarms, failures,
                   auditLock, step, payload, at, position, edit, made>>

Alarming(p) == \E k \in Keys : p[k] = "over"

Send(r, p) ==
    /\ step[r] = "idle"
    /\ Alarming(p) => alarms < MaxAlarms
    /\ alarms' = IF Alarming(p) THEN alarms + 1 ELSE alarms
    /\ step' = [step EXCEPT ![r] = "scan"]
    /\ payload' = [payload EXCEPT ![r] = p]
    /\ at' = [at EXCEPT ![r] = now]
    /\ position' = [position EXCEPT ![r] = 1]
    /\ UNCHANGED <<storeVars, readVars, draftVars, now, failures,
                   auditLock, edit, made>>

Collect(r) == \E p \in Reports : Send(r, p)
-----------------------------------------------------------------------------
(* The detector's queries and what it writes.                              *)
Here(r) == position[r]
Level(r) == payload[r][Here(r)]
Scanning(r) == step[r] = "scan" /\ Here(r) \in Keys

(* Mutation: recovery looks only at what was seen just now.                *)
OpenRowsToday(k) ==
    {i \in Incidents : rows[i].status = "open" /\ rows[i].key = k /\ rows[i].last = now}

OpenRows(k) == {i \in Incidents : rows[i].status = "open" /\ rows[i].key = k}

RecentRows(k, t) ==
    {i \in Incidents : /\ rows[i].status # "none" /\ rows[i].key = k
                       /\ rows[i].last >= t - Window}
Newest(S) == {i \in S : \A j \in S : rows[j].last <= rows[i].last}

Resolved(row, t) == [row EXCEPT !.status = "resolved", !.resolved = t, !.last = t]
(* Mutation: a reopened incident keeps its resolved_at.                    *)
SightedDated(row, t) == [row EXCEPT !.status = "open", !.last = t]

Sighted(row, t) == [row EXCEPT !.status = "open", !.resolved = Never, !.last = t]

Opened(k, t) == [key |-> k, status |-> "open", last |-> t, resolved |-> Never]

(* Only columns that differ from what was loaded are written; the others   *)
(* keep what has been committed since.                                     *)
Kept(row, old, new) == IF new = old THEN row ELSE new
Written(row, old, new) ==
    [key |-> row.key,
     status |-> Kept(row.status, old.status, new.status),
     last |-> Kept(row.last, old.last, new.last),
     resolved |-> Kept(row.resolved, old.resolved, new.resolved)]

HasWritten(r, i) == draft[r][i].status # "none"
RowFree(r, i) == \A s \in Requests \ {r} : ~HasWritten(s, i)
(* Mutation: the audit log is appended without its lock.                   *)
AuditFreeAlways(r) == TRUE

AuditFree(r) == auditLock \in {NoOne, r}

(* Mutation: only tickets in progress are resolved.                        *)
UnresolvedInProgress(status) == status = "in_progress"

Unresolved(status) == status # "resolved"

Used(i) == rows[i].status # "none" \/ \E r \in Requests : HasWritten(r, i)
Unused(i) == ~Used(i) /\ \A j \in 1..(i - 1) : Used(j)
-----------------------------------------------------------------------------
(* On to the next filesystem; what was read of this one has been used.     *)
Advance(r) ==
    /\ step' = [step EXCEPT ![r] = "scan"]
    /\ position' = [position EXCEPT ![r] = @ + 1]
    /\ seen' = [seen EXCEPT ![r] = NoIncident]
    /\ loaded' = [loaded EXCEPT ![r] = NoRow]
    /\ ticketSeen' = [ticketSeen EXCEPT ![r] = "open"]

(* detect_inventory_incidents has nothing to do at this filesystem.        *)
Skip(r) ==
    /\ Scanning(r)
    /\ \/ Level(r) = "unusable"
       \/ Level(r) = "low" /\ OpenRows(Here(r)) = {}
    /\ Advance(r)
    /\ UNCHANGED <<storeVars, draftVars, worldVars, auditLock,
                   payload, at, edit, made>>

(* The detector has found an incident among those it looks for.            *)
Found(r, S, next) ==
    /\ \E i \in Newest(S) :
          /\ seen' = [seen EXCEPT ![r] = i]
          /\ loaded' = [loaded EXCEPT ![r] = rows[i]]
    /\ step' = [step EXCEPT ![r] = next]
    /\ UNCHANGED <<storeVars, ticketSeen, draftVars, worldVars, auditLock,
                   payload, at, position, edit, made>>

FindOpen(r) ==
    /\ Scanning(r) /\ Level(r) = "low"
    /\ Found(r, OpenRows(Here(r)), "recover")

FindRecent(r) ==
    /\ Scanning(r) /\ Level(r) = "over"
    /\ Found(r, RecentRows(Here(r), at[r]), "sight")

FindNone(r) ==
    /\ Scanning(r) /\ Level(r) = "over"
    /\ RecentRows(Here(r), at[r]) = {}
    /\ step' = [step EXCEPT ![r] = "create"]
    /\ UNCHANGED <<storeVars, readVars, draftVars, worldVars, auditLock,
                   payload, at, position, edit, made>>

Write(r, i, new) == draft' = [draft EXCEPT ![r][i] = new]

(* Reading the ticket sends the incident's changes to the database first.  *)
Recover(r) ==
    /\ step[r] = "recover" /\ RowFree(r, seen[r])
    /\ Write(r, seen[r], Written(rows[seen[r]], loaded[r], Resolved(loaded[r], at[r])))
    /\ ticketSeen' = [ticketSeen EXCEPT ![r] = tickets[seen[r]]]
    /\ step' = [step EXCEPT ![r] = "close"]
    /\ UNCHANGED <<storeVars, seen, loaded, closing, worldVars, auditLock,
                   payload, at, position, edit, made>>

Close(r) ==
    /\ step[r] = "close" /\ AuditFree(r)
    /\ auditLock' = r
    /\ closing' = [closing EXCEPT ![r] =
                       IF Unresolved(ticketSeen[r]) THEN @ \cup {seen[r]} ELSE @]
    /\ Advance(r)
    /\ UNCHANGED <<storeVars, draft, worldVars, payload, at, edit, made>>

Sight(r) ==
    /\ step[r] = "sight" /\ AuditFree(r)
    /\ auditLock' = r
    /\ step' = [step EXCEPT ![r] = "update"]
    /\ UNCHANGED <<storeVars, readVars, draftVars, worldVars, payload, at,
                   position, edit, made>>

Update(r) ==
    /\ step[r] = "update" /\ RowFree(r, seen[r])
    /\ Write(r, seen[r], Written(rows[seen[r]], loaded[r], Sighted(loaded[r], at[r])))
    /\ Advance(r)
    /\ UNCHANGED <<storeVars, closing, worldVars, auditLock, payload,
                   at, edit, made>>

(* The new rows are in nobody's way; the first audit event needs the lock. *)
Create(r) ==
    /\ step[r] = "create" /\ AuditFree(r)
    /\ auditLock' = r
    /\ \E i \in Incidents : Unused(i) /\ Write(r, i, Opened(Here(r), at[r]))
    /\ Advance(r)
    /\ UNCHANGED <<storeVars, closing, worldVars, payload, at,
                   edit, made>>
-----------------------------------------------------------------------------
(* The end of a transaction: its locks are free and its writes are gone,   *)
(* into the committed state or nowhere.                                    *)
End(r) ==
    /\ step' = [step EXCEPT ![r] = "idle"]
    /\ draft' = [draft EXCEPT ![r] = [i \in Incidents |-> NoRow]]
    /\ closing' = [closing EXCEPT ![r] = {}]
    /\ auditLock' = IF auditLock = r THEN NoOne ELSE auditLock
    /\ seen' = [seen EXCEPT ![r] = NoIncident]
    /\ loaded' = [loaded EXCEPT ![r] = NoRow]
    /\ ticketSeen' = [ticketSeen EXCEPT ![r] = "open"]
    /\ payload' = [payload EXCEPT ![r] = Nothing]
    /\ at' = [at EXCEPT ![r] = 0]
    /\ position' = [position EXCEPT ![r] = 1]
    /\ UNCHANGED <<edit, made>>

Through(r) == step[r] = "scan" /\ Here(r) \notin Keys

Commit(r) ==
    /\ Through(r)
    /\ rows' = [i \in Incidents |-> IF HasWritten(r, i) THEN draft[r][i] ELSE rows[i]]
    /\ tickets' = [i \in Incidents |-> IF i \in closing[r] THEN "resolved" ELSE tickets[i]]
    /\ End(r)
    /\ UNCHANGED worldVars

WaitsForRow(s, r) ==
    step[s] \in {"recover", "update"} /\ HasWritten(r, seen[s])
WaitsForAudit(r) == step[r] \in {"close", "sight", "create"}
Deadlocked(r, s) ==
    /\ r # s /\ auditLock = s
    /\ WaitsForAudit(r) /\ WaitsForRow(s, r)

Rollback(r) ==
    /\ \E s \in Requests : Deadlocked(r, s) \/ Deadlocked(s, r)
    /\ End(r)
    /\ UNCHANGED <<storeVars, worldVars>>

(* A request is lost before it is answered, or its process dies.           *)
Fail(r) ==
    /\ step[r] # "idle" /\ failures < MaxFailures
    /\ failures' = failures + 1
    /\ End(r)
    /\ UNCHANGED <<storeVars, now, alarms>>
-----------------------------------------------------------------------------
(* update_ticket: the ticket is read, the audit lock taken, the ticket     *)
(* written if it was read with another status, and all of it committed.    *)
ReadTicket(e) ==
    /\ edit[e] = NoEdit
    /\ \E i \in Incidents, to \in EditedTo :
          /\ rows[i].status # "none"
          /\ edit' = [edit EXCEPT ![e] =
                          [incident |-> i, read |-> tickets[i], to |-> to]]
    /\ UNCHANGED <<storeVars, readVars, draftVars, worldVars, auditLock, step,
                   payload, at, position, made>>

Changes(e) == edit[e].to # edit[e].read

EditTicket(e) ==
    /\ edit[e] # NoEdit /\ e \notin made /\ auditLock = NoOne
    /\ made' = made \cup {e}
    /\ tickets' = IF Changes(e) THEN [tickets EXCEPT ![edit[e].incident] = edit[e].to]
                  ELSE tickets
    /\ UNCHANGED <<rows, readVars, draftVars, worldVars, auditLock, step,
                   payload, at, position, edit>>
-----------------------------------------------------------------------------
Handle(r) ==
    \/ Skip(r) \/ FindOpen(r) \/ FindRecent(r) \/ FindNone(r)
    \/ Recover(r) \/ Close(r) \/ Sight(r) \/ Update(r) \/ Create(r)
    \/ Commit(r)

Next ==
    \/ Tick
    \/ \E r \in Requests : Collect(r) \/ Handle(r) \/ Rollback(r) \/ Fail(r)
    \/ \E e \in Edits : ReadTicket(e) \/ EditTicket(e)

(* A handler goes on, the database breaks every deadlock and gives its     *)
(* locks to those who wait in the order they came, and the agent reports   *)
(* every inventory_seconds.                                                *)
Fairness ==
    /\ \A r \in Requests : SF_vars(Handle(r))
    /\ WF_vars(\E r \in Requests : Rollback(r))
    /\ WF_vars(\E r \in Requests : Collect(r))

Spec == Init /\ [][Next]_vars
FairSpec == Spec /\ Fairness
-----------------------------------------------------------------------------
(* An incident that is resolved has a resolved ticket, unless a user has   *)
(* changed that ticket: resolve_recovered_incident resolves the two in one *)
(* transaction, but from a ticket it has read without a lock.              *)
Edited(i) == \E e \in made : edit[e].incident = i /\ Changes(e)
ResolvedTogether ==
    \A i \in Incidents :
        rows[i].status = "resolved" /\ ~Edited(i) => tickets[i] = "resolved"

(* What a transaction reads once it holds the audit lock stays true until  *)
(* it writes: only the first filesystem a transaction has something to say *)
(* about can be decided on a stale row, or opened twice.                   *)
HeldReadsAreFresh ==
    \A r \in Requests : auditLock = r =>
        /\ step[r] \in {"recover", "sight"} => loaded[r] = rows[seen[r]]
        /\ step[r] = "create" => RecentRows(Here(r), at[r]) = {}

(* The two above, and why: whoever has written anything holds the audit    *)
(* lock by the time it commits; resolved_at, which MTTR is computed from,  *)
(* is set in resolved incidents and no others, though a sighting and a     *)
(* recovery that overlap each write only the columns they have changed.    *)
Busy == Steps \ {"idle", "scan"}
Dated(row) == row.status = "resolved" <=> row.resolved # Never

ReadsMakeSense ==
    \A r \in Requests :
        /\ step[r] \in Busy => position[r] \in Keys
        /\ step[r] \in Busy \ {"create"} =>
              seen[r] \in Incidents /\ rows[seen[r]].status # "none"
        /\ step[r] = "recover" => loaded[r].status = "open"
        /\ step[r] \in {"sight", "update"} => loaded[r].status # "none"
        /\ Dated(loaded[r])

WritersHoldLock ==
    \A r \in Requests :
        /\ step[r] = "update" => auditLock = r
        /\ step[r] # "close" /\ (\E i \in Incidents : HasWritten(r, i)) => auditLock = r

Settling(r, i) == step[r] = "close" /\ seen[r] = i

WritesMakeSense ==
    /\ \A i \in Incidents : Dated(rows[i])
    /\ \A r \in Requests, i \in Incidents :
          /\ Dated(draft[r][i])
          /\ draft[r][i].status = "resolved" /\ ~Edited(i) =>
                \/ Settling(r, i) /\ ticketSeen[r] # "resolved"
                \/ i \in closing[r]
                \/ tickets[i] = "resolved"
    /\ \A e \in made : edit[e] # NoEdit

IncidentsInvariant ==
    /\ TypeOK /\ ReadsMakeSense /\ WritersHoldLock /\ WritesMakeSense
    /\ ResolvedTogether /\ HeldReadsAreFresh

(* A device that stays healthy ends with no open incident, however many    *)
(* were opened for one filesystem: every healthy inventory resolves one of *)
(* them, and a deadlock only delays it.                                    *)
Healthy == \A r \in Requests, k \in Keys : step[r] # "idle" => payload[r][k] = "low"
HealthyIsClosed ==
    <>[]Healthy => <>[](\A i \in Incidents : rows[i].status # "open")
=============================================================================
