-------------------------- MODULE Incidents_proofs --------------------------
(***************************************************************************)
(* Theorems about the incidents, for any number of requests, filesystems,  *)
(* incidents and ticket edits and any correlation window.  The invariant   *)
(* is proved part by part; what makes it work is that a transaction that   *)
(* has written holds the audit lock when it commits, so that nobody else's *)
(* commit falls between the reads and the writes of one that holds it.     *)
(***************************************************************************)
EXTENDS Incidents, TLAPS

USE IncidentsAssumption DEF Never, NoIncident

(***************************************************************************)
(* Rows: what the detector makes of one is one.                            *)
(***************************************************************************)
LEMMA RowTypes ==
    ASSUME NEW row \in Columns, NEW t \in Times
    PROVE  Resolved(row, t) \in Columns /\ Sighted(row, t) \in Columns
BY DEF Columns, Resolved, Sighted

LEMMA NewRowTypes ==
    /\ NoRow \in Columns
    /\ \A k \in Keys, t \in Times : Opened(k, t) \in Columns
BY DEF Columns, Opened, NoRow, Keys, Times

LEMMA WrittenType ==
    ASSUME NEW row \in Columns, NEW old \in Columns, NEW new \in Columns
    PROVE  Written(row, old, new) \in Columns
<1> DEFINE w == Written(row, old, new)
<1>1. /\ w.key \in Keys
      /\ w.status \in {"none", "open", "resolved"}
      /\ w.last \in Times
      /\ w.resolved \in Times \cup {Never}
  BY DEF Columns, Written, Kept
<1>2. w = [key |-> w.key, status |-> w.status, last |-> w.last, resolved |-> w.resolved]
  BY DEF Written
<1> HIDE DEF w
<1>3. w \in Columns
  BY <1>1, <1>2 DEF Columns
<1> QED BY <1>3 DEF w

(* A recovery of an open row writes the status and its date together.      *)
LEMMA RecoveryWrites ==
    ASSUME NEW row \in Columns, NEW old \in Columns, NEW t \in Times,
           old.status = "open", Dated(old)
    PROVE  /\ Written(row, old, Resolved(old, t)).status = "resolved"
           /\ Dated(Written(row, old, Resolved(old, t)))
BY DEF Columns, Written, Kept, Resolved, Dated, Times

(* A sighting either reopens the row, or leaves status and date alone.     *)
LEMMA SightingWrites ==
    ASSUME NEW row \in Columns, NEW old \in Columns, NEW t \in Times,
           row.status # "none", old.status # "none", Dated(row), Dated(old)
    PROVE  LET w == Written(row, old, Sighted(old, t)) IN
           /\ w.status # "none"
           /\ Dated(w)
           /\ w.status = "resolved" => row.status = "resolved"
BY DEF Columns, Written, Kept, Sighted, Dated, Times

LEMMA OpenedDated == ASSUME NEW k, NEW t PROVE Dated(Opened(k, t)) /\ Dated(NoRow)
BY DEF Dated, Opened, NoRow

-----------------------------------------------------------------------------
(***************************************************************************)
(* The types.                                                              *)
(***************************************************************************)
LEMMA TypesInit == Init => TypeOK
BY DEF Init, TypeOK, NoRow, NoEdit, Nothing, Columns, Payloads, Levels, Keys,
       Times, TicketStatuses, Steps, Incidents

LEMMA AdvanceTypes ==
    ASSUME TypeOK, NEW r \in Requests, position[r] \in Keys, Advance(r)
    PROVE  /\ step' \in [Requests -> Steps]
           /\ position' \in [Requests -> 1..(Filesystems + 1)]
           /\ seen' \in [Requests -> Incidents \cup {NoIncident}]
           /\ loaded' \in [Requests -> Columns]
           /\ ticketSeen' \in [Requests -> TicketStatuses]
BY NewRowTypes DEF TypeOK, Advance, Steps, Keys, TicketStatuses

LEMMA EndTypes ==
    ASSUME TypeOK, NEW r \in Requests, End(r)
    PROVE  /\ step' \in [Requests -> Steps]
           /\ draft' \in [Requests -> [Incidents -> Columns]]
           /\ closing' \in [Requests -> SUBSET Incidents]
           /\ auditLock' \in Requests \cup {NoOne}
           /\ seen' \in [Requests -> Incidents \cup {NoIncident}]
           /\ loaded' \in [Requests -> Columns]
           /\ ticketSeen' \in [Requests -> TicketStatuses]
           /\ payload' \in [Requests -> Payloads]
           /\ at' \in [Requests -> Times]
           /\ position' \in [Requests -> 1..(Filesystems + 1)]
           /\ UNCHANGED <<edit, made>>
<1>1. /\ NoRow \in Columns /\ Nothing \in Payloads
      /\ 0 \in Times /\ 1 \in 1..(Filesystems + 1)
  BY DEF NoRow, Columns, Keys, Times, Nothing, Payloads, Levels
<1> QED BY <1>1 DEF TypeOK, End, Steps, TicketStatuses

LEMMA FoundTypes ==
    ASSUME TypeOK, NEW r \in Requests, NEW S \in SUBSET Incidents,
           NEW next \in Steps, Found(r, S, next)
    PROVE  TypeOK'
<1>1. PICK i \in Newest(S) : /\ seen' = [seen EXCEPT ![r] = i]
                             /\ loaded' = [loaded EXCEPT ![r] = rows[i]]
  BY DEF Found
<1>2. i \in Incidents
  BY <1>1 DEF Newest
<1> QED BY <1>1, <1>2 DEF TypeOK, Found, storeVars, draftVars, worldVars

LEMMA WrittenTypes ==
    ASSUME TypeOK, NEW r \in Requests, NEW i \in Incidents, NEW new \in Columns,
           Write(r, i, new)
    PROVE  draft' \in [Requests -> [Incidents -> Columns]]
BY DEF TypeOK, Write

LEMMA HandleTypes ==
    ASSUME TypeOK, ReadsMakeSense, NEW r \in Requests, Handle(r)
    PROVE  TypeOK'
<1> USE DEF storeVars, readVars, draftVars, worldVars
<1>a. /\ rows \in [Incidents -> Columns] /\ loaded[r] \in Columns
      /\ at[r] \in Times /\ step[r] \in Steps
  BY DEF TypeOK
<1>b. step[r] \in Busy => position[r] \in Keys
  BY DEF ReadsMakeSense
<1>c. step[r] \in Busy \ {"create"} => seen[r] \in Incidents
  BY DEF ReadsMakeSense
<1> USE DEF Busy, Steps
<1>1. CASE Skip(r)
  BY <1>1, AdvanceTypes DEF Skip, TypeOK, Scanning, Here
<1>2. CASE FindOpen(r)
  BY <1>2, FoundTypes DEF FindOpen, OpenRows
<1>3. CASE FindRecent(r)
  BY <1>3, FoundTypes DEF FindRecent, RecentRows
<1>4. CASE FindNone(r)
  BY <1>4 DEF FindNone, TypeOK
<1>5. CASE Recover(r)
  <2> DEFINE new == Resolved(loaded[r], at[r])
  <2>0. rows[seen[r]] \in Columns /\ new \in Columns
    BY <1>5, <1>a, <1>c, RowTypes DEF Recover
  <2>1. Written(rows[seen[r]], loaded[r], new) \in Columns
    BY <1>a, <2>0, WrittenType
  <2>2. draft' \in [Requests -> [Incidents -> Columns]]
    BY <1>5, <1>c, <2>1, WrittenTypes DEF Recover
  <2> QED BY <1>5, <1>c, <2>2 DEF Recover, TypeOK
<1>6. CASE Close(r)
  BY <1>6, <1>b, <1>c, AdvanceTypes DEF Close, TypeOK
<1>7. CASE Sight(r)
  BY <1>7 DEF Sight, TypeOK
<1>8. CASE Update(r)
  <2> DEFINE new == Sighted(loaded[r], at[r])
  <2>0. rows[seen[r]] \in Columns /\ new \in Columns
    BY <1>8, <1>a, <1>c, RowTypes DEF Update
  <2>1. Written(rows[seen[r]], loaded[r], new) \in Columns
    BY <1>a, <2>0, WrittenType
  <2>2. draft' \in [Requests -> [Incidents -> Columns]]
    BY <1>8, <1>c, <2>1, WrittenTypes DEF Update
  <2> QED BY <1>8, <1>b, <2>2, AdvanceTypes DEF Update, TypeOK
<1>9. CASE Create(r)
  <2>1. PICK i \in Incidents : Write(r, i, Opened(Here(r), at[r]))
    BY <1>9 DEF Create
  <2>2. Opened(Here(r), at[r]) \in Columns
    BY <1>9, <1>a, <1>b, NewRowTypes DEF Create, Here
  <2>3. draft' \in [Requests -> [Incidents -> Columns]]
    BY <2>1, <2>2, WrittenTypes
  <2> QED BY <1>9, <1>b, <2>3, AdvanceTypes DEF Create, TypeOK
<1>10. CASE Commit(r)
  <2>1. rows' \in [Incidents -> Columns] /\ tickets' \in [Incidents -> TicketStatuses]
    BY <1>10 DEF Commit, TypeOK, TicketStatuses
  <2> QED BY <1>10, <2>1, EndTypes DEF Commit, TypeOK
<1> QED BY <1>1, <1>2, <1>3, <1>4, <1>5, <1>6, <1>7, <1>8, <1>9, <1>10 DEF Handle

LEMMA Types ==
    ASSUME TypeOK, ReadsMakeSense, [Next]_vars PROVE TypeOK'
<1> USE DEF storeVars, readVars, draftVars, worldVars
<1>1. CASE Tick
  BY <1>1 DEF Tick, TypeOK, Times
<1>2. ASSUME NEW r \in Requests, Collect(r) PROVE TypeOK'
  <2>1. PICK p \in Reports : Send(r, p)
    BY <1>2 DEF Collect
  <2>2. p \in Payloads /\ 1 \in 1..(Filesystems + 1)
    OBVIOUS
  <2> QED BY <2>1, <2>2 DEF Send, TypeOK, Steps
<1>3. ASSUME NEW r \in Requests, Rollback(r) PROVE TypeOK'
  BY <1>3, EndTypes DEF Rollback, TypeOK
<1>4. ASSUME NEW r \in Requests, Fail(r) PROVE TypeOK'
  BY <1>4, EndTypes DEF Fail, TypeOK
<1>5. ASSUME NEW e \in Edits, ReadTicket(e) PROVE TypeOK'
  BY <1>5 DEF ReadTicket, TypeOK
<1>6. ASSUME NEW e \in Edits, EditTicket(e) PROVE TypeOK'
  BY <1>6 DEF EditTicket, TypeOK
<1>7. CASE UNCHANGED vars
  BY <1>7 DEF vars, TypeOK
<1> QED BY <1>1, <1>2, <1>3, <1>4, <1>5, <1>6, <1>7, HandleTypes DEF Next

-----------------------------------------------------------------------------
(***************************************************************************)
(* What a request has read.  Rows are never taken back, so an incident it  *)
(* has found stays there.                                                  *)
(***************************************************************************)
LEMMA EndReads ==
    ASSUME TypeOK, ReadsMakeSense, NEW r \in Requests, End(r),
           \A i \in Incidents : rows[i].status # "none" => rows'[i].status # "none"
    PROVE  ReadsMakeSense'
BY OpenedDated DEF TypeOK, ReadsMakeSense, End, Busy, Steps, Dated, NoRow

LEMMA AdvanceReads ==
    ASSUME TypeOK, ReadsMakeSense, NEW r \in Requests, Advance(r), rows' = rows
    PROVE  ReadsMakeSense'
BY DEF TypeOK, ReadsMakeSense, Advance, Busy, Steps, Dated, NoRow

LEMMA FoundReads ==
    ASSUME TypeOK, ReadsMakeSense, WritesMakeSense, NEW r \in Requests,
           Scanning(r), NEW S \in SUBSET Incidents, NEW next \in {"recover", "sight"},
           \A i \in S : rows[i].status # "none",
           next = "recover" => \A i \in S : rows[i].status = "open",
           Found(r, S, next)
    PROVE  ReadsMakeSense'
<1>1. PICK i \in Newest(S) : /\ seen' = [seen EXCEPT ![r] = i]
                             /\ loaded' = [loaded EXCEPT ![r] = rows[i]]
  BY DEF Found
<1>2. i \in S /\ i \in Incidents
  BY <1>1 DEF Newest
<1>3. rows' = rows /\ position' = position /\ step' = [step EXCEPT ![r] = next]
  BY DEF Found, storeVars
<1>4. Dated(rows[i])
  BY <1>2 DEF WritesMakeSense
<1> QED
  BY <1>1, <1>2, <1>3, <1>4
  DEF TypeOK, ReadsMakeSense, Scanning, Here, Busy, Steps, Dated

LEMMA HandleReads ==
    ASSUME TypeOK, ReadsMakeSense, WritesMakeSense, NEW r \in Requests, Handle(r)
    PROVE  ReadsMakeSense'
<1> USE DEF storeVars, readVars
<1>1. CASE Skip(r)
  BY <1>1, AdvanceReads DEF Skip
<1>2. CASE FindOpen(r)
  BY <1>2, FoundReads DEF FindOpen, OpenRows
<1>3. CASE FindRecent(r)
  <2>1. \A i \in RecentRows(Here(r), at[r]) : i \in Incidents /\ rows[i].status # "none"
    BY DEF RecentRows
  <2> QED BY <1>3, <2>1, FoundReads DEF FindRecent
<1>4. CASE FindNone(r)
  BY <1>4 DEF FindNone, TypeOK, ReadsMakeSense, Scanning, Here, Busy, Steps, Dated
<1>5. CASE Recover(r)
  BY <1>5 DEF Recover, TypeOK, ReadsMakeSense, Busy, Steps, Dated
<1>6. CASE Close(r)
  BY <1>6, AdvanceReads DEF Close
<1>7. CASE Sight(r)
  BY <1>7 DEF Sight, TypeOK, ReadsMakeSense, Busy, Steps, Dated
<1>8. CASE Update(r)
  BY <1>8, AdvanceReads DEF Update
<1>9. CASE Create(r)
  BY <1>9, AdvanceReads DEF Create
<1>10. CASE Commit(r)
  <2>1. \A i \in Incidents : rows[i].status # "none" => rows'[i].status # "none"
    BY <1>10 DEF Commit, HasWritten
  <2> QED BY <1>10, <2>1, EndReads DEF Commit
<1> QED BY <1>1, <1>2, <1>3, <1>4, <1>5, <1>6, <1>7, <1>8, <1>9, <1>10 DEF Handle

LEMMA Reads ==
    ASSUME TypeOK, ReadsMakeSense, WritesMakeSense, [Next]_vars
    PROVE  ReadsMakeSense'
<1> USE DEF storeVars, readVars
<1>1. CASE Tick
  BY <1>1 DEF Tick, ReadsMakeSense, Dated
<1>2. ASSUME NEW r \in Requests, Collect(r) PROVE ReadsMakeSense'
  BY <1>2 DEF Collect, Send, TypeOK, ReadsMakeSense, Busy, Steps, Dated
<1>3. ASSUME NEW r \in Requests, Rollback(r) PROVE ReadsMakeSense'
  BY <1>3, EndReads DEF Rollback
<1>4. ASSUME NEW r \in Requests, Fail(r) PROVE ReadsMakeSense'
  BY <1>4, EndReads DEF Fail
<1>5. ASSUME NEW e \in Edits, ReadTicket(e) PROVE ReadsMakeSense'
  BY <1>5 DEF ReadTicket, ReadsMakeSense, Dated
<1>6. ASSUME NEW e \in Edits, EditTicket(e) PROVE ReadsMakeSense'
  BY <1>6 DEF EditTicket, ReadsMakeSense, Dated
<1>7. CASE UNCHANGED vars
  BY <1>7 DEF vars, ReadsMakeSense, Dated
<1> QED BY <1>1, <1>2, <1>3, <1>4, <1>5, <1>6, <1>7, HandleReads DEF Next

-----------------------------------------------------------------------------
(***************************************************************************)
(* Who has written holds the audit lock, but for a recovery that has yet   *)
(* to take it.                                                             *)
(***************************************************************************)
LEMMA EndLocks ==
    ASSUME TypeOK, WritersHoldLock, NEW r \in Requests, End(r)
    PROVE  WritersHoldLock'
<1>1. \A i \in Incidents : ~HasWritten(r, i)'
  BY DEF TypeOK, End, HasWritten, NoRow
<1>2. step'[r] = "idle"
  BY DEF TypeOK, End
<1>3. ASSUME NEW s \in Requests
      PROVE  /\ step'[s] = "update" => auditLock' = s
             /\ step'[s] # "close" /\ (\E i \in Incidents : HasWritten(s, i)') =>
                   auditLock' = s
  <2>1. CASE s = r
    BY <1>1, <1>2, <2>1
  <2>2. CASE s # r
    <3>1. /\ step'[s] = step[s] /\ draft'[s] = draft[s]
          /\ auditLock = s => auditLock' = s
      BY <2>2 DEF TypeOK, End
    <3>2. \A i \in Incidents : HasWritten(s, i)' <=> HasWritten(s, i)
      BY <3>1 DEF HasWritten
    <3> QED BY <3>1, <3>2 DEF WritersHoldLock
  <2> QED BY <2>1, <2>2
<1> QED BY <1>3 DEF WritersHoldLock

(* Taking the lock takes it from nobody.                                   *)
LEMMA TakingLocks ==
    ASSUME TypeOK, WritersHoldLock, NEW r \in Requests, AuditFree(r), auditLock' = r,
           \A s \in Requests \ {r} : step'[s] = step[s] /\ draft'[s] = draft[s]
    PROVE  WritersHoldLock'
BY DEF WritersHoldLock, HasWritten, AuditFree

LEMMA HandleLocks ==
    ASSUME TypeOK, ReadsMakeSense, WritersHoldLock, NEW r \in Requests, Handle(r)
    PROVE  WritersHoldLock'
<1> USE DEF draftVars
<1>1. CASE Skip(r)
  BY <1>1 DEF Skip, Scanning, Advance, TypeOK, WritersHoldLock, HasWritten
<1>2. CASE FindOpen(r)
  BY <1>2 DEF FindOpen, Found, Scanning, TypeOK, WritersHoldLock, HasWritten
<1>3. CASE FindRecent(r)
  BY <1>3 DEF FindRecent, Found, Scanning, TypeOK, WritersHoldLock, HasWritten
<1>4. CASE FindNone(r)
  BY <1>4 DEF FindNone, Scanning, TypeOK, WritersHoldLock, HasWritten
<1>5. CASE Recover(r)
  BY <1>5 DEF Recover, Write, TypeOK, WritersHoldLock, HasWritten
<1>6. CASE Close(r)
  BY <1>6, TakingLocks DEF Close, Advance, TypeOK
<1>7. CASE Sight(r)
  BY <1>7, TakingLocks DEF Sight, TypeOK
<1>8. CASE Update(r)
  <2>1. auditLock = r /\ auditLock' = r
    BY <1>8 DEF Update, WritersHoldLock
  <2> QED BY <1>8, <2>1, TakingLocks DEF Update, Write, Advance, AuditFree, TypeOK
<1>9. CASE Create(r)
  BY <1>9, TakingLocks DEF Create, Write, Advance, TypeOK
<1>10. CASE Commit(r)
  BY <1>10, EndLocks DEF Commit
<1> QED BY <1>1, <1>2, <1>3, <1>4, <1>5, <1>6, <1>7, <1>8, <1>9, <1>10 DEF Handle

LEMMA Locks ==
    ASSUME TypeOK, ReadsMakeSense, WritersHoldLock, [Next]_vars
    PROVE  WritersHoldLock'
<1> USE DEF draftVars
<1>1. CASE Tick
  BY <1>1 DEF Tick, WritersHoldLock, HasWritten
<1>2. ASSUME NEW r \in Requests, Collect(r) PROVE WritersHoldLock'
  BY <1>2 DEF Collect, Send, TypeOK, WritersHoldLock, HasWritten
<1>3. ASSUME NEW r \in Requests, Rollback(r) PROVE WritersHoldLock'
  BY <1>3, EndLocks DEF Rollback
<1>4. ASSUME NEW r \in Requests, Fail(r) PROVE WritersHoldLock'
  BY <1>4, EndLocks DEF Fail
<1>5. ASSUME NEW e \in Edits, ReadTicket(e) PROVE WritersHoldLock'
  BY <1>5 DEF ReadTicket, WritersHoldLock, HasWritten
<1>6. ASSUME NEW e \in Edits, EditTicket(e) PROVE WritersHoldLock'
  BY <1>6 DEF EditTicket, WritersHoldLock, HasWritten
<1>7. CASE UNCHANGED vars
  BY <1>7 DEF vars, WritersHoldLock, HasWritten
<1> QED BY <1>1, <1>2, <1>3, <1>4, <1>5, <1>6, <1>7, HandleLocks DEF Next

-----------------------------------------------------------------------------
(***************************************************************************)
(* What is read under the lock stays true: another request that commits    *)
(* holds no lock then, so it has written nothing and changes no row.       *)
(***************************************************************************)
LEMMA CommitIsFresh ==
    ASSUME TypeOK, WritersHoldLock, NEW s \in Requests, Commit(s),
           NEW r \in Requests, r # s, auditLock = r
    PROVE  rows' = rows
<1>1. \A i \in Incidents : ~HasWritten(s, i)
  BY DEF Commit, Through, WritersHoldLock
<1> QED BY <1>1 DEF Commit, TypeOK

(* The request that reads afresh, waits or ends is r; the others keep what *)
(* they have read, if the lock stays with them.                            *)
LEMMA OthersFresh ==
    ASSUME TypeOK, WritersHoldLock, HeldReadsAreFresh, NEW r \in Requests,
           Handle(r) \/ Rollback(r) \/ Fail(r), NEW s \in Requests, s # r, auditLock' = s
    PROVE  /\ step'[s] \in {"recover", "sight"} => loaded'[s] = rows'[seen'[s]]
           /\ step'[s] = "create" => RecentRows(Here(s), at[s])' = {}
<1> USE DEF storeVars, readVars, draftVars
<1>1. auditLock = s
  BY DEF Handle, Skip, FindOpen, FindRecent, FindNone, Found, Recover, Close, Sight,
         Update, Create, Commit, Rollback, Fail, End, TypeOK
<1>2. rows' = rows
  BY <1>1, CommitIsFresh DEF Handle, Skip, FindOpen, FindRecent, FindNone, Found,
     Recover, Close, Sight, Update, Create, Rollback, Fail
<1>3. /\ step'[s] = step[s] /\ loaded'[s] = loaded[s] /\ seen'[s] = seen[s]
      /\ position'[s] = position[s] /\ at'[s] = at[s]
  BY DEF Handle, Skip, FindOpen, FindRecent, FindNone, Found, Recover, Close, Sight,
         Update, Create, Commit, Rollback, Fail, End, Advance, TypeOK
<1> QED BY <1>1, <1>2, <1>3 DEF HeldReadsAreFresh, RecentRows, Here

(* The request itself: it has just read, or has left what it has read.     *)
LEMMA OwnFresh ==
    ASSUME TypeOK, HeldReadsAreFresh, NEW r \in Requests,
           Handle(r) \/ Rollback(r) \/ Fail(r), auditLock' = r
    PROVE  /\ step'[r] \in {"recover", "sight"} => loaded'[r] = rows'[seen'[r]]
           /\ step'[r] = "create" => RecentRows(Here(r), at[r])' = {}
<1> USE DEF storeVars, readVars, draftVars
<1>1. CASE FindOpen(r) \/ FindRecent(r)
  <2>1. PICK S \in SUBSET Incidents, next \in {"recover", "sight"} : Found(r, S, next)
    BY <1>1 DEF FindOpen, FindRecent, OpenRows, RecentRows
  <2>2. PICK i \in Newest(S) : /\ seen' = [seen EXCEPT ![r] = i]
                               /\ loaded' = [loaded EXCEPT ![r] = rows[i]]
    BY <2>1 DEF Found
  <2> QED BY <2>1, <2>2 DEF Found, TypeOK
<1>2. CASE FindNone(r)
  BY <1>2 DEF FindNone, TypeOK, RecentRows, Here
<1>3. CASE Skip(r) \/ Recover(r) \/ Close(r) \/ Sight(r) \/ Update(r) \/ Create(r)
           \/ Commit(r) \/ Rollback(r) \/ Fail(r)
  <2>1. step'[r] \notin {"recover", "sight", "create"}
    BY <1>3 DEF Skip, Recover, Close, Sight, Update, Create, Commit, Rollback, Fail,
       Advance, End, TypeOK
  <2> QED BY <2>1
<1> QED BY <1>1, <1>2, <1>3 DEF Handle

LEMMA Fresh ==
    ASSUME TypeOK, WritersHoldLock, HeldReadsAreFresh, [Next]_vars
    PROVE  HeldReadsAreFresh'
<1> USE DEF storeVars, readVars, draftVars
<1>1. CASE Tick
  BY <1>1 DEF Tick, HeldReadsAreFresh, RecentRows, Here
<1>2. ASSUME NEW r \in Requests, Collect(r) PROVE HeldReadsAreFresh'
  BY <1>2 DEF Collect, Send, TypeOK, HeldReadsAreFresh, RecentRows, Here
<1>3. ASSUME NEW r \in Requests, Handle(r) \/ Rollback(r) \/ Fail(r)
      PROVE  HeldReadsAreFresh'
  BY <1>3, OthersFresh, OwnFresh DEF HeldReadsAreFresh
<1>4. ASSUME NEW e \in Edits, ReadTicket(e) PROVE HeldReadsAreFresh'
  BY <1>4 DEF ReadTicket, HeldReadsAreFresh, RecentRows, Here
<1>5. ASSUME NEW e \in Edits, EditTicket(e) PROVE HeldReadsAreFresh'
  BY <1>5 DEF EditTicket, HeldReadsAreFresh, RecentRows, Here
<1>6. CASE UNCHANGED vars
  BY <1>6 DEF vars, HeldReadsAreFresh, RecentRows, Here
<1> QED BY <1>1, <1>2, <1>3, <1>4, <1>5, <1>6 DEF Next

-----------------------------------------------------------------------------
(***************************************************************************)
(* Rows, drafts and tickets.                                               *)
(***************************************************************************)
(* What a draft that resolves an incident owes its ticket.                 *)
Owed(r, i) ==
    draft[r][i].status = "resolved" /\ ~Edited(i) =>
        \/ Settling(r, i) /\ ticketSeen[r] # "resolved"
        \/ i \in closing[r]
        \/ tickets[i] = "resolved"

LEMMA EndWrites ==
    ASSUME TypeOK, WritesMakeSense, NEW r \in Requests, End(r),
           \A i \in Incidents : Dated(rows'[i]),
           \A i \in Incidents : tickets[i] = "resolved" => tickets'[i] = "resolved"
    PROVE  WritesMakeSense'
<1>1. \A i \in Incidents : Edited(i)' <=> Edited(i)
  BY DEF End, Edited, Changes
<1>2. ASSUME NEW s \in Requests, NEW i \in Incidents
      PROVE  Dated(draft'[s][i]) /\ Owed(s, i)'
  <2>1. CASE s = r
    <3>1. draft'[s][i] = NoRow
      BY <2>1 DEF End, TypeOK
    <3> QED BY <3>1, OpenedDated DEF Owed, NoRow
  <2>2. CASE s # r
    <3>1. /\ draft'[s] = draft[s] /\ step'[s] = step[s] /\ seen'[s] = seen[s]
          /\ ticketSeen'[s] = ticketSeen[s] /\ closing'[s] = closing[s]
      BY <2>2 DEF End, TypeOK
    <3>2. Dated(draft[s][i]) /\ Owed(s, i)
      BY DEF WritesMakeSense, Owed
    <3> QED BY <1>1, <3>1, <3>2 DEF Owed, Settling
  <2> QED BY <2>1, <2>2
<1>3. \A e \in made' : edit'[e] # NoEdit
  BY DEF End, WritesMakeSense
<1>4. \A i \in Incidents : Dated(rows[i])'
  BY DEF Dated
<1>5. \A s \in Requests, i \in Incidents : Dated(draft[s][i])' /\ Owed(s, i)'
  BY <1>2 DEF Dated
<1> QED BY <1>3, <1>4, <1>5 DEF WritesMakeSense, Owed

(* A request that writes one incident, or none; what it has resolved is    *)
(* still owed or already settled.                                          *)
LEMMA HandleWrites ==
    ASSUME TypeOK, ReadsMakeSense, WritesMakeSense, ResolvedTogether,
           NEW r \in Requests, Handle(r)
    PROVE  WritesMakeSense'
<1> USE DEF storeVars, readVars, draftVars
<1>0. /\ \A i \in Incidents : Dated(rows[i])
      /\ \A s \in Requests, i \in Incidents : Dated(draft[s][i]) /\ Owed(s, i)
      /\ \A e \in made : edit[e] # NoEdit
  BY DEF WritesMakeSense, Owed
<1> SUFFICES ASSUME ~Commit(r)
             PROVE  WritesMakeSense'
  <2>1. CASE Commit(r)
    <3>1. \A i \in Incidents : Dated(rows'[i])
      BY <1>0, <2>1 DEF Commit
    <3>2. \A i \in Incidents : tickets[i] = "resolved" => tickets'[i] = "resolved"
      BY <2>1 DEF Commit
    <3> QED BY <2>1, <3>1, <3>2, EndWrites DEF Commit
  <2> QED BY <2>1
<1>1. /\ rows' = rows /\ tickets' = tickets /\ edit' = edit /\ made' = made
  BY DEF Handle, Skip, FindOpen, FindRecent, FindNone, Found, Recover, Close, Sight,
         Update, Create
<1>2. \A i \in Incidents : Edited(i)' <=> Edited(i)
  BY <1>1 DEF Edited, Changes
<1>3. ASSUME NEW s \in Requests, NEW i \in Incidents, s # r
      PROVE  Dated(draft'[s][i]) /\ Owed(s, i)'
  <2>1. /\ draft'[s] = draft[s] /\ step'[s] = step[s] /\ seen'[s] = seen[s]
        /\ ticketSeen'[s] = ticketSeen[s] /\ closing'[s] = closing[s]
    BY <1>3 DEF Handle, Skip, FindOpen, FindRecent, FindNone, Found, Recover, Close,
       Sight, Update, Create, Write, Advance, TypeOK
  <2> QED BY <1>0, <1>1, <1>2, <2>1 DEF Owed, Settling
<1>4. ASSUME NEW i \in Incidents PROVE Dated(draft'[r][i]) /\ Owed(r, i)'
  <2>0. /\ rows \in [Incidents -> Columns] /\ loaded[r] \in Columns
        /\ at[r] \in Times /\ Dated(loaded[r])
    BY DEF TypeOK, ReadsMakeSense
  <2>1. CASE Skip(r) \/ FindOpen(r) \/ FindRecent(r) \/ FindNone(r) \/ Sight(r)
    <3>1. draft' = draft /\ closing' = closing /\ step[r] # "close"
      BY <2>1 DEF Skip, FindOpen, FindRecent, FindNone, Found, Sight, Scanning
    <3> QED BY <1>0, <1>1, <1>2, <3>1 DEF Owed, Settling
  <2>2. CASE Recover(r)
    <3> DEFINE w == Written(rows[seen[r]], loaded[r], Resolved(loaded[r], at[r]))
    <3>1. /\ seen[r] \in Incidents /\ loaded[r].status = "open"
      BY <2>2 DEF Recover, ReadsMakeSense, Busy, Steps
    <3>2. rows[seen[r]] \in Columns
      BY <2>0, <3>1
    <3>3. w.status = "resolved" /\ Dated(w)
      BY <2>0, <3>1, <3>2, RecoveryWrites
    <3>4. /\ draft'[r][i] = IF i = seen[r] THEN w ELSE draft[r][i]
          /\ step'[r] = "close" /\ seen' = seen /\ closing' = closing
          /\ ticketSeen'[r] = tickets[seen[r]]
          /\ step[r] # "close"
      BY <2>2, <3>1 DEF Recover, Write, TypeOK
    <3> HIDE DEF w
    <3> QED BY <1>0, <1>1, <1>2, <3>3, <3>4 DEF Owed, Settling
  <2>3. CASE Close(r)
    <3>1. /\ draft' = draft
          /\ closing[r] \subseteq closing'[r]
          /\ ticketSeen[r] # "resolved" => seen[r] \in closing'[r]
      BY <2>3 DEF Close, Unresolved, TypeOK
    <3> QED BY <1>0, <1>1, <1>2, <3>1 DEF Owed, Settling
  <2>4. CASE Update(r)
    <3> DEFINE w == Written(rows[seen[r]], loaded[r], Sighted(loaded[r], at[r]))
    <3>1. /\ seen[r] \in Incidents /\ rows[seen[r]].status # "none"
          /\ loaded[r].status # "none"
      BY <2>4 DEF Update, ReadsMakeSense, Busy, Steps
    <3>2. rows[seen[r]] \in Columns /\ Dated(rows[seen[r]])
      BY <1>0, <2>0, <3>1
    <3>3. Dated(w) /\ (w.status = "resolved" => rows[seen[r]].status = "resolved")
      BY <2>0, <3>1, <3>2, SightingWrites
    <3>4. /\ draft'[r][i] = IF i = seen[r] THEN w ELSE draft[r][i]
          /\ closing' = closing /\ step[r] # "close"
      BY <2>4, <3>1 DEF Update, Write, TypeOK
    <3> HIDE DEF w
    <3> QED BY <1>0, <1>1, <1>2, <3>1, <3>3, <3>4 DEF Owed, Settling, ResolvedTogether
  <2>5. CASE Create(r)
    <3>1. PICK j \in Incidents : Write(r, j, Opened(Here(r), at[r]))
      BY <2>5 DEF Create
    <3>2. /\ draft'[r][i] = IF i = j THEN Opened(Here(r), at[r]) ELSE draft[r][i]
          /\ closing' = closing /\ step[r] # "close"
      BY <2>5, <3>1 DEF Create, Write, TypeOK
    <3>3. Opened(Here(r), at[r]).status = "open" /\ Dated(Opened(Here(r), at[r]))
      BY OpenedDated DEF Opened
    <3> QED BY <1>0, <1>1, <1>2, <3>2, <3>3 DEF Owed, Settling
  <2> QED BY <2>1, <2>2, <2>3, <2>4, <2>5 DEF Handle
<1>5. \A i \in Incidents : Dated(rows[i])'
  BY <1>0, <1>1 DEF Dated
<1>6. \A s \in Requests, i \in Incidents : Dated(draft[s][i])' /\ Owed(s, i)'
  BY <1>3, <1>4 DEF Dated
<1>7. \A e \in made' : edit'[e] # NoEdit
  BY <1>0, <1>1
<1> QED BY <1>5, <1>6, <1>7 DEF WritesMakeSense, Owed

(* An edit that changes a ticket marks its incident as edited for good.    *)
LEMMA EditsStay ==
    ASSUME TypeOK, WritesMakeSense, NEW e \in Edits, ReadTicket(e) \/ EditTicket(e)
    PROVE  /\ \A i \in Incidents : Edited(i) => Edited(i)'
           /\ \A i \in Incidents : tickets[i] = "resolved" =>
                                    tickets'[i] = "resolved" \/ Edited(i)'
           /\ \A f \in made' : edit'[f] # NoEdit
<1>1. CASE ReadTicket(e)
  <2>1. PICK i \in Incidents, to \in EditedTo :
            edit' = [edit EXCEPT ![e] = [incident |-> i, read |-> tickets[i], to |-> to]]
    BY <1>1 DEF ReadTicket
  <2>2. e \notin made /\ made' = made /\ tickets' = tickets
    BY <1>1 DEF ReadTicket, WritesMakeSense, storeVars
  <2>3. \A f \in made : edit'[f] = edit[f]
    BY <2>1, <2>2 DEF TypeOK
  <2> QED BY <2>2, <2>3 DEF Edited, Changes, WritesMakeSense
<1>2. CASE EditTicket(e)
  <2>1. edit' = edit /\ made' = made \cup {e}
    BY <1>2 DEF EditTicket
  <2>2. ASSUME NEW i \in Incidents, tickets[i] = "resolved", tickets'[i] # "resolved"
        PROVE  Edited(i)'
    <3>1. Changes(e) /\ edit[e].incident = i
      BY <1>2, <2>2 DEF EditTicket, TypeOK
    <3> QED BY <2>1, <3>1 DEF Edited, Changes
  <2>3. edit[e] # NoEdit
    BY <1>2 DEF EditTicket
  <2> QED BY <2>1, <2>2, <2>3 DEF Edited, Changes, WritesMakeSense
<1> QED BY <1>1, <1>2

LEMMA Writes ==
    ASSUME TypeOK, ReadsMakeSense, WritesMakeSense, ResolvedTogether, [Next]_vars
    PROVE  WritesMakeSense'
<1> USE DEF storeVars, readVars, draftVars
<1>1. CASE Tick \/ UNCHANGED vars
  BY <1>1 DEF Tick, vars, WritesMakeSense, Dated, Settling, Edited, Changes
<1>2. ASSUME NEW r \in Requests, Collect(r) PROVE WritesMakeSense'
  <2>1. /\ step[r] = "idle" /\ step' = [step EXCEPT ![r] = "scan"]
        /\ UNCHANGED <<storeVars, readVars, draftVars, edit, made>>
    BY <1>2 DEF Collect, Send
  <2>2. \A s \in Requests, i \in Incidents : Settling(s, i)' <=> Settling(s, i)
    BY <2>1 DEF Settling, TypeOK
  <2> QED BY <2>1, <2>2 DEF WritesMakeSense, Dated, Edited, Changes
<1>3. ASSUME NEW r \in Requests, Rollback(r) \/ Fail(r) PROVE WritesMakeSense'
  BY <1>3, EndWrites DEF Rollback, Fail, WritesMakeSense
<1>4. ASSUME NEW e \in Edits, ReadTicket(e) \/ EditTicket(e) PROVE WritesMakeSense'
  <2>1. UNCHANGED <<rows, readVars, draftVars, step>>
    BY <1>4 DEF ReadTicket, EditTicket
  <2> QED BY <1>4, <2>1, EditsStay DEF WritesMakeSense, Dated, Settling
<1> QED BY <1>1, <1>2, <1>3, <1>4, HandleWrites DEF Next

LEMMA Together ==
    ASSUME TypeOK, ReadsMakeSense, WritesMakeSense, ResolvedTogether, [Next]_vars
    PROVE  ResolvedTogether'
<1> USE DEF storeVars
<1>1. ASSUME NEW r \in Requests, Commit(r) PROVE ResolvedTogether'
  <2>1. \A i \in Incidents : Edited(i)' <=> Edited(i)
    BY <1>1 DEF Commit, End, Edited, Changes
  <2>2. ASSUME NEW i \in Incidents, rows'[i].status = "resolved", ~Edited(i)
        PROVE  tickets'[i] = "resolved"
    <3>1. tickets'[i] = IF i \in closing[r] THEN "resolved" ELSE tickets[i]
      BY <1>1 DEF Commit
    <3>2. CASE HasWritten(r, i)
      <4>1. draft[r][i].status = "resolved" /\ ~Settling(r, i)
        BY <1>1, <2>2, <3>2 DEF Commit, Through, Settling
      <4> QED BY <2>2, <3>1, <4>1 DEF WritesMakeSense
    <3>3. CASE ~HasWritten(r, i)
      <4>1. rows[i].status = "resolved"
        BY <1>1, <2>2, <3>3 DEF Commit
      <4> QED BY <2>2, <3>1, <4>1 DEF ResolvedTogether
    <3> QED BY <3>2, <3>3
  <2> QED BY <2>1, <2>2 DEF ResolvedTogether
<1>2. ASSUME NEW e \in Edits, ReadTicket(e) \/ EditTicket(e) PROVE ResolvedTogether'
  <2>1. rows' = rows
    BY <1>2 DEF ReadTicket, EditTicket
  <2> QED BY <1>2, <2>1, EditsStay DEF ResolvedTogether
<1>3. CASE UNCHANGED <<rows, tickets, edit, made>>
  BY <1>3 DEF ResolvedTogether, Edited, Changes
<1>4. ASSUME NEW r \in Requests, Collect(r) \/ Handle(r) \/ Rollback(r) \/ Fail(r), ~Commit(r)
      PROVE  UNCHANGED <<rows, tickets, edit, made>>
  BY <1>4 DEF Collect, Send, Handle, Skip, FindOpen, FindRecent, FindNone, Found,
     Recover, Close, Sight, Update, Create, Rollback, Fail, End
<1>5. Tick \/ UNCHANGED vars => UNCHANGED <<rows, tickets, edit, made>>
  BY DEF Tick, vars
<1> QED BY <1>1, <1>2, <1>3, <1>4, <1>5 DEF Next

-----------------------------------------------------------------------------
(***************************************************************************)
(* The theorems.                                                           *)
(***************************************************************************)
LEMMA StartsRight == Init => IncidentsInvariant
<1> SUFFICES ASSUME Init PROVE IncidentsInvariant
  OBVIOUS
<1>1. TypeOK
  BY TypesInit
<1>2. ReadsMakeSense /\ WritersHoldLock /\ HeldReadsAreFresh
  BY DEF Init, ReadsMakeSense, WritersHoldLock, HeldReadsAreFresh, HasWritten, NoRow,
     Busy, Steps, Dated
<1>3. WritesMakeSense /\ ResolvedTogether
  BY DEF Init, WritesMakeSense, ResolvedTogether, Dated, NoRow
<1> QED BY <1>1, <1>2, <1>3 DEF IncidentsInvariant

LEMMA StaysRight == IncidentsInvariant /\ [Next]_vars => IncidentsInvariant'
BY Types, Reads, Locks, Writes, Together, Fresh DEF IncidentsInvariant

(* The inductive invariant of detect_inventory_incidents, update_ticket    *)
(* and what they call, whatever the interleaving.                          *)
THEOREM IncidentsAlways == Spec => []IncidentsInvariant
BY StartsRight, StaysRight, PTL DEF Spec

(* resolve_recovered_incident never leaves a resolved incident with a      *)
(* ticket that is not, unless somebody has changed that ticket.            *)
THEOREM TicketsFollow == Spec => []ResolvedTogether
<1>1. IncidentsInvariant => ResolvedTogether
  BY DEF IncidentsInvariant
<1> QED BY <1>1, IncidentsAlways, PTL

(* Under the audit lock, correlate_incident's look-up and what it writes   *)
(* are one step: no second incident, no stale row.                         *)
THEOREM LockedLookupsHold == Spec => []HeldReadsAreFresh
<1>1. IncidentsInvariant => HeldReadsAreFresh
  BY DEF IncidentsInvariant
<1> QED BY <1>1, IncidentsAlways, PTL
=============================================================================
