------------------------ MODULE TenantContext_proofs ------------------------
(***************************************************************************)
(* What the tenant context guarantees for any number of requests, tenants  *)
(* and connections.  Two facts carry it: a connection belongs to the pool  *)
(* or to one request, and a request that has not committed yet still has   *)
(* the connection its tenant was set on.                                   *)
(***************************************************************************)
EXTENDS TenantContext, TLAPS

Places == 1..Len(idle)

(* A connection is idle, once, or serves one transaction of one request.   *)
PoolIsSound ==
    /\ \A i \in Places : holder[idle[i]] = Nobody /\ idle[i] \in opened
    /\ \A i, j \in Places : idle[i] = idle[j] => i = j
    /\ \A c \in Connections : holder[c] # Nobody => c \in opened
    /\ \A c, d \in Connections :
          holder[c] # Nobody /\ holder[c] = holder[d] => c = d

(* A request keeps its connection from the lookup to its first commit, and *)
(* the settings made on it.                                                *)
ContextIsHeld ==
    /\ \A r \in Requests : step[r] = "handling" =>
          /\ principal[r] \in Tenants
          /\ \E c \in Connections : Holds(r, c) /\ now[c].tenant = principal[r]
    /\ \A r \in Requests : step[r] \in {"idle", "resolving", "measuring"} => ran[r] = {}
    /\ \A r \in Requests : step[r] = "idle" => HoldsNone(r)

Inv == TypeOK /\ PoolIsSound /\ ContextIsHeld
           /\ BypassConfined /\ OwnTenantUntilCommit

-----------------------------------------------------------------------------
(* The pool.                                                               *)

LEMMA UseTypes ==
    ASSUME TypeOK, NEW r \in Requests, NEW c \in Connections, Use(r, c)
    PROVE  /\ idle' \in Seq(Connections)
           /\ opened' \subseteq Connections
           /\ holder' \in [Connections -> Requests \cup {Nobody}]
BY DEF TypeOK, Use, poolVars

LEMMA UseHolds ==
    ASSUME TypeOK, PoolIsSound, Nobody \notin Requests,
           NEW r \in Requests, NEW c \in Connections, Use(r, c)
    PROVE  /\ Holds(r, c)'
           /\ holder[c] \in {r, Nobody}
           /\ \A d \in Connections \ {c} : holder'[d] = holder[d]
           /\ holder[c] # r => HoldsNone(r)
BY DEF TypeOK, PoolIsSound, Places, Use, poolVars, Holds, HoldsNone

LEMMA UseKeepsPool ==
    ASSUME TypeOK, PoolIsSound, Nobody \notin Requests,
           NEW r \in Requests, NEW c \in Connections, Use(r, c)
    PROVE  PoolIsSound'
<1>1. CASE Holds(r, c) /\ UNCHANGED poolVars
  BY <1>1 DEF PoolIsSound, Places, poolVars
<1>2. CASE HoldsNone(r) /\ idle # <<>> /\ c = Head(idle) /\ idle' = Tail(idle)
           /\ holder' = [holder EXCEPT ![c] = r] /\ UNCHANGED opened
  <2>1. /\ Len(idle) \in Nat \ {0} /\ c = idle[1] /\ Len(idle') = Len(idle) - 1
        /\ \A i \in 1..Len(idle') : idle'[i] = idle[i + 1]
    BY <1>2 DEF TypeOK
  <2>2. \A i \in Places' : holder'[idle'[i]] = Nobody /\ idle'[i] \in opened'
    BY <1>2, <2>1 DEF TypeOK, PoolIsSound, Places
  <2>3. \A i, j \in Places' : idle'[i] = idle'[j] => i = j
    BY <2>1 DEF PoolIsSound, Places
  <2>4. c \in opened
    BY <2>1 DEF PoolIsSound, Places
  <2> QED BY <1>2, <2>2, <2>3, <2>4 DEF TypeOK, PoolIsSound, HoldsNone, Holds
<1>3. CASE HoldsNone(r) /\ idle = <<>> /\ c \notin opened
           /\ opened' = opened \cup {c}
           /\ holder' = [holder EXCEPT ![c] = r] /\ UNCHANGED idle
  BY <1>3 DEF TypeOK, PoolIsSound, Places, HoldsNone, Holds
<1> QED BY <1>1, <1>2, <1>3 DEF Use

LEMMA ReleaseKeepsPool ==
    ASSUME TypeOK, PoolIsSound, Nobody \notin Requests,
           NEW r \in Requests, NEW c \in Connections, Holds(r, c), Release(c)
    PROVE  /\ PoolIsSound'
           /\ idle' \in Seq(Connections)
           /\ opened' \subseteq Connections
           /\ holder' \in [Connections -> Requests \cup {Nobody}]
           /\ holder'[c] = Nobody
           /\ \A d \in Connections \ {c} : holder'[d] = holder[d]
           /\ HoldsNone(r)'
<1>1. /\ Len(idle) \in Nat /\ Len(idle') = Len(idle) + 1
      /\ \A i \in Places : idle'[i] = idle[i]
      /\ idle'[Len(idle) + 1] = c
  BY DEF Release, TypeOK, Places
<1>2. c \in opened /\ \A i \in Places : idle[i] # c
  BY DEF PoolIsSound, Holds, TypeOK, Places
<1>3. holder' = [holder EXCEPT ![c] = Nobody] /\ opened' = opened
  BY DEF Release
<1>4. \A i \in Places' : holder'[idle'[i]] = Nobody /\ idle'[i] \in opened'
  BY <1>1, <1>2, <1>3 DEF PoolIsSound, Places, TypeOK
<1>5. \A i, j \in Places' : idle'[i] = idle'[j] => i = j
  BY <1>1, <1>2 DEF PoolIsSound, Places
<1>6. idle' \in Seq(Connections) BY DEF Release, TypeOK
<1> QED BY <1>3, <1>4, <1>5, <1>6 DEF PoolIsSound, TypeOK, Holds, HoldsNone
-----------------------------------------------------------------------------
(* Every step keeps the invariant.                                         *)

LEMMA SettingFacts ==
    /\ Unset \in Settings /\ Unset.tenant = Blind /\ ~Unset.bypass
    /\ \A s \in Settings, b \in BOOLEAN :
          /\ [s EXCEPT !.bypass = b] \in Settings
          /\ [s EXCEPT !.bypass = b].bypass = b
    /\ \A t \in Tenants, b \in BOOLEAN : [tenant |-> t, bypass |-> b] \in Settings
BY DEF Settings, Unset

(* A handler's connection, or an idle one, has no bypass.                  *)
LEMMA HandlersHaveNoBypass ==
    ASSUME Inv, Nobody \notin Requests, NEW r \in Requests, NEW c \in Connections,
           step[r] \in {"handling", "committed"}, holder[c] \in {r, Nobody}
    PROVE  now[c].bypass = FALSE
<1>1. now[c].bypass \in BOOLEAN
  BY DEF Inv, TypeOK, Settings
<1>2. CASE now[c].bypass
  <2>1. PICK q \in Requests :
           holder[c] = q /\ step[q] \in {"resolving", "measuring", "failed"}
    BY <1>2 DEF Inv, BypassConfined, Holds
  <2>2. q = r
    BY <2>1
  <2> QED BY <2>1, <2>2
<1> QED BY <1>1, <1>2

LEMMA BeginBypassKeeps ==
    ASSUME Inv, Nobody \notin Requests, NEW r \in Requests, NEW c \in Connections,
           NEW what \in {"resolving", "measuring"}, BeginBypass(r, c, what)
    PROVE  Inv'
<1>1. PoolIsSound' /\ idle' \in Seq(Connections) /\ opened' \subseteq Connections
      /\ holder' \in [Connections -> Requests \cup {Nobody}]
  BY UseTypes, UseKeepsPool DEF Inv, BeginBypass
<1>2. /\ Holds(r, c)'
      /\ holder[c] \in {r, Nobody}
      /\ \A d \in Connections \ {c} : holder'[d] = holder[d]
      /\ holder[c] # r => HoldsNone(r)
  BY UseHolds DEF Inv, BeginBypass
<1>3. TypeOK'
  BY <1>1, <1>2, SettingFacts DEF Inv, TypeOK, Steps, BeginBypass, Write, Go
<1>4. ContextIsHeld'
  <2>1. \A q \in Requests \ {r} : /\ step'[q] = step[q] /\ ran'[q] = ran[q]
                                /\ principal'[q] = principal[q]
                                /\ \A d \in Connections : Holds(q, d) <=> Holds(q, d)'
    BY <1>1, <1>2 DEF Inv, TypeOK, Holds, BeginBypass, Go
  <2>2. \A d \in Connections : d # c => now'[d] = now[d]
    BY DEF Inv, TypeOK, BeginBypass, Write
  <2>3. \A q \in Requests \ {r} : ~Holds(q, c)
    BY <1>2 DEF Holds
  <2>4. step'[r] = what /\ ran'[r] = {}
    BY DEF Inv, TypeOK, ContextIsHeld, BeginBypass, Go
  <2> QED BY <2>1, <2>2, <2>3, <2>4 DEF Inv, ContextIsHeld, HoldsNone
<1>5. BypassConfined'
  BY <1>1, <1>2, SettingFacts DEF Inv, TypeOK, PoolIsSound, BypassConfined, Holds, BeginBypass, Write, Go
<1>6. OwnTenantUntilCommit'
  BY <1>1, <1>2, SettingFacts DEF Inv, TypeOK, PoolIsSound, ContextIsHeld, OwnTenantUntilCommit, Holds, BeginBypass, Write, Go
<1> QED BY <1>1, <1>2, <1>3, <1>4, <1>5, <1>6 DEF Inv

LEMMA AuthenticateKeeps ==
    ASSUME Inv, Nobody \notin Requests, NEW r \in Requests, NEW c \in Connections, NEW t \in Tenants, Authenticate(r, c, t)
    PROVE  Inv'
<1>1. TypeOK'
  BY SettingFacts DEF Inv, TypeOK, Steps, Authenticate, Identified, Holds, Write, Go, poolVars
<1>2. PoolIsSound'
  BY SettingFacts DEF Inv, TypeOK, PoolIsSound, Places, Authenticate, Identified, Holds, Write, Go, poolVars
<1>3. ContextIsHeld'
  BY SettingFacts DEF Inv, TypeOK, PoolIsSound, ContextIsHeld, Holds, HoldsNone, Authenticate, Identified, Write, Go, poolVars
<1>4. BypassConfined'
  BY SettingFacts DEF Inv, TypeOK, PoolIsSound, BypassConfined, Holds, Authenticate, Identified, Write, Go, poolVars
<1>5. OwnTenantUntilCommit'
  BY SettingFacts DEF Inv, TypeOK, PoolIsSound, ContextIsHeld, OwnTenantUntilCommit, Holds, Authenticate, Identified, Write, Go, poolVars
<1> QED BY <1>1, <1>2, <1>3, <1>4, <1>5 DEF Inv

LEMMA EndBypassKeeps ==
    ASSUME Inv, Nobody \notin Requests, NEW r \in Requests, NEW c \in Connections, EndBypass(r, c)
    PROVE  Inv'
<1>1. TypeOK'
  BY SettingFacts DEF Inv, TypeOK, Steps, EndBypass, Holds, Write, Go, poolVars
<1>2. PoolIsSound'
  BY SettingFacts DEF Inv, TypeOK, PoolIsSound, Places, EndBypass, Holds, Write, Go, poolVars
<1>3. ContextIsHeld'
  BY SettingFacts DEF Inv, TypeOK, PoolIsSound, ContextIsHeld, Holds, HoldsNone, EndBypass, Write, Go, poolVars
<1>4. BypassConfined'
  BY SettingFacts DEF Inv, TypeOK, PoolIsSound, BypassConfined, Holds, EndBypass, Write, Go, poolVars
<1>5. OwnTenantUntilCommit'
  BY SettingFacts DEF Inv, TypeOK, PoolIsSound, ContextIsHeld, OwnTenantUntilCommit, Holds, EndBypass, Write, Go, poolVars
<1> QED BY <1>1, <1>2, <1>3, <1>4, <1>5 DEF Inv

LEMMA StatementKeeps ==
    ASSUME Inv, Nobody \notin Requests, NEW r \in Requests, NEW c \in Connections, Statement(r, c)
    PROVE  Inv'
<1>1. PoolIsSound' /\ idle' \in Seq(Connections) /\ opened' \subseteq Connections
      /\ holder' \in [Connections -> Requests \cup {Nobody}]
  BY UseTypes, UseKeepsPool DEF Inv, Statement
<1>2. /\ Holds(r, c)'
      /\ holder[c] \in {r, Nobody}
      /\ \A d \in Connections \ {c} : holder'[d] = holder[d]
      /\ holder[c] # r => HoldsNone(r)
  BY UseHolds DEF Inv, Statement
<1>3. TypeOK'
  BY <1>1, <1>2, SettingFacts DEF Inv, TypeOK, Steps, Statement, settingVars
<1>4. ContextIsHeld'
  BY <1>1, <1>2, SettingFacts DEF Inv, TypeOK, PoolIsSound, ContextIsHeld, Holds, HoldsNone, Statement, settingVars
<1>5. BypassConfined'
  <2>1. ~now[c].bypass
    BY <1>2, HandlersHaveNoBypass DEF Statement
  <2>2. ran' = [ran EXCEPT ![r] = {now[c]}] /\ UNCHANGED <<saved, now, step>>
    BY DEF Statement, settingVars
  <2>3. \A q \in Requests : \A s \in ran'[q] : ~s.bypass
    BY <2>1, <2>2 DEF Inv, TypeOK, BypassConfined
  <2>4. ASSUME NEW d \in Connections, now'[d].bypass
        PROVE  \E q \in Requests :
                  Holds(q, d)' /\ step'[q] \in {"resolving", "measuring", "failed"}
    BY <1>2, <2>1, <2>2, <2>4 DEF Inv, BypassConfined, Holds
  <2> QED BY <2>2, <2>3, <2>4 DEF Inv, BypassConfined
<1>6. OwnTenantUntilCommit'
  BY <1>1, <1>2, SettingFacts DEF Inv, TypeOK, PoolIsSound, ContextIsHeld, OwnTenantUntilCommit, Holds, Statement, settingVars
<1> QED BY <1>1, <1>2, <1>3, <1>4, <1>5, <1>6 DEF Inv

LEMMA CommitWorkKeeps ==
    ASSUME Inv, Nobody \notin Requests, NEW r \in Requests, NEW c \in Connections, CommitWork(r, c)
    PROVE  Inv'
<1>1. /\ PoolIsSound' /\ idle' \in Seq(Connections) /\ opened' \subseteq Connections
      /\ holder' \in [Connections -> Requests \cup {Nobody}]
      /\ holder'[c] = Nobody
      /\ \A d \in Connections \ {c} : holder'[d] = holder[d]
      /\ HoldsNone(r)'
  BY ReleaseKeepsPool DEF Inv, CommitWork
<1>2. Holds(r, c)
  BY DEF CommitWork
<1>3. TypeOK'
  BY <1>1, <1>2, SettingFacts DEF Inv, TypeOK, Steps, CommitWork, Holds, Commit, Go
<1>4. ContextIsHeld'
  BY <1>1, <1>2, SettingFacts DEF Inv, TypeOK, PoolIsSound, ContextIsHeld, Holds, HoldsNone, CommitWork, Commit, Go
<1>5. BypassConfined'
  <2>1. now[c].bypass = FALSE
    BY <1>2, HandlersHaveNoBypass DEF CommitWork, Holds
  <2>2. /\ saved' = [saved EXCEPT ![c] = now[c]]
        /\ step' = [step EXCEPT ![r] = "committed"]
        /\ UNCHANGED <<now, ran>>
    BY DEF CommitWork, Commit, Go
  <2>3. ASSUME NEW d \in Connections, now'[d].bypass
        PROVE  \E q \in Requests :
                  Holds(q, d)' /\ step'[q] \in {"resolving", "measuring", "failed"}
    <3>1. d # c /\ now[d].bypass
      BY <2>1, <2>2, <2>3
    <3>2. PICK q \in Requests :
             holder[d] = q /\ step[q] \in {"resolving", "measuring", "failed"}
      BY <3>1 DEF Inv, BypassConfined, Holds
    <3>3. q # r
      BY <3>2 DEF CommitWork
    <3> QED BY <1>1, <2>2, <3>1, <3>2, <3>3 DEF Inv, TypeOK, Holds
  <2> QED BY <2>1, <2>2, <2>3 DEF Inv, TypeOK, BypassConfined
<1>6. OwnTenantUntilCommit'
  BY <1>1, <1>2, SettingFacts DEF Inv, TypeOK, PoolIsSound, ContextIsHeld, OwnTenantUntilCommit, Holds, CommitWork, Commit, Go
<1> QED BY <1>1, <1>2, <1>3, <1>4, <1>5, <1>6 DEF Inv

LEMMA EndTransactionKeeps ==
    ASSUME Inv, Nobody \notin Requests, NEW r \in Requests, NEW c \in Connections, EndTransaction(r, c)
    PROVE  Inv'
<1>1. /\ PoolIsSound' /\ idle' \in Seq(Connections) /\ opened' \subseteq Connections
      /\ holder' \in [Connections -> Requests \cup {Nobody}]
      /\ holder'[c] = Nobody
      /\ \A d \in Connections \ {c} : holder'[d] = holder[d]
      /\ HoldsNone(r)'
  BY ReleaseKeepsPool DEF Inv, EndTransaction
<1>2. Holds(r, c)
  BY DEF EndTransaction
<1>3. TypeOK'
  BY <1>1, <1>2, SettingFacts DEF Inv, TypeOK, Steps, EndTransaction, Holds, RollBack, Go
<1>4. ContextIsHeld'
  <2>1. /\ step[r] \in {"failed", "ending"}
        /\ now' = [now EXCEPT ![c] = saved[c]]
        /\ step' = [step EXCEPT ![r] = "ending"]
        /\ UNCHANGED <<principal, ran>>
    BY DEF EndTransaction, RollBack, Go
  <2>2. \A q \in Requests \ {r} : /\ step'[q] = step[q] /\ ~Holds(q, c)
                                /\ \A d \in Connections : Holds(q, d) <=> Holds(q, d)'
    BY <1>1, <1>2, <2>1 DEF Inv, TypeOK, Holds
  <2>3. step'[r] = "ending"
    BY <2>1 DEF Inv, TypeOK
  <2>4. \A d \in Connections \ {c} : now'[d] = now[d]
    BY <2>1 DEF Inv, TypeOK
  <2> QED BY <2>1, <2>2, <2>3, <2>4 DEF Inv, ContextIsHeld, HoldsNone
<1>5. BypassConfined'
  BY <1>1, <1>2, SettingFacts DEF Inv, TypeOK, PoolIsSound, BypassConfined, Holds, EndTransaction, RollBack, Go
<1>6. OwnTenantUntilCommit'
  BY <1>1, <1>2, SettingFacts DEF Inv, TypeOK, PoolIsSound, ContextIsHeld, OwnTenantUntilCommit, Holds, EndTransaction, RollBack, Go
<1> QED BY <1>1, <1>2, <1>3, <1>4, <1>5, <1>6 DEF Inv

LEMMA FailUnderBypassKeeps ==
    ASSUME Inv, Nobody \notin Requests, NEW r \in Requests, FailUnderBypass(r)
    PROVE  Inv'
<1>1. TypeOK'
  BY SettingFacts DEF Inv, TypeOK, Steps, FailUnderBypass, Go, poolVars, settingVars
<1>2. PoolIsSound'
  BY DEF Inv, TypeOK, PoolIsSound, Places, FailUnderBypass, Go, poolVars, settingVars
<1>3. ContextIsHeld'
  BY DEF Inv, TypeOK, PoolIsSound, ContextIsHeld, Holds, HoldsNone, FailUnderBypass, Go, poolVars, settingVars
<1>4. BypassConfined'
  BY DEF Inv, TypeOK, PoolIsSound, BypassConfined, Holds, FailUnderBypass, Go, poolVars, settingVars
<1>5. OwnTenantUntilCommit'
  BY DEF Inv, TypeOK, PoolIsSound, ContextIsHeld, OwnTenantUntilCommit, Holds, FailUnderBypass, Go, poolVars, settingVars
<1> QED BY <1>1, <1>2, <1>3, <1>4, <1>5 DEF Inv

LEMMA FinishKeeps ==
    ASSUME Inv, Nobody \notin Requests, NEW r \in Requests, Finish(r)
    PROVE  Inv'
<1>1. TypeOK'
  BY SettingFacts DEF Inv, TypeOK, Steps, Finish, Go, poolVars, settingVars
<1>2. PoolIsSound'
  BY SettingFacts DEF Inv, TypeOK, PoolIsSound, Places, Finish, Go, poolVars, settingVars
<1>3. ContextIsHeld'
  BY SettingFacts DEF Inv, TypeOK, PoolIsSound, ContextIsHeld, Holds, HoldsNone, Finish, Go, poolVars, settingVars
<1>4. BypassConfined'
  BY SettingFacts DEF Inv, TypeOK, PoolIsSound, BypassConfined, Holds, Finish, Go, poolVars, settingVars
<1>5. OwnTenantUntilCommit'
  BY SettingFacts DEF Inv, TypeOK, PoolIsSound, ContextIsHeld, OwnTenantUntilCommit, Holds, Finish, Go, poolVars, settingVars
<1> QED BY <1>1, <1>2, <1>3, <1>4, <1>5 DEF Inv

LEMMA ResetFailsKeeps ==
    ASSUME Inv, Nobody \notin Requests, NEW r \in Requests, ResetFails(r)
    PROVE  Inv'
<1>1. TypeOK'
  BY SettingFacts DEF Inv, TypeOK, Steps, ResetFails, HoldsNone, Forget, poolVars, settingVars, Holds
<1>2. PoolIsSound'
  BY SettingFacts DEF Inv, TypeOK, PoolIsSound, Places, ResetFails, HoldsNone, Forget, poolVars, settingVars, Holds
<1>3. ContextIsHeld'
  BY SettingFacts DEF Inv, TypeOK, PoolIsSound, ContextIsHeld, Holds, HoldsNone, ResetFails, Forget, poolVars, settingVars
<1>4. BypassConfined'
  BY SettingFacts DEF Inv, TypeOK, PoolIsSound, BypassConfined, Holds, ResetFails, HoldsNone, Forget, poolVars, settingVars
<1>5. OwnTenantUntilCommit'
  BY SettingFacts DEF Inv, TypeOK, PoolIsSound, ContextIsHeld, OwnTenantUntilCommit, Holds, ResetFails, HoldsNone, Forget, poolVars, settingVars
<1> QED BY <1>1, <1>2, <1>3, <1>4, <1>5 DEF Inv

LEMMA ResetKeeps ==
    ASSUME Inv, Nobody \notin Requests, NEW r \in Requests, NEW c \in Connections, Reset(r, c)
    PROVE  Inv'
<1>0. holder[c] = Nobody /\ holder' = holder
  <2>1. CASE idle # <<>> /\ c = Head(idle)
    BY <2>1 DEF Inv, TypeOK, PoolIsSound, Places, Reset
  <2>2. CASE c \notin opened
    BY <2>2 DEF Inv, PoolIsSound, Reset
  <2> QED BY <2>1, <2>2 DEF Reset
<1>1. TypeOK'
  <2>1. idle' \in Seq(Connections)
    <3>1. CASE idle # <<>> /\ idle' = Append(Tail(idle), c)
      <4>1. Tail(idle) \in Seq(Connections) BY <3>1 DEF Inv, TypeOK
      <4> QED BY <3>1, <4>1
    <3>2. CASE idle' = <<c>>
      BY <3>2
    <3> QED BY <3>1, <3>2 DEF Reset
  <2>2. opened' \subseteq Connections
    BY DEF Inv, TypeOK, Reset
  <2> QED BY <1>0, <2>1, <2>2, SettingFacts DEF Inv, TypeOK, Steps, Reset, Forget
<1>2. PoolIsSound'
  <2>1. CASE idle # <<>> /\ c = Head(idle) /\ idle' = Append(Tail(idle), c) /\ UNCHANGED opened
    <3>1. /\ Len(idle) \in Nat \ {0} /\ Len(idle') = Len(idle) /\ idle'[Len(idle)] = idle[1]
          /\ \A i \in 1..(Len(idle) - 1) : idle'[i] = idle[i + 1]
      BY <2>1 DEF Inv, TypeOK
    <3>2. \A i \in Places' : \E j \in Places : idle'[i] = idle[j]
      BY <3>1 DEF Places
    <3>3. \A i, j \in Places' : idle'[i] = idle'[j] => i = j
      BY <3>1 DEF Inv, PoolIsSound, Places
    <3>4. \A i \in Places' : holder'[idle'[i]] = Nobody /\ idle'[i] \in opened'
      <4>1. TAKE i \in Places'
      <4>2. PICK j \in Places : idle'[i] = idle[j]
        BY <3>2
      <4>3. holder[idle[j]] = Nobody /\ idle[j] \in opened
        BY DEF Inv, PoolIsSound
      <4> QED BY <1>0, <2>1, <4>2, <4>3
    <3>5. /\ \A d \in Connections : holder'[d] # Nobody => d \in opened'
          /\ \A d, e \in Connections :
                holder'[d] # Nobody /\ holder'[d] = holder'[e] => d = e
      BY <2>1, <1>0 DEF Inv, PoolIsSound
    <3> QED BY <3>3, <3>4, <3>5 DEF PoolIsSound
  <2>2. CASE idle = <<>> /\ c \notin opened /\ idle' = <<c>> /\ opened' = opened \cup {c}
    BY <2>2, <1>0 DEF Inv, TypeOK, PoolIsSound, Places
  <2> QED BY <2>1, <2>2 DEF Reset
<1>3. ContextIsHeld'
  BY <1>0, SettingFacts DEF Inv, TypeOK, ContextIsHeld, Holds, HoldsNone, Reset, Forget
<1>4. BypassConfined'
  BY SettingFacts DEF Inv, TypeOK, PoolIsSound, BypassConfined, Holds, Reset, HoldsNone, Forget
<1>5. OwnTenantUntilCommit'
  BY SettingFacts DEF Inv, TypeOK, PoolIsSound, ContextIsHeld, OwnTenantUntilCommit, Holds, Reset, HoldsNone, Forget
<1> QED BY <1>1, <1>2, <1>3, <1>4, <1>5 DEF Inv

LEMMA ReplaceKeeps ==
    ASSUME Inv, Nobody \notin Requests, NEW c \in Connections, Replace(c)
    PROVE  Inv'
<1>1. TypeOK'
  BY SettingFacts DEF Inv, TypeOK, Steps, Replace, poolVars, requestVars
<1>2. PoolIsSound'
  BY SettingFacts DEF Inv, TypeOK, PoolIsSound, Places, Replace, poolVars, requestVars
<1>3. ContextIsHeld'
  <2>1. c \in Connections /\ holder[c] = Nobody
    BY DEF Inv, TypeOK, PoolIsSound, Places, Replace
  <2> QED BY <2>1, SettingFacts DEF Inv, TypeOK, ContextIsHeld, Holds, HoldsNone, Replace, poolVars, requestVars
<1>4. BypassConfined'
  BY SettingFacts DEF Inv, TypeOK, PoolIsSound, BypassConfined, Holds, Replace, poolVars, requestVars
<1>5. OwnTenantUntilCommit'
  BY SettingFacts DEF Inv, TypeOK, PoolIsSound, ContextIsHeld, OwnTenantUntilCommit, Holds, Replace, poolVars, requestVars
<1> QED BY <1>1, <1>2, <1>3, <1>4, <1>5 DEF Inv

-----------------------------------------------------------------------------
LEMMA InitInv ==
    ASSUME Init, Nobody \notin Requests
    PROVE  Inv
<1>1. TypeOK
  BY SettingFacts DEF Init, TypeOK, Steps
<1>2. PoolIsSound
  BY DEF Init, PoolIsSound, Places
<1>3. ContextIsHeld
  BY DEF Init, ContextIsHeld, HoldsNone, Holds
<1>4. BypassConfined /\ OwnTenantUntilCommit
  BY SettingFacts DEF Init, BypassConfined, OwnTenantUntilCommit
<1> QED BY <1>1, <1>2, <1>3, <1>4 DEF Inv

LEMMA NextInv ==
    ASSUME Inv, [Next]_vars, Nobody \notin Requests
    PROVE  Inv'
<1>1. ASSUME NEW r \in Requests, NEW c \in Connections,
             NEW what \in {"resolving", "measuring"}, BeginBypass(r, c, what)
      PROVE  Inv'
  BY <1>1, BeginBypassKeeps
<1>2. ASSUME NEW r \in Requests, NEW c \in Connections, NEW t \in Tenants,
             Authenticate(r, c, t)
      PROVE  Inv'
  BY <1>2, AuthenticateKeeps
<1>3. ASSUME NEW r \in Requests, NEW c \in Connections, EndBypass(r, c) PROVE Inv'
  BY <1>3, EndBypassKeeps
<1>4. ASSUME NEW r \in Requests, NEW c \in Connections, Statement(r, c) PROVE Inv'
  BY <1>4, StatementKeeps
<1>5. ASSUME NEW r \in Requests, NEW c \in Connections, CommitWork(r, c) PROVE Inv'
  BY <1>5, CommitWorkKeeps
<1>6. ASSUME NEW r \in Requests, NEW c \in Connections, EndTransaction(r, c) PROVE Inv'
  BY <1>6, EndTransactionKeeps
<1>7. ASSUME NEW r \in Requests, NEW c \in Connections, Reset(r, c) PROVE Inv'
  BY <1>7, ResetKeeps
<1>8. ASSUME NEW r \in Requests, FailUnderBypass(r) \/ Finish(r) \/ ResetFails(r)
      PROVE  Inv'
  BY <1>8, FailUnderBypassKeeps, FinishKeeps, ResetFailsKeeps
<1>9. ASSUME NEW c \in Connections, Replace(c) PROVE Inv'
  BY <1>9, ReplaceKeeps
<1>10. CASE UNCHANGED vars
  BY <1>10 DEF vars, poolVars, settingVars, requestVars, Inv, TypeOK, PoolIsSound, Places,
     ContextIsHeld, BypassConfined, OwnTenantUntilCommit, Holds, HoldsNone
<1> QED
  BY <1>1, <1>2, <1>3, <1>4, <1>5, <1>6, <1>7, <1>8, <1>9, <1>10 DEF Next

(* The tenant context's invariant.  That an idle connection is nobody's is *)
(* all it needs of the constants.                                          *)
THEOREM ContextInvariant ==
    ASSUME Nobody \notin Requests
    PROVE  Spec => []Inv
<1>1. Init => Inv
  BY InitInv
<1>2. Inv /\ [Next]_vars => Inv'
  BY NextInv
<1> QED BY <1>1, <1>2, PTL DEF Spec

(* Up to its first commit a request's statements run under its own tenant, *)
(* whatever the pool hands out and whichever resets fail.                  *)
THEOREM TenantHoldsUntilCommit ==
    ASSUME Nobody \notin Requests
    PROVE  Spec => []OwnTenantUntilCommit
<1>1. Inv => OwnTenantUntilCommit
  BY DEF Inv
<1> QED BY <1>1, ContextInvariant, PTL

(* The bypass is on only for the lookup of who asks or the counts of       *)
(* GET /metrics, or until a failure of these is rolled back: it never      *)
(* reaches the pool, nor a statement of a handler.                         *)
THEOREM BypassIsConfined ==
    ASSUME Nobody \notin Requests
    PROVE  Spec => []BypassConfined
<1>1. Inv => BypassConfined
  BY DEF Inv
<1> QED BY <1>1, ContextInvariant, PTL
=============================================================================
