----------------------- MODULE EndpointTrust_proofs -----------------------
(* Proofs about EndpointTrust.                                             *)
EXTENDS EndpointTrust, TLAPS

(* What a row, a file or a handler is when it is there.                    *)
LEMMA RowKinds ==
    ASSUME TypeOK
    PROVE  /\ \A x \in Names : devices[x] # Nothing => devices[x] \in DeviceRows
           /\ \A m \in Machines : memory[m] # Nothing => memory[m] \in Configs
           /\ \A m \in Machines : config[m] # Nothing => config[m] \in Configs
           /\ \A h \in Handlers : handler[h].work = "enroll" => handler[h] \in Enrolling
           /\ \A h \in Handlers : handler[h].work = "rekey" => handler[h] \in Rekeying
<1>1. \A r \in Rekeying : r.work = "rekey"
  BY DEF Rekeying
<1>2. \A r \in Enrolling : r.work = "enroll"
  BY DEF Enrolling
<1>3. Free.work = "none"
  BY DEF Free
<1> QED BY <1>1, <1>2, <1>3 DEF TypeOK

LEMMA Distinct ==
    /\ Nothing \notin DeviceRows /\ Nothing \notin Configs /\ Nothing \notin Names
    /\ Free \notin Enrolling /\ Free \notin Rekeying /\ Free.work = "none"
    /\ \A r \in Enrolling : r.work = "enroll"
    /\ \A r \in Rekeying : r.work = "rekey"
BY NothingAssumption DEF DeviceRows, Configs, Credentials, Versions, Ways, Enrolling,
   Rekeying, Free

(* What the handlers make of a row is one.                                 *)
LEMMA Rewrites ==
    /\ \A r \in DeviceRows, c \in Credentials :
        /\ Rekeyed(r, c) \in DeviceRows
        /\ Rekeyed(r, c).active = r.active /\ Rekeyed(r, c).via = r.via
        /\ Rekeyed(r, c).credential = c /\ Rekeyed(r, c).rotated
    /\ \A r \in DeviceRows :
        /\ Retired(r) \in DeviceRows
        /\ Retired(r).credential = r.credential /\ Retired(r).via = r.via
        /\ Retired(r).rotated = r.rotated /\ ~Retired(r).active
    /\ \A r \in TokenRows : /\ [r EXCEPT !.revoked = TRUE] \in TokenRows
                             /\ [r EXCEPT !.expired = TRUE] \in TokenRows
                             /\ \A x \in Names : /\ Spent(r, x) \in TokenRows
                                            /\ Spent(r, x).usedBy = x
                                            /\ Spent(r, x).revoked = r.revoked
    /\ \A c \in Configs, K \in SUBSET Versions :
        /\ Merged(c, K) \in Configs
        /\ Merged(c, K).keys = c.keys \cup K
        /\ Merged(c, K).credential = c.credential
    /\ \A r \in Enrolling : Orphaned(r) \in Enrolling /\ Holding(r) \in Enrolling
BY DEF DeviceRows, TokenRows, Configs, Enrolling, Rekeyed, Retired, Spent, Merged, Orphaned, Holding

LEMMA KeyTypes ==
    \A v \in Versions : ActiveKeys(v) \in SUBSET Versions
BY DEF ActiveKeys

(* What a refresh leaves in the process and in the file.                   *)
LEMMA RefreshGives ==
    ASSUME TypeOK, WaitersAgree, NEW m \in Machines, NEW p \in Processes,
           RefreshKeys(m, p) \/ RefreshUnsaved(m, p)
    PROVE  /\ memory[m] # Nothing /\ memory[m] \in Configs
           /\ memory' = [memory EXCEPT ![m] = Merged(memory[m], ActiveKeys(version[p]))]
           /\ memory'[m] = Merged(memory[m], ActiveKeys(version[p]))
           /\ memory'[m] \in Configs /\ memory'[m] # Nothing
           /\ memory'[m].credential = memory[m].credential
           /\ memory'[m].keys = memory[m].keys \cup ActiveKeys(version[p])
           /\ config' \in {config, [config EXCEPT ![m] = memory'[m]]}
           /\ stage[m] = "up" /\ stage'[m] \in {"up", "fresh"}
           /\ \A n \in Machines \ {m} :
                memory'[n] = memory[n] /\ config'[n] = config[n] /\ stage'[n] = stage[n]
<1>1. memory[m] # Nothing /\ memory[m] \in Configs /\ stage[m] = "up"
  BY RowKinds DEF WaitersAgree, RefreshKeys, RefreshUnsaved, Refreshing
<1>2. memory' = [memory EXCEPT ![m] = Merged(memory[m], ActiveKeys(version[p]))]
  BY DEF RefreshKeys, RefreshUnsaved, Refreshing
<1>3. ActiveKeys(version[p]) \in SUBSET Versions
  BY KeyTypes DEF TypeOK
<1>4. /\ memory'[m] = Merged(memory[m], ActiveKeys(version[p]))
      /\ \A n \in Machines \ {m} : memory'[n] = memory[n]
  BY <1>2 DEF TypeOK
<1>5. /\ memory'[m] \in Configs /\ memory'[m] # Nothing
      /\ memory'[m].credential = memory[m].credential
      /\ memory'[m].keys = memory[m].keys \cup ActiveKeys(version[p])
  BY <1>1, <1>3, <1>4, Rewrites, Distinct
<1>6. config' \in {config, [config EXCEPT ![m] = memory'[m]]}
  BY DEF RefreshKeys, RefreshUnsaved
<1>7. /\ stage'[m] \in {"up", "fresh"}
      /\ \A n \in Machines \ {m} : config'[n] = config[n] /\ stage'[n] = stage[n]
  BY <1>1, <1>6 DEF TypeOK, RefreshKeys, RefreshUnsaved
<1> QED BY <1>1, <1>2, <1>4, <1>5, <1>6, <1>7

(* Every handler keeps the types.                                          *)
LEMMA TypeStep ==
    ASSUME TrustInvariant, [Next]_vars
    PROVE  TypeOK'
<1>1. ASSUME NEW m \in Machines, NEW w \in Ways, NEW h \in Handlers, AskToEnroll(m, w, h) PROVE TypeOK'
  BY <1>1, NamingsAssumption, NothingAssumption, BoundsAssumption, ServingAssumption, RowKinds, Rewrites DEF TrustInvariant, HandlersAgree, WaitersAgree, TypeOK, AskToEnroll, Enrolling, vars, serverVars, agentVars, Ways, Credentials, Versions, Stages
<1>2. ASSUME NEW m \in Machines, Save(m) PROVE TypeOK'
  BY <1>2, NamingsAssumption, NothingAssumption, BoundsAssumption, ServingAssumption, RowKinds, Rewrites DEF TrustInvariant, TypeOK, Save, vars, serverVars, agentVars, Ways, Credentials, Versions, Stages
<1>2f. ASSUME NEW m \in Machines, SaveFails(m) PROVE TypeOK'
  BY <1>2f, BoundsAssumption DEF TrustInvariant, TypeOK, SaveFails, serverVars, Stages
<1>3. ASSUME NEW m \in Machines, Restart(m) PROVE TypeOK'
  BY <1>3, NamingsAssumption, NothingAssumption, BoundsAssumption, ServingAssumption, RowKinds, Rewrites DEF TrustInvariant, TypeOK, Restart, vars, serverVars, agentVars, Ways, Credentials, Versions, Stages
<1>4. ASSUME NEW m \in Machines, Crash(m) PROVE TypeOK'
  BY <1>4, NamingsAssumption, NothingAssumption, BoundsAssumption, ServingAssumption, RowKinds, Rewrites DEF TrustInvariant, HandlersAgree, WaitersAgree, TypeOK, Crash, Unwaited, vars, serverVars, agentVars, Ways, Credentials, Versions, Stages
<1>5. ASSUME NEW m \in Machines, MissKeys(m) PROVE TypeOK'
  BY <1>5, NamingsAssumption, NothingAssumption, BoundsAssumption, ServingAssumption, RowKinds, Rewrites DEF TrustInvariant, TypeOK, MissKeys, vars, serverVars, agentVars, Ways, Credentials, Versions, Stages
<1>6. ASSUME NEW m \in Machines, EndCycle(m) PROVE TypeOK'
  BY <1>6, NamingsAssumption, NothingAssumption, BoundsAssumption, ServingAssumption, RowKinds, Rewrites DEF TrustInvariant, TypeOK, EndCycle, vars, serverVars, agentVars, Ways, Credentials, Versions, Stages
<1>7. ASSUME NEW m \in Machines, NEW p \in Processes, RefreshKeys(m, p) PROVE TypeOK'
  BY <1>7, RefreshGives DEF TrustInvariant, TypeOK, RefreshKeys, Stages, serverVars
<1>7u. ASSUME NEW m \in Machines, NEW p \in Processes, RefreshUnsaved(m, p) PROVE TypeOK'
  BY <1>7u, RefreshGives, BoundsAssumption DEF TrustInvariant, TypeOK, RefreshUnsaved, serverVars
<1>8. ASSUME NEW m \in Machines, NEW p \in Processes, ClaimJob(m, p) PROVE TypeOK'
  BY <1>8, NamingsAssumption, NothingAssumption, BoundsAssumption, ServingAssumption, RowKinds, Rewrites DEF TrustInvariant, TypeOK, ClaimJob, vars, serverVars, agentVars, Ways, Credentials, Versions, Stages
<1>9. ASSUME NEW h \in Handlers, HoldToken(h) PROVE TypeOK'
  BY <1>9, NamingsAssumption, NothingAssumption, BoundsAssumption, ServingAssumption, RowKinds, Rewrites DEF TrustInvariant, TypeOK, HoldToken, vars, serverVars, agentVars, Ways, Credentials, Versions, Stages
<1>10. ASSUME NEW h \in Handlers, RefuseEnrollment(h) PROVE TypeOK'
  BY <1>10, NamingsAssumption, NothingAssumption, BoundsAssumption, ServingAssumption, RowKinds, Rewrites DEF TrustInvariant, HandlersAgree, WaitersAgree, TypeOK, RefuseEnrollment, Unheard, vars, serverVars, agentVars, Ways, Credentials, Versions, Stages
<1>11. ASSUME NEW h \in Handlers, WriteCredential(h) PROVE TypeOK'
  <2>1. TypeOK /\ handler[h].work = "rekey"
    BY <1>11 DEF TrustInvariant, WriteCredential
  <2>2. handler[h].name \in Names /\ devices[handler[h].name] \in DeviceRows
    BY <2>1, RowKinds DEF TrustInvariant, HandlersAgree, Rekeying
  <2>3. issued + 1 \in Credentials /\ issued' = issued + 1
    BY <1>11, <2>1, BoundsAssumption DEF TypeOK, WriteCredential, Credentials
  <2>4. Rekeyed(devices[handler[h].name], issued + 1) \in DeviceRows
    BY <2>2, <2>3, Rewrites
  <2>5. devices' \in [Names -> DeviceRows \cup {Nothing}]
    BY <1>11, <2>1, <2>2, <2>4 DEF TypeOK, WriteCredential
  <2> QED BY <1>11, <2>1, <2>3, <2>5 DEF TypeOK, WriteCredential, agentVars, Credentials
<1>12. ASSUME NEW h \in Handlers, NEW p \in Processes, Enroll(h, p) PROVE TypeOK'
  <2> DEFINE r == handler[h]
             x == NameOf[r.machine]
             row == [active |-> TRUE, credential |-> issued + 1, rotated |-> FALSE,
                     via |-> r.way]
             file == [credential |-> issued + 1, keys |-> ActiveKeys(version[p])]
  <2>1. TypeOK /\ r \in Enrolling
    BY <1>12, RowKinds DEF TrustInvariant, Enroll
  <2>2. r.machine \in Machines /\ r.way \in Ways /\ x \in Names
    BY <2>1 DEF Enrolling, TypeOK
  <2>3. issued + 1 \in Credentials /\ issued' = issued + 1 /\ issued' \in 0..MaxIssued
    BY <1>12, <2>1, BoundsAssumption DEF TypeOK, Enroll, Credentials
  <2>4. row \in DeviceRows
    BY <2>2, <2>3 DEF DeviceRows
  <2>5. file \in Configs
    BY <2>1, <2>3, KeyTypes DEF Configs, TypeOK
  <2>6. devices' \in [Names -> DeviceRows \cup {Nothing}]
    BY <1>12, <2>1, <2>2, <2>4 DEF TypeOK, Enroll
  <2>7. tokens' \in [Tokens -> TokenRows]
    <3>1. CASE r.way = ByUser
      BY <1>12, <2>1, <3>1 DEF TypeOK, Enroll
    <3>2. CASE r.way # ByUser
      <4>1. r.way \in Tokens /\ tokens[r.way] \in TokenRows
        BY <2>1, <2>2, <3>2 DEF Ways, TypeOK
      <4>2. Spent(tokens[r.way], x) \in TokenRows
        BY <4>1, <2>2, Rewrites
      <4>3. tokens' = [tokens EXCEPT ![r.way] = Spent(@, x)]
        BY <1>12, <3>2 DEF Enroll
      <4> QED BY <4>1, <4>2, <4>3, <2>1 DEF TypeOK
    <3> QED BY <3>1, <3>2
  <2>8. memory' \in [Machines -> Configs \cup {Nothing}] /\ stage' \in [Machines -> Stages]
    <3>1. CASE r.heard
      BY <1>12, <2>1, <2>2, <2>5, <3>1 DEF TypeOK, Enroll, Stages
    <3>2. CASE ~r.heard
      BY <1>12, <2>1, <3>2 DEF TypeOK, Enroll
    <3> QED BY <3>1, <3>2
  <2>9. handler' \in [Handlers -> {Free} \cup Enrolling \cup Rekeying]
    BY <1>12, <2>1 DEF TypeOK, Enroll
  <2> QED BY <1>12, <2>1, <2>3, <2>6, <2>7, <2>8, <2>9 DEF TypeOK, Enroll
<1>13. ASSUME NEW h \in Handlers, NEW x \in Names, BeginRotation(h, x) PROVE TypeOK'
  BY <1>13, NamingsAssumption, NothingAssumption, BoundsAssumption, ServingAssumption, RowKinds, Rewrites DEF TrustInvariant, HandlersAgree, WaitersAgree, TypeOK, BeginRotation, Rekeying, vars, serverVars, agentVars, Ways, Credentials, Versions, Stages
<1>14. ASSUME NEW h \in Handlers, NEW m \in Machines, BeginRenewal(h, m) PROVE TypeOK'
  BY <1>14, NamingsAssumption, NothingAssumption, BoundsAssumption, ServingAssumption, RowKinds, Rewrites DEF TrustInvariant, HandlersAgree, WaitersAgree, TypeOK, BeginRenewal, Rekeying, vars, serverVars, agentVars, Ways, Credentials, Versions, Stages
<1>15. ASSUME NEW t \in Tokens, Expire(t) PROVE TypeOK'
  BY <1>15, NamingsAssumption, NothingAssumption, BoundsAssumption, ServingAssumption, RowKinds, Rewrites DEF TrustInvariant, TypeOK, Expire, vars, serverVars, agentVars, Ways, Credentials, Versions, Stages
<1>16. ASSUME NEW t \in Tokens, RevokeToken(t) PROVE TypeOK'
  BY <1>16, NamingsAssumption, NothingAssumption, BoundsAssumption, ServingAssumption, RowKinds, Rewrites DEF TrustInvariant, TypeOK, RevokeToken, vars, serverVars, agentVars, Ways, Credentials, Versions, Stages
<1>17. ASSUME NEW x \in Names, RevokeDevice(x) PROVE TypeOK'
  <2>1. TypeOK /\ devices[x] \in DeviceRows
    BY <1>17, RowKinds DEF TrustInvariant, RevokeDevice
  <2>2. devices' \in [Names -> DeviceRows \cup {Nothing}]
    BY <1>17, <2>1, Rewrites DEF TypeOK, RevokeDevice
  <2> QED BY <1>17, <2>1, <2>2 DEF TypeOK, RevokeDevice, agentVars
<1>18. ASSUME NEW p \in Processes, Deploy(p) PROVE TypeOK'
  BY <1>18, NamingsAssumption, NothingAssumption, BoundsAssumption, ServingAssumption, RowKinds, Rewrites DEF TrustInvariant, TypeOK, Deploy, vars, serverVars, agentVars, Ways, Credentials, Versions, Stages
<1>19. CASE UNCHANGED vars
  BY <1>19, NamingsAssumption, NothingAssumption, BoundsAssumption, ServingAssumption, RowKinds, Rewrites DEF TrustInvariant, TypeOK, vars, serverVars, agentVars, Ways, Credentials, Versions, Stages
<1>20. QED
  BY <1>1, <1>2, <1>2f, <1>3, <1>4, <1>5, <1>6, <1>7, <1>7u, <1>8, <1>9, <1>10, <1>11, <1>12, <1>13, <1>14, <1>15, <1>16, <1>17, <1>18, <1>19 DEF Next, AgentNext, HandlerNext, AdminNext

(* Credentials are numbered as they are handed out.                        *)
LEMMA CredentialsStep ==
    ASSUME TrustInvariant, TypeOK', [Next]_vars
    PROVE  CredentialsIssued'
<1>1. ASSUME NEW m \in Machines, NEW w \in Ways, NEW h \in Handlers, AskToEnroll(m, w, h) PROVE CredentialsIssued'
  BY <1>1 DEF TrustInvariant, CredentialsIssued, AskToEnroll, vars, serverVars, agentVars
<1>2. ASSUME NEW m \in Machines, Save(m) PROVE CredentialsIssued'
  BY <1>2 DEF TrustInvariant, CredentialsIssued, Save, vars, serverVars, agentVars
<1>2f. ASSUME NEW m \in Machines, SaveFails(m) PROVE CredentialsIssued'
  BY <1>2f DEF TrustInvariant, CredentialsIssued, SaveFails, vars, serverVars, agentVars
<1>3. ASSUME NEW m \in Machines, Restart(m) PROVE CredentialsIssued'
  BY <1>3 DEF TrustInvariant, CredentialsIssued, Restart, vars, serverVars, agentVars
<1>4. ASSUME NEW m \in Machines, Crash(m) PROVE CredentialsIssued'
  BY <1>4 DEF TrustInvariant, CredentialsIssued, Crash, vars, serverVars, agentVars
<1>5. ASSUME NEW m \in Machines, MissKeys(m) PROVE CredentialsIssued'
  BY <1>5 DEF TrustInvariant, CredentialsIssued, MissKeys, vars, serverVars, agentVars
<1>6. ASSUME NEW m \in Machines, EndCycle(m) PROVE CredentialsIssued'
  BY <1>6 DEF TrustInvariant, CredentialsIssued, EndCycle, vars, serverVars, agentVars
<1>7. ASSUME NEW m \in Machines, NEW p \in Processes, RefreshKeys(m, p) PROVE CredentialsIssued'
  BY <1>7 DEF TrustInvariant, CredentialsIssued, RefreshKeys, vars, serverVars, agentVars
<1>7u. ASSUME NEW m \in Machines, NEW p \in Processes, RefreshUnsaved(m, p) PROVE CredentialsIssued'
  BY <1>7u DEF TrustInvariant, CredentialsIssued, RefreshUnsaved, vars, serverVars, agentVars
<1>8. ASSUME NEW m \in Machines, NEW p \in Processes, ClaimJob(m, p) PROVE CredentialsIssued'
  BY <1>8 DEF TrustInvariant, CredentialsIssued, ClaimJob, vars, serverVars, agentVars
<1>9. ASSUME NEW h \in Handlers, HoldToken(h) PROVE CredentialsIssued'
  BY <1>9 DEF TrustInvariant, CredentialsIssued, HoldToken, vars, serverVars, agentVars
<1>10. ASSUME NEW h \in Handlers, RefuseEnrollment(h) PROVE CredentialsIssued'
  BY <1>10 DEF TrustInvariant, CredentialsIssued, RefuseEnrollment, vars, serverVars, agentVars
<1>11. ASSUME NEW h \in Handlers, WriteCredential(h) PROVE CredentialsIssued'
  <2> DEFINE x == handler[h].name
  <2>1. issued \in Nat /\ issued' = issued + 1 /\ issued + 1 \in Credentials
    BY <1>11, BoundsAssumption DEF TrustInvariant, TypeOK, WriteCredential, Credentials
  <2>2. x \in Names /\ devices[x] \in DeviceRows
    BY <1>11, RowKinds DEF TrustInvariant, WriteCredential, HandlersAgree, Rekeying
  <2>3. devices'[x].credential = issued + 1 /\ \A y \in Names \ {x} : devices'[y] = devices[y]
    BY <1>11, <2>1, <2>2, Rewrites DEF TrustInvariant, TypeOK, WriteCredential
  <2>4. \A y \in Names : devices[y] # Nothing => devices[y].credential \in Nat
    BY RowKinds DEF TrustInvariant, DeviceRows, Credentials
  <2> QED BY <2>1, <2>2, <2>3, <2>4 DEF TrustInvariant, CredentialsIssued
<1>12. ASSUME NEW h \in Handlers, NEW p \in Processes, Enroll(h, p) PROVE CredentialsIssued'
  <2> DEFINE r == handler[h]
             x == NameOf[r.machine]
  <2>1. issued \in Nat /\ issued' = issued + 1 /\ r \in Enrolling
    BY <1>12, RowKinds, BoundsAssumption DEF TrustInvariant, TypeOK, Enroll
  <2>2. \A y \in Names \ {x} : devices'[y] = devices[y]
    BY <1>12 DEF TrustInvariant, TypeOK, Enroll
  <2>3. x \in Names => devices'[x].credential = issued + 1
    BY <1>12 DEF TrustInvariant, TypeOK, Enroll
  <2>4. \A y \in Names : devices[y] # Nothing => devices[y].credential \in Nat
    BY RowKinds DEF TrustInvariant, DeviceRows, Credentials
  <2> QED BY <2>1, <2>2, <2>3, <2>4 DEF TrustInvariant, CredentialsIssued
<1>13. ASSUME NEW h \in Handlers, NEW x \in Names, BeginRotation(h, x) PROVE CredentialsIssued'
  BY <1>13 DEF TrustInvariant, CredentialsIssued, BeginRotation, vars, serverVars, agentVars
<1>14. ASSUME NEW h \in Handlers, NEW m \in Machines, BeginRenewal(h, m) PROVE CredentialsIssued'
  BY <1>14 DEF TrustInvariant, CredentialsIssued, BeginRenewal, vars, serverVars, agentVars
<1>15. ASSUME NEW t \in Tokens, Expire(t) PROVE CredentialsIssued'
  BY <1>15 DEF TrustInvariant, CredentialsIssued, Expire, vars, serverVars, agentVars
<1>16. ASSUME NEW t \in Tokens, RevokeToken(t) PROVE CredentialsIssued'
  BY <1>16 DEF TrustInvariant, CredentialsIssued, RevokeToken, vars, serverVars, agentVars
<1>17. ASSUME NEW x \in Names, RevokeDevice(x) PROVE CredentialsIssued'
  <2>1. devices[x] \in DeviceRows
    BY <1>17, RowKinds DEF TrustInvariant, RevokeDevice
  <2> QED BY <1>17, <2>1, Rewrites DEF TrustInvariant, TypeOK, CredentialsIssued, RevokeDevice
<1>18. ASSUME NEW p \in Processes, Deploy(p) PROVE CredentialsIssued'
  BY <1>18 DEF TrustInvariant, CredentialsIssued, Deploy, vars, serverVars, agentVars
<1>19. CASE UNCHANGED vars
  BY <1>19 DEF TrustInvariant, CredentialsIssued, vars, serverVars, agentVars
<1>20. QED
  BY <1>1, <1>2, <1>2f, <1>3, <1>4, <1>5, <1>6, <1>7, <1>7u, <1>8, <1>9, <1>10, <1>11, <1>12, <1>13, <1>14, <1>15, <1>16, <1>17, <1>18, <1>19 DEF Next, AgentNext, HandlerNext, AdminNext

(* A token is marked used in the commit that inserts its device; until then*)
(* nobody else has used it, because its row is held.                       *)
LEMMA TokensStep ==
    ASSUME TrustInvariant, TypeOK', [Next]_vars
    PROVE  TokenSpentOnce'
<1>1. ASSUME NEW m \in Machines, NEW w \in Ways, NEW h \in Handlers, AskToEnroll(m, w, h) PROVE TokenSpentOnce'
  BY <1>1 DEF TrustInvariant, TokenSpentOnce, AskToEnroll, vars, serverVars, agentVars
<1>2. ASSUME NEW m \in Machines, Save(m) PROVE TokenSpentOnce'
  BY <1>2 DEF TrustInvariant, TokenSpentOnce, Save, vars, serverVars, agentVars
<1>2f. ASSUME NEW m \in Machines, SaveFails(m) PROVE TokenSpentOnce'
  BY <1>2f DEF TrustInvariant, TokenSpentOnce, SaveFails, vars, serverVars, agentVars
<1>3. ASSUME NEW m \in Machines, Restart(m) PROVE TokenSpentOnce'
  BY <1>3 DEF TrustInvariant, TokenSpentOnce, Restart, vars, serverVars, agentVars
<1>4. ASSUME NEW m \in Machines, Crash(m) PROVE TokenSpentOnce'
  BY <1>4 DEF TrustInvariant, TokenSpentOnce, Crash, vars, serverVars, agentVars
<1>5. ASSUME NEW m \in Machines, MissKeys(m) PROVE TokenSpentOnce'
  BY <1>5 DEF TrustInvariant, TokenSpentOnce, MissKeys, vars, serverVars, agentVars
<1>6. ASSUME NEW m \in Machines, EndCycle(m) PROVE TokenSpentOnce'
  BY <1>6 DEF TrustInvariant, TokenSpentOnce, EndCycle, vars, serverVars, agentVars
<1>7. ASSUME NEW m \in Machines, NEW p \in Processes, RefreshKeys(m, p) PROVE TokenSpentOnce'
  BY <1>7 DEF TrustInvariant, TokenSpentOnce, RefreshKeys, vars, serverVars, agentVars
<1>7u. ASSUME NEW m \in Machines, NEW p \in Processes, RefreshUnsaved(m, p) PROVE TokenSpentOnce'
  BY <1>7u DEF TrustInvariant, TokenSpentOnce, RefreshUnsaved, vars, serverVars, agentVars
<1>8. ASSUME NEW m \in Machines, NEW p \in Processes, ClaimJob(m, p) PROVE TokenSpentOnce'
  BY <1>8 DEF TrustInvariant, TokenSpentOnce, ClaimJob, vars, serverVars, agentVars
<1>9. ASSUME NEW h \in Handlers, HoldToken(h) PROVE TokenSpentOnce'
  BY <1>9 DEF TrustInvariant, TokenSpentOnce, HoldToken, vars, serverVars, agentVars
<1>10. ASSUME NEW h \in Handlers, RefuseEnrollment(h) PROVE TokenSpentOnce'
  BY <1>10 DEF TrustInvariant, TokenSpentOnce, RefuseEnrollment, vars, serverVars, agentVars
<1>11. ASSUME NEW h \in Handlers, WriteCredential(h) PROVE TokenSpentOnce'
  <2> DEFINE x == handler[h].name
  <2>1. issued + 1 \in Credentials
    BY <1>11, BoundsAssumption DEF TrustInvariant, TypeOK, WriteCredential, Credentials
  <2>2. x \in Names /\ devices[x] \in DeviceRows
    BY <1>11, RowKinds DEF TrustInvariant, WriteCredential, HandlersAgree, Rekeying
  <2>3. /\ devices'[x].via = devices[x].via /\ devices'[x] # Nothing
        /\ \A y \in Names \ {x} : devices'[y] = devices[y]
    BY <1>11, <2>1, <2>2, Rewrites, Distinct DEF TrustInvariant, TypeOK, WriteCredential
  <2> QED BY <1>11, <2>2, <2>3, Distinct DEF TrustInvariant, TokenSpentOnce, WriteCredential
<1>12. ASSUME NEW h \in Handlers, NEW p \in Processes, Enroll(h, p) PROVE TokenSpentOnce'
  <2> DEFINE r == handler[h]
             x == NameOf[r.machine]
  <2>1. r \in Enrolling /\ x \in Names /\ r.way \in Ways
    BY <1>12, RowKinds DEF TrustInvariant, TypeOK, Enroll, Enrolling
  <2>2. /\ devices[x] = Nothing
        /\ devices'[x] # Nothing /\ devices'[x].via = r.way
        /\ \A y \in Names \ {x} : devices'[y] = devices[y]
    <3> DEFINE row == [active |-> TRUE, credential |-> issued + 1, rotated |-> FALSE,
                       via |-> r.way]
    <3>1. issued + 1 \in Credentials
      BY <1>12, BoundsAssumption DEF TrustInvariant, TypeOK, Enroll, Credentials
    <3>2. row \in DeviceRows /\ row # Nothing
      <4>1. row \in DeviceRows
        BY <2>1, <3>1 DEF DeviceRows
      <4> QED BY <4>1, Distinct
    <3> QED BY <1>12, <2>1, <3>2 DEF TrustInvariant, TypeOK, Enroll
  <2>3. CASE r.way = ByUser
    <3>1. tokens' = tokens
      BY <1>12, <2>3 DEF Enroll
    <3> QED BY <2>1, <2>2, <2>3, <3>1, ByUserAssumption DEF TrustInvariant, TokenSpentOnce
  <2>4. CASE r.way # ByUser
    <3>1. r.way \in Tokens /\ tokens[r.way] \in TokenRows /\ tokens[r.way].usedBy = Nothing
      BY <1>12, <2>1, <2>4 DEF TrustInvariant, TypeOK, HandlersAgree, Usable, Enroll, Ways
    <3>2. /\ tokens'[r.way].usedBy = x
          /\ \A t \in Tokens \ {r.way} : tokens'[t] = tokens[t]
      <4>1. tokens' = [tokens EXCEPT ![r.way] = Spent(@, x)]
        BY <1>12, <2>4 DEF Enroll
      <4>2. Spent(tokens[r.way], x).usedBy = x
        BY <2>1, <3>1, Rewrites
      <4>3. tokens \in [Tokens -> TokenRows]
        BY DEF TrustInvariant, TypeOK
      <4> QED BY <3>1, <4>1, <4>2, <4>3
    <3> QED BY <2>1, <2>2, <3>1, <3>2, Distinct DEF TrustInvariant, TokenSpentOnce
  <2> QED BY <2>3, <2>4
<1>13. ASSUME NEW h \in Handlers, NEW x \in Names, BeginRotation(h, x) PROVE TokenSpentOnce'
  BY <1>13 DEF TrustInvariant, TokenSpentOnce, BeginRotation, vars, serverVars, agentVars
<1>14. ASSUME NEW h \in Handlers, NEW m \in Machines, BeginRenewal(h, m) PROVE TokenSpentOnce'
  BY <1>14 DEF TrustInvariant, TokenSpentOnce, BeginRenewal, vars, serverVars, agentVars
<1>15. ASSUME NEW t \in Tokens, Expire(t) PROVE TokenSpentOnce'
  BY <1>15 DEF TrustInvariant, TypeOK, TokenSpentOnce, Expire, TokenRows
<1>16. ASSUME NEW t \in Tokens, RevokeToken(t) PROVE TokenSpentOnce'
  BY <1>16 DEF TrustInvariant, TypeOK, TokenSpentOnce, RevokeToken, TokenRows
<1>17. ASSUME NEW x \in Names, RevokeDevice(x) PROVE TokenSpentOnce'
  <2>1. devices[x] \in DeviceRows
    BY <1>17, RowKinds DEF TrustInvariant, RevokeDevice
  <2>2. /\ devices'[x].via = devices[x].via /\ devices'[x] # Nothing
        /\ \A y \in Names \ {x} : devices'[y] = devices[y]
    BY <1>17, <2>1, Rewrites, Distinct DEF TrustInvariant, TypeOK, RevokeDevice
  <2> QED BY <1>17, <2>1, <2>2, Distinct DEF TrustInvariant, TokenSpentOnce, RevokeDevice
<1>18. ASSUME NEW p \in Processes, Deploy(p) PROVE TokenSpentOnce'
  BY <1>18 DEF TrustInvariant, TokenSpentOnce, Deploy, vars, serverVars, agentVars
<1>19. CASE UNCHANGED vars
  BY <1>19 DEF TrustInvariant, TokenSpentOnce, vars, serverVars, agentVars
<1>20. QED
  BY <1>1, <1>2, <1>2f, <1>3, <1>4, <1>5, <1>6, <1>7, <1>7u, <1>8, <1>9, <1>10, <1>11, <1>12, <1>13, <1>14, <1>15, <1>16, <1>17, <1>18, <1>19 DEF Next, AgentNext, HandlerNext, AdminNext

(* A token's row is held by one handler at a time, and nobody else writes it.*)
LEMMA HandlersStep ==
    ASSUME TrustInvariant, TypeOK', [Next]_vars
    PROVE  HandlersAgree'
<1>1. ASSUME NEW m \in Machines, NEW w \in Ways, NEW h \in Handlers, AskToEnroll(m, w, h) PROVE HandlersAgree'
  <2>1. handler' \in [Handlers -> {Free} \cup Enrolling \cup Rekeying]
    BY DEF TypeOK
  <2> QED BY <1>1, <2>1 DEF TrustInvariant, TypeOK, HandlersAgree, Usable, AskToEnroll, serverVars
<1>2. ASSUME NEW m \in Machines, Save(m) PROVE HandlersAgree'
  BY <1>2 DEF TrustInvariant, HandlersAgree, Usable, Save, vars, serverVars, agentVars
<1>2f. ASSUME NEW m \in Machines, SaveFails(m) PROVE HandlersAgree'
  BY <1>2f DEF TrustInvariant, HandlersAgree, Usable, SaveFails, vars, serverVars, agentVars
<1>3. ASSUME NEW m \in Machines, Restart(m) PROVE HandlersAgree'
  BY <1>3 DEF TrustInvariant, HandlersAgree, Usable, Restart, vars, serverVars, agentVars
<1>4. ASSUME NEW m \in Machines, Crash(m) PROVE HandlersAgree'
  <2>1. \A g \in Handlers : handler[g].work = "enroll" =>
            /\ Orphaned(handler[g]).work = "enroll"
            /\ Orphaned(handler[g]).way = handler[g].way
            /\ Orphaned(handler[g]).holds = handler[g].holds
    BY RowKinds DEF TrustInvariant, Orphaned, Enrolling
  <2>2. \A g \in Handlers :
            handler'[g] = handler[g] \/ (handler[g].work = "enroll" /\ handler'[g] = Orphaned(handler[g]))
    BY <1>4 DEF Crash, Unwaited
  <2>3. \A g \in Handlers : /\ handler'[g].work = handler[g].work
                            /\ handler[g].work = "rekey" => handler'[g] = handler[g]
                            /\ handler[g].work = "enroll" =>
                                /\ handler'[g].way = handler[g].way
                                /\ handler'[g].holds = handler[g].holds
    BY <2>1, <2>2
  <2> QED BY <1>4, <2>3 DEF TrustInvariant, HandlersAgree, Usable, Crash, serverVars
<1>5. ASSUME NEW m \in Machines, MissKeys(m) PROVE HandlersAgree'
  BY <1>5 DEF TrustInvariant, HandlersAgree, Usable, MissKeys, vars, serverVars, agentVars
<1>6. ASSUME NEW m \in Machines, EndCycle(m) PROVE HandlersAgree'
  BY <1>6 DEF TrustInvariant, HandlersAgree, Usable, EndCycle, vars, serverVars, agentVars
<1>7. ASSUME NEW m \in Machines, NEW p \in Processes, RefreshKeys(m, p) PROVE HandlersAgree'
  BY <1>7 DEF TrustInvariant, HandlersAgree, Usable, RefreshKeys, vars, serverVars, agentVars
<1>7u. ASSUME NEW m \in Machines, NEW p \in Processes, RefreshUnsaved(m, p) PROVE HandlersAgree'
  BY <1>7u DEF TrustInvariant, HandlersAgree, Usable, RefreshUnsaved, vars, serverVars, agentVars
<1>8. ASSUME NEW m \in Machines, NEW p \in Processes, ClaimJob(m, p) PROVE HandlersAgree'
  BY <1>8 DEF TrustInvariant, HandlersAgree, Usable, ClaimJob, vars, serverVars, agentVars
<1>9. ASSUME NEW h \in Handlers, HoldToken(h) PROVE HandlersAgree'
  <2>1. handler[h] \in Enrolling
    BY <1>9, RowKinds DEF TrustInvariant, HoldToken
  <2>2. /\ handler'[h] = Holding(handler[h])
        /\ \A g \in Handlers \ {h} : handler'[g] = handler[g]
    BY <1>9 DEF TrustInvariant, TypeOK, HoldToken
  <2>3. /\ Holding(handler[h]).work = "enroll"
        /\ Holding(handler[h]).way = handler[h].way
    BY <2>1 DEF Holding, Enrolling
  <2>4. \A g \in Handlers : ~(handler[g].work = "enroll" /\ handler[g].holds
                                /\ handler[g].way = handler[h].way)
    BY <1>9 DEF HoldToken, Held
  <2> QED BY <1>9, <2>2, <2>3, <2>4 DEF TrustInvariant, HandlersAgree, Usable, HoldToken, serverVars
<1>10. ASSUME NEW h \in Handlers, RefuseEnrollment(h) PROVE HandlersAgree'
  BY <1>10, Distinct DEF TrustInvariant, TypeOK, HandlersAgree, Usable, RefuseEnrollment, serverVars
<1>11. ASSUME NEW h \in Handlers, WriteCredential(h) PROVE HandlersAgree'
  <2> DEFINE x == handler[h].name
  <2>1. issued + 1 \in Credentials
    BY <1>11, BoundsAssumption DEF TrustInvariant, TypeOK, WriteCredential, Credentials
  <2>2. x \in Names /\ devices[x] \in DeviceRows
    BY <1>11, RowKinds DEF TrustInvariant, WriteCredential, HandlersAgree, Rekeying
  <2>3. devices'[x] # Nothing /\ \A y \in Names \ {x} : devices'[y] = devices[y]
    BY <1>11, <2>1, <2>2, Rewrites, Distinct DEF TrustInvariant, TypeOK, WriteCredential
  <2>4. handler'[h].work = "none" /\ \A g \in Handlers \ {h} : handler'[g] = handler[g]
    BY <1>11, Distinct DEF TrustInvariant, TypeOK, WriteCredential
  <2>5. \A g \in Handlers : handler[g].work = "rekey" => handler[g].name \in Names
    BY RowKinds DEF TrustInvariant, Rekeying
  <2> QED BY <1>11, <2>3, <2>4, <2>5 DEF TrustInvariant, HandlersAgree, Usable, WriteCredential
<1>12. ASSUME NEW h \in Handlers, NEW p \in Processes, Enroll(h, p) PROVE HandlersAgree'
  <2> DEFINE r == handler[h]
             x == NameOf[r.machine]
  <2>1. r \in Enrolling /\ x \in Names /\ r.way \in Ways
    BY <1>12, RowKinds DEF TrustInvariant, TypeOK, Enroll, Enrolling
  <2>2. handler'[h].work = "none" /\ \A g \in Handlers \ {h} : handler'[g] = handler[g]
    BY <1>12, Distinct DEF TrustInvariant, TypeOK, Enroll
  <2>3. \A y \in Names : devices[y] # Nothing => devices'[y] = devices[y]
    BY <1>12, <2>1 DEF TrustInvariant, TypeOK, Enroll
  <2>4. \A g \in Handlers : handler[g].work = "rekey" => handler[g].name \in Names
    BY RowKinds DEF TrustInvariant, Rekeying
  <2>5. \A t \in Tokens : t # r.way => tokens'[t] = tokens[t]
    BY <1>12, <2>1 DEF TrustInvariant, TypeOK, Enroll
  <2>6. \A g \in Handlers \ {h} :
            handler[g].work = "enroll" /\ handler[g].holds => handler[g].way # r.way
    <3>1. CASE r.way \in Tokens
      BY <1>12, <3>1, ByUserAssumption DEF TrustInvariant, HandlersAgree, Enroll
    <3>2. CASE r.way = ByUser
      BY <3>2, ByUserAssumption DEF TrustInvariant, HandlersAgree
    <3> QED BY <2>1, <3>1, <3>2 DEF Ways
  <2> QED BY <2>2, <2>3, <2>4, <2>5, <2>6 DEF TrustInvariant, HandlersAgree, Usable
<1>13. ASSUME NEW h \in Handlers, NEW x \in Names, BeginRotation(h, x) PROVE HandlersAgree'
  BY <1>13 DEF TrustInvariant, TypeOK, HandlersAgree, Usable, BeginRotation, serverVars
<1>14. ASSUME NEW h \in Handlers, NEW m \in Machines, BeginRenewal(h, m) PROVE HandlersAgree'
  BY <1>14 DEF TrustInvariant, TypeOK, HandlersAgree, Usable, BeginRenewal, Authenticated, Known, serverVars
<1>15. ASSUME NEW t \in Tokens, Expire(t) PROVE HandlersAgree'
  BY <1>15 DEF TrustInvariant, TypeOK, HandlersAgree, Usable, Expire, TokenRows
<1>16. ASSUME NEW t \in Tokens, RevokeToken(t) PROVE HandlersAgree'
  BY <1>16 DEF TrustInvariant, TypeOK, HandlersAgree, Usable, RevokeToken, Held, TokenRows
<1>17. ASSUME NEW x \in Names, RevokeDevice(x) PROVE HandlersAgree'
  <2>1. devices[x] \in DeviceRows
    BY <1>17, RowKinds DEF TrustInvariant, RevokeDevice
  <2>2. devices'[x] # Nothing /\ \A y \in Names \ {x} : devices'[y] = devices[y]
    BY <1>17, <2>1, Rewrites, Distinct DEF TrustInvariant, TypeOK, RevokeDevice
  <2>3. \A g \in Handlers : handler[g].work = "rekey" => handler[g].name \in Names
    BY RowKinds DEF TrustInvariant, Rekeying
  <2> QED BY <1>17, <2>2, <2>3 DEF TrustInvariant, HandlersAgree, Usable, RevokeDevice
<1>18. ASSUME NEW p \in Processes, Deploy(p) PROVE HandlersAgree'
  BY <1>18 DEF TrustInvariant, HandlersAgree, Usable, Deploy, vars, serverVars, agentVars
<1>19. CASE UNCHANGED vars
  BY <1>19 DEF TrustInvariant, HandlersAgree, Usable, vars, serverVars, agentVars
<1>20. QED
  BY <1>1, <1>2, <1>2f, <1>3, <1>4, <1>5, <1>6, <1>7, <1>7u, <1>8, <1>9, <1>10, <1>11, <1>12, <1>13, <1>14, <1>15, <1>16, <1>17, <1>18, <1>19 DEF Next, AgentNext, HandlerNext, AdminNext

(* What a machine has in memory and on disk goes with where it is.         *)
LEMMA WaitersStep ==
    ASSUME TrustInvariant, TypeOK', [Next]_vars
    PROVE  WaitersAgree'
<1>1. ASSUME NEW m \in Machines, NEW w \in Ways, NEW h \in Handlers, AskToEnroll(m, w, h) PROVE WaitersAgree'
  <2>1. /\ handler'[h].work = "enroll" /\ handler'[h].machine = m
        /\ \A g \in Handlers \ {h} : handler'[g] = handler[g]
    BY <1>1 DEF TrustInvariant, TypeOK, AskToEnroll
  <2>2. \A g \in Handlers : handler[g].work = "enroll" => handler[g].machine \in Machines
    BY RowKinds DEF TrustInvariant, Enrolling
  <2>3. stage'[m] = "waiting" /\ \A n \in Machines \ {m} : stage'[n] = stage[n]
    BY <1>1 DEF TrustInvariant, TypeOK, AskToEnroll
  <2> QED BY <1>1, <2>1, <2>2, <2>3 DEF TrustInvariant, WaitersAgree, AskToEnroll
<1>2. ASSUME NEW m \in Machines, Save(m) PROVE WaitersAgree'
  <2>1. \A g \in Handlers : handler[g].work = "enroll" => handler[g].machine \in Machines
    BY RowKinds DEF TrustInvariant, Enrolling
  <2> QED BY <1>2, <2>1 DEF TrustInvariant, TypeOK, WaitersAgree, Save
<1>2f. ASSUME NEW m \in Machines, SaveFails(m) PROVE WaitersAgree'
  <2>1. \A g \in Handlers : handler[g].work = "enroll" => handler[g].machine \in Machines
    BY RowKinds DEF TrustInvariant, Enrolling
  <2> QED BY <1>2f, <2>1 DEF TrustInvariant, TypeOK, WaitersAgree, SaveFails
<1>3. ASSUME NEW m \in Machines, Restart(m) PROVE WaitersAgree'
  <2>1. \A g \in Handlers : handler[g].work = "enroll" => handler[g].machine \in Machines
    BY RowKinds DEF TrustInvariant, Enrolling
  <2> QED BY <1>3, <2>1 DEF TrustInvariant, TypeOK, WaitersAgree, Restart
<1>4. ASSUME NEW m \in Machines, Crash(m) PROVE WaitersAgree'
  <2>1. \A g \in Handlers : handler[g].work = "enroll" =>
            /\ handler[g].machine \in Machines
            /\ Orphaned(handler[g]).machine = handler[g].machine
            /\ Orphaned(handler[g]).work = "enroll"
            /\ ~Orphaned(handler[g]).heard
    BY RowKinds DEF TrustInvariant, Orphaned, Enrolling
  <2>2. \A g \in Handlers : handler'[g] =
            IF handler[g].work = "enroll" /\ handler[g].machine = m
            THEN Orphaned(handler[g]) ELSE handler[g]
    BY <1>4 DEF Crash, Unwaited
  <2>3. \A g \in Handlers : handler'[g].work = "enroll" /\ handler'[g].heard =>
            handler'[g] = handler[g] /\ handler[g].machine # m
    BY <2>1, <2>2
  <2>4. /\ stage'[m] = "down" /\ memory'[m] = Nothing /\ config' = config
        /\ \A n \in Machines \ {m} : stage'[n] = stage[n] /\ memory'[n] = memory[n]
    BY <1>4 DEF TrustInvariant, TypeOK, Crash
  <2> QED BY <1>4, <2>1, <2>3, <2>4 DEF TrustInvariant, WaitersAgree
<1>5. ASSUME NEW m \in Machines, MissKeys(m) PROVE WaitersAgree'
  <2>1. \A g \in Handlers : handler[g].work = "enroll" => handler[g].machine \in Machines
    BY RowKinds DEF TrustInvariant, Enrolling
  <2> QED BY <1>5, <2>1 DEF TrustInvariant, TypeOK, WaitersAgree, MissKeys
<1>6. ASSUME NEW m \in Machines, EndCycle(m) PROVE WaitersAgree'
  <2>1. \A g \in Handlers : handler[g].work = "enroll" => handler[g].machine \in Machines
    BY RowKinds DEF TrustInvariant, Enrolling
  <2> QED BY <1>6, <2>1 DEF TrustInvariant, TypeOK, WaitersAgree, EndCycle
<1>7. ASSUME NEW m \in Machines, NEW p \in Processes, RefreshKeys(m, p) PROVE WaitersAgree'
  <2>1. \A g \in Handlers : handler[g].work = "enroll" => handler[g].machine \in Machines
    BY RowKinds DEF TrustInvariant, Enrolling
  <2>2. /\ memory[m] # Nothing /\ memory'[m] # Nothing
        /\ memory'[m].credential = memory[m].credential
        /\ config'[m] \in {config[m], memory'[m]}
        /\ stage[m] = "up" /\ stage'[m] \in {"up", "fresh"}
        /\ \A n \in Machines \ {m} :
            memory'[n] = memory[n] /\ config'[n] = config[n] /\ stage'[n] = stage[n]
    BY <1>7, RefreshGives DEF TrustInvariant, TypeOK
  <2> QED BY <1>7, <2>1, <2>2 DEF TrustInvariant, WaitersAgree, RefreshKeys
<1>7u. ASSUME NEW m \in Machines, NEW p \in Processes, RefreshUnsaved(m, p) PROVE WaitersAgree'
  <2>1. \A g \in Handlers : handler[g].work = "enroll" => handler[g].machine \in Machines
    BY RowKinds DEF TrustInvariant, Enrolling
  <2>2. /\ memory[m] # Nothing /\ memory'[m] # Nothing
        /\ memory'[m].credential = memory[m].credential
        /\ config'[m] \in {config[m], memory'[m]}
        /\ stage[m] = "up" /\ stage'[m] \in {"up", "fresh"}
        /\ \A n \in Machines \ {m} :
            memory'[n] = memory[n] /\ config'[n] = config[n] /\ stage'[n] = stage[n]
    BY <1>7u, RefreshGives DEF TrustInvariant, TypeOK
  <2> QED BY <1>7u, <2>1, <2>2 DEF TrustInvariant, WaitersAgree, RefreshUnsaved
<1>8. ASSUME NEW m \in Machines, NEW p \in Processes, ClaimJob(m, p) PROVE WaitersAgree'
  <2>1. \A g \in Handlers : handler[g].work = "enroll" => handler[g].machine \in Machines
    BY RowKinds DEF TrustInvariant, Enrolling
  <2> QED BY <1>8, <2>1 DEF TrustInvariant, TypeOK, WaitersAgree, ClaimJob
<1>9. ASSUME NEW h \in Handlers, HoldToken(h) PROVE WaitersAgree'
  <2>1. handler[h] \in Enrolling
    BY <1>9, RowKinds DEF TrustInvariant, HoldToken
  <2>2. /\ Holding(handler[h]).machine = handler[h].machine
        /\ Holding(handler[h]).heard = handler[h].heard
        /\ Holding(handler[h]).work = "enroll"
    BY <2>1 DEF Holding, Enrolling
  <2>3. /\ handler'[h] = Holding(handler[h])
        /\ \A g \in Handlers \ {h} : handler'[g] = handler[g]
    BY <1>9 DEF TrustInvariant, TypeOK, HoldToken
  <2>4. \A g \in Handlers : /\ handler'[g].work = handler[g].work
                            /\ handler[g].work = "enroll" =>
                                /\ handler'[g].machine = handler[g].machine
                                /\ handler'[g].heard = handler[g].heard
    BY <1>9, <2>2, <2>3 DEF HoldToken
  <2> QED BY <1>9, <2>4 DEF TrustInvariant, WaitersAgree, HoldToken, agentVars
<1>10. ASSUME NEW h \in Handlers, RefuseEnrollment(h) PROVE WaitersAgree'
  <2> DEFINE r == handler[h]
  <2>1. r \in Enrolling /\ r.machine \in Machines
    BY <1>10, RowKinds DEF TrustInvariant, RefuseEnrollment, Enrolling
  <2>2. handler'[h].work = "none" /\ \A g \in Handlers \ {h} : handler'[g] = handler[g]
    BY <1>10, Distinct DEF TrustInvariant, TypeOK, RefuseEnrollment
  <2>3. /\ memory' = memory /\ config' = config
        /\ \A n \in Machines : (~r.heard \/ n # r.machine) => stage'[n] = stage[n]
        /\ r.heard => stage'[r.machine] = "down"
    BY <1>10, <2>1 DEF TrustInvariant, TypeOK, RefuseEnrollment, Unheard
  <2>4. \A g \in Handlers \ {h} : handler[g].work = "enroll" /\ handler[g].heard =>
            /\ r.heard => handler[g].machine # r.machine
            /\ handler[g].machine \in Machines
    BY <1>10, RowKinds DEF TrustInvariant, WaitersAgree, RefuseEnrollment, Enrolling
  <2>5. r.heard => stage[r.machine] = "waiting"
    BY <1>10 DEF TrustInvariant, WaitersAgree, RefuseEnrollment
  <2> QED BY <2>1, <2>2, <2>3, <2>4, <2>5 DEF TrustInvariant, WaitersAgree
<1>11. ASSUME NEW h \in Handlers, WriteCredential(h) PROVE WaitersAgree'
  BY <1>11, Distinct DEF TrustInvariant, TypeOK, WaitersAgree, WriteCredential, agentVars
<1>12. ASSUME NEW h \in Handlers, NEW p \in Processes, Enroll(h, p) PROVE WaitersAgree'
  <2> DEFINE r == handler[h]
             file == [credential |-> issued + 1, keys |-> ActiveKeys(version[p])]
  <2>1. r \in Enrolling /\ r.machine \in Machines
    BY <1>12, RowKinds DEF TrustInvariant, Enroll, Enrolling
  <2>2. handler'[h].work = "none" /\ \A g \in Handlers \ {h} : handler'[g] = handler[g]
    BY <1>12, Distinct DEF TrustInvariant, TypeOK, Enroll
  <2>3. \A g \in Handlers \ {h} : handler[g].work = "enroll" /\ handler[g].heard =>
            /\ r.heard => handler[g].machine # r.machine
            /\ handler[g].machine \in Machines
    BY <1>12, RowKinds DEF TrustInvariant, WaitersAgree, Enroll, Enrolling
  <2>4. file \in Configs
    BY <1>12, KeyTypes, BoundsAssumption DEF TrustInvariant, TypeOK, Enroll, Configs, Credentials
  <2>5. CASE r.heard
    <3>1. /\ memory'[r.machine] = file /\ stage'[r.machine] = "adopted" /\ config' = config
          /\ \A n \in Machines \ {r.machine} : stage'[n] = stage[n] /\ memory'[n] = memory[n]
      BY <1>12, <2>1, <2>5 DEF TrustInvariant, TypeOK, Enroll
    <3>2. file # Nothing /\ stage[r.machine] = "waiting"
      BY <1>12, <2>4, <2>5, Distinct DEF TrustInvariant, WaitersAgree, Enroll
    <3> HIDE DEF file
    <3> QED BY <2>1, <2>2, <2>3, <2>5, <3>1, <3>2 DEF TrustInvariant, WaitersAgree
  <2>6. CASE ~r.heard
    <3>1. memory' = memory /\ stage' = stage /\ config' = config
      BY <1>12, <2>6 DEF Enroll
    <3> QED BY <2>2, <2>3, <3>1 DEF TrustInvariant, WaitersAgree
  <2> QED BY <2>5, <2>6
<1>13. ASSUME NEW h \in Handlers, NEW x \in Names, BeginRotation(h, x) PROVE WaitersAgree'
  BY <1>13 DEF TrustInvariant, TypeOK, WaitersAgree, BeginRotation, agentVars
<1>14. ASSUME NEW h \in Handlers, NEW m \in Machines, BeginRenewal(h, m) PROVE WaitersAgree'
  BY <1>14 DEF TrustInvariant, TypeOK, WaitersAgree, BeginRenewal, agentVars
<1>15. ASSUME NEW t \in Tokens, Expire(t) PROVE WaitersAgree'
  BY <1>15 DEF TrustInvariant, WaitersAgree, Expire, vars, serverVars, agentVars
<1>16. ASSUME NEW t \in Tokens, RevokeToken(t) PROVE WaitersAgree'
  BY <1>16 DEF TrustInvariant, WaitersAgree, RevokeToken, vars, serverVars, agentVars
<1>17. ASSUME NEW x \in Names, RevokeDevice(x) PROVE WaitersAgree'
  BY <1>17 DEF TrustInvariant, WaitersAgree, RevokeDevice, vars, serverVars, agentVars
<1>18. ASSUME NEW p \in Processes, Deploy(p) PROVE WaitersAgree'
  BY <1>18 DEF TrustInvariant, WaitersAgree, Deploy, vars, serverVars, agentVars
<1>19. CASE UNCHANGED vars
  BY <1>19 DEF TrustInvariant, WaitersAgree, vars, serverVars, agentVars
<1>20. QED
  BY <1>1, <1>2, <1>2f, <1>3, <1>4, <1>5, <1>6, <1>7, <1>7u, <1>8, <1>9, <1>10, <1>11, <1>12, <1>13, <1>14, <1>15, <1>16, <1>17, <1>18, <1>19 DEF Next, AgentNext, HandlerNext, AdminNext

(* What a machine holds after a step it held before, perhaps with the keys *)
(* a process signs with added; only an enrollment hands out something new. *)
Carried(c, d) ==
    /\ c.credential = d.credential
    /\ c.keys = d.keys \/ \E p \in Processes : c.keys = d.keys \cup ActiveKeys(version[p])
Kept ==
    /\ NameOf' = NameOf
    /\ \A n \in Machines :
        /\ memory'[n] # Nothing => \/ memory[n] # Nothing /\ Carried(memory'[n], memory[n])
                                   \/ config[n] # Nothing /\ Carried(memory'[n], config[n])
        /\ config'[n] # Nothing => \/ memory[n] # Nothing /\ Carried(config'[n], memory[n])
                                   \/ config[n] # Nothing /\ Carried(config'[n], config[n])

(* A device row is never deleted, never reactivated and never handed to    *)
(* another way of enrollment; its credential changes by a rotation only.   *)
Onward ==
    \A x \in Names : devices[x] # Nothing =>
        /\ devices'[x] # Nothing
        /\ devices'[x].via = devices[x].via
        /\ ~devices[x].active => ~devices'[x].active
        /\ ~devices'[x].rotated =>
            ~devices[x].rotated /\ devices'[x].credential = devices[x].credential

LEMMA CarriedAlone == \A c : Carried(c, c)
BY DEF Carried

(* Only an enrollment gives a machine a credential it did not have.        *)
LEMMA KeptStep ==
    ASSUME TrustInvariant, [Next]_vars
    PROVE  Kept \/ \E hh \in Handlers, pp \in Processes : Enroll(hh, pp)
<1>1. ASSUME NEW m \in Machines, NEW w \in Ways, NEW h \in Handlers, AskToEnroll(m, w, h) PROVE Kept \/ \E hh \in Handlers, pp \in Processes : Enroll(hh, pp)
  BY <1>1, CarriedAlone DEF Kept, AskToEnroll, vars, serverVars, agentVars
<1>2. ASSUME NEW m \in Machines, Save(m) PROVE Kept \/ \E hh \in Handlers, pp \in Processes : Enroll(hh, pp)
  BY <1>2, CarriedAlone DEF TrustInvariant, TypeOK, WaitersAgree, Kept, Save
<1>2f. ASSUME NEW m \in Machines, SaveFails(m) PROVE Kept \/ \E hh \in Handlers, pp \in Processes : Enroll(hh, pp)
  BY <1>2f, CarriedAlone DEF TrustInvariant, TypeOK, WaitersAgree, Kept, SaveFails
<1>3. ASSUME NEW m \in Machines, Restart(m) PROVE Kept \/ \E hh \in Handlers, pp \in Processes : Enroll(hh, pp)
  BY <1>3, CarriedAlone DEF TrustInvariant, TypeOK, WaitersAgree, Kept, Restart
<1>4. ASSUME NEW m \in Machines, Crash(m) PROVE Kept \/ \E hh \in Handlers, pp \in Processes : Enroll(hh, pp)
  BY <1>4, CarriedAlone DEF TrustInvariant, TypeOK, WaitersAgree, Kept, Crash
<1>5. ASSUME NEW m \in Machines, MissKeys(m) PROVE Kept \/ \E hh \in Handlers, pp \in Processes : Enroll(hh, pp)
  BY <1>5, CarriedAlone DEF Kept, MissKeys, vars, serverVars, agentVars
<1>6. ASSUME NEW m \in Machines, EndCycle(m) PROVE Kept \/ \E hh \in Handlers, pp \in Processes : Enroll(hh, pp)
  BY <1>6, CarriedAlone DEF Kept, EndCycle, vars, serverVars, agentVars
<1>7. ASSUME NEW m \in Machines, NEW p \in Processes, RefreshKeys(m, p) PROVE Kept \/ \E hh \in Handlers, pp \in Processes : Enroll(hh, pp)
  <2>1. /\ memory[m] # Nothing /\ Carried(memory'[m], memory[m])
        /\ config'[m] \in {config[m], memory'[m]}
        /\ \A n \in Machines \ {m} : memory'[n] = memory[n] /\ config'[n] = config[n]
    BY <1>7, RefreshGives DEF TrustInvariant, TypeOK, Carried
  <2> QED BY <1>7, <2>1, CarriedAlone DEF Kept, RefreshKeys
<1>7u. ASSUME NEW m \in Machines, NEW p \in Processes, RefreshUnsaved(m, p) PROVE Kept \/ \E hh \in Handlers, pp \in Processes : Enroll(hh, pp)
  <2>1. /\ memory[m] # Nothing /\ Carried(memory'[m], memory[m])
        /\ config'[m] \in {config[m], memory'[m]}
        /\ \A n \in Machines \ {m} : memory'[n] = memory[n] /\ config'[n] = config[n]
    BY <1>7u, RefreshGives DEF TrustInvariant, TypeOK, Carried
  <2> QED BY <1>7u, <2>1, CarriedAlone DEF Kept, RefreshUnsaved
<1>8. ASSUME NEW m \in Machines, NEW p \in Processes, ClaimJob(m, p) PROVE Kept \/ \E hh \in Handlers, pp \in Processes : Enroll(hh, pp)
  BY <1>8, CarriedAlone DEF Kept, ClaimJob, vars, serverVars, agentVars
<1>9. ASSUME NEW h \in Handlers, HoldToken(h) PROVE Kept \/ \E hh \in Handlers, pp \in Processes : Enroll(hh, pp)
  BY <1>9, CarriedAlone DEF Kept, HoldToken, vars, serverVars, agentVars
<1>10. ASSUME NEW h \in Handlers, RefuseEnrollment(h) PROVE Kept \/ \E hh \in Handlers, pp \in Processes : Enroll(hh, pp)
  BY <1>10, CarriedAlone DEF Kept, RefuseEnrollment, vars, serverVars, agentVars
<1>11. ASSUME NEW h \in Handlers, WriteCredential(h) PROVE Kept \/ \E hh \in Handlers, pp \in Processes : Enroll(hh, pp)
  BY <1>11, CarriedAlone DEF Kept, WriteCredential, vars, serverVars, agentVars
<1>12. ASSUME NEW h \in Handlers, NEW p \in Processes, Enroll(h, p) PROVE Kept \/ \E hh \in Handlers, pp \in Processes : Enroll(hh, pp)
  BY <1>12 DEF Kept
<1>13. ASSUME NEW h \in Handlers, NEW x \in Names, BeginRotation(h, x) PROVE Kept \/ \E hh \in Handlers, pp \in Processes : Enroll(hh, pp)
  BY <1>13, CarriedAlone DEF Kept, BeginRotation, vars, serverVars, agentVars
<1>14. ASSUME NEW h \in Handlers, NEW m \in Machines, BeginRenewal(h, m) PROVE Kept \/ \E hh \in Handlers, pp \in Processes : Enroll(hh, pp)
  BY <1>14, CarriedAlone DEF Kept, BeginRenewal, vars, serverVars, agentVars
<1>15. ASSUME NEW t \in Tokens, Expire(t) PROVE Kept \/ \E hh \in Handlers, pp \in Processes : Enroll(hh, pp)
  BY <1>15, CarriedAlone DEF Kept, Expire, vars, serverVars, agentVars
<1>16. ASSUME NEW t \in Tokens, RevokeToken(t) PROVE Kept \/ \E hh \in Handlers, pp \in Processes : Enroll(hh, pp)
  BY <1>16, CarriedAlone DEF Kept, RevokeToken, vars, serverVars, agentVars
<1>17. ASSUME NEW x \in Names, RevokeDevice(x) PROVE Kept \/ \E hh \in Handlers, pp \in Processes : Enroll(hh, pp)
  BY <1>17, CarriedAlone DEF Kept, RevokeDevice, vars, serverVars, agentVars
<1>18. ASSUME NEW p \in Processes, Deploy(p) PROVE Kept \/ \E hh \in Handlers, pp \in Processes : Enroll(hh, pp)
  BY <1>18, CarriedAlone DEF Kept, Deploy, vars, serverVars, agentVars
<1>19. CASE UNCHANGED vars
  BY <1>19, CarriedAlone DEF Kept, vars, serverVars, agentVars
<1>20. QED
  BY <1>1, <1>2, <1>2f, <1>3, <1>4, <1>5, <1>6, <1>7, <1>7u, <1>8, <1>9, <1>10, <1>11, <1>12, <1>13, <1>14, <1>15, <1>16, <1>17, <1>18, <1>19 DEF Next, AgentNext, HandlerNext, AdminNext

(* Device rows only go forward.                                            *)
LEMMA OnwardStep ==
    ASSUME TrustInvariant, [Next]_vars
    PROVE  Onward
<1>1. ASSUME NEW m \in Machines, NEW w \in Ways, NEW h \in Handlers, AskToEnroll(m, w, h) PROVE Onward
  BY <1>1 DEF TrustInvariant, Onward, AskToEnroll, vars, serverVars, agentVars
<1>2. ASSUME NEW m \in Machines, Save(m) PROVE Onward
  BY <1>2 DEF TrustInvariant, Onward, Save, vars, serverVars, agentVars
<1>2f. ASSUME NEW m \in Machines, SaveFails(m) PROVE Onward
  BY <1>2f DEF TrustInvariant, Onward, SaveFails, vars, serverVars, agentVars
<1>3. ASSUME NEW m \in Machines, Restart(m) PROVE Onward
  BY <1>3 DEF TrustInvariant, Onward, Restart, vars, serverVars, agentVars
<1>4. ASSUME NEW m \in Machines, Crash(m) PROVE Onward
  BY <1>4 DEF TrustInvariant, Onward, Crash, vars, serverVars, agentVars
<1>5. ASSUME NEW m \in Machines, MissKeys(m) PROVE Onward
  BY <1>5 DEF TrustInvariant, Onward, MissKeys, vars, serverVars, agentVars
<1>6. ASSUME NEW m \in Machines, EndCycle(m) PROVE Onward
  BY <1>6 DEF TrustInvariant, Onward, EndCycle, vars, serverVars, agentVars
<1>7. ASSUME NEW m \in Machines, NEW p \in Processes, RefreshKeys(m, p) PROVE Onward
  BY <1>7 DEF TrustInvariant, Onward, RefreshKeys, vars, serverVars, agentVars
<1>7u. ASSUME NEW m \in Machines, NEW p \in Processes, RefreshUnsaved(m, p) PROVE Onward
  BY <1>7u DEF TrustInvariant, Onward, RefreshUnsaved, vars, serverVars, agentVars
<1>8. ASSUME NEW m \in Machines, NEW p \in Processes, ClaimJob(m, p) PROVE Onward
  BY <1>8 DEF TrustInvariant, Onward, ClaimJob, vars, serverVars, agentVars
<1>9. ASSUME NEW h \in Handlers, HoldToken(h) PROVE Onward
  BY <1>9 DEF TrustInvariant, Onward, HoldToken, vars, serverVars, agentVars
<1>10. ASSUME NEW h \in Handlers, RefuseEnrollment(h) PROVE Onward
  BY <1>10 DEF TrustInvariant, Onward, RefuseEnrollment, vars, serverVars, agentVars
<1>11. ASSUME NEW h \in Handlers, WriteCredential(h) PROVE Onward
  <2> DEFINE x == handler[h].name
  <2>1. issued + 1 \in Credentials
    BY <1>11, BoundsAssumption DEF TrustInvariant, TypeOK, WriteCredential, Credentials
  <2>2. x \in Names /\ devices[x] \in DeviceRows
    BY <1>11, RowKinds DEF TrustInvariant, WriteCredential, HandlersAgree, Rekeying
  <2>3. /\ devices'[x].via = devices[x].via /\ devices'[x] # Nothing
        /\ devices'[x].active = devices[x].active /\ devices'[x].rotated
        /\ \A y \in Names \ {x} : devices'[y] = devices[y]
    BY <1>11, <2>1, <2>2, Rewrites, Distinct DEF TrustInvariant, TypeOK, WriteCredential
  <2> QED BY <2>2, <2>3 DEF Onward
<1>12. ASSUME NEW h \in Handlers, NEW p \in Processes, Enroll(h, p) PROVE Onward
  <2>1. handler[h] \in Enrolling
    BY <1>12, RowKinds DEF TrustInvariant, Enroll
  <2>2. \A x \in Names : devices[x] # Nothing => devices'[x] = devices[x]
    BY <1>12, <2>1 DEF TrustInvariant, TypeOK, Enroll, Enrolling
  <2> QED BY <2>2 DEF Onward
<1>13. ASSUME NEW h \in Handlers, NEW x \in Names, BeginRotation(h, x) PROVE Onward
  BY <1>13 DEF TrustInvariant, Onward, BeginRotation, vars, serverVars, agentVars
<1>14. ASSUME NEW h \in Handlers, NEW m \in Machines, BeginRenewal(h, m) PROVE Onward
  BY <1>14 DEF TrustInvariant, Onward, BeginRenewal, vars, serverVars, agentVars
<1>15. ASSUME NEW t \in Tokens, Expire(t) PROVE Onward
  BY <1>15 DEF TrustInvariant, Onward, Expire, vars, serverVars, agentVars
<1>16. ASSUME NEW t \in Tokens, RevokeToken(t) PROVE Onward
  BY <1>16 DEF TrustInvariant, Onward, RevokeToken, vars, serverVars, agentVars
<1>17. ASSUME NEW x \in Names, RevokeDevice(x) PROVE Onward
  <2>1. devices[x] \in DeviceRows
    BY <1>17, RowKinds DEF TrustInvariant, RevokeDevice
  <2>2. /\ devices'[x].via = devices[x].via /\ devices'[x] # Nothing
        /\ devices'[x].credential = devices[x].credential
        /\ devices'[x].rotated = devices[x].rotated /\ ~devices'[x].active
        /\ \A y \in Names \ {x} : devices'[y] = devices[y]
    BY <1>17, <2>1, Rewrites, Distinct DEF TrustInvariant, TypeOK, RevokeDevice
  <2> QED BY <2>1, <2>2 DEF Onward
<1>18. ASSUME NEW p \in Processes, Deploy(p) PROVE Onward
  BY <1>18 DEF TrustInvariant, Onward, Deploy, vars, serverVars, agentVars
<1>19. CASE UNCHANGED vars
  BY <1>19 DEF TrustInvariant, Onward, vars, serverVars, agentVars
<1>20. QED
  BY <1>1, <1>2, <1>2f, <1>3, <1>4, <1>5, <1>6, <1>7, <1>7u, <1>8, <1>9, <1>10, <1>11, <1>12, <1>13, <1>14, <1>15, <1>16, <1>17, <1>18, <1>19 DEF Next, AgentNext, HandlerNext, AdminNext

(* An enrollment, when somebody hears its answer.                          *)
LEMMA EnrollGives ==
    ASSUME TrustInvariant, NEW h \in Handlers, NEW p \in Processes, Enroll(h, p)
    PROVE  LET x == NameOf[handler[h].machine]
               m == handler[h].machine
           IN /\ m \in Machines /\ x \in Names /\ NameOf' = NameOf
              /\ devices[x] = Nothing
              /\ devices'[x] # Nothing /\ devices'[x].credential = issued + 1
              /\ \A y \in Names \ {x} : devices'[y] = devices[y]
              /\ config' = config
              /\ \A n \in Machines \ {m} : memory'[n] = memory[n]
              /\ \/ memory'[m] = memory[m]
                 \/ /\ memory'[m].credential = issued + 1
                    /\ memory'[m].keys = ActiveKeys(version[p])
<1> DEFINE r == handler[h]
           x == NameOf[r.machine]
           row == [active |-> TRUE, credential |-> issued + 1, rotated |-> FALSE,
                   via |-> r.way]
           file == [credential |-> issued + 1, keys |-> ActiveKeys(version[p])]
<1>1. r \in Enrolling /\ r.machine \in Machines /\ x \in Names /\ r.way \in Ways
  BY RowKinds DEF TrustInvariant, TypeOK, Enroll, Enrolling
<1>2. row \in DeviceRows
  <2>1. issued + 1 \in Credentials
    BY BoundsAssumption DEF TrustInvariant, TypeOK, Enroll, Credentials
  <2> QED BY <1>1, <2>1 DEF DeviceRows
<1>3. row # Nothing
  BY <1>2, Distinct
<1>4. /\ devices[x] = Nothing /\ devices'[x] = row
      /\ \A y \in Names \ {x} : devices'[y] = devices[y]
  BY <1>1 DEF TrustInvariant, TypeOK, Enroll
<1>5. CASE r.heard
  <2>1. /\ memory'[r.machine] = file
        /\ \A n \in Machines \ {r.machine} : memory'[n] = memory[n]
    BY <1>1, <1>5 DEF TrustInvariant, TypeOK, Enroll
  <2> QED BY <1>1, <1>3, <1>4, <2>1 DEF Enroll
<1>6. CASE ~r.heard
  BY <1>1, <1>3, <1>4, <1>6 DEF Enroll
<1> QED BY <1>5, <1>6

(* Credentials are handed out once, and to one machine of a name.          *)
LEMMA OneMachineStep ==
    ASSUME TrustInvariant, TypeOK', CredentialsIssued', HeldCredentialExplained', [Next]_vars
    PROVE  OneMachinePerDevice'
<1>1. ASSUME NEW h \in Handlers, NEW p \in Processes, Enroll(h, p) PROVE OneMachinePerDevice'
  <2> DEFINE x == NameOf[handler[h].machine]
  <2>1. \A y \in Names : devices[y] # Nothing =>
            devices[y].credential \in Nat /\ devices[y].credential <= issued
    BY RowKinds DEF TrustInvariant, CredentialsIssued, DeviceRows, Credentials
  <2>2. issued \in Nat
    BY BoundsAssumption DEF TrustInvariant, TypeOK
  <2>3. \A y, z \in Names :
            devices'[y] # Nothing /\ devices'[z] # Nothing
                /\ devices'[y].credential = devices'[z].credential => y = z
    BY <1>1, <2>1, <2>2, EnrollGives DEF TrustInvariant, OneMachinePerDevice
  <2>4. \A n \in Machines : Holds(n) => NameOf[n] # x
    BY <1>1, EnrollGives DEF TrustInvariant, HeldCredentialExplained, Holds, Known
  <2>5. \A n \in Machines : Holds(n)' => Holds(n) \/ n = handler[h].machine
    BY <1>1, EnrollGives DEF Holds
  <2> QED BY <1>1, <2>3, <2>4, <2>5, EnrollGives DEF TrustInvariant, OneMachinePerDevice
<1>2. ASSUME Kept PROVE \A m, n \in Machines :
                            Holds(m)' /\ Holds(n)' /\ NameOf'[m] = NameOf'[n] => m = n
  BY <1>2 DEF TrustInvariant, OneMachinePerDevice, Holds, Kept
<1>3. ASSUME NEW h \in Handlers, WriteCredential(h)
      PROVE  \A x, y \in Names :
                devices'[x] # Nothing /\ devices'[y] # Nothing
                    /\ devices'[x].credential = devices'[y].credential => x = y
  <2> DEFINE x == handler[h].name
  <2>1. issued \in Nat /\ issued + 1 \in Credentials
    BY <1>3, BoundsAssumption DEF TrustInvariant, TypeOK, WriteCredential, Credentials
  <2>2. x \in Names /\ devices[x] \in DeviceRows
    BY <1>3, RowKinds DEF TrustInvariant, WriteCredential, HandlersAgree, Rekeying
  <2>3. /\ devices'[x].credential = issued + 1
        /\ \A y \in Names \ {x} : devices'[y] = devices[y]
    BY <1>3, <2>1, <2>2, Rewrites DEF TrustInvariant, TypeOK, WriteCredential
  <2>4. \A y \in Names : devices[y] # Nothing =>
            devices[y].credential \in Nat /\ devices[y].credential <= issued
    BY RowKinds DEF TrustInvariant, CredentialsIssued, DeviceRows, Credentials
  <2> QED BY <2>1, <2>2, <2>3, <2>4 DEF TrustInvariant, OneMachinePerDevice
<1>4. ASSUME NEW x \in Names, RevokeDevice(x)
      PROVE  \A y, z \in Names :
                devices'[y] # Nothing /\ devices'[z] # Nothing
                    /\ devices'[y].credential = devices'[z].credential => y = z
  <2>1. devices[x] \in DeviceRows
    BY <1>4, RowKinds DEF TrustInvariant, RevokeDevice
  <2>2. /\ devices'[x].credential = devices[x].credential
        /\ \A y \in Names \ {x} : devices'[y] = devices[y]
    BY <1>4, <2>1, Rewrites DEF TrustInvariant, TypeOK, RevokeDevice
  <2> QED BY <1>4, <2>2 DEF TrustInvariant, OneMachinePerDevice, RevokeDevice
<1>5. \/ \E h \in Handlers, p \in Processes : Enroll(h, p)
      \/ \E h \in Handlers : WriteCredential(h)
      \/ \E x \in Names : RevokeDevice(x)
      \/ devices' = devices
  BY DEF Next, AgentNext, HandlerNext, AdminNext, AskToEnroll, Save, SaveFails, Restart, Crash,
     MissKeys, EndCycle, RefreshKeys, RefreshUnsaved, ClaimJob, HoldToken, RefuseEnrollment,
     BeginRotation, BeginRenewal, Expire, RevokeToken, Deploy, vars, serverVars
<1>6. CASE devices' = devices
  BY <1>6, <1>1, <1>2, KeptStep DEF TrustInvariant, OneMachinePerDevice
<1> QED BY <1>1, <1>2, <1>3, <1>4, <1>5, <1>6, KeptStep DEF OneMachinePerDevice

(* A credential that is not the server's was the server's until a rotation.*)
LEMMA HeldStep ==
    ASSUME TrustInvariant, TypeOK', [Next]_vars
    PROVE  HeldCredentialExplained'
<1>1. ASSUME NEW h \in Handlers, NEW p \in Processes, Enroll(h, p)
      PROVE  HeldCredentialExplained'
  <2>1. \A n \in Machines : Holds(n) => NameOf[n] # NameOf[handler[h].machine]
    BY <1>1, EnrollGives DEF TrustInvariant, HeldCredentialExplained, Holds, Known
  <2>2. ASSUME NEW n \in Machines, NEW c, c \in {memory'[n], config'[n]} \ {Nothing}
        PROVE  /\ devices'[NameOf'[n]] # Nothing
               /\ ~devices'[NameOf'[n]].rotated =>
                    c.credential = devices'[NameOf'[n]].credential
    <3>1. CASE c \in {memory[n], config[n]}
      <4>1. Holds(n) /\ NameOf[n] \in Names
        BY <2>2, <3>1 DEF Holds, TrustInvariant, TypeOK
      <4>2. devices'[NameOf[n]] = devices[NameOf[n]] /\ NameOf' = NameOf
        BY <1>1, <2>1, <4>1, EnrollGives
      <4> QED BY <2>2, <3>1, <4>2 DEF TrustInvariant, HeldCredentialExplained, Known
    <3>2. CASE c \notin {memory[n], config[n]}
      BY <1>1, <2>2, <3>2, EnrollGives
    <3> QED BY <3>1, <3>2
  <2> QED BY <2>2 DEF HeldCredentialExplained, Known
<1>2. CASE Kept
  <2>1. ASSUME NEW n \in Machines, NEW c, c \in {memory'[n], config'[n]} \ {Nothing}
        PROVE  /\ devices'[NameOf'[n]] # Nothing
               /\ ~devices'[NameOf'[n]].rotated =>
                    c.credential = devices'[NameOf'[n]].credential
    <3>1. PICK d \in {memory[n], config[n]} \ {Nothing} : c.credential = d.credential
      BY <1>2, <2>1 DEF Kept, Carried
    <3>2. NameOf' = NameOf /\ NameOf[n] \in Names
      BY <1>2 DEF Kept, TrustInvariant, TypeOK
    <3> QED BY <3>1, <3>2, OnwardStep DEF TrustInvariant, HeldCredentialExplained, Known, Onward
  <2> QED BY <2>1 DEF HeldCredentialExplained, Known
<1> QED BY <1>1, <1>2, KeptStep

(* The keys a process answers with cover what is in service.               *)
Covers(K, ver) ==
    \A k \in K : /\ \E p \in Processes : k <= ver[p]
                 /\ \A p \in Processes : ver[p] <= k => ver[p] \in K

LEMMA ActiveKeysCover ==
    ASSUME TrustInvariant, NEW p \in Processes
    PROVE  Covers(ActiveKeys(version[p]), version)
BY WindowAssumption, BoundsAssumption
   DEF TrustInvariant, TypeOK, KeysCoverService, Covers, ActiveKeys, Versions

LEMMA DeployCovers ==
    ASSUME TrustInvariant, NEW p \in Processes, Deploy(p), NEW K \in SUBSET Versions,
           Covers(K, version)
    PROVE  Covers(K, version')
<1>1. /\ version \in [Processes -> Versions] /\ version'[p] = version[p] + 1
      /\ \A q \in Processes \ {p} : version'[q] = version[q]
      /\ \A q \in Processes : version[p] <= version[q] /\ version[q] <= version[p] + 1
  BY DEF TrustInvariant, TypeOK, KeysCoverService, Deploy
<1>2. \A q \in Processes : version[q] \in Int
  BY <1>1, BoundsAssumption DEF Versions
<1>3. ASSUME NEW k \in K PROVE \E q \in Processes : k <= version'[q]
  <2>1. PICK q \in Processes : k <= version[q]
    BY DEF Covers
  <2>2. k \in Int
    BY DEF Versions
  <2> QED BY <1>1, <1>2, <2>1, <2>2
<1>4. ASSUME NEW k \in K, NEW q \in Processes, version'[q] <= k PROVE version'[q] \in K
  <2>1. CASE q # p
    BY <1>1, <1>4, <2>1 DEF Covers
  <2>2. CASE q = p
    <3>1. PICK s \in Processes : k <= version[s]
      BY DEF Covers
    <3>2. k \in Int
      BY DEF Versions
    <3>3. k = version[p] + 1
      BY <1>1, <1>2, <1>4, <2>2, <3>1, <3>2
    <3> QED BY <1>1, <2>2, <3>3
  <2> QED BY <2>1, <2>2
<1> QED BY <1>3, <1>4 DEF Covers

LEMMA KeysStep ==
    ASSUME TrustInvariant, TypeOK', [Next]_vars
    PROVE  KeysCoverService'
<1>1. /\ \A m \in Machines : memory[m] # Nothing =>
            memory[m].keys \in SUBSET Versions /\ Covers(memory[m].keys, version)
      /\ \A m \in Machines : config[m] # Nothing =>
            config[m].keys \in SUBSET Versions /\ Covers(config[m].keys, version)
  BY RowKinds DEF TrustInvariant, KeysCoverService, Covers, Configs
<1>2. \A K, L \in SUBSET Versions : Covers(K, version) /\ Covers(L, version) =>
            Covers(K \cup L, version)
  BY DEF Covers
<1>3. ASSUME NEW n \in Machines, NEW c, c \in {memory'[n], config'[n]} \ {Nothing}
      PROVE  c.keys \in SUBSET Versions /\ Covers(c.keys, version)
  <2>1. CASE Kept
    <3>1. PICK d \in {memory[n], config[n]} \ {Nothing} : Carried(c, d)
      BY <1>3, <2>1 DEF Kept
    <3>2. d.keys \in SUBSET Versions /\ Covers(d.keys, version)
      BY <1>1, <3>1
    <3> QED BY <1>2, <3>1, <3>2, ActiveKeysCover, KeyTypes DEF Carried, TrustInvariant, TypeOK
  <2>2. ASSUME NEW h \in Handlers, NEW p \in Processes, Enroll(h, p)
        PROVE  c.keys \in SUBSET Versions /\ Covers(c.keys, version)
    <3>1. CASE c \in {memory[n], config[n]}
      BY <1>1, <1>3, <3>1
    <3>2. CASE c \notin {memory[n], config[n]}
      <4>1. c.keys = ActiveKeys(version[p])
        BY <1>3, <2>2, <3>2, EnrollGives
      <4> QED BY <4>1, ActiveKeysCover, KeyTypes DEF TrustInvariant, TypeOK
    <3> QED BY <3>1, <3>2
  <2> QED BY <2>1, <2>2, KeptStep
<1>4. ASSUME NEW p \in Processes, Deploy(p) PROVE KeysCoverService'
  <2>1. \A q, s \in Processes : version'[q] <= version'[s] + 1
    BY <1>4, BoundsAssumption DEF TrustInvariant, TypeOK, KeysCoverService, Deploy, Versions
  <2> QED BY <1>3, <1>4, <2>1, DeployCovers DEF KeysCoverService, Covers
<1>5. (\E p \in Processes : Deploy(p)) \/ version' = version
  BY DEF Next, AgentNext, HandlerNext, AdminNext, AskToEnroll, Save, SaveFails, Restart, Crash,
     MissKeys, EndCycle, RefreshKeys, RefreshUnsaved, ClaimJob, HoldToken, RefuseEnrollment, Enroll,
     WriteCredential, BeginRotation, BeginRenewal, Expire, RevokeToken, RevokeDevice,
     vars, serverVars
<1>6. CASE version' = version
  BY <1>3, <1>6 DEF TrustInvariant, KeysCoverService, Covers
<1> QED BY <1>4, <1>5, <1>6

LEMMA TrustInit == Init => TrustInvariant
<1> SUFFICES ASSUME Init PROVE TrustInvariant
  OBVIOUS
<1>1. \A h \in Handlers : handler[h].work = "none"
  BY DEF Init, Free
<1>2. TypeOK
  BY NamingsAssumption, BoundsAssumption
     DEF Init, TypeOK, FreshToken, TokenRows, Versions, Stages
<1>3. TokenSpentOnce
  BY Distinct DEF Init, TokenSpentOnce, FreshToken
<1>4. HandlersAgree
  BY <1>1 DEF HandlersAgree
<1>5. WaitersAgree
  BY <1>1 DEF Init, WaitersAgree
<1>6. OneMachinePerDevice /\ CredentialsIssued
  BY DEF Init, OneMachinePerDevice, CredentialsIssued, Holds
<1>7. HeldCredentialExplained
  BY DEF Init, HeldCredentialExplained
<1>8. KeysCoverService
  BY DEF Init, KeysCoverService
<1> QED BY <1>2, <1>3, <1>4, <1>5, <1>6, <1>7, <1>8 DEF TrustInvariant

(* Everything above is inductive, for any number of machines, tokens,      *)
(* requests and processes, and any window of at least one version.         *)
THEOREM TrustHolds == Spec => []TrustInvariant
<1>1. TrustInvariant /\ [Next]_vars => TrustInvariant'
  <2> SUFFICES ASSUME TrustInvariant, [Next]_vars PROVE TrustInvariant'
    OBVIOUS
  <2>1. TypeOK' /\ CredentialsIssued' /\ HeldCredentialExplained'
    BY TypeStep, CredentialsStep, HeldStep
  <2> QED BY <2>1, TokensStep, HandlersStep, WaitersStep, OneMachineStep, KeysStep
          DEF TrustInvariant
<1> QED BY TrustInit, <1>1, PTL DEF Spec

(* A token enrolls one device, however the requests that carry it race.    *)
THEOREM TokensAreSpentOnce == Spec => []TokenSpentOnce
<1>1. TrustInvariant => TokenSpentOnce
  BY DEF TrustInvariant
<1> QED BY <1>1, TrustHolds, PTL

(* No two machines hold credentials of one device.                         *)
THEOREM DevicesAreNotShared == Spec => []OneMachinePerDevice
<1>1. TrustInvariant => OneMachinePerDevice
  BY DEF TrustInvariant
<1> QED BY <1>1, TrustHolds, PTL

(* A credential that went stale was rotated.                               *)
THEOREM StaleCredentialsWereRotated == Spec => []HeldCredentialExplained
<1>1. TrustInvariant => HeldCredentialExplained
  BY DEF TrustInvariant
<1> QED BY <1>1, TrustHolds, PTL

(* Nothing that is revoked comes back or is served.                        *)
THEOREM RevokedStaysDead == Spec => RevokedIsDead
<1> DEFINE Dead ==
      /\ \A t \in Tokens : tokens[t].revoked =>
            tokens'[t].revoked /\ tokens'[t].usedBy = tokens[t].usedBy
      /\ \A m \in Machines : Revoked(NameOf[m]) =>
            /\ Revoked(NameOf[m])'
            /\ refused'[m] = refused[m]
            /\ config[m] # Nothing => config'[m] = config[m]
            /\ memory[m] # Nothing => memory'[m] \in {memory[m], Nothing}
<1>1. TrustInvariant /\ [Next]_vars => [Dead]_vars
  <2> SUFFICES ASSUME TrustInvariant, [Next]_vars PROVE Dead
    OBVIOUS
  <2>1. ASSUME NEW t \in Tokens, tokens[t].revoked
        PROVE  tokens'[t].revoked /\ tokens'[t].usedBy = tokens[t].usedBy
    <3>1. ASSUME NEW h \in Handlers, NEW p \in Processes, Enroll(h, p)
          PROVE  tokens'[t] = tokens[t]
      BY <2>1, <3>1 DEF TrustInvariant, TypeOK, HandlersAgree, Usable, Enroll
    <3>2. ASSUME NEW s \in Tokens, Expire(s) \/ RevokeToken(s)
          PROVE  tokens'[t].revoked /\ tokens'[t].usedBy = tokens[t].usedBy
      <4>1. tokens \in [Tokens -> TokenRows]
        BY DEF TrustInvariant, TypeOK
      <4>2. CASE Expire(s)
        <5>1. s # t
          BY <2>1, <4>2 DEF Expire, Usable
        <5> QED BY <2>1, <4>1, <4>2, <5>1 DEF Expire
      <4>3. CASE RevokeToken(s)
        <5>1. s # t
          BY <2>1, <4>3 DEF RevokeToken
        <5> QED BY <2>1, <4>1, <4>3, <5>1 DEF RevokeToken
      <4> QED BY <3>2, <4>2, <4>3
    <3>3. \/ \E h \in Handlers, p \in Processes : Enroll(h, p)
          \/ \E s \in Tokens : Expire(s) \/ RevokeToken(s)
          \/ tokens' = tokens
      BY DEF Next, AgentNext, HandlerNext, AdminNext, AskToEnroll, Save, SaveFails, Restart, Crash,
         MissKeys, EndCycle, RefreshKeys, RefreshUnsaved, ClaimJob, HoldToken, RefuseEnrollment,
         WriteCredential, BeginRotation, BeginRenewal, RevokeDevice, Deploy, vars,
         serverVars
    <3> QED BY <2>1, <3>1, <3>2, <3>3
  <2>2. ASSUME NEW m \in Machines, Revoked(NameOf[m])
        PROVE  /\ Revoked(NameOf[m])'
               /\ refused'[m] = refused[m]
               /\ config[m] # Nothing => config'[m] = config[m]
               /\ memory[m] # Nothing => memory'[m] \in {memory[m], Nothing}
    <3> DEFINE Calm == /\ refused'[m] = refused[m]
                       /\ config[m] # Nothing => config'[m] = config[m]
                       /\ memory[m] # Nothing => memory'[m] \in {memory[m], Nothing}
    <3>1. NameOf[m] \in Names /\ NameOf' = NameOf
      BY KeptStep, EnrollGives DEF Kept, TrustInvariant, TypeOK
    <3>2. Revoked(NameOf[m])'
      BY <2>2, <3>1, OnwardStep DEF Revoked, Onward
    <3>3. ASSUME NEW n \in Machines, Authenticated(n, memory[n]) PROVE n # m
      BY <2>2, <3>3 DEF Revoked, Authenticated
    <3>4. \/ \E n \in Machines : Save(n) \/ SaveFails(n) \/ Crash(n) \/ Restart(n)
          \/ \E n \in Machines, p \in Processes :
                RefreshKeys(n, p) \/ RefreshUnsaved(n, p) \/ ClaimJob(n, p)
          \/ \E h \in Handlers, p \in Processes : Enroll(h, p)
          \/ config' = config /\ refused' = refused /\ memory' = memory
      BY DEF Next, AgentNext, HandlerNext, AdminNext, AskToEnroll, MissKeys, EndCycle,
         HoldToken, RefuseEnrollment, WriteCredential, BeginRotation, BeginRenewal,
         Expire, RevokeToken, RevokeDevice, Deploy, vars, serverVars, agentVars
    <3>5. ASSUME NEW n \in Machines, Save(n) \/ SaveFails(n) \/ Crash(n) \/ Restart(n)
          PROVE  Calm
      BY <3>5 DEF Save, SaveFails, Crash, Restart, TrustInvariant, TypeOK, WaitersAgree
    <3>6. ASSUME NEW n \in Machines, NEW p \in Processes,
                 RefreshKeys(n, p) \/ RefreshUnsaved(n, p) \/ ClaimJob(n, p)
          PROVE  Calm
      <4>1. n # m
        BY <3>3, <3>6 DEF RefreshKeys, RefreshUnsaved, Refreshing, ClaimJob
      <4>2. CASE ClaimJob(n, p)
        BY <4>1, <4>2 DEF ClaimJob, TrustInvariant, TypeOK
      <4>3. CASE RefreshKeys(n, p) \/ RefreshUnsaved(n, p)
        <5>1. refused' = refused
          BY <4>3 DEF RefreshKeys, RefreshUnsaved
        <5> QED BY <4>1, <4>3, <5>1, RefreshGives DEF TrustInvariant
      <4> QED BY <3>6, <4>2, <4>3
    <3>7. ASSUME NEW h \in Handlers, NEW p \in Processes, Enroll(h, p) PROVE Calm
      <4>1. refused' = refused
        BY <3>7 DEF Enroll
      <4>2. m = handler[h].machine /\ handler[h].heard => memory[m] = Nothing
        BY <3>7 DEF Enroll, TrustInvariant, WaitersAgree
      <4>3. memory' = memory \/ handler[h].heard
        BY <3>7 DEF Enroll
      <4> QED BY <3>7, <4>1, <4>2, <4>3, EnrollGives
    <3> QED BY <3>2, <3>4, <3>5, <3>6, <3>7
  <2> QED BY <2>1, <2>2
<1> QED BY TrustHolds, <1>1, PTL DEF Spec, RevokedIsDead

(* An agent refuses a signature only when it is newer than all it has.     *)
THEOREM OnlyNewerIsRefused == Spec => RefusesOnlyNewer
<1> DEFINE Newer ==
      \A m \in Machines : refused'[m] # refused[m] /\ refused'[m] # 0 =>
            \A k \in memory[m].keys : k < refused'[m]
<1>1. TrustInvariant /\ [Next]_vars => [Newer]_vars
  <2> SUFFICES ASSUME TrustInvariant, [Next]_vars PROVE Newer
    OBVIOUS
  <2>1. (\E m \in Machines, p \in Processes : ClaimJob(m, p)) \/ refused' = refused
    BY DEF Next, AgentNext, HandlerNext, AdminNext, AskToEnroll, Save, SaveFails, Restart, Crash,
       MissKeys, EndCycle, RefreshKeys, RefreshUnsaved, HoldToken, RefuseEnrollment, Enroll,
       WriteCredential, BeginRotation, BeginRenewal, Expire, RevokeToken, RevokeDevice,
       Deploy, vars, agentVars
  <2>2. ASSUME NEW m \in Machines, NEW p \in Processes, ClaimJob(m, p) PROVE Newer
    <3>1. memory[m] # Nothing /\ memory[m].keys \in SUBSET Versions
      BY <2>2, RowKinds DEF TrustInvariant, WaitersAgree, ClaimJob, Configs
    <3>2. \A n \in Machines \ {m} : refused'[n] = refused[n]
      BY <2>2 DEF ClaimJob, TrustInvariant, TypeOK
    <3>3. refused'[m] = IF version[p] \in memory[m].keys THEN 0 ELSE version[p]
      BY <2>2 DEF ClaimJob, TrustInvariant, TypeOK
    <3>4. \A k \in memory[m].keys : version[p] <= k => version[p] \in memory[m].keys
      BY <3>1 DEF TrustInvariant, KeysCoverService
    <3>5. version[p] \in Int /\ \A k \in memory[m].keys : k \in Int
      BY <3>1 DEF TrustInvariant, TypeOK, Versions
    <3> QED BY <3>2, <3>3, <3>4, <3>5
  <2> QED BY <2>1, <2>2
<1> QED BY TrustHolds, <1>1, PTL DEF Spec, RefusesOnlyNewer

-----------------------------------------------------------------------------
(* Refinement of TrustPromise.                                             *)

(* What a machine has is a configuration, and it has one when it is        *)
(* enrolled.                                                               *)
LEMMA OwnTypes ==
    ASSUME TrustInvariant, NEW m \in Machines
    PROVE  /\ Own(m) # Nothing => Own(m) \in Configs /\ Own(m).credential \in Int
           /\ Own(m) \in {memory[m], config[m]}
           /\ Own(m) = Nothing <=> memory[m] = Nothing /\ config[m] = Nothing
BY RowKinds DEF TrustInvariant, Own, Configs, Credentials

LEMMA OwnKept ==
    ASSUME NEW m, memory'[m] = memory[m], config'[m] = config[m]
    PROVE  Own(m)' = Own(m)
BY DEF Own

(* Credentials only grow in number.                                        *)
LEMMA IssuedGrows ==
    ASSUME TrustInvariant, [Next]_vars
    PROVE  issued \in Int /\ issued' \in Int /\ issued <= issued'
<1>1. issued \in Int
  BY BoundsAssumption DEF TrustInvariant, TypeOK
<1>2. \/ issued' = issued + 1
      \/ issued' = issued
  BY DEF Next, AgentNext, HandlerNext, AdminNext, AskToEnroll, Save, SaveFails, Restart, Crash,
     MissKeys, EndCycle, RefreshKeys, RefreshUnsaved, ClaimJob, HoldToken, RefuseEnrollment, Enroll,
     WriteCredential, BeginRotation, BeginRenewal, Expire, RevokeToken, RevokeDevice,
     Deploy, vars, serverVars
<1> QED BY <1>1, <1>2

(* What a machine has in its process and in its file is of one enrollment. *)
LEMMA OneCredential ==
    ASSUME TrustInvariant, NEW m \in Machines
    PROVE  \A c \in {memory[m], config[m]} \ {Nothing} :
                Own(m) # Nothing /\ c.credential = Own(m).credential
BY DEF TrustInvariant, WaitersAgree, Own

LEMMA OwnIssuedStep ==
    ASSUME TrustInvariant, TrustInvariant', OwnIssued, [Next]_vars
    PROVE  OwnIssued'
<1> SUFFICES ASSUME NEW m \in Machines, Own(m)' # Nothing
             PROVE  Own(m)'.credential <= issued'
  BY DEF OwnIssued
<1>1. issued \in Int /\ issued' \in Int /\ issued <= issued'
  BY IssuedGrows
<1>2. \A c : c \in {memory[m], config[m]} \ {Nothing} =>
         c.credential \in Int /\ c.credential <= issued
  BY OneCredential, OwnTypes DEF OwnIssued
<1>3. Own(m)' \in {memory'[m], config'[m]}
  BY DEF Own
<1>4. CASE Kept
  <2>1. PICK d \in {memory[m], config[m]} \ {Nothing} : Own(m)'.credential = d.credential
    BY <1>3, <1>4 DEF Kept, Carried
  <2> QED BY <1>1, <1>2, <2>1
<1>5. ASSUME NEW h \in Handlers, NEW p \in Processes, Enroll(h, p)
      PROVE  Own(m)'.credential <= issued'
  <2>1. issued' = issued + 1
    BY <1>5 DEF Enroll
  <2>2. \/ Own(m)' \in {memory[m], config[m]}
        \/ Own(m)'.credential = issued + 1
    BY <1>3, <1>5, EnrollGives
  <2> QED BY <1>1, <1>2, <2>1, <2>2
<1> QED BY <1>4, <1>5, KeptStep

(* No machine has a credential before it is issued, so what is issued next *)
(* is new to all of them.                                                  *)
THEOREM IssuedAlways == Spec => [](TrustInvariant /\ OwnIssued)
<1>1. Init => OwnIssued
  BY DEF Init, OwnIssued, Own
<1>2. TrustInvariant /\ TrustInvariant' /\ OwnIssued /\ [Next]_vars => OwnIssued'
  BY OwnIssuedStep
<1> QED BY TrustHolds, <1>1, <1>2, PTL DEF Spec

(* A process publishes its own version and the one before, and none newer. *)
LEMMA KeysPublished ==
    ASSUME TrustInvariant, NEW p \in Processes
    PROVE  ActiveKeys(version[p]) \in Promise!Published(version[p])
BY WindowAssumption, BoundsAssumption
   DEF TrustInvariant, TypeOK, Promise!Published, ActiveKeys, Versions

(* The next credential is nobody's.                                        *)
LEMMA NextIsFresh ==
    ASSUME TrustInvariant, OwnIssued, NEW c \in Credentials, c = issued + 1
    PROVE  Promise!Fresh(c)
<1>1. issued \in Int
  BY BoundsAssumption DEF TrustInvariant, TypeOK
<1>2. ASSUME NEW x \in Names, Device(x) # Nothing PROVE Device(x).credential # c
  <2>1. devices[x] # Nothing /\ Device(x).credential = devices[x].credential
    BY <1>2 DEF Device
  <2>2. devices[x].credential \in Int /\ devices[x].credential <= issued
    BY <2>1, RowKinds DEF TrustInvariant, CredentialsIssued, DeviceRows, Credentials
  <2> QED BY <1>1, <2>1, <2>2
<1>3. ASSUME NEW m \in Machines, Own(m) # Nothing PROVE Own(m).credential # c
  BY <1>1, <1>3, OwnTypes DEF OwnIssued
<1> QED BY <1>2, <1>3 DEF Promise!Fresh

LEMMA DeviceKinds ==
    ASSUME TrustInvariant, NEW x \in Names
    PROVE  Device(x) = Nothing <=> devices[x] = Nothing
<1>1. ASSUME devices[x] # Nothing PROVE Device(x) # Nothing
  <2>1. devices[x] \in DeviceRows
    BY <1>1, RowKinds DEF TrustInvariant
  <2>2. Device(x) \in [active : BOOLEAN, credential : 1..MaxIssued,
                       via : Tokens \cup {ByUser}]
    BY <1>1, <2>1 DEF Device, DeviceRows, Credentials, Ways
  <2> QED BY <2>2, NothingAssumption
<1> QED BY <1>1 DEF Device

(* What leaves rows, files and memories alone does not show.               *)
LEMMA DeviceKept ==
    ASSUME UNCHANGED devices
    PROVE  [x \in Names |-> Device(x)]' = [x \in Names |-> Device(x)]
BY DEF Device

LEMMA TrustStutters ==
    ASSUME UNCHANGED <<NameOf, devices, version, refused>>,
           \A t \in Tokens : /\ tokens'[t].usedBy = tokens[t].usedBy
                             /\ tokens'[t].revoked <=> tokens[t].revoked,
           config' = config, \A m \in Machines : Own(m)' = Own(m)
    PROVE  UNCHANGED Promise!promiseVars
<1>1. /\ [t \in Tokens |-> tokens[t].usedBy]' = [t \in Tokens |-> tokens[t].usedBy]
      /\ {t \in Tokens : tokens[t].revoked}' = {t \in Tokens : tokens[t].revoked}
  OBVIOUS
<1>2. [m \in Machines |-> Own(m)]' = [m \in Machines |-> Own(m)]
  OBVIOUS
<1> QED BY <1>1, <1>2, DeviceKept DEF Promise!promiseVars

(* Requests begin, wait, are refused and are given up without a trace.     *)
LEMMA RequestsStutter ==
    ASSUME NEW h \in Handlers,
           \/ \E m \in Machines, w \in Ways : AskToEnroll(m, w, h)
           \/ HoldToken(h) \/ RefuseEnrollment(h)
           \/ \E x \in Names : BeginRotation(h, x)
           \/ \E m \in Machines : BeginRenewal(h, m)
    PROVE  UNCHANGED Promise!promiseVars
<1>1. UNCHANGED <<tokens, devices, version, NameOf, memory, config, refused>>
  BY DEF AskToEnroll, HoldToken, RefuseEnrollment, BeginRotation, BeginRenewal,
     serverVars, agentVars
<1> QED BY <1>1, OwnKept, TrustStutters

(* What an enrollment commits is a registration (enroll_device_with_token, *)
(* enroll_device).                                                         *)
LEMMA EnrollRegisters ==
    ASSUME TrustInvariant, OwnIssued, NEW h \in Handlers, NEW p \in Processes,
           Enroll(h, p)
    PROVE  \E m \in Machines, w \in Ways, c \in Credentials : Promise!Register(m, w, c)
<1> DEFINE r == handler[h]
<1>1. TypeOK /\ HandlersAgree /\ WaitersAgree /\ r \in Enrolling
  BY RowKinds DEF TrustInvariant, Enroll
<1>2. issued + 1 \in Credentials
  BY <1>1, BoundsAssumption DEF TypeOK, Enroll, Credentials
<1>3. PICK m \in Machines, w \in Ways, c \in Credentials :
         m = r.machine /\ w = r.way /\ c = issued + 1
  BY <1>1, <1>2 DEF Enrolling
<1>4. PICK x \in Names : x = NameOf[m]
  BY <1>1 DEF TypeOK
<1>5. Promise!Fresh(c)
  BY <1>2, <1>3, NextIsFresh
<1> DEFINE row == [active |-> TRUE, credential |-> c, rotated |-> FALSE, via |-> w]
           file == [credential |-> c, keys |-> ActiveKeys(version[p])]
<1>6. /\ devices[x] = Nothing
      /\ devices'[x] = row /\ row # Nothing
      /\ \A y \in Names \ {x} : devices'[y] = devices[y]
  <2>1. row \in DeviceRows
    BY DEF DeviceRows
  <2>2. row # Nothing
    BY <2>1, Distinct
  <2> QED BY <1>1, <1>3, <1>4, <2>2 DEF TypeOK, Enroll
<1>7. [y \in Names |-> Device(y)]' =
         [[y \in Names |-> Device(y)] EXCEPT
             ![x] = [active |-> TRUE, credential |-> c, via |-> w]]
  <2>1. Device(x)' = [active |-> TRUE, credential |-> c, via |-> w]
    BY <1>6 DEF Device
  <2>2. \A y \in Names \ {x} : Device(y)' = Device(y)
    BY <1>6 DEF Device
  <2> QED BY <2>1, <2>2
<1>8. w \in Tokens => tokens[w].usedBy = Nothing /\ ~tokens[w].revoked
  <2>1. w \in Tokens => r.holds
    BY <1>3, ByUserAssumption DEF Enroll
  <2> QED BY <1>1, <1>3, <2>1 DEF HandlersAgree, Usable, Enroll
<1>9. /\ [t \in Tokens |-> tokens[t].usedBy]' =
            IF w \in Tokens THEN [[t \in Tokens |-> tokens[t].usedBy] EXCEPT ![w] = x]
                            ELSE [t \in Tokens |-> tokens[t].usedBy]
      /\ {t \in Tokens : tokens[t].revoked}' = {t \in Tokens : tokens[t].revoked}
  <2>1. CASE w = ByUser
    <3>1. tokens' = tokens /\ w \notin Tokens
      BY <1>3, <2>1, ByUserAssumption DEF Enroll
    <3> QED BY <3>1
  <2>2. CASE w # ByUser
    <3>1. w \in Tokens /\ tokens[w] \in TokenRows
      BY <1>1, <2>2 DEF Ways, TypeOK
    <3>2. tokens' = [tokens EXCEPT ![w] = Spent(@, x)]
      BY <1>3, <1>4, <2>2 DEF Enroll
    <3>3. Spent(tokens[w], x).usedBy = x /\ Spent(tokens[w], x).revoked = tokens[w].revoked
      BY <3>1 DEF Spent, TokenRows
    <3>4. /\ tokens'[w].usedBy = x /\ tokens'[w].revoked = tokens[w].revoked
          /\ \A t \in Tokens \ {w} : tokens'[t] = tokens[t]
      BY <1>1, <3>1, <3>2, <3>3 DEF TypeOK
    <3> QED BY <3>1, <3>4
  <2> QED BY <2>1, <2>2
<1>10. \/ /\ Own(m) = Nothing
          /\ \E q \in Processes : \E K \in Promise!Published(version[q]) :
                [n \in Machines |-> Own(n)]' =
                    [[n \in Machines |-> Own(n)] EXCEPT ![m] = [credential |-> c, keys |-> K]]
       \/ [n \in Machines |-> Own(n)]' = [n \in Machines |-> Own(n)]
  <2>1. CASE r.heard
    <3>1. memory[m] = Nothing /\ config[m] = Nothing
      BY <1>1, <1>3, <2>1 DEF WaitersAgree, Enroll
    <3>2. /\ memory'[m] = file /\ config' = config
          /\ \A n \in Machines \ {m} : memory'[n] = memory[n]
      BY <1>1, <1>3, <2>1 DEF TypeOK, Enroll
    <3>3. file # Nothing
      BY <1>1, KeyTypes, Distinct DEF TypeOK, Configs
    <3>4. Own(m) = Nothing /\ Own(m)' = file
      BY <3>1, <3>2, <3>3 DEF Own
    <3>5. \A n \in Machines \ {m} : Own(n)' = Own(n)
      BY <3>2 DEF Own
    <3>6. [n \in Machines |-> Own(n)]' = [[n \in Machines |-> Own(n)] EXCEPT ![m] = file]
      BY <3>4, <3>5
    <3>7. PICK K \in Promise!Published(version[p]) : K = ActiveKeys(version[p])
      BY KeysPublished
    <3> QED BY <3>4, <3>6, <3>7
  <2>2. CASE ~r.heard
    <3>1. UNCHANGED <<memory, config>>
      BY <2>2 DEF Enroll
    <3>2. \A n \in Machines : Own(n)' = Own(n)
      BY <3>1 DEF Own
    <3> QED BY <3>2
  <2> QED BY <2>1, <2>2
<1>11. UNCHANGED <<NameOf, version, config, refused>>
  BY DEF Enroll
<1>13. Device(x) = Nothing
  BY <1>6 DEF Device
<1>14. Promise!Register(m, w, c)
  BY <1>4, <1>5, <1>7, <1>8, <1>9, <1>10, <1>11, <1>13 DEF Promise!Register
<1> QED BY <1>14

(* A credential is written over the one the row had (rotate, renew).       *)
LEMMA WriteRekeys ==
    ASSUME TrustInvariant, OwnIssued, NEW h \in Handlers, WriteCredential(h)
    PROVE  \E x \in Names, c \in Credentials : Promise!Rekey(x, c)
<1>1. TypeOK /\ HandlersAgree /\ handler[h] \in Rekeying
  BY RowKinds DEF TrustInvariant, WriteCredential
<1>2. issued + 1 \in Credentials
  BY <1>1, BoundsAssumption DEF TypeOK, WriteCredential, Credentials
<1>3. PICK x \in Names, c \in Credentials : x = handler[h].name /\ c = issued + 1
  BY <1>1, <1>2 DEF Rekeying
<1>4. devices[x] # Nothing /\ devices[x] \in DeviceRows
  BY <1>1, <1>3, RowKinds DEF TrustInvariant, HandlersAgree, WriteCredential
<1>5. /\ devices'[x] = Rekeyed(devices[x], c)
      /\ \A y \in Names \ {x} : devices'[y] = devices[y]
  BY <1>1, <1>3 DEF TypeOK, WriteCredential
<1>6. Device(x)' = [Device(x) EXCEPT !.credential = c] /\ Device(x) # Nothing
  <2>1. /\ Rekeyed(devices[x], c).active = devices[x].active
        /\ Rekeyed(devices[x], c).via = devices[x].via
        /\ Rekeyed(devices[x], c).credential = c
        /\ Rekeyed(devices[x], c) # Nothing
    BY <1>4, Rewrites, Distinct
  <2> QED BY <1>4, <1>5, <2>1, DeviceKinds DEF Device
<1>7. \A y \in Names \ {x} : Device(y)' = Device(y)
  BY <1>5 DEF Device
<1>8. [y \in Names |-> Device(y)]' =
         [[y \in Names |-> Device(y)] EXCEPT ![x].credential = c]
  BY <1>6, <1>7
<1>9. UNCHANGED <<tokens, version, NameOf, memory, config, refused>>
  BY DEF WriteCredential, agentVars
<1>10. \A m \in Machines : Own(m)' = Own(m)
  BY <1>9 DEF Own
<1>11. /\ [m \in Machines |-> Own(m)]' = [m \in Machines |-> Own(m)]
       /\ [t \in Tokens |-> tokens[t].usedBy]' = [t \in Tokens |-> tokens[t].usedBy]
       /\ {t \in Tokens : tokens[t].revoked}' = {t \in Tokens : tokens[t].revoked}
  BY <1>9, <1>10
<1>12. Promise!Rekey(x, c)
  BY <1>2, <1>3, <1>6, <1>8, <1>9, <1>11, NextIsFresh DEF Promise!Rekey
<1> QED BY <1>12

(* Saving, crashing and restarting: a machine has the same before and      *)
(* after, or is back at what it has kept (AgentConfig.save, load).         *)
LEMMA FilePromised ==
    ASSUME TrustInvariant, NEW m \in Machines,
           Save(m) \/ SaveFails(m) \/ Crash(m) \/ Restart(m)
    PROVE  Promise!PromiseNext \/ UNCHANGED Promise!promiseVars
<1>1. TypeOK /\ WaitersAgree
  BY DEF TrustInvariant
<1>2. UNCHANGED <<tokens, devices, version, NameOf, refused>>
  BY DEF Save, SaveFails, Crash, Restart, serverVars
<1>3. /\ [x \in Names |-> Device(x)]' = [x \in Names |-> Device(x)]
      /\ [t \in Tokens |-> tokens[t].usedBy]' = [t \in Tokens |-> tokens[t].usedBy]
      /\ {t \in Tokens : tokens[t].revoked}' = {t \in Tokens : tokens[t].revoked}
  BY <1>2, DeviceKept
<1>4. \A n \in Machines \ {m} : memory'[n] = memory[n] /\ config'[n] = config[n]
  BY <1>1 DEF TypeOK, Save, SaveFails, Crash, Restart
<1>5. \A n \in Machines \ {m} : Own(n)' = Own(n)
  BY <1>4, OwnKept
<1>6. CASE Save(m)
  <2>1. memory[m] # Nothing /\ memory' = memory /\ config'[m] = memory[m]
    BY <1>1, <1>6 DEF TypeOK, WaitersAgree, Save
  <2>2. Own(m) = memory[m] /\ Own(m) # Nothing /\ Own(m)' = Own(m)
    BY <2>1 DEF Own
  <2>3. [n \in Machines |-> Own(n)]' = [n \in Machines |-> Own(n)]
    BY <1>5, <2>2
  <2>4. config' = [config EXCEPT ![m] = Own(m)]
    BY <1>6, <2>2 DEF Save
  <2>5. Promise!Keep(m)
    BY <1>2, <1>3, <2>2, <2>3, <2>4 DEF Promise!Keep
  <2> QED BY <2>5 DEF Promise!PromiseNext
<1>7. CASE (Crash(m) \/ SaveFails(m)) /\ memory'[m] = Nothing
  <2>1. config' = config
    BY <1>7 DEF Crash, SaveFails
  <2>2. Own(m)' = config[m]
    BY <1>7, <2>1 DEF Own
  <2>3. [n \in Machines |-> Own(n)]' = [[n \in Machines |-> Own(n)] EXCEPT ![m] = config[m]]
    BY <1>5, <2>2
  <2>4. Promise!Lose(m)
    BY <1>2, <1>3, <2>1, <2>3 DEF Promise!Lose
  <2> QED BY <2>4 DEF Promise!PromiseNext
<1>8. CASE (Crash(m) \/ SaveFails(m)) /\ memory'[m] # Nothing
  <2>1. memory' = memory /\ config' = config
    BY <1>1, <1>8 DEF TypeOK, Crash, SaveFails
  <2> QED BY <1>2, <2>1, OwnKept, TrustStutters
<1>9. CASE Restart(m)
  <2>1. memory[m] = Nothing /\ memory'[m] = config[m] /\ config' = config
    BY <1>1, <1>9 DEF TypeOK, WaitersAgree, Restart
  <2>2. Own(m)' = Own(m)
    BY <2>1 DEF Own
  <2> QED BY <1>2, <1>5, <2>1, <2>2, TrustStutters
<1> QED BY <1>6, <1>7, <1>8, <1>9

(* A machine whose cycle runs uses the credential in its memory.           *)
LEMMA CycleInService ==
    ASSUME TrustInvariant, NEW m \in Machines, stage[m] \in {"up", "fresh"},
           Authenticated(m, memory[m])
    PROVE  /\ Promise!InService(m)
           /\ Own(m) = memory[m] /\ memory[m] # Nothing
<1>1. memory[m] # Nothing /\ NameOf[m] \in Names
  BY DEF TrustInvariant, TypeOK, WaitersAgree
<1>2. Own(m) = memory[m]
  BY <1>1 DEF Own
<1>3. /\ Device(NameOf[m]) # Nothing
      /\ Device(NameOf[m]).active /\ Device(NameOf[m]).credential = memory[m].credential
  BY <1>1, DeviceKinds DEF Authenticated, Known, Device
<1> QED BY <1>1, <1>2, <1>3 DEF Promise!InService

LEMMA RefreshPins ==
    ASSUME TrustInvariant, NEW m \in Machines, NEW p \in Processes,
           RefreshKeys(m, p) \/ RefreshUnsaved(m, p)
    PROVE  Promise!Pin(m)
<1>1. TypeOK /\ WaitersAgree /\ Promise!InService(m) /\ Own(m) = memory[m]
  BY CycleInService DEF TrustInvariant, RefreshKeys, RefreshUnsaved, Refreshing
<1>2. PICK K \in Promise!Published(version[p]) : K = ActiveKeys(version[p])
  BY KeysPublished
<1>3. /\ memory'[m] # Nothing /\ memory'[m] = Merged(memory[m], K)
      /\ config' \in {config, [config EXCEPT ![m] = memory'[m]]}
      /\ \A n \in Machines \ {m} : memory'[n] = memory[n] /\ config'[n] = config[n]
  BY <1>1, <1>2, RefreshGives
<1>4. Own(m)' = memory'[m]
  BY <1>3 DEF Own
<1>5. Own(m)' = [Own(m) EXCEPT !.keys = @ \cup K]
  BY <1>1, <1>3, <1>4 DEF Merged
<1>6. \A n \in Machines \ {m} : Own(n)' = Own(n)
  BY <1>3, OwnKept
<1>7. [n \in Machines |-> Own(n)]' =
         [[n \in Machines |-> Own(n)] EXCEPT ![m].keys = @ \cup K]
  BY <1>5, <1>6
<1>8. config' \in {config, [config EXCEPT ![m] = [n \in Machines |-> Own(n)]'[m]]}
  BY <1>3, <1>4
<1>9. UNCHANGED <<tokens, devices, version, NameOf, refused>>
  BY DEF RefreshKeys, RefreshUnsaved, serverVars
<1>10. /\ [x \in Names |-> Device(x)]' = [x \in Names |-> Device(x)]
       /\ [t \in Tokens |-> tokens[t].usedBy]' = [t \in Tokens |-> tokens[t].usedBy]
       /\ {t \in Tokens : tokens[t].revoked}' = {t \in Tokens : tokens[t].revoked}
  BY <1>9, DeviceKept
<1> QED BY <1>1, <1>7, <1>8, <1>9, <1>10 DEF Promise!Pin

(* The version a process signs with is pinned, or newer than all that are. *)
LEMMA ClaimTakes ==
    ASSUME TrustInvariant, NEW m \in Machines, NEW p \in Processes, ClaimJob(m, p)
    PROVE  Promise!TakeJob(m, p)
<1>1. TypeOK /\ Promise!InService(m) /\ Own(m) = memory[m] /\ memory[m] # Nothing
      /\ memory[m] \in Configs
  BY CycleInService, RowKinds DEF TrustInvariant, ClaimJob
<1>2. \/ version[p] \in memory[m].keys
      \/ \A k \in memory[m].keys : k < version[p]
  <2>1. \A k \in memory[m].keys : version[p] <= k => version[p] \in memory[m].keys
    BY <1>1 DEF TrustInvariant, KeysCoverService
  <2>2. version[p] \in Int /\ \A k \in memory[m].keys : k \in Int
    BY <1>1 DEF TypeOK, Configs, Versions
  <2> QED BY <2>1, <2>2
<1>3. refused' = [refused EXCEPT ![m] = IF version[p] \in memory[m].keys THEN 0 ELSE version[p]]
  BY DEF ClaimJob
<1>4. \/ version[p] \in memory[m].keys /\ refused' = [refused EXCEPT ![m] = 0]
      \/ /\ \A k \in memory[m].keys : k < version[p]
         /\ refused' = [refused EXCEPT ![m] = version[p]]
  BY <1>2, <1>3
<1>5. UNCHANGED <<tokens, devices, version, NameOf, memory, config>>
  BY DEF ClaimJob, serverVars
<1>6. \A n \in Machines : Own(n)' = Own(n)
  BY <1>5, OwnKept
<1>7. /\ [n \in Machines |-> Own(n)]' = [n \in Machines |-> Own(n)]
      /\ [x \in Names |-> Device(x)]' = [x \in Names |-> Device(x)]
      /\ [t \in Tokens |-> tokens[t].usedBy]' = [t \in Tokens |-> tokens[t].usedBy]
      /\ {t \in Tokens : tokens[t].revoked}' = {t \in Tokens : tokens[t].revoked}
  BY <1>5, <1>6, DeviceKept
<1> QED BY <1>1, <1>4, <1>5, <1>7 DEF Promise!TakeJob

(* Administrators void tokens, retire devices and deploy versions; time    *)
(* alone promises nothing.                                                 *)
LEMMA AdminPromised ==
    ASSUME TrustInvariant, AdminNext
    PROVE  Promise!PromiseNext \/ UNCHANGED Promise!promiseVars
<1>1. TypeOK
  BY DEF TrustInvariant
<1>2. UNCHANGED <<NameOf, memory, config, refused>>
  BY DEF AdminNext, Expire, RevokeToken, RevokeDevice, Deploy, agentVars
<1>3. \A m \in Machines : Own(m)' = Own(m)
  BY <1>2, OwnKept
<1>4. /\ [m \in Machines |-> Own(m)]' = [m \in Machines |-> Own(m)]
  BY <1>2, <1>3
<1>5. ASSUME NEW t \in Tokens, Expire(t) PROVE UNCHANGED Promise!promiseVars
  <2>1. /\ tokens'[t].usedBy = tokens[t].usedBy
        /\ tokens'[t].revoked = tokens[t].revoked
        /\ \A s \in Tokens \ {t} : tokens'[s] = tokens[s]
        /\ UNCHANGED <<devices, version>>
    BY <1>1, <1>5 DEF TypeOK, TokenRows, Expire
  <2> QED BY <1>2, <1>3, <2>1, TrustStutters
<1>6. ASSUME NEW t \in Tokens, RevokeToken(t) PROVE Promise!Void(t)
  <2>1. /\ tokens'[t].usedBy = tokens[t].usedBy /\ tokens'[t].revoked
        /\ \A s \in Tokens \ {t} : tokens'[s] = tokens[s]
        /\ UNCHANGED <<devices, version>>
    BY <1>1, <1>6 DEF TypeOK, TokenRows, RevokeToken
  <2>2. /\ [s \in Tokens |-> tokens[s].usedBy]' = [s \in Tokens |-> tokens[s].usedBy]
        /\ {s \in Tokens : tokens[s].revoked}' = {s \in Tokens : tokens[s].revoked} \cup {t}
        /\ [x \in Names |-> Device(x)]' = [x \in Names |-> Device(x)]
    BY <2>1, DeviceKept
  <2> QED BY <1>2, <1>4, <2>1, <2>2 DEF Promise!Void
<1>7. ASSUME NEW x \in Names, RevokeDevice(x) PROVE Promise!Retire(x)
  <2>1. devices[x] # Nothing /\ devices[x] \in DeviceRows
    BY <1>7, RowKinds DEF TrustInvariant, RevokeDevice
  <2>2. /\ devices'[x] = Retired(devices[x])
        /\ \A y \in Names \ {x} : devices'[y] = devices[y]
        /\ UNCHANGED <<tokens, version>>
    BY <1>1, <1>7 DEF TypeOK, RevokeDevice
  <2>3. /\ Retired(devices[x]).active = FALSE
        /\ Retired(devices[x]).credential = devices[x].credential
        /\ Retired(devices[x]).via = devices[x].via
        /\ Retired(devices[x]) # Nothing
    <3>1. Retired(devices[x]) \in DeviceRows
      BY <2>1, Rewrites
    <3> QED BY <2>1, <3>1, Distinct DEF Retired, DeviceRows
  <2>4. Device(x)' = [Device(x) EXCEPT !.active = FALSE] /\ Device(x) # Nothing
    <3>1. Device(x)' = [active |-> FALSE, credential |-> devices[x].credential,
                        via |-> devices[x].via]
      BY <2>2, <2>3 DEF Device
    <3>2. Device(x) = [active |-> devices[x].active, credential |-> devices[x].credential,
                       via |-> devices[x].via]
      BY <2>1 DEF Device
    <3> DEFINE kind == [active : BOOLEAN, credential : Credentials, via : Ways]
               cleared == [Device(x) EXCEPT !.active = FALSE]
    <3>3. Device(x) \in kind /\ Device(x)' \in kind
      BY <2>1, <3>1, <3>2 DEF DeviceRows
    <3>4. /\ cleared \in kind /\ ~cleared.active
          /\ cleared.credential = Device(x).credential /\ cleared.via = Device(x).via
      BY <3>3
    <3>5. /\ ~Device(x)'.active
          /\ Device(x)'.credential = Device(x).credential /\ Device(x)'.via = Device(x).via
      BY <3>1, <3>2
    <3> HIDE DEF cleared
    <3>6. Device(x)' = cleared
      BY <3>3, <3>4, <3>5
    <3> QED BY <2>1, <3>6, DeviceKinds DEF cleared
  <2>5. \A y \in Names \ {x} : Device(y)' = Device(y)
    BY <2>2 DEF Device
  <2>6. [y \in Names |-> Device(y)]' =
           [[y \in Names |-> Device(y)] EXCEPT ![x].active = FALSE]
    BY <2>4, <2>5
  <2>7. /\ [t \in Tokens |-> tokens[t].usedBy]' = [t \in Tokens |-> tokens[t].usedBy]
        /\ {t \in Tokens : tokens[t].revoked}' = {t \in Tokens : tokens[t].revoked}
    BY <2>2
  <2> QED BY <1>2, <1>4, <2>2, <2>4, <2>6, <2>7 DEF Promise!Retire
<1>8. ASSUME NEW p \in Processes, Deploy(p) PROVE Promise!Deploy(p)
  <2>1. UNCHANGED <<tokens, devices>>
    BY <1>8 DEF Deploy
  <2>2. /\ [x \in Names |-> Device(x)]' = [x \in Names |-> Device(x)]
        /\ [t \in Tokens |-> tokens[t].usedBy]' = [t \in Tokens |-> tokens[t].usedBy]
        /\ {t \in Tokens : tokens[t].revoked}' = {t \in Tokens : tokens[t].revoked}
    BY <2>1, DeviceKept
  <2> QED BY <1>2, <1>4, <1>8, <2>2 DEF Deploy, Promise!Deploy
<1> QED BY <1>5, <1>6, <1>7, <1>8 DEF AdminNext, Promise!PromiseNext

LEMMA PromiseBegins == Init => Promise!PromiseInit
<1> SUFFICES ASSUME Init PROVE Promise!PromiseInit
  OBVIOUS
<1>1. /\ \A x \in Names : Device(x) = Nothing
      /\ \A m \in Machines : Own(m) = Nothing /\ config[m] = Nothing
      /\ \A t \in Tokens : tokens[t].usedBy = Nothing /\ ~tokens[t].revoked
  BY DEF Init, Device, Own, FreshToken
<1>2. /\ [t \in Tokens |-> tokens[t].usedBy] = [t \in Tokens |-> Nothing]
      /\ {t \in Tokens : tokens[t].revoked} = {}
      /\ [x \in Names |-> Device(x)] = [x \in Names |-> Nothing]
      /\ [m \in Machines |-> Own(m)] = [m \in Machines |-> Nothing]
      /\ config = [m \in Machines |-> Nothing]
  BY <1>1 DEF Init
<1> QED BY <1>2, NamingsAssumption DEF Init, Promise!PromiseInit

LEMMA StepPromised ==
    ASSUME TrustInvariant, OwnIssued, [Next]_vars
    PROVE  Promise!PromiseNext \/ UNCHANGED Promise!promiseVars
<1>1. ASSUME NEW m \in Machines, AgentNext(m)
      PROVE  Promise!PromiseNext \/ UNCHANGED Promise!promiseVars
  <2>1. MissKeys(m) \/ EndCycle(m) => UNCHANGED Promise!promiseVars
    <3>1. MissKeys(m) \/ EndCycle(m) =>
             UNCHANGED <<tokens, devices, version, NameOf, memory, config, refused>>
      BY DEF MissKeys, EndCycle, serverVars
    <3> QED BY <3>1, OwnKept, TrustStutters
  <2>2. ASSUME NEW p \in Processes,
               RefreshKeys(m, p) \/ RefreshUnsaved(m, p) \/ ClaimJob(m, p)
        PROVE  Promise!PromiseNext
    BY <2>2, RefreshPins, ClaimTakes DEF Promise!PromiseNext
  <2>3. ASSUME NEW w \in Ways, NEW h \in Handlers, AskToEnroll(m, w, h)
        PROVE  UNCHANGED Promise!promiseVars
    BY <2>3, RequestsStutter
  <2> QED BY <1>1, <2>1, <2>2, <2>3, FilePromised DEF AgentNext
<1>2. ASSUME NEW h \in Handlers, HandlerNext(h)
      PROVE  Promise!PromiseNext \/ UNCHANGED Promise!promiseVars
  <2>1. ASSUME NEW p \in Processes, Enroll(h, p) PROVE Promise!PromiseNext
    BY <2>1, EnrollRegisters DEF Promise!PromiseNext, Ways
  <2>2. WriteCredential(h) => Promise!PromiseNext
    BY WriteRekeys DEF Promise!PromiseNext
  <2> QED BY <1>2, <2>1, <2>2, RequestsStutter DEF HandlerNext
<1>3. CASE UNCHANGED vars
  <2>1. UNCHANGED <<tokens, devices, version, NameOf, memory, config, refused>>
    BY <1>3 DEF vars, serverVars, agentVars
  <2> QED BY <2>1, OwnKept, TrustStutters
<1> QED BY <1>1, <1>2, <1>3, AdminPromised DEF Next

(* Enrollment, credentials and keys implement TrustPromise: what overlaps, *)
(* times out, crashes or is half deployed does not show                    *)
(* (enroll_device_with_token, rotate_device_credential, require_agent,     *)
(* active_public_keys, _merge_signing_keys).                               *)
THEOREM TrustKeepsPromise == Spec => KeepsTrustPromise
<1>1. TrustInvariant /\ OwnIssued /\ [Next]_vars =>
          [Promise!PromiseNext]_Promise!promiseVars
  BY StepPromised
<1> QED BY <1>1, PromiseBegins, IssuedAlways, PTL
        DEF Spec, KeepsTrustPromise, Promise!PromiseSpec
=============================================================================
