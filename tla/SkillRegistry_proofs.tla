------------------------ MODULE SkillRegistry_proofs ------------------------
(***************************************************************************)
(* Proofs about SkillRegistry, for any number of skills, issues, requests, *)
(* manifests, drifts and attempts.                                         *)
(*                                                                         *)
(* First the catalogues: a draft's version is one above the newest it read *)
(* and every version below it is there, so it either clashes with a row of *)
(* the unique key or follows the newest row, which is the active one.      *)
(* Then the actions: the active version of a skill never goes back, so a   *)
(* job that runs with version 1 was evaluated, shown and approved with no  *)
(* other.                                                                  *)
(***************************************************************************)
EXTENDS SkillRegistry, TLAPS

SkillRows == [of : Skills, version : Nat \ {0}, active : BOOLEAN,
              manifest : Offered, hash : Offered]
IssueRows == [of : Issues, version : Nat \ {0}, active : BOOLEAN]
IssueVersions == [of : Issues, version : Nat]
WorkflowRows == [of : IssueVersions, version : Nat \ {0}, active : BOOLEAN,
                 by : Staff, steps : SUBSET Skills]
Views == [version : Nat, manifest : Offered]
ActionStates ==
    [status : Statuses, skill : Skills \cup {"none"}, params : Shapes \cup {"none"},
     attempt : 0..MaxAttempts, evaluated : SUBSET Views, approved : SUBSET Views,
     loaded : SUBSET Views, shown : SUBSET Nat]
Claims == [action : Actions, version : Nat]
Jobs == [action : Actions, attempt : 1..MaxAttempts, version : Nat]

Types ==
    /\ skills \subseteq SkillRows
    /\ issues \subseteq IssueRows
    /\ workflows \subseteq WorkflowRows
    /\ DOMAIN drafts = Staff
    /\ suggested \subseteq Skills
    /\ actions \in [Actions -> ActionStates]
    /\ claims \subseteq Claims
    /\ jobs \subseteq Jobs
    /\ ran \subseteq Jobs
    /\ drifts \in 0..MaxDrifts

HasNewest(table) == \A r \in table :
    \E q \in table : q.of = r.of /\ \A p \in table : p.of = r.of => p.version <= q.version

Reached(table, key, n) ==
    \A v \in 1..(n - 1) : \E q \in table : q.of = key /\ q.version = v

TablesAgree ==
    /\ Dense(skills) /\ NewestIsActive(skills) /\ HasNewest(skills)
    /\ Dense(issues) /\ NewestIsActive(issues) /\ HasNewest(issues)
    /\ HasNewest(workflows)

(* What a request has read stays true until it commits.                    *)
DraftsAgree == \A u \in Staff : \A d \in drafts[u] :
    /\ d.table = "skills" =>
          d.of \in Skills /\ d.version \in Nat \ {0} /\ Reached(skills, d.of, d.version)
    /\ d.table = "issues" =>
          d.of \in Issues /\ d.version \in Nat \ {0} /\ Reached(issues, d.of, d.version)
    /\ d.table = "workflows" =>
          d.of \in IssueVersions /\ d.version \in Nat \ {0} /\ d.known \subseteq ActiveSkills
    /\ d.table = "diagnoses" => d.allowed \subseteq ActiveSkills

CatalogueInv == Types /\ TablesAgree /\ DraftsAgree /\ NamesStayRegistered

-----------------------------------------------------------------------------
(* Tables of versions.                                                     *)

(* The next version is one above the newest row of the key.                *)
LEMMA NextVersionFacts ==
    ASSUME NEW table, NEW key, HasNewest(table), \A r \in table : r.version \in Nat \ {0}
    PROVE  /\ NextVersion(table, key) \in Nat \ {0}
           /\ \A r \in table : r.of = key => r.version < NextVersion(table, key)
           /\ NextVersion(table, key) = 1
                \/ \E q \in table : q.of = key /\ q.version = NextVersion(table, key) - 1
<1> DEFINE S == {0} \cup {r.version : r \in VersionsOf(table, key)}
<1>1. S \subseteq Nat
  BY DEF VersionsOf
<1>2. \E x \in S : \A y \in S : x >= y
  <2>1. CASE VersionsOf(table, key) = {}
    BY <2>1
  <2>2. CASE VersionsOf(table, key) # {}
    <3>1. PICK r \in table : r.of = key
      BY <2>2 DEF VersionsOf
    <3>2. PICK q \in table : q.of = key /\ \A p \in table : p.of = key => p.version <= q.version
      BY <3>1 DEF HasNewest
    <3>3. q.version \in S /\ \A y \in S : q.version >= y
      BY <3>2, <1>1 DEF VersionsOf
    <3> QED BY <3>3
  <2> QED BY <2>1, <2>2
<1>3. Max(S) \in S /\ \A y \in S : Max(S) >= y
  BY <1>2 DEF Max
<1>4. NextVersion(table, key) = 1 + Max(S)
  BY DEF NextVersion
<1>5. \A r \in table : r.of = key => r.version \in S
  BY DEF VersionsOf
<1>6. Max(S) = 0 \/ \E q \in table : q.of = key /\ q.version = Max(S)
  BY <1>3 DEF VersionsOf
<1> HIDE DEF S
<1>7. Max(S) \in Nat
  BY <1>1, <1>3
<1> QED BY <1>3, <1>4, <1>5, <1>6, <1>7

(* A registration: a new row on top of the rows there are, the one below   *)
(* it retired.                                                             *)
Tops(table, new, f, after) ==
    /\ \A r \in table : r.version \in Nat \ {0} /\ r.active \in BOOLEAN
    /\ new.version \in Nat \ {0} /\ new.active = TRUE
    /\ Reached(table, new.of, new.version)
    /\ ~ Taken(table, new.of, new.version)
    /\ \A r \in table :
          /\ f[r].of = r.of /\ f[r].version = r.version
          /\ f[r].active = (r.active /\ ~(r.of = new.of /\ r.version = new.version - 1))
    /\ after = {f[r] : r \in table} \cup {new}

LEMMA TopUp ==
    ASSUME NEW table, NEW new, NEW f, NEW after, Tops(table, new, f, after),
           Dense(table), NewestIsActive(table), HasNewest(table)
    PROVE  Dense(after) /\ NewestIsActive(after) /\ HasNewest(after)
<1> USE DEF Tops
<1>1. \A r \in table : r.of = new.of => r.version < new.version
  <2> SUFFICES ASSUME NEW r \in table, r.of = new.of, r.version >= new.version
               PROVE  FALSE
    OBVIOUS
  <2>1. new.version \in 1..r.version
    OBVIOUS
  <2>2. \E q \in table : q.of = r.of /\ q.version = new.version
    BY <2>1 DEF Dense
  <2> QED BY <2>2 DEF Taken
<1>2. \A x \in after : x = new \/ \E r \in table : x = f[r]
  OBVIOUS
<1>3. new \in after /\ \A r \in table : f[r] \in after
  OBVIOUS
<1>4. Dense(after)
  <2>1. ASSUME NEW x \in after, NEW v \in 1..x.version
        PROVE  \E y \in after : y.of = x.of /\ y.version = v
    <3>1. CASE x = new
      <4>1. CASE v = new.version
        BY <3>1, <4>1, <1>3
      <4>2. CASE v # new.version
        <5>1. v \in 1..(new.version - 1)
          BY <3>1, <4>2
        <5>2. PICK q \in table : q.of = new.of /\ q.version = v
          BY <5>1 DEF Reached
        <5> QED BY <5>2, <3>1, <1>3
      <4> QED BY <4>1, <4>2
    <3>2. CASE x # new
      <4>1. PICK r \in table : x = f[r]
        BY <3>2, <1>2
      <4>2. PICK q \in table : q.of = r.of /\ q.version = v
        BY <4>1 DEF Dense
      <4> QED BY <4>1, <4>2, <1>3
    <3> QED BY <3>1, <3>2
  <2>2. ASSUME NEW x \in after, NEW y \in after, y.of = x.of, y.version = x.version
        PROVE  x = y
    BY <2>2, <1>1, <1>2 DEF Dense
  <2> QED BY <2>1, <2>2 DEF Dense
<1>5. NewestIsActive(after)
  <2> SUFFICES ASSUME NEW x \in after
               PROVE  x.active <=> \A y \in after : y.of = x.of => y.version <= x.version
    BY DEF NewestIsActive
  <2>1. CASE x = new
    BY <2>1, <1>1, <1>2
  <2>2. CASE x # new
    <3>1. PICK r \in table : x = f[r]
      BY <2>2, <1>2
    <3>2. CASE r.of = new.of
      <4>1. ~ r.active \/ r.version = new.version - 1
        <5>1. CASE new.version - 1 = 0
          BY <5>1, <3>2, <1>1
        <5>2. CASE new.version - 1 # 0
          <6>1. new.version - 1 \in 1..(new.version - 1)
            BY <5>2
          <6>2. PICK q \in table : q.of = new.of /\ q.version = new.version - 1
            BY <6>1 DEF Reached
          <6> QED BY <6>2, <3>2, <1>1 DEF NewestIsActive
        <5> QED BY <5>1, <5>2
      <4>2. ~ x.active
        BY <3>1, <3>2, <4>1
      <4>3. new.of = x.of /\ ~(new.version <= x.version)
        BY <3>1, <3>2, <1>1
      <4> QED BY <4>2, <4>3, <1>3
    <3>3. CASE r.of # new.of
      <4>1. x.active <=> r.active
        BY <3>1, <3>3
      <4>2. (\A y \in after : y.of = x.of => y.version <= x.version)
              <=> (\A q \in table : q.of = r.of => q.version <= r.version)
        BY <3>1, <3>3, <1>2, <1>3
      <4> QED BY <4>1, <4>2 DEF NewestIsActive
    <3> QED BY <3>2, <3>3
  <2> QED BY <2>1, <2>2
<1>6. HasNewest(after)
  <2> SUFFICES ASSUME NEW x \in after
               PROVE  \E q \in after : q.of = x.of
                          /\ \A p \in after : p.of = x.of => p.version <= q.version
    BY DEF HasNewest
  <2>1. CASE x.of = new.of
    <3>1. \A p \in after : p.of = x.of => p.version <= new.version
      BY <2>1, <1>1, <1>2
    <3> QED BY <2>1, <3>1, <1>3
  <2>2. CASE x.of # new.of
    <3>1. PICK r \in table : x = f[r]
      BY <2>2, <1>2
    <3>2. PICK q \in table : q.of = r.of /\ \A p \in table : p.of = r.of => p.version <= q.version
      BY DEF HasNewest
    <3>3. \A p \in after : p.of = x.of => p.version <= f[q].version
      BY <3>1, <3>2, <2>2, <1>2
    <3> QED BY <3>1, <3>2, <3>3, <1>3
  <2> QED BY <2>1, <2>2
<1> QED BY <1>4, <1>5, <1>6

-----------------------------------------------------------------------------
(* What the steps of Register do to the catalogues.                        *)

LEMMA RowTypes ==
    ASSUME CatalogueInv
    PROVE  /\ \A r \in skills : r.of \in Skills /\ r.version \in Nat \ {0} /\ r.active \in BOOLEAN
           /\ \A r \in issues : r.of \in Issues /\ r.version \in Nat \ {0} /\ r.active \in BOOLEAN
           /\ \A r \in workflows : r.of \in IssueVersions /\ r.version \in Nat \ {0}
BY DEF CatalogueInv, Types, SkillRows, IssueRows, WorkflowRows

LEMMA DraftVersionKeeps ==
    ASSUME CatalogueInv, NEW u \in Staff, NEW name, NEW table, NEW key,
           DraftVersion(u, name, table, key),
           \/ name = "skills" /\ table = skills /\ key \in Skills
           \/ name = "issues" /\ table = issues /\ key \in Issues
    PROVE  CatalogueInv'
<1> DEFINE n == NextVersion(table, key)
<1>1. n \in Nat \ {0} /\ (n = 1 \/ \E q \in table : q.of = key /\ q.version = n - 1)
  BY RowTypes, NextVersionFacts DEF CatalogueInv, TablesAgree
<1>2. Reached(table, key, n)
  <2>1. CASE n = 1
    BY <2>1 DEF Reached
  <2>2. CASE n # 1
    <3>1. PICK q \in table : q.of = key /\ q.version = n - 1
      BY <1>1, <2>2
    <3> QED BY <3>1, <1>1 DEF Reached, Dense, CatalogueInv, TablesAgree
  <2> QED BY <2>1, <2>2
<1>3. Types' /\ TablesAgree' /\ NamesStayRegistered'
  BY DEF CatalogueInv, DraftVersion, registryVars, lifeVars, Types, Hold, TablesAgree,
     Dense, NewestIsActive, HasNewest, NamesStayRegistered, ActiveSkills
<1>4. drafts' = [drafts EXCEPT ![u] = {[table |-> name, of |-> key, version |-> n]}]
      /\ skills' = skills /\ issues' = issues
  BY DEF DraftVersion, Hold, registryVars
<1> HIDE DEF n
<1>5. DraftsAgree'
  BY <1>1, <1>2, <1>4 DEF CatalogueInv, DraftsAgree, Types, Reached, ActiveSkills
<1> QED BY <1>3, <1>5 DEF CatalogueInv

(* A registration adds a row for its version, and no skill loses its       *)
(* active one.                                                             *)
LEMMA CommitSkillFacts ==
    ASSUME CatalogueInv, NEW u \in Staff, NEW m \in Offered, NEW d \in drafts[u],
           d.table = "skills", ~ Taken(skills, d.of, d.version),
           skills' = Retire(skills, d.of, d.version - 1) \cup {SkillRow(d.of, d.version, m)}
    PROVE  /\ skills' \subseteq SkillRows
           /\ Dense(skills') /\ NewestIsActive(skills') /\ HasNewest(skills')
           /\ \A r \in skills : \E q \in skills' :
                 q.of = r.of /\ q.version = r.version /\ q.hash = r.hash
           /\ ActiveSkills \subseteq ActiveSkills'
<1> DEFINE new == SkillRow(d.of, d.version, m)
           f == [r \in skills |-> [r EXCEPT !.active =
                    r.active /\ ~(r.of = d.of /\ r.version = d.version - 1)]]
<1>1. d.of \in Skills /\ d.version \in Nat \ {0} /\ Reached(skills, d.of, d.version)
  BY DEF CatalogueInv, DraftsAgree
<1>2. new \in SkillRows /\ new.of = d.of /\ new.version = d.version /\ new.active = TRUE
  BY <1>1 DEF SkillRow, SkillRows
<1>3. \A r \in skills :
          /\ f[r] \in SkillRows
          /\ f[r].of = r.of /\ f[r].version = r.version /\ f[r].hash = r.hash
          /\ f[r].active = (r.active /\ ~(r.of = d.of /\ r.version = d.version - 1))
  BY DEF CatalogueInv, Types, SkillRows
<1>4. skills' = {f[r] : r \in skills} \cup {new}
  BY DEF Retire
<1> HIDE DEF new, f
<1>5. Dense(skills') /\ NewestIsActive(skills') /\ HasNewest(skills')
  <2>1. Tops(skills, new, f, skills')
    BY <1>1, <1>2, <1>3, <1>4, RowTypes DEF Tops
  <2>2. Dense(skills) /\ NewestIsActive(skills) /\ HasNewest(skills)
    BY DEF CatalogueInv, TablesAgree
  <2> QED BY <2>1, <2>2, TopUp
<1>6. ActiveSkills \subseteq ActiveSkills'
  <2> SUFFICES ASSUME NEW r \in skills, r.active
               PROVE  r.of \in ActiveSkills'
    BY DEF ActiveSkills
  <2>1. CASE r.of = d.of
    BY <2>1, <1>2, <1>4 DEF ActiveSkills
  <2>2. CASE r.of # d.of
    BY <2>2, <1>3, <1>4 DEF ActiveSkills
  <2> QED BY <2>1, <2>2
<1> QED BY <1>2, <1>3, <1>4, <1>5, <1>6

LEMMA CommitSkillKeeps ==
    ASSUME CatalogueInv, NEW u \in Staff, NEW m \in Offered, CommitSkill(u, m)
    PROVE  CatalogueInv'
<1>1. PICK d \in drafts[u] : d.table = "skills" /\ ~ Taken(skills, d.of, d.version)
          /\ skills' = Retire(skills, d.of, d.version - 1) \cup {SkillRow(d.of, d.version, m)}
  BY DEF CommitSkill
<1>2. /\ skills' \subseteq SkillRows
      /\ Dense(skills') /\ NewestIsActive(skills') /\ HasNewest(skills')
      /\ \A r \in skills : \E q \in skills' : q.of = r.of /\ q.version = r.version
      /\ ActiveSkills \subseteq ActiveSkills'
  BY <1>1, CommitSkillFacts
<1>3. UNCHANGED <<issues, workflows, suggested, lifeVars, drifts>>
      /\ drafts' = [drafts EXCEPT ![u] = {}]
  BY DEF CommitSkill, Drop
<1>4. Types'
  BY <1>2, <1>3 DEF CatalogueInv, Types, lifeVars
<1>5. TablesAgree'
  BY <1>2, <1>3 DEF CatalogueInv, TablesAgree, Dense, NewestIsActive, HasNewest
<1>6. NamesStayRegistered'
  BY <1>2, <1>3 DEF CatalogueInv, NamesStayRegistered
<1>7. \A key, n : Reached(skills, key, n) => Reached(skills, key, n)'
  BY <1>2 DEF Reached
<1>8. DraftsAgree'
  <2> SUFFICES ASSUME NEW v \in Staff, NEW e \in drafts'[v]
               PROVE  /\ e.table = "skills" => e.of \in Skills /\ e.version \in Nat \ {0}
                                                 /\ Reached(skills, e.of, e.version)'
                      /\ e.table = "issues" => e.of \in Issues /\ e.version \in Nat \ {0}
                                                 /\ Reached(issues, e.of, e.version)'
                      /\ e.table = "workflows" => e.of \in IssueVersions
                              /\ e.version \in Nat \ {0} /\ e.known \subseteq ActiveSkills'
                      /\ e.table = "diagnoses" => e.allowed \subseteq ActiveSkills'
    BY DEF DraftsAgree
  <2>1. e \in drafts[v]
    BY <1>3 DEF CatalogueInv, Types
  <2>2. \A key, n : Reached(issues, key, n) => Reached(issues, key, n)'
    BY <1>3 DEF Reached
  <2> QED BY <2>1, <2>2, <1>2, <1>7 DEF CatalogueInv, DraftsAgree
<1> QED BY <1>4, <1>5, <1>6, <1>8 DEF CatalogueInv

LEMMA CommitIssueKeeps ==
    ASSUME CatalogueInv, NEW u \in Staff, CommitIssue(u)
    PROVE  CatalogueInv'
<1>1. PICK d \in drafts[u] : d.table = "issues" /\ ~ Taken(issues, d.of, d.version)
          /\ issues' = Retire(issues, d.of, d.version - 1) \cup {IssueRow(d.of, d.version)}
  BY DEF CommitIssue
<1>2. UNCHANGED <<skills, workflows, suggested, lifeVars, drifts>>
      /\ drafts' = [drafts EXCEPT ![u] = {}]
  BY DEF CommitIssue, Drop
<1> DEFINE new == IssueRow(d.of, d.version)
           f == [r \in issues |-> [r EXCEPT !.active =
                    r.active /\ ~(r.of = d.of /\ r.version = d.version - 1)]]
<1>3. d.of \in Issues /\ d.version \in Nat \ {0} /\ Reached(issues, d.of, d.version)
  BY <1>1 DEF CatalogueInv, DraftsAgree
<1>4. new \in IssueRows /\ new.of = d.of /\ new.version = d.version /\ new.active = TRUE
  BY <1>3 DEF IssueRow, IssueRows
<1>5. \A r \in issues :
          /\ f[r] \in IssueRows /\ f[r].of = r.of /\ f[r].version = r.version
          /\ f[r].active = (r.active /\ ~(r.of = d.of /\ r.version = d.version - 1))
  BY DEF CatalogueInv, Types, IssueRows
<1>6. issues' = {f[r] : r \in issues} \cup {new}
  BY <1>1 DEF Retire
<1> HIDE DEF new, f
<1>7. Dense(issues') /\ NewestIsActive(issues') /\ HasNewest(issues')
  <2>1. Tops(issues, new, f, issues')
    BY <1>1, <1>3, <1>4, <1>5, <1>6, RowTypes DEF Tops
  <2>2. Dense(issues) /\ NewestIsActive(issues) /\ HasNewest(issues)
    BY DEF CatalogueInv, TablesAgree
  <2> QED BY <2>1, <2>2, TopUp
<1>8. Types' /\ NamesStayRegistered'
  BY <1>2, <1>4, <1>5, <1>6 DEF CatalogueInv, Types, lifeVars, NamesStayRegistered, ActiveSkills
<1>9. TablesAgree'
  BY <1>2, <1>7 DEF CatalogueInv, TablesAgree, Dense, NewestIsActive, HasNewest
<1>10. \A key, n : Reached(issues, key, n) => Reached(issues, key, n)'
  BY <1>5, <1>6 DEF Reached
<1>11. DraftsAgree'
  <2>1. \A v \in Staff : drafts'[v] \subseteq drafts[v]
    BY <1>2 DEF CatalogueInv, Types
  <2>2. ActiveSkills' = ActiveSkills
        /\ \A key, n : Reached(skills, key, n) => Reached(skills, key, n)'
    BY <1>2 DEF ActiveSkills, Reached
  <2> QED BY <2>1, <2>2, <1>10 DEF CatalogueInv, DraftsAgree
<1> QED BY <1>8, <1>9, <1>11 DEF CatalogueInv

(* Steps that leave the catalogues alone.                                  *)
LEMMA CataloguesUnchanged ==
    ASSUME CatalogueInv, UNCHANGED <<skills, issues>>
    PROVE  /\ ActiveSkills' = ActiveSkills
           /\ Dense(skills)' /\ NewestIsActive(skills)' /\ HasNewest(skills)'
           /\ Dense(issues)' /\ NewestIsActive(issues)' /\ HasNewest(issues)'
           /\ \A key, n : Reached(skills, key, n) => Reached(skills, key, n)'
           /\ \A key, n : Reached(issues, key, n) => Reached(issues, key, n)'
BY DEF CatalogueInv, TablesAgree, ActiveSkills, Dense, NewestIsActive, HasNewest, Reached

LEMMA RefuseRowKeeps ==
    ASSUME CatalogueInv, NEW u \in Staff, RefuseRow(u)
    PROVE  CatalogueInv'
<1>1. UNCHANGED <<registryVars, suggested, lifeVars, drifts>>
      /\ drafts' = [drafts EXCEPT ![u] = {}]
  BY DEF RefuseRow, Drop
<1>2. \A v \in Staff : drafts'[v] \subseteq drafts[v]
  BY <1>1 DEF CatalogueInv, Types
<1> QED
  BY <1>1, <1>2, CataloguesUnchanged DEF CatalogueInv, Types, TablesAgree, DraftsAgree,
     NamesStayRegistered, registryVars, lifeVars, HasNewest

LEMMA DraftWorkflowKeeps ==
    ASSUME CatalogueInv, NEW u \in Staff, NEW i \in issues, DraftWorkflow(u, i)
    PROVE  CatalogueInv'
<1> DEFINE key == [of |-> i.of, version |-> i.version]
           n == NextVersion(workflows, key)
<1>1. key \in IssueVersions /\ n \in Nat \ {0}
  BY RowTypes, NextVersionFacts DEF CatalogueInv, TablesAgree, IssueVersions
<1>2. \E p : drafts' = [drafts EXCEPT ![u] =
          {[table |-> "workflows", of |-> key, version |-> n, previous |-> p,
            known |-> ActiveSkills]}]
  BY DEF DraftWorkflow, Hold
<1>3. UNCHANGED <<registryVars, suggested, lifeVars, drifts>>
  BY DEF DraftWorkflow
<1> HIDE DEF key, n
<1>4. DraftsAgree'
  <2>1. \A v \in Staff : \A d \in drafts'[v] :
            \/ d \in drafts[v]
            \/ /\ d.table = "workflows" /\ d.of = key /\ d.version = n
               /\ d.known = ActiveSkills
    BY <1>2 DEF CatalogueInv, Types
  <2> QED BY <2>1, <1>1, <1>3, CataloguesUnchanged DEF CatalogueInv, DraftsAgree, registryVars
<1>5. Types'
  BY <1>2, <1>3 DEF CatalogueInv, Types, registryVars, lifeVars
<1> QED
  BY <1>3, <1>4, <1>5, CataloguesUnchanged DEF CatalogueInv, TablesAgree, HasNewest,
     NamesStayRegistered, registryVars

LEMMA CommitWorkflowKeeps ==
    ASSUME CatalogueInv, NEW u \in Staff, CommitWorkflow(u)
    PROVE  CatalogueInv'
<1>0. PICK d \in drafts[u] :
          /\ d.table = "workflows"
          /\ \E steps \in Steps(d.known) :
                workflows' = {[w EXCEPT !.active = @ /\ w \notin d.previous] : w \in workflows}
                               \cup {WorkflowRow(d.of, d.version, u, steps)}
  BY DEF CommitWorkflow
<1>1. PICK steps \in Steps(d.known) :
          workflows' = {[w EXCEPT !.active = @ /\ w \notin d.previous] : w \in workflows}
                         \cup {WorkflowRow(d.of, d.version, u, steps)}
  BY <1>0
<1>2. UNCHANGED <<skills, issues, suggested, lifeVars, drifts>>
      /\ drafts' = [drafts EXCEPT ![u] = {}]
  BY DEF CommitWorkflow, Drop
<1> DEFINE new == WorkflowRow(d.of, d.version, u, steps)
           g(w) == [w EXCEPT !.active = w.active /\ w \notin d.previous]
<1>3. /\ d.of \in IssueVersions /\ d.version \in Nat \ {0}
      /\ steps \subseteq ActiveSkills /\ steps \subseteq Skills
  BY <1>0, RowTypes DEF CatalogueInv, DraftsAgree, Steps, ActiveSkills
<1>4. new \in WorkflowRows /\ new.version = d.version /\ new.steps = steps
  BY <1>3 DEF WorkflowRow, WorkflowRows
<1>5. \A w \in workflows :
          g(w) \in WorkflowRows /\ g(w).of = w.of /\ g(w).version = w.version /\ g(w).steps = w.steps
  BY DEF CatalogueInv, Types, WorkflowRows
<1>6. \A x \in workflows' : x = new \/ \E w \in workflows : x = g(w)
  BY <1>1
<1>7. new \in workflows' /\ \A w \in workflows : g(w) \in workflows'
  BY <1>1
<1> HIDE DEF new, g
<1>8. HasNewest(workflows')
  <2> SUFFICES ASSUME NEW x \in workflows'
               PROVE  \E q \in workflows' : q.of = x.of
                          /\ \A p \in workflows' : p.of = x.of => p.version <= q.version
    BY DEF HasNewest
  <2>0. \A w \in workflows : w.version \in Nat
    BY RowTypes
  <2>1. CASE \E w \in workflows : w.of = x.of
    <3>1. PICK q \in workflows : q.of = x.of
              /\ \A p \in workflows : p.of = x.of => p.version <= q.version
      BY <2>1 DEF CatalogueInv, TablesAgree, HasNewest
    <3>2. CASE new.of = x.of /\ new.version > q.version
      BY <3>1, <3>2, <2>0, <1>3, <1>4, <1>5, <1>6, <1>7
    <3>3. CASE ~(new.of = x.of /\ new.version > q.version)
      BY <3>1, <3>3, <2>0, <1>3, <1>4, <1>5, <1>6, <1>7
    <3> QED BY <3>2, <3>3
  <2>2. CASE ~ \E w \in workflows : w.of = x.of
    <3>1. \A p \in workflows' : p.of = x.of => p = new
      BY <2>2, <1>5, <1>6
    <3> QED BY <3>1, <1>3, <1>4
  <2> QED BY <2>1, <2>2
<1>9. workflows' \subseteq WorkflowRows
  BY <1>4, <1>5, <1>6
<1>10. Types'
  BY <1>2, <1>9 DEF CatalogueInv, Types, lifeVars
<1>11. TablesAgree'
  BY <1>2, <1>8, CataloguesUnchanged DEF TablesAgree, HasNewest
<1>12. NamesStayRegistered'
  <2>1. \A x \in workflows' : x.steps \subseteq ActiveSkills
    BY <1>3, <1>4, <1>5, <1>6 DEF CatalogueInv, NamesStayRegistered
  <2> QED BY <2>1, <1>2, CataloguesUnchanged DEF CatalogueInv, NamesStayRegistered
<1>13. DraftsAgree'
  <2>1. \A v \in Staff : drafts'[v] \subseteq drafts[v]
    BY <1>2 DEF CatalogueInv, Types
  <2> QED BY <2>1, <1>2, CataloguesUnchanged DEF CatalogueInv, DraftsAgree
<1> QED BY <1>10, <1>11, <1>12, <1>13 DEF CatalogueInv

LEMMA AskProviderKeeps ==
    ASSUME CatalogueInv, NEW u \in Staff, AskProvider(u)
    PROVE  CatalogueInv'
<1>1. UNCHANGED <<registryVars, suggested, lifeVars, drifts>>
      /\ drafts' = [drafts EXCEPT ![u] = {[table |-> "diagnoses", allowed |-> ActiveSkills]}]
  BY DEF AskProvider, Hold
<1>2. \A v \in Staff : \A d \in drafts'[v] :
          d \in drafts[v] \/ (d.table = "diagnoses" /\ d.allowed = ActiveSkills)
  BY <1>1 DEF CatalogueInv, Types
<1> QED
  BY <1>1, <1>2, CataloguesUnchanged DEF CatalogueInv, Types, TablesAgree, DraftsAgree,
     NamesStayRegistered, registryVars, lifeVars, HasNewest

LEMMA StoreDiagnosisKeeps ==
    ASSUME CatalogueInv, NEW u \in Staff, StoreDiagnosis(u)
    PROVE  CatalogueInv'
<1>0. PICK d \in drafts[u] : d.table = "diagnoses"
          /\ \E answer \in SUBSET d.allowed : suggested' = suggested \cup answer
  BY DEF StoreDiagnosis
<1>1. PICK answer \in SUBSET d.allowed : suggested' = suggested \cup answer
  BY <1>0
<1>2. UNCHANGED <<registryVars, lifeVars, drifts>> /\ drafts' = [drafts EXCEPT ![u] = {}]
  BY DEF StoreDiagnosis, Drop
<1>3. answer \subseteq ActiveSkills /\ answer \subseteq Skills
  BY <1>0, RowTypes DEF CatalogueInv, DraftsAgree, ActiveSkills
<1>4. \A v \in Staff : drafts'[v] \subseteq drafts[v]
  BY <1>2 DEF CatalogueInv, Types
<1>5. Types' /\ NamesStayRegistered'
  BY <1>1, <1>2, <1>3, CataloguesUnchanged DEF CatalogueInv, Types, NamesStayRegistered,
     registryVars, lifeVars
<1>6. TablesAgree' /\ DraftsAgree'
  BY <1>2, <1>4, CataloguesUnchanged DEF CatalogueInv, TablesAgree, DraftsAgree,
     registryVars, HasNewest
<1> QED BY <1>5, <1>6 DEF CatalogueInv

(* A row changed behind the API keeps its key, version, activity and hash. *)
LEMMA DriftFacts ==
    ASSUME CatalogueInv, NEW r \in skills, NEW m \in Offered, Drift(r, m)
    PROVE  /\ \E x \in SkillRows :
                 /\ x.of = r.of /\ x.version = r.version /\ x.active = r.active
                 /\ x.hash = r.hash
                 /\ skills' = (skills \ {r}) \cup {x}
           /\ \A q \in skills : \E y \in skills' :
                 /\ y.of = q.of /\ y.version = q.version /\ y.active = q.active
                 /\ y.hash = q.hash
<1> DEFINE x == [r EXCEPT !.manifest = m]
<1>1. /\ x \in SkillRows /\ x.of = r.of /\ x.version = r.version /\ x.active = r.active
      /\ x.hash = r.hash
  BY DEF CatalogueInv, Types, SkillRows
<1>2. skills' = (skills \ {r}) \cup {x}
  BY DEF Drift
<1> HIDE DEF x
<1> QED BY <1>1, <1>2

LEMMA DriftKeeps ==
    ASSUME CatalogueInv, NEW r \in skills, NEW m \in Offered, Drift(r, m)
    PROVE  CatalogueInv'
<1>1. PICK x \in SkillRows :
          /\ x.of = r.of /\ x.version = r.version /\ x.active = r.active
          /\ skills' = (skills \ {r}) \cup {x}
  BY DriftFacts
<1>2. \A q \in skills : \E y \in skills' :
          y.of = q.of /\ y.version = q.version /\ y.active = q.active
  BY DriftFacts
<1>3. \A y \in skills' : \E q \in skills :
          /\ y.of = q.of /\ y.version = q.version /\ y.active = q.active
          /\ (y = x /\ q = r) \/ (y = q /\ q # r)
  BY <1>1
<1>4. UNCHANGED <<issues, workflows, drafts, suggested, lifeVars>>
      /\ drifts < MaxDrifts /\ drifts' = drifts + 1
  BY DEF Drift
<1>5. Types'
  BY <1>1, <1>4, RegistryAssumption DEF CatalogueInv, Types, lifeVars
<1>6. Dense(skills')
  <2>1. ASSUME NEW y \in skills', NEW v \in 1..y.version
        PROVE  \E z \in skills' : z.of = y.of /\ z.version = v
    BY <1>2, <1>3 DEF CatalogueInv, TablesAgree, Dense
  <2>2. ASSUME NEW y \in skills', NEW z \in skills', z.of = y.of, z.version = y.version
        PROVE  z = y
    BY <2>2, <1>3 DEF CatalogueInv, TablesAgree, Dense
  <2> QED BY <2>1, <2>2 DEF Dense
<1>7. NewestIsActive(skills')
  <2> SUFFICES ASSUME NEW y \in skills'
               PROVE  y.active <=> \A z \in skills' : z.of = y.of => z.version <= y.version
    BY DEF NewestIsActive
  <2>1. PICK q \in skills : y.of = q.of /\ y.version = q.version /\ y.active = q.active
    BY <1>3
  <2>2. q.active <=> \A p \in skills : p.of = q.of => p.version <= q.version
    BY DEF CatalogueInv, TablesAgree, NewestIsActive
  <2>3. q.active \in BOOLEAN /\ y.active \in BOOLEAN
    BY <2>1, RowTypes
  <2> QED BY <2>1, <2>2, <2>3, <1>2, <1>3
<1>8. HasNewest(skills')
  <2> SUFFICES ASSUME NEW y \in skills'
               PROVE  \E q \in skills' : q.of = y.of
                          /\ \A p \in skills' : p.of = y.of => p.version <= q.version
    BY DEF HasNewest
  <2>1. PICK q \in skills : q.of = y.of /\ \A p \in skills : p.of = y.of => p.version <= q.version
    BY <1>3 DEF CatalogueInv, TablesAgree, HasNewest
  <2>2. PICK z \in skills' : z.of = q.of /\ z.version = q.version
    BY <1>2
  <2> QED BY <2>1, <2>2, <1>3
<1>9. TablesAgree'
  BY <1>4, <1>6, <1>7, <1>8 DEF CatalogueInv, TablesAgree, Dense, NewestIsActive, HasNewest
<1>10. ActiveSkills \subseteq ActiveSkills'
  <2> SUFFICES ASSUME NEW q \in skills, q.active
               PROVE  q.of \in ActiveSkills'
    BY DEF ActiveSkills
  <2>1. PICK y \in skills' : y.of = q.of /\ y.active = q.active
    BY <1>2
  <2> QED BY <2>1 DEF ActiveSkills
<1>11. \A key, n : /\ Reached(skills, key, n) => Reached(skills, key, n)'
                   /\ Reached(issues, key, n) => Reached(issues, key, n)'
  BY <1>2, <1>4 DEF Reached
<1>12. DraftsAgree' /\ NamesStayRegistered'
  BY <1>4, <1>10, <1>11 DEF CatalogueInv, DraftsAgree, NamesStayRegistered
<1> QED BY <1>5, <1>9, <1>12 DEF CatalogueInv

-----------------------------------------------------------------------------
(* The actions.                                                            *)

Cleared == {"queued", "running", "succeeded", "failed"}

(* What an action was decided on is what was registered, and policy        *)
(* allowed it; a cleared one was approved if it had to be.                 *)
Agrees(act) ==
    /\ \A m \in act.evaluated \cup act.approved \cup act.loaded : AsRegistered(act.skill, m)
    /\ \A v \in act.shown : \E r \in skills : r.of = act.skill /\ r.version = v
    /\ \A m \in act.evaluated : Allowed(m.manifest)
    /\ act.status \in {"new", "submitting"} =>
          act.evaluated = {} /\ act.approved = {} /\ act.loaded = {} /\ act.shown = {}
    /\ act.status \in Cleared \cup {"pending_approval"} => act.evaluated # {}
    /\ act.status \in Cleared =>
          act.approved # {} \/ \A m \in act.evaluated : ~ NeedsApproval(m.manifest)
ActionsAgree == \A a \in Actions : Agrees(actions[a])

(* A claim or a job carries a version that is not older than any its       *)
(* action met.                                                             *)
Bears(act, j) ==
    /\ act.status \in Cleared
    /\ \A m \in act.evaluated \cup act.approved : m.version <= j.version
    /\ \A v \in act.shown : v <= j.version
JobsAgree == \A j \in claims \cup jobs \cup ran : Bears(actions[j.action], j)

RanSupported == \A j \in ran : j.version = 1

RegistryInv == CatalogueInv /\ ActionsAgree /\ JobsAgree /\ RanSupported

(* The invariant says what the runs check.                                 *)
LEMMA CatalogueImplies ==
    ASSUME CatalogueInv
    PROVE  OneActiveVersion
<1>1. RowsOK(skills, Skills) /\ RowsOK(issues, Issues)
      /\ \A r \in skills : r.manifest \in Offered /\ r.hash \in Offered
  BY DEF CatalogueInv, Types, SkillRows, IssueRows, RowsOK
<1>2. RowsOK(workflows, [of : Issues, version : Nat])
      /\ \A w \in workflows : w.steps \subseteq Skills
  BY DEF CatalogueInv, Types, WorkflowRows, IssueVersions, RowsOK
<1>3. \A a \in Actions : actions[a].status \in Statuses /\ actions[a].attempt \in 0..MaxAttempts
  BY DEF CatalogueInv, Types, ActionStates
<1>4. TypeOK
  BY <1>1, <1>2, <1>3 DEF CatalogueInv, Types, Claims, Jobs, TypeOK
<1> QED BY <1>4 DEF CatalogueInv, TablesAgree, OneActiveVersion

LEMMA RegistryImplies ==
    ASSUME RegistryInv
    PROVE  RunsAsCleared
<1> SUFFICES ASSUME NEW j \in ran
             PROVE  /\ \E m \in actions[j.action].evaluated :
                          /\ m.version = j.version
                          /\ Allowed(m.manifest)
                          /\ AsRegistered(actions[j.action].skill, m)
                          /\ NeedsApproval(m.manifest) => m \in actions[j.action].approved
                    /\ actions[j.action].shown \subseteq {j.version}
  BY DEF RunsAsCleared
<1> DEFINE act == actions[j.action]
<1>1. /\ act \in ActionStates /\ j.action \in Actions
      /\ act.status \in Cleared /\ j.version = 1
      /\ \A m \in act.evaluated \cup act.approved : m.version <= 1
      /\ \A v \in act.shown : v <= 1
  BY DEF RegistryInv, CatalogueInv, Types, Claims, Jobs, JobsAgree, Bears, RanSupported
<1>2. /\ \A m \in act.evaluated \cup act.approved : AsRegistered(act.skill, m)
      /\ \A v \in act.shown : \E r \in skills : r.of = act.skill /\ r.version = v
      /\ \A m \in act.evaluated : Allowed(m.manifest)
      /\ act.evaluated # {}
      /\ act.approved # {} \/ \A m \in act.evaluated : ~ NeedsApproval(m.manifest)
  BY <1>1 DEF RegistryInv, ActionsAgree, Agrees
<1>3. act.evaluated \subseteq Views /\ act.approved \subseteq Views /\ act.shown \subseteq Nat
  BY <1>1 DEF ActionStates
<1> HIDE DEF act
<1>4. \A r \in skills : r.version \in Nat \ {0}
  BY RowTypes DEF RegistryInv
<1>5. act.shown \subseteq {1}
  BY <1>1, <1>2, <1>3, <1>4
<1>6. \A m \in act.evaluated \cup act.approved : m.version = 1
  BY <1>1, <1>2, <1>3, <1>4 DEF AsRegistered, Views
<1>7. PICK m \in act.evaluated : TRUE
  BY <1>2
<1>8. ASSUME NEW n \in act.approved PROVE n = m
  <2>1. PICK r \in skills : r.of = act.skill /\ r.version = 1 /\ r.hash = m.manifest
    BY <1>2, <1>6, <1>7 DEF AsRegistered
  <2>2. PICK q \in skills : q.of = act.skill /\ q.version = 1 /\ q.hash = n.manifest
    BY <1>2, <1>6 DEF AsRegistered
  <2>3. q = r
    BY <2>1, <2>2 DEF RegistryInv, CatalogueInv, TablesAgree, Dense
  <2> QED BY <2>1, <2>2, <2>3, <1>3, <1>6, <1>7 DEF Views
<1>9. NeedsApproval(m.manifest) => m \in act.approved
  BY <1>2, <1>7, <1>8
<1> QED BY <1>1, <1>2, <1>5, <1>6, <1>7, <1>9 DEF act

(* A step of one action, on catalogues that stay: what is left to show.    *)
LEMMA ActionStep ==
    ASSUME RegistryInv, NEW a \in Actions, NEW act \in ActionStates, Become(a, act),
           UNCHANGED <<registryVars, drafts, suggested, drifts>>,
           Agrees(act),
           claims' \subseteq Claims, jobs' \subseteq Jobs, ran' \subseteq Jobs,
           \A j \in claims' \cup jobs' \cup ran' : j.action = a => Bears(act, j),
           \A j \in claims' \cup jobs' \cup ran' : j.action # a => j \in claims \cup jobs \cup ran,
           \A j \in ran' : j.version = 1
    PROVE  RegistryInv'
<1>1. /\ actions' \in [Actions -> ActionStates] /\ actions'[a] = act
      /\ \A b \in Actions : b # a => actions'[b] = actions[b]
  BY DEF RegistryInv, CatalogueInv, Types, Become
<1>2. CatalogueInv'
  <2>1. Types'
    BY <1>1 DEF RegistryInv, CatalogueInv, Types, registryVars
  <2>2. TablesAgree' /\ NamesStayRegistered'
    BY CataloguesUnchanged DEF RegistryInv, CatalogueInv, TablesAgree, HasNewest,
       NamesStayRegistered, registryVars
  <2>3. DraftsAgree'
    BY CataloguesUnchanged DEF RegistryInv, CatalogueInv, DraftsAgree, registryVars
  <2> QED BY <2>1, <2>2, <2>3 DEF CatalogueInv
<1>3. ActionsAgree'
  <2>1. skills' = skills
    BY DEF registryVars
  <2> QED BY <1>1, <2>1 DEF RegistryInv, ActionsAgree, Agrees, AsRegistered
<1>4. JobsAgree'
  BY <1>1 DEF RegistryInv, JobsAgree, Claims, Jobs
<1> QED BY <1>2, <1>3, <1>4 DEF RegistryInv, RanSupported

LEMMA ActionTypes ==
    ASSUME RegistryInv
    PROVE  /\ \A a \in Actions : actions[a] \in ActionStates /\ Agrees(actions[a])
           /\ claims \subseteq Claims /\ jobs \subseteq Jobs /\ ran \subseteq Jobs
           /\ \A j \in claims \cup jobs \cup ran : j.action \in Actions /\ Bears(actions[j.action], j)
           /\ \A j \in ran : j.version = 1
           /\ skills \subseteq SkillRows
           /\ {MaxAttempts, MaxDrifts} \subseteq Nat
BY RegistryAssumption
   DEF RegistryInv, CatalogueInv, Types, ActionsAgree, JobsAgree, RanSupported, Claims, Jobs

LEMMA SeenTypes ==
    ASSUME RegistryInv, NEW S \in SUBSET skills
    PROVE  {Seen(r) : r \in S} \in SUBSET Views
BY ActionTypes DEF Seen, Views, SkillRows

LEMMA CheckShapeKeeps ==
    ASSUME RegistryInv, NEW a \in Actions, NEW s \in Skills, NEW shape \in Shapes,
           CheckShape(a, s, shape)
    PROVE  RegistryInv'
<1> DEFINE act == [actions[a] EXCEPT !.status = "submitting", !.skill = s, !.params = shape]
<1>1. act \in ActionStates
  BY ActionTypes DEF ActionStates, Statuses
<1>2. Agrees(act)
  BY ActionTypes DEF Agrees, CheckShape, ActionStates, Cleared
<1>3. \A j \in claims \cup jobs \cup ran : j.action # a
  BY ActionTypes DEF Bears, CheckShape, Cleared
<1>4. Become(a, act) /\ UNCHANGED <<registryVars, drafts, suggested, claims, jobs, ran, drifts>>
  BY DEF CheckShape
<1> HIDE DEF act
<1> QED BY <1>1, <1>2, <1>3, <1>4, ActionTypes, ActionStep

LEMMA SubmitKeeps ==
    ASSUME RegistryInv, NEW a \in Actions, Submit(a)
    PROVE  RegistryInv'
<1> DEFINE cleared == {r \in ActiveRows(actions[a].skill) : Allowed(r.manifest)}
           act == [actions[a] EXCEPT
                !.evaluated = {Seen(r) : r \in cleared},
                !.status = IF cleared = {} THEN "denied"
                           ELSE IF \E r \in cleared : NeedsApproval(r.manifest)
                           THEN "pending_approval" ELSE "queued"]
<1>1. act \in ActionStates
  BY ActionTypes, SeenTypes DEF ActionStates, Statuses, ActiveRows
<1>2. Agrees(act)
  <2>1. actions[a].approved = {} /\ actions[a].loaded = {} /\ actions[a].shown = {}
    BY ActionTypes DEF Agrees, Submit
  <2>2. \A r \in cleared : r \in skills /\ r.of = actions[a].skill /\ Allowed(r.manifest)
                              /\ r.manifest = r.hash
    BY DEF Submit, PolicyLoads, RegistryLoads, Intact, ActiveRows
  <2>3. \A m \in {Seen(r) : r \in cleared} :
            AsRegistered(actions[a].skill, m) /\ Allowed(m.manifest)
    BY <2>2 DEF Seen, AsRegistered
  <2>4. \/ act.status = "denied"
        \/ act.status = "pending_approval" /\ cleared # {}
        \/ act.status = "queued" /\ cleared # {} /\ \A r \in cleared : ~ NeedsApproval(r.manifest)
    BY ActionTypes DEF ActionStates
  <2>5. /\ act.evaluated = {Seen(r) : r \in cleared} /\ act.skill = actions[a].skill
        /\ act.approved = {} /\ act.loaded = {} /\ act.shown = {}
    BY <2>1, ActionTypes DEF ActionStates
  <2>6. act.status = "queued" => \A m \in act.evaluated : ~ NeedsApproval(m.manifest)
    BY <2>4, <2>5 DEF Seen
  <2> HIDE DEF cleared, act
  <2> QED BY <2>3, <2>4, <2>5, <2>6 DEF Agrees, Cleared
<1>3. \A j \in claims \cup jobs \cup ran : j.action # a
  BY ActionTypes DEF Bears, Submit, Cleared
<1>4. Become(a, act) /\ UNCHANGED <<registryVars, drafts, suggested, claims, jobs, ran, drifts>>
  BY DEF Submit
<1> HIDE DEF act
<1> QED BY <1>1, <1>2, <1>3, <1>4, ActionTypes, ActionStep

LEMMA AbortSubmitKeeps ==
    ASSUME RegistryInv, NEW a \in Actions, AbortSubmit(a)
    PROVE  RegistryInv'
<1>1. NewAction \in ActionStates
  BY ActionTypes DEF NewAction, ActionStates, Statuses
<1>2. Agrees(NewAction)
  BY DEF Agrees, NewAction, Cleared
<1>3. \A j \in claims \cup jobs \cup ran : j.action # a
  BY ActionTypes DEF Bears, AbortSubmit, Cleared
<1>4. Become(a, NewAction) /\ UNCHANGED <<registryVars, drafts, suggested, claims, jobs, ran, drifts>>
  BY DEF AbortSubmit
<1> QED BY <1>1, <1>2, <1>3, <1>4, ActionTypes, ActionStep

LEMMA LoadForDecisionKeeps ==
    ASSUME RegistryInv, NEW a \in Actions, LoadForDecision(a)
    PROVE  RegistryInv'
<1> DEFINE rows == ActiveRows(actions[a].skill)
           act == [actions[a] EXCEPT !.loaded = {Seen(r) : r \in rows}]
<1>1. act \in ActionStates
  BY ActionTypes, SeenTypes DEF ActionStates, ActiveRows
<1>2. Agrees(act)
  <2>1. \A m \in {Seen(r) : r \in rows} : AsRegistered(actions[a].skill, m)
    BY DEF LoadForDecision, PolicyLoads, RegistryLoads, Intact, ActiveRows, Seen, AsRegistered
  <2>2. /\ act.loaded = {Seen(r) : r \in rows} /\ act.skill = actions[a].skill
        /\ act.evaluated = actions[a].evaluated /\ act.approved = actions[a].approved
        /\ act.shown = actions[a].shown /\ act.status = "pending_approval"
    BY ActionTypes DEF ActionStates, LoadForDecision
  <2> HIDE DEF rows, act
  <2> QED BY <2>1, <2>2, ActionTypes DEF Agrees, LoadForDecision, Cleared
<1>3. \A j \in claims \cup jobs \cup ran : j.action # a
  BY ActionTypes DEF Bears, LoadForDecision, Cleared
<1>4. Become(a, act) /\ UNCHANGED <<registryVars, drafts, suggested, claims, jobs, ran, drifts>>
  BY DEF LoadForDecision
<1> HIDE DEF act
<1> QED BY <1>1, <1>2, <1>3, <1>4, ActionTypes, ActionStep

LEMMA ApproveKeeps ==
    ASSUME RegistryInv, NEW a \in Actions, Approve(a)
    PROVE  RegistryInv'
<1> DEFINE cleared == {m \in actions[a].loaded : Allowed(m.manifest)}
           act == [actions[a] EXCEPT
                !.approved = cleared, !.loaded = {},
                !.status = IF cleared = {} THEN "denied" ELSE "queued"]
<1>1. act \in ActionStates
  BY ActionTypes DEF ActionStates, Statuses
<1>2. Agrees(act)
  <2>1. /\ act.loaded = {} /\ act.skill = actions[a].skill /\ act.approved = cleared
        /\ act.evaluated = actions[a].evaluated /\ act.shown = actions[a].shown
        /\ act.status = IF cleared = {} THEN "denied" ELSE "queued"
    BY ActionTypes DEF ActionStates
  <2>2. cleared \subseteq actions[a].loaded
    OBVIOUS
  <2> HIDE DEF cleared, act
  <2> QED BY <2>1, <2>2, ActionTypes DEF Agrees, Approve, Cleared
<1>3. \A j \in claims \cup jobs \cup ran : j.action # a
  BY ActionTypes DEF Bears, Approve, Cleared
<1>4. Become(a, act) /\ UNCHANGED <<registryVars, drafts, suggested, claims, jobs, ran, drifts>>
  BY DEF Approve
<1> HIDE DEF act
<1> QED BY <1>1, <1>2, <1>3, <1>4, ActionTypes, ActionStep

LEMMA DenyKeeps ==
    ASSUME RegistryInv, NEW a \in Actions, Deny(a)
    PROVE  RegistryInv'
<1> DEFINE act == [actions[a] EXCEPT !.loaded = {}, !.status = "denied"]
<1>1. act \in ActionStates
  BY ActionTypes DEF ActionStates, Statuses
<1>2. Agrees(act)
  BY ActionTypes DEF Agrees, ActionStates, Deny, Cleared
<1>3. \A j \in claims \cup jobs \cup ran : j.action # a
  BY ActionTypes DEF Bears, Deny, Cleared
<1>4. Become(a, act) /\ UNCHANGED <<registryVars, drafts, suggested, claims, jobs, ran, drifts>>
  BY DEF Deny
<1> HIDE DEF act
<1> QED BY <1>1, <1>2, <1>3, <1>4, ActionTypes, ActionStep

LEMMA PreviewKeeps ==
    ASSUME RegistryInv, NEW a \in Actions, Preview(a)
    PROVE  RegistryInv'
<1>1. PICK r \in ActiveRows(actions[a].skill) :
          Become(a, [actions[a] EXCEPT !.shown = @ \cup {r.version}])
  BY DEF Preview
<1> DEFINE act == [actions[a] EXCEPT !.shown = @ \cup {r.version}]
<1>2. r \in skills /\ r.of = actions[a].skill /\ r.version \in Nat
  BY <1>1, ActionTypes DEF ActiveRows, SkillRows
<1>3. act \in ActionStates
  BY <1>2, ActionTypes DEF ActionStates
<1>4. Agrees(act)
  <2>1. /\ act.loaded = actions[a].loaded /\ act.skill = actions[a].skill
        /\ act.approved = actions[a].approved /\ act.evaluated = actions[a].evaluated
        /\ act.shown = actions[a].shown \cup {r.version} /\ act.status = "pending_approval"
    BY ActionTypes DEF ActionStates, Preview
  <2> HIDE DEF act
  <2> QED BY <1>2, <2>1, ActionTypes DEF Agrees, Preview, Cleared
<1>5. \A j \in claims \cup jobs \cup ran : j.action # a
  BY ActionTypes DEF Bears, Preview, Cleared
<1>6. Become(a, act) /\ UNCHANGED <<registryVars, drafts, suggested, claims, jobs, ran, drifts>>
  BY <1>1 DEF Preview
<1> HIDE DEF act
<1> QED BY <1>3, <1>4, <1>5, <1>6, ActionTypes, ActionStep

(* The active row is the newest, so no version an action met is newer.     *)
LEMMA ActiveIsNewest ==
    ASSUME RegistryInv, NEW a \in Actions, NEW r \in ActiveRows(actions[a].skill)
    PROVE  /\ r.version \in Nat \ {0}
           /\ \A m \in actions[a].evaluated \cup actions[a].approved : m.version <= r.version
           /\ \A v \in actions[a].shown : v <= r.version
<1>1. r \in skills /\ r.of = actions[a].skill /\ r.active
  BY DEF ActiveRows
<1>2. \A q \in skills : q.of = r.of => q.version <= r.version
  BY <1>1 DEF RegistryInv, CatalogueInv, TablesAgree, NewestIsActive
<1>3. r.version \in Nat \ {0}
  BY <1>1, ActionTypes DEF SkillRows
<1> QED BY <1>1, <1>2, <1>3, ActionTypes DEF Agrees, AsRegistered

(* ... and a claim that has read it carries no older one.                  *)
LEMMA ReadManifestKeeps ==
    ASSUME RegistryInv, NEW a \in Actions, ReadManifest(a)
    PROVE  RegistryInv'
<1> DEFINE claim(r) == [action |-> a, version |-> r.version]
<1>1. PICK r \in ActiveRows(actions[a].skill) :
          /\ actions[a].status \in {"queued", "running"}
          /\ claims' = claims \cup {claim(r)}
          /\ UNCHANGED <<registryVars, drafts, suggested, actions, jobs, ran, drifts>>
  BY DEF ReadManifest
<1>2. claim(r) \in Claims /\ claim(r).version = r.version
  BY ActiveIsNewest DEF Claims
<1>3. \A j \in claims' \cup jobs' \cup ran' :
          /\ j.action = a => Bears(actions[a], j)
          /\ j.action # a => j \in claims \cup jobs \cup ran
  BY <1>1, <1>2, ActionTypes, ActiveIsNewest DEF Bears, Cleared
<1> HIDE DEF claim
<1>4. Become(a, actions[a])
  BY <1>1 DEF Become, RegistryInv, CatalogueInv, Types
<1>5. claims' \subseteq Claims /\ jobs' \subseteq Jobs /\ ran' \subseteq Jobs
  BY <1>1, <1>2, ActionTypes
<1> QED BY <1>1, <1>3, <1>4, <1>5, ActionTypes, ActionStep

LEMMA ClaimKeeps ==
    ASSUME RegistryInv, NEW c \in claims, Claim(c)
    PROVE  RegistryInv'
<1> DEFINE a == c.action
           act == [actions[a] EXCEPT !.status = "running", !.attempt = @ + 1]
           job == [action |-> a, attempt |-> actions[a].attempt + 1, version |-> c.version]
<1>1. /\ actions[a].status = "queued" /\ actions[a].attempt < MaxAttempts
      /\ Become(a, act)
      /\ jobs' = jobs \cup {job} /\ claims' = claims \ {c}
      /\ UNCHANGED <<registryVars, drafts, suggested, ran, drifts>>
  BY DEF Claim
<1>2. a \in Actions /\ c.version \in Nat /\ Bears(actions[a], c)
  BY ActionTypes DEF Claims
<1>3. actions[a].attempt + 1 \in 1..MaxAttempts /\ actions[a].attempt + 1 \in 0..MaxAttempts
  BY <1>1, <1>2, ActionTypes DEF ActionStates
<1>4. act \in ActionStates
  <2>1. actions[a] \in ActionStates /\ "running" \in Statuses
    BY <1>2, ActionTypes DEF Statuses
  <2> QED BY <1>3, <2>1 DEF ActionStates
<1>5. /\ act.status = "running" /\ act.skill = actions[a].skill
      /\ act.evaluated = actions[a].evaluated /\ act.approved = actions[a].approved
      /\ act.loaded = actions[a].loaded /\ act.shown = actions[a].shown
  BY <1>2, ActionTypes DEF ActionStates
<1>6. job \in Jobs /\ job.version = c.version /\ job.action = a
  BY <1>2, <1>3 DEF Jobs
<1> HIDE DEF act, job, a
<1>7. Agrees(act)
  BY <1>1, <1>2, <1>5, ActionTypes DEF Agrees, Cleared
<1>8. \A j \in claims' \cup jobs' \cup ran' : j.action = a => Bears(act, j)
  BY <1>1, <1>2, <1>5, <1>6, ActionTypes DEF Bears, Cleared
<1>9. \A j \in claims' \cup jobs' \cup ran' : j.action # a => j \in claims \cup jobs \cup ran
  BY <1>1, <1>6
<1>10. claims' \subseteq Claims /\ jobs' \subseteq Jobs /\ ran' \subseteq Jobs
       /\ \A j \in ran' : j.version = 1
  BY <1>1, <1>6, ActionTypes
<1> QED BY <1>1, <1>2, <1>4, <1>7, <1>8, <1>9, <1>10, ActionStep

LEMMA RefuseClaimKeeps ==
    ASSUME RegistryInv, NEW c \in claims, RefuseClaim(c)
    PROVE  RegistryInv'
<1>1. c.action \in Actions
  BY ActionTypes
<1>2. /\ Become(c.action, actions[c.action]) /\ claims' \subseteq claims
      /\ UNCHANGED <<registryVars, drafts, suggested, actions, jobs, ran, drifts>>
  BY <1>1 DEF RefuseClaim, Become, RegistryInv, CatalogueInv, Types
<1> QED BY <1>1, <1>2, ActionTypes, ActionStep

LEMMA RequeueKeeps ==
    ASSUME RegistryInv, NEW a \in Actions, Requeue(a)
    PROVE  RegistryInv'
<1> DEFINE act == [actions[a] EXCEPT
                    !.status = IF actions[a].attempt < MaxAttempts THEN "queued" ELSE "failed"]
<1>1. act \in ActionStates
  BY ActionTypes DEF ActionStates, Statuses
<1>2. /\ act.status \in {"queued", "failed"} /\ act.skill = actions[a].skill
      /\ act.evaluated = actions[a].evaluated /\ act.approved = actions[a].approved
      /\ act.loaded = actions[a].loaded /\ act.shown = actions[a].shown
  BY ActionTypes DEF ActionStates
<1>3. Become(a, act) /\ UNCHANGED <<registryVars, drafts, suggested, claims, jobs, ran, drifts>>
  BY DEF Requeue
<1> HIDE DEF act
<1>4. Agrees(act)
  BY <1>2, ActionTypes DEF Agrees, Requeue, Cleared
<1>5. \A j \in claims \cup jobs \cup ran : j.action = a => Bears(act, j)
  BY <1>2, ActionTypes DEF Bears, Cleared
<1> QED BY <1>1, <1>3, <1>4, <1>5, ActionTypes, ActionStep

LEMMA ExecuteKeeps ==
    ASSUME RegistryInv, NEW j \in jobs, Execute(j)
    PROVE  RegistryInv'
<1> DEFINE a == j.action
<1>1. a \in Actions /\ Bears(actions[a], j)
  BY ActionTypes
<1>2. /\ claims' = claims /\ jobs' \subseteq jobs
      /\ jobs' \cup ran' \subseteq jobs \cup ran
      /\ \A k \in ran' : k.version = 1
      /\ UNCHANGED <<registryVars, drafts, suggested, drifts>>
  BY ActionTypes DEF Execute, Accepts, Supported
<1>3. claims' \subseteq Claims /\ jobs' \subseteq Jobs /\ ran' \subseteq Jobs
  BY <1>2, ActionTypes
<1>4. CASE UNCHANGED actions
  <2>1. Become(a, actions[a])
    BY <1>1, <1>4 DEF Become, RegistryInv, CatalogueInv, Types
  <2>2. actions[a] \in ActionStates /\ Agrees(actions[a])
    BY <1>1, ActionTypes
  <2>3. \A k \in claims' \cup jobs' \cup ran' : k.action = a => Bears(actions[a], k)
    BY <1>2, ActionTypes
  <2> HIDE DEF a
  <2> QED BY <1>1, <1>2, <1>3, <2>1, <2>2, <2>3, ActionStep
<1>5. CASE actions[a].status = "running"
           /\ \E s \in {"succeeded", "failed"} : Become(a, [actions[a] EXCEPT !.status = s])
  <2>1. PICK s \in {"succeeded", "failed"} : Become(a, [actions[a] EXCEPT !.status = s])
    BY <1>5
  <2> DEFINE act == [actions[a] EXCEPT !.status = s]
  <2>2. act \in ActionStates
    BY <1>1, ActionTypes DEF ActionStates, Statuses
  <2>3. /\ act.status \in {"succeeded", "failed"} /\ act.skill = actions[a].skill
        /\ act.evaluated = actions[a].evaluated /\ act.approved = actions[a].approved
        /\ act.loaded = actions[a].loaded /\ act.shown = actions[a].shown
    BY <1>1, ActionTypes DEF ActionStates
  <2> HIDE DEF act
  <2>4. Agrees(act)
    BY <1>1, <1>5, <2>3, ActionTypes DEF Agrees, Cleared
  <2>5. \A k \in claims' \cup jobs' \cup ran' : k.action = a => Bears(act, k)
    BY <1>2, <2>3, ActionTypes DEF Bears, Cleared
  <2>6. Become(a, act)
    BY <2>1 DEF act
  <2> HIDE DEF a
  <2> QED BY <1>1, <1>2, <1>3, <2>2, <2>4, <2>5, <2>6, ActionStep
<1> QED BY <1>4, <1>5 DEF Execute

-----------------------------------------------------------------------------
(* The steps of Register and the drift leave the actions as they are.      *)
LEMMA RegisterStep ==
    ASSUME RegistryInv, CatalogueInv', UNCHANGED lifeVars,
           \A r \in skills : \E q \in skills' :
              q.of = r.of /\ q.version = r.version /\ q.hash = r.hash
    PROVE  RegistryInv'
<1>1. \A key, m : AsRegistered(key, m) => AsRegistered(key, m)'
  BY DEF AsRegistered
<1>2. \A a \in Actions : Agrees(actions[a]) => Agrees(actions[a])'
  BY <1>1 DEF Agrees, lifeVars
<1>3. ActionsAgree'
  BY <1>2 DEF RegistryInv, ActionsAgree
<1> QED BY <1>3 DEF RegistryInv, JobsAgree, RanSupported, lifeVars

LEMMA RegisterKeeps ==
    ASSUME RegistryInv, Register
    PROVE  RegistryInv'
<1>1. ASSUME NEW u \in Staff, NEW s \in Skills, DraftVersion(u, "skills", skills, s)
      PROVE  RegistryInv'
  BY <1>1, DraftVersionKeeps, RegisterStep DEF RegistryInv, DraftVersion, registryVars
<1>2. ASSUME NEW u \in Staff, NEW i \in Issues, DraftVersion(u, "issues", issues, i)
      PROVE  RegistryInv'
  BY <1>2, DraftVersionKeeps, RegisterStep DEF RegistryInv, DraftVersion, registryVars
<1>3. ASSUME NEW u \in Staff, NEW i \in issues, DraftWorkflow(u, i)
      PROVE  RegistryInv'
  BY <1>3, DraftWorkflowKeeps, RegisterStep DEF RegistryInv, DraftWorkflow, registryVars
<1>4. ASSUME NEW u \in Staff, NEW m \in Offered, CommitSkill(u, m)
      PROVE  RegistryInv'
  <2>1. \A r \in skills : \E q \in skills' :
            q.of = r.of /\ q.version = r.version /\ q.hash = r.hash
    BY <1>4, CommitSkillFacts DEF RegistryInv, CommitSkill
  <2>2. CatalogueInv' /\ UNCHANGED lifeVars
    BY <1>4, CommitSkillKeeps DEF RegistryInv, CommitSkill
  <2> QED BY <2>1, <2>2, RegisterStep
<1>5. ASSUME NEW u \in Staff, CommitIssue(u)
      PROVE  RegistryInv'
  BY <1>5, CommitIssueKeeps, RegisterStep DEF RegistryInv, CommitIssue
<1>6. ASSUME NEW u \in Staff, CommitWorkflow(u)
      PROVE  RegistryInv'
  BY <1>6, CommitWorkflowKeeps, RegisterStep DEF RegistryInv, CommitWorkflow
<1>7. ASSUME NEW u \in Staff, RefuseRow(u)
      PROVE  RegistryInv'
  BY <1>7, RefuseRowKeeps, RegisterStep DEF RegistryInv, RefuseRow, registryVars
<1>8. ASSUME NEW u \in Staff, AskProvider(u)
      PROVE  RegistryInv'
  BY <1>8, AskProviderKeeps, RegisterStep DEF RegistryInv, AskProvider, registryVars
<1>9. ASSUME NEW u \in Staff, StoreDiagnosis(u)
      PROVE  RegistryInv'
  BY <1>9, StoreDiagnosisKeeps, RegisterStep DEF RegistryInv, StoreDiagnosis, registryVars
<1> QED
  BY <1>1, <1>2, <1>3, <1>4, <1>5, <1>6, <1>7, <1>8, <1>9 DEF Register

LEMMA RegistryNext ==
    ASSUME RegistryInv, [Next]_vars
    PROVE  RegistryInv'
<1>1. CASE Register
  BY <1>1, RegisterKeeps
<1>2. ASSUME NEW a \in Actions, NEW s \in Skills, NEW shape \in Shapes, CheckShape(a, s, shape)
      PROVE  RegistryInv'
  BY <1>2, CheckShapeKeeps
<1>3. ASSUME NEW a \in Actions, Submit(a) \/ AbortSubmit(a) \/ LoadForDecision(a)
      PROVE  RegistryInv'
  BY <1>3, SubmitKeeps, AbortSubmitKeeps, LoadForDecisionKeeps
<1>4. ASSUME NEW a \in Actions, Approve(a) \/ Deny(a) \/ Preview(a)
      PROVE  RegistryInv'
  BY <1>4, ApproveKeeps, DenyKeeps, PreviewKeeps
<1>5. ASSUME NEW a \in Actions, ReadManifest(a) \/ Requeue(a)
      PROVE  RegistryInv'
  BY <1>5, ReadManifestKeeps, RequeueKeeps
<1>5c. ASSUME NEW c \in claims, Claim(c) \/ RefuseClaim(c)
      PROVE  RegistryInv'
  BY <1>5c, ClaimKeeps, RefuseClaimKeeps
<1>6. ASSUME NEW j \in jobs, Execute(j)
      PROVE  RegistryInv'
  BY <1>6, ExecuteKeeps
<1>7. ASSUME NEW r \in skills, NEW m \in Offered, Drift(r, m)
      PROVE  RegistryInv'
  <2>1. \A q \in skills : \E y \in skills' :
            y.of = q.of /\ y.version = q.version /\ y.hash = q.hash
    BY <1>7, DriftFacts DEF RegistryInv
  <2>2. CatalogueInv' /\ UNCHANGED lifeVars
    BY <1>7, DriftKeeps DEF RegistryInv, Drift
  <2> QED BY <2>1, <2>2, RegisterStep
<1>8. CASE UNCHANGED vars
  <2>1. \A r \in skills : \E q \in skills' :
            q.of = r.of /\ q.version = r.version /\ q.hash = r.hash
    BY <1>8 DEF vars, registryVars
  <2>2. CatalogueInv'
    BY <1>8, CataloguesUnchanged DEF vars, registryVars, lifeVars, RegistryInv, CatalogueInv,
       Types, TablesAgree, HasNewest, DraftsAgree, NamesStayRegistered
  <2> QED BY <1>8, <2>1, <2>2, RegisterStep DEF vars
<1> QED BY <1>1, <1>2, <1>3, <1>4, <1>5, <1>5c, <1>6, <1>7, <1>8 DEF Next

LEMMA RegistryStart ==
    ASSUME Init
    PROVE  RegistryInv
<1>1. \A r \in skills : /\ r \in SkillRows /\ r.version = 1 /\ r.active = TRUE
                        /\ r = SkillRow(r.of, 1, Seeds[r.of])
  <2> SUFFICES ASSUME NEW r \in skills
               PROVE  /\ r \in SkillRows /\ r.version = 1 /\ r.active = TRUE
                      /\ r = SkillRow(r.of, 1, Seeds[r.of])
    OBVIOUS
  <2>1. PICK s \in DOMAIN Seeds : r = SkillRow(s, 1, Seeds[s])
    BY DEF Init
  <2>2. s \in Skills /\ Seeds[s] \in Offered
    BY RegistryAssumption
  <2> QED BY <2>1, <2>2 DEF SkillRow, SkillRows
<1>2. issues = {} /\ workflows = {} /\ suggested = {} /\ claims = {} /\ jobs = {} /\ ran = {} /\ drifts = 0
      /\ drafts = [u \in Staff |-> {}] /\ actions = [a \in Actions |-> NewAction]
  BY DEF Init
<1>3. NewAction \in ActionStates
  <2>1. 0 \in 0..MaxAttempts
    BY RegistryAssumption
  <2> QED BY <2>1 DEF NewAction, ActionStates, Statuses
<1>4. Types
  BY <1>1, <1>2, <1>3, RegistryAssumption DEF Types
<1>5. TablesAgree
  BY <1>1, <1>2 DEF TablesAgree, Dense, NewestIsActive, HasNewest
<1>6. DraftsAgree /\ NamesStayRegistered
  BY <1>2 DEF DraftsAgree, NamesStayRegistered
<1>7. ActionsAgree /\ JobsAgree /\ RanSupported
  BY <1>2 DEF ActionsAgree, Agrees, NewAction, Cleared, JobsAgree, RanSupported
<1> QED BY <1>4, <1>5, <1>6, <1>7 DEF RegistryInv, CatalogueInv

(* The catalogues and the actions that were decided on them.               *)
THEOREM RegistryAlways == Spec => []RegistryInv
<1>1. Init => RegistryInv
  BY RegistryStart
<1>2. RegistryInv /\ [Next]_vars => RegistryInv'
  BY RegistryNext
<1> QED BY <1>1, <1>2, PTL DEF Spec

(* However registrations overlap, a skill and an issue have the versions   *)
(* 1..n, each once, of which the newest is the active one.                 *)
THEOREM OneVersionIsActive == Spec => []OneActiveVersion
<1>1. RegistryInv => OneActiveVersion
  BY CatalogueImplies DEF RegistryInv
<1> QED BY <1>1, RegistryAlways, PTL

(* A skill that a workflow or a diagnosis names does not lose its active   *)
(* version.                                                                *)
THEOREM NamesHold == Spec => []NamesStayRegistered
<1>1. RegistryInv => NamesStayRegistered
  BY DEF RegistryInv, CatalogueInv
<1> QED BY <1>1, RegistryAlways, PTL

(* An agent runs only what was evaluated, shown and approved as the        *)
(* version that runs and as it was registered.                             *)
THEOREM OnlyClearedVersionsRun == Spec => []RunsAsCleared
<1>1. RegistryInv => RunsAsCleared
  BY RegistryImplies
<1> QED BY <1>1, RegistryAlways, PTL
=============================================================================
